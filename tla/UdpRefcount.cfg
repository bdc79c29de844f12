SPECIFICATION LibrarySpec
CONSTANTS
    Parts = {"udp"}
    Conns = {"c1", "c2"}
    Urls <- MCUrls
    Errors = {"INVALID"}
    Policies <- MCPolicies
    MaxDepth = 1
    Coms = {"n1", "n2", "p1"}
    KeyOf <- MCKeyOf
    Fds = {1, 2}
    CacheKeys = {"a", "b", "c", "d"}
    CacheMax = 3
    MaxTouches = 4
    Asks <- MCAsks
    TlsSessions = {"t1", "t2"}
    StoreMax = 1
    MaxSpoofs = 3
    Socks = {1}
    Handlers = {"h1", "h2"}
    IdleClicks = 1
    BuffSize = 2
    MaxDetect = 2
    MinDetect = 1
    MaxExchanges = 2
    ContinuousLeft = 3
    Signatures <- MCSignatures
    MaxBytes = 5
    Buffers = {"b1", "b2", "b3"}
    BucketSizes = {1, 3}
    BucketCount = 1
    Requests = {1, 2}
    MaxHeap = 2
    Cxs = {"c1", "c2"}
INVARIANTS
    OpenComHasSocket
CHECK_DEADLOCK FALSE
