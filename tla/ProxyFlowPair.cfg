SPECIFICATION Spec
CONSTANTS
    NLeft = 1
    NRight = 1
    Peered = TRUE
    ReadMax = 2
    WriteFull = 1
    FastCopyStart = 1
    KernelCap = 1
    MaxSent = 4
    Senders = {"l", "r"}
    MayClose = TRUE
INVARIANTS
    TypeOK
    StreamIntact
    BufferBounded
    NoStaleNeck
    ReadersWatched
CHECK_DEADLOCK FALSE
