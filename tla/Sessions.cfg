SPECIFICATION SessionsSpec
CONSTANTS
    SessionKinds = {"tls", "ocsp", "udp"}
    TargetLists <- MCTargetLists
    Sessions = {"s1"}
    UdpWorkers = {"w1", "w2"}
    QueueSlots = 2
    MaxDatagrams = 3
INVARIANTS
    SessionsTypeOK
    BypassUntouched
    VerdictFirst
    NoSessionLost
PROPERTIES
    HeldIsRead
    HandshakeProgress
    LateIsSurvived
    SessionServed
CHECK_DEADLOCK FALSE
