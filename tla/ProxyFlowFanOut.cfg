SPECIFICATION Spec
CONSTANTS
    NLeft = 1
    NRight = 2
    Peered = FALSE
    ReadMax = 1
    WriteFull = 1
    FastCopyStart = 0
    KernelCap = 1
    MaxSent = 2
    Senders = {"l"}
    MayClose = FALSE
INVARIANTS
    StreamIntact
CHECK_DEADLOCK FALSE
