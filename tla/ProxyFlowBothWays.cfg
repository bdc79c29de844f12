SPECIFICATION Spec
CONSTANTS
    NLeft = 1
    NRight = 1
    Peered = FALSE
    ReadMax = 2
    WriteFull = 1
    FastCopyStart = 1
    KernelCap = 1
    MaxSent = 2
    Senders = {"l", "r"}
    MayClose = FALSE
PROPERTIES
    PendingIsWritten
CHECK_DEADLOCK FALSE
