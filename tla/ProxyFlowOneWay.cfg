SPECIFICATION Spec
CONSTANTS
    NLeft = 1
    NRight = 2
    Peered = FALSE
    ReadMax = 2
    WriteFull = 9
    FastCopyStart = 9
    KernelCap = 1
    MaxSent = 3
    Senders = {"l"}
    MayClose = FALSE
PROPERTIES
    PendingIsWritten
    InputIsRead
CHECK_DEADLOCK FALSE
