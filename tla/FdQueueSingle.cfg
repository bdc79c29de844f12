SPECIFICATION Spec
CONSTANTS
    NWorkers = 1
    Fds = {f1, f2}
    PipeCapacity = 2
    MayStop = FALSE
PROPERTIES
    QueuedIsServed
CHECK_DEADLOCK FALSE
