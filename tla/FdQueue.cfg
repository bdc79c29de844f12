SPECIFICATION Spec
CONSTANTS
    NWorkers = 6
    Fds = {f1, f2}
    PipeCapacity = 1
    MayStop = TRUE
INVARIANTS
    TypeOK
    OwnedOnce
    HintCoverage
    SilentOnlyIfRefused
PROPERTIES
    HandoverSpec
    QueuedIsServed
    StopJoinsAll
CHECK_DEADLOCK FALSE
