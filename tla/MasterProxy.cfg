SPECIFICATION Spec
CONSTANTS
    Proxies = {p1, p2, p3}
    SprayMin = 2
INVARIANTS
    TypeOK
    NoUseAfterErase
    QuietOutsidePass
PROPERTIES
    PassEnds
    DeadIsReaped
CHECK_DEADLOCK FALSE
