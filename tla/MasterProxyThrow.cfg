SPECIFICATION Spec
CONSTANTS
    Proxies = {p1, p2}
    SprayMin = 2
PROPERTIES
    ThrowerIsReaped
CHECK_DEADLOCK FALSE
