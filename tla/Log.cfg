CONSTANTS
    Thread = {t1, t2}
    Messages = 2
    InitialCapacity = 2
    Calls = 3
SPECIFICATION LogFairSpec
INVARIANTS
    Delivered
PROPERTIES
    PauseEnds
CHECK_DEADLOCK FALSE
