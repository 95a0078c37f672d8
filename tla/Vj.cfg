CONSTANTS
    MAX_STATES = 3
    W8 = 2
    W32 = 8
    ShortInt = FALSE
    Traffics <- MCTraffics
    None = None
SPECIFICATION Spec
INVARIANTS   AgainArrives
CHECK_DEADLOCK FALSE
