CONSTANTS
    Events = {e1, e2}
    Delays <- FewDelays
    Pool = {p1, p2}
    Static = {s1}
    ExpireLimit = 3
    InputDelays = {3}
    MaxLate = 2
    FuncTime = 1
    Nested = TRUE
SPECIFICATION Spec
INVARIANTS TimerInv
PROPERTIES TimeoutsKeepTime Deadlines
CHECK_DEADLOCK FALSE
