CONSTANTS
    MaxData = 3
    Mss = 2
    Window = 3
    Cwnds <- MCCwnds
    MaxQueue = 4
    MaxRetry = 2
    MaxSilent = 2
    MaxNet = 1
    CanReorder = TRUE
    HalfClosed = FALSE
SPECIFICATION FairSpec
INVARIANTS SendInv
 
CHECK_DEADLOCK FALSE
