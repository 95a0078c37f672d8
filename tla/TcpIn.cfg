CONSTANTS
    MaxData = 1
    MaxNet = 2
    MaxRetry = 1
    Step = 10
    Window = 20
    MaxOpens <- OneEach
    Total = 6
    MaxBuf = 5
    Mss = 2
SPECIFICATION MCSpec
INVARIANTS ConnInv NoEarlyEof AckInv
PROPERTIES Diagram WindowNeverShrinks StreamSpec
CHECK_DEADLOCK FALSE
