CONSTANTS
    MaxData = 1
    MaxNet = 1
    MaxRetry = 1
    Step = 10
    Window = 20
    MaxOpens <- TwoOne
SPECIFICATION FairSpec
PROPERTIES  ConnectEnds
CHECK_DEADLOCK FALSE
