CONSTANTS
    h = h
    r1 = r1
    r2 = r2
    net1 = net1
    net2 = net2
    net3 = net3
    Lo = Lo
    All = All
    Ifs <- MCIfs
    Boot <- MCBoot
    Dsts <- MCDsts
    AddDsts <- MCAddDsts
    Gates <- MCGates
    TTLs = {0, 2}
    DefTTL = 3
    TTLMod = 4
    MaxSend = 1
    MaxChange = 2
    d1 = d1
    d2 = d2
    d3 = d3
    d4 = d4
    Dgrams <- MCDgrams
    Key <- MCKey
    Size <- MCSize
    DF = {}
    Fraglens = {1, 2}
    IP_FRAGOFF = 4
    IPFRAG_HEADS = 2
    MaxNet = 2
    None = None
    Nothing = Nothing
SPECIFICATION MCSpec
INVARIANTS SlotInv RouteInv OneReport
PROPERTIES IpPromise SlotsFreed 
CHECK_DEADLOCK FALSE
