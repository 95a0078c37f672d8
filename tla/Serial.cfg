CONSTANTS
    Packets <- MCPackets
    Xmaps <- MCXmaps
    OptionSets = {{}, {"addr", "prot"}}
    Rmap = {17}
    Room = 12
    MaxPackets <- MCMaxPackets
    SL_OBUFSIZE = 8
    SL_IBUFSIZE = 4
    SL_VMIN = 3
    LineSize = 3
    Mtu = 4
    MaxCalls = 1
    MaxNoise = 1
    None = None
SPECIFICATION FairSpec
 
PROPERTIES AllLeave
