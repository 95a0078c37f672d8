CONSTANTS
    NIfs = 2
    Packets = {p1, p2}
    Frame = Frame
    MaxQ = 2
    MaxTmouts = 2
    Addrs = {a1, a2}
    HwAddrs = {h1}
    None = None
    IF_MAXQ = 2
    Slots = {s1, s2}
    ARP_RETRIES = 2
    MaxPackets = 3
SPECIFICATION MCSpec
INVARIANTS InputInv ArpInv
PROPERTIES OutputServed PacketsLeave
CHECK_DEADLOCK FALSE
