CONSTANTS
    Socks = {s1, s2}
    Ports = {1, 2}
    Local = Local
    ANY = ANY
    Broadcast = Broadcast
    Peers = {p1}
    Others = {p2}
    Hows = {0, 2}
    Lens = {1, 3}
    MaxData = 2
    None = None
SPECIFICATION SockFairSpec
INVARIANTS SocketInv
PROPERTIES ReaderReturns
CHECK_DEADLOCK FALSE
