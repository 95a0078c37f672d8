-------------------------------- MODULE Dgram --------------------------------
(***************************************************************************)
(* Datagram sockets: the socket layer (kernel/sockdev.c, inet.c, port.c,   *)
(* inetutil.c, ipcutil.c), UDP (udp.c) and raw IP (rawip.c).               *)
(*                                                                         *)
(* Socket calls and the input of a datagram run to completion, except that *)
(* a process that waits in recv yields: another process may then change or *)
(* shut down the socket, or close it, unless it is the last one to do so.  *)
(*                                                                         *)
(* IP below is the service of module IpService: datagrams come late, twice *)
(* or not at all, and a spliced one has a bad checksum (ok = FALSE).       *)
(***************************************************************************)
EXTENDS Naturals, Sequences, FiniteSets

CONSTANTS
    Socks,       \* sockets
    Ports,       \* port numbers that port_alloc hands out
    Local,       \* the local address
    ANY,         \* INADDR_ANY
    Broadcast,   \* a broadcast address of the local network
    Peers,       \* remote addresses, each with one port, that sockets talk to
    Others,      \* and that just send
    Hows,        \* the ways to shut down
    Lens,        \* lengths of datagrams
    MaxData,     \* rcv.maxdatalen
    None

ASSUME DgramAssumption ==
    /\ Ports \subseteq Nat \ {0}
    /\ MaxData \in Nat /\ Lens \subseteq Nat /\ Hows \subseteq 0 .. 2
    /\ Local # ANY
    /\ IsFiniteSet(Socks) /\ IsFiniteSet(Ports)
    /\ Cardinality(Socks) <= Cardinality(Ports)   \* port_alloc would search for ever

VARIABLES
    so,        \* state, type, the flags of shutdown, where its reader is
    data,      \* in_data of every socket, NoData if there is none
    datas,     \* the sockets of a protocol, the newest first
    lastport,  \* of port_alloc
    owners     \* how many own the buffer of the datagram that came last

svars == <<so, data, datas, lastport, owners>>

Types == {"udp", "raw"}
Addrs == {ANY, Local}

NoData == [bound |-> FALSE, addr |-> ANY, port |-> 0, dst |-> None, err |-> FALSE,
           q |-> <<>>, curlen |-> 0, live |-> FALSE]

NewData == [NoData EXCEPT !.live = TRUE]

Virgin == [state |-> "VIRGIN", type |-> None, rcv |-> TRUE, snd |-> TRUE, reader |-> "out"]

SockInit ==
    /\ so = [s \in Socks |-> Virgin]
    /\ data = [s \in Socks |-> NoData]
    /\ datas = [t \in Types |-> <<>>]
    /\ lastport \in Ports
    /\ owners = 1

\* Calls that are not refused for the state of the socket
Usable(s) == so[s].state = "UNCONNECTED"

(***************************************************************************)
(* Ports                                                                   *)
(***************************************************************************)
\* A socket of the protocol has this port, with whatever address.
PortUsed(t, p) ==
    \E s \in Socks : so[s].type = t /\ data[s].live /\ data[s].bound /\ data[s].port = p

\* The next port in use by nobody, beginning after lastport, and from the
\* start of the range again at its end
port_alloc(t) ==
    LET free == {p \in Ports : ~PortUsed(t, p)}
        up   == {p \in free : p > lastport}
        from == IF up # {} THEN up ELSE free
    IN  CHOOSE p \in from : \A r \in from : p <= r

AutoPort(s) == IF so[s].type = "raw" THEN 0 ELSE port_alloc(so[s].type)

Autobound(s) ==
    IF data[s].bound THEN data[s]
    ELSE [data[s] EXCEPT !.bound = TRUE, !.addr = ANY, !.port = AutoPort(s)]

Lastport(s) == IF data[s].bound \/ so[s].type = "raw" THEN lastport ELSE AutoPort(s)

\* inet_autobind, the first thing most calls do; d is what they then make of
\* the data of the socket.
inet_autobind(s, d) ==
    /\ data' = [data EXCEPT ![s] = d]
    /\ lastport' = Lastport(s)

\* The in_data that a port and an address are refused for.  IN_REUSE makes no
\* difference to datagram sockets: addresses that are equal are refused anyway.
port_find_with_addr(t, p, a) ==
    {s \in Socks : so[s].type = t /\ data[s].live /\ data[s].bound
                   /\ data[s].port = p /\ data[s].addr = a}

\* bind; port 0 asks for any port, and raw sockets have port 0.
inet_bind_Alloc(s, a, p) ==
    /\ Usable(s) /\ ~data[s].bound
    /\ LET port == IF so[s].type = "raw" THEN 0
                   ELSE IF p = 0 THEN lastport ELSE p
       IN  /\ p # 0 => so[s].type = "raw" \/ port_find_with_addr(so[s].type, port, a) = {}
           /\ data' = [data EXCEPT ![s].bound = TRUE, ![s].addr = a, ![s].port = port]
           /\ UNCHANGED lastport
    /\ UNCHANGED <<so, datas, owners>>

inet_bind(s, a, p) ==
    /\ Usable(s) /\ ~data[s].bound
    /\ LET port == IF so[s].type = "raw" THEN 0
                   ELSE IF p = 0 THEN port_alloc(so[s].type) ELSE p
       IN  /\ p # 0 => so[s].type = "raw" \/ port_find_with_addr(so[s].type, port, a) = {}
           /\ data' = [data EXCEPT ![s].bound = TRUE, ![s].addr = a, ![s].port = port]
           /\ lastport' = IF p = 0 /\ so[s].type # "raw" THEN port ELSE lastport
    /\ UNCHANGED <<so, datas, owners>>

(***************************************************************************)
(* The life of a socket                                                    *)
(***************************************************************************)
\* The data of a socket goes to the front of the list of its protocol.
inet_attach(s, t) ==
    /\ data' = [data EXCEPT ![s] = NewData]
    /\ datas' = [datas EXCEPT ![t] = <<s>> \o @]

mgx_socket(s, t) ==
    /\ so[s].state = "VIRGIN"
    /\ so' = [so EXCEPT ![s].state = "UNCONNECTED", ![s].type = t]
    /\ inet_attach(s, t)
    /\ UNCHANGED <<lastport, owners>>

\* The list l without s: those behind it move up.
Removed(l, s) ==
    LET at == CHOOSE i \in DOMAIN l : l[i] = s
    IN  IF \E i \in DOMAIN l : l[i] = s
        THEN [i \in 1 .. Len(l) - 1 |-> IF i < at THEN l[i] ELSE l[i + 1]]
        ELSE l

\* The data is taken out of its list and freed with all that is queued.
in_data_destroy(s) ==
    /\ data' = [data EXCEPT ![s] = NoData]
    /\ datas' = [datas EXCEPT ![so[s].type] = Removed(@, s)]

\* A socket that has been released already has no data.
so_release(s) ==
    IF so[s].state \in {"VIRGIN", "DISCONNECTED"} THEN UNCHANGED <<data, datas>>
    ELSE in_data_destroy(s)

\* When both directions are shut down the socket is released.
inet_shutdown(s, rcv, snd) ==
    /\ IF rcv \/ snd THEN inet_autobind(s, Autobound(s)) /\ UNCHANGED datas
       ELSE so_release(s) /\ lastport' = Lastport(s)
    /\ so' = [so EXCEPT ![s].rcv = rcv, ![s].snd = snd,
                        ![s].state = IF rcv \/ snd THEN @ ELSE "DISCONNECTED"]

\* shutdown of receiving (0), sending (1) or both (2)
mgx_shutdown(s, how) ==
    /\ Usable(s)
    /\ inet_shutdown(s, so[s].rcv /\ how = 1, so[s].snd /\ how = 0)
    /\ UNCHANGED owners

\* The last close; no process is inside a call of the socket.  The socket may
\* be opened again.
socket_close(s) ==
    /\ so[s].reader = "out"
    /\ so[s].state # "VIRGIN"
    /\ so_release(s)
    /\ so' = [so EXCEPT ![s] = Virgin]
    /\ UNCHANGED <<lastport, owners>>

\* The peer that a socket talks to from now on
udp_connect(d, p) == [d EXCEPT !.dst = p]

\* A datagram socket may be connected again; its data stays as it is.
inet_connect(s, p) ==
    /\ Usable(s)
    /\ inet_autobind(s, udp_connect(Autobound(s), p))
    /\ UNCHANGED <<so, datas, owners>>

\* connect with an address that is refused dissolves the connection.
Disconnect(s) ==
    /\ Usable(s) /\ data[s].dst # None
    /\ data' = [data EXCEPT ![s].dst = None]
    /\ UNCHANGED <<so, datas, lastport, owners>>

\* Asking for the name of a socket gives it one.  So does select, on a raw
\* socket.
inet_getname(s) ==
    /\ Usable(s) /\ ~data[s].bound
    /\ inet_autobind(s, Autobound(s))
    /\ UNCHANGED <<so, datas, owners>>

(***************************************************************************)
(* Sending                                                                 *)
(***************************************************************************)
\* An error that has come is returned once, instead of sending.  The socket is
\* bound before its protocol looks at the address.
inet_send(s) ==
    /\ Usable(s)
    /\ IF data[s].err
       THEN data' = [data EXCEPT ![s].err = FALSE] /\ UNCHANGED lastport
       ELSE so[s].snd /\ inet_autobind(s, Autobound(s))
    /\ UNCHANGED <<so, datas, owners>>

(***************************************************************************)
(* Input.  A datagram is [src, dst, port, udp, len, ok]; ok says that its  *)
(* length and checksum are right.                                          *)
(***************************************************************************)
ip_same_addr(a, dst) == a \in {dst, ANY} \/ dst = Broadcast

Match(s, d) == data[s].bound /\ data[s].port = d.port /\ ip_same_addr(data[s].addr, d.dst)

First(I) == CHOOSE i \in I : \A j \in I : i <= j
Last(I) == CHOOSE i \in I : \A j \in I : j <= i

\* A connected socket comes first, then one with the very address, then the
\* last one of the list.
in_data_lookup(d) ==
    LET l     == datas["udp"]
        conn  == {i \in DOMAIN l : Match(l[i], d) /\ data[l[i]].dst = d.src}
        deflt == {i \in DOMAIN l : Match(l[i], d) /\ data[l[i]].dst = None}
        exact == {i \in deflt : data[l[i]].addr # ANY}
    IN  IF conn # {} THEN l[First(conn)]
        ELSE IF exact # {} THEN l[First(exact)]
        ELSE IF deflt # {} THEN l[Last(deflt)]
        ELSE None

Room(s, d) == so[s].rcv /\ d.len + data[s].curlen <= MaxData

\* (A reader of a raw socket is told of no port.)
Enqueued(S, d) ==
    [s \in Socks |-> IF s \in S
        THEN [data[s] EXCEPT !.q = Append(@, [port |-> IF so[s].type = "udp" THEN d.port ELSE 0,
                                              len |-> d.len]),
                             !.curlen = @ + d.len]
        ELSE data[s]]

\* Every raw socket that matches gets the datagram, the first one with room for
\* it the buffer itself, the others copies, as long as there is memory for them
\* (k copies).  What no queue has is freed, or goes back in an error message.
rip_input(d, k) ==
    LET l     == datas["raw"]
        found == {i \in DOMAIN l : /\ data[l[i]].bound /\ ip_same_addr(data[l[i]].addr, d.dst)
                                   /\ data[l[i]].dst \in {None, d.src}}
        takes == {i \in found : Room(l[i], d)}
        got   == {i \in takes : Cardinality({j \in takes : j < i}) <= k}
    IN  /\ data' = Enqueued({l[i] : i \in got}, d)
        /\ owners' = Cardinality({i \in got : i = First(takes)}) + (IF got = {} THEN 1 ELSE 0)

\* Nobody has the port: an error goes back with a copy, and raw sockets may
\* have the datagram.
udp_input(d, k) ==
    LET s == in_data_lookup(d)
    IN  \/ /\ ~d.ok \/ (s # None /\ ~Room(s, d))
           /\ owners' = 1
           /\ UNCHANGED data
        \/ /\ d.ok /\ s = None
           /\ rip_input(d, k)
        \/ /\ d.ok /\ s # None /\ Room(s, d)
           /\ data' = Enqueued({s}, d)
           /\ owners' = 1

ip_input(d, k) ==
    /\ IF d.udp THEN udp_input(d, k) ELSE rip_input(d, k)
    /\ UNCHANGED <<so, datas, lastport>>

\* ICMP says that a datagram from port p to a peer did not arrive.  It may say
\* so late or twice: a socket that is connected to the peer now learns of it.
udp_error(p, peer) ==
    LET s == in_data_lookup([port |-> p, dst |-> Local, src |-> peer])
    IN  /\ data' = IF s # None /\ data[s].dst = peer
                   THEN [data EXCEPT ![s].err = TRUE] ELSE data
        /\ UNCHANGED <<so, datas, lastport, owners>>

(***************************************************************************)
(* Receiving                                                               *)
(***************************************************************************)
\* The head of the queue is taken out; peek leaves it.
Taken(d) ==
    [d EXCEPT !.q = Tail(@),
              !.curlen = IF Len(d.q) = 1 THEN 0 ELSE @ - Head(d.q).len]

\* inet_recv and the first round of udp_recv and rip_recv
inet_recv(s, nonblock, peek) ==
    /\ so[s].reader = "out"
    /\ Usable(s)
    /\ IF data[s].err
       THEN data' = [data EXCEPT ![s].err = FALSE] /\ UNCHANGED <<so, lastport>>
       ELSE LET d == Autobound(s)
            IN  /\ inet_autobind(s, IF d.q # <<>> /\ ~peek THEN Taken(d) ELSE d)
                /\ so' = IF d.q = <<>> /\ ~nonblock /\ so[s].rcv
                         THEN [so EXCEPT ![s].reader = "asleep"] ELSE so
    /\ UNCHANGED <<datas, owners>>

\* The reader runs again.  What it touches first is the state of the socket:
\* its data may have gone.
Resume_NoShut(s) ==
    /\ so[s].reader = "asleep"
    /\ IF so[s].state # "UNCONNECTED"
       THEN so' = [so EXCEPT ![s].reader = "out"] /\ UNCHANGED data
       ELSE IF data[s].err
       THEN data' = [data EXCEPT ![s].err = FALSE] /\ so' = [so EXCEPT ![s].reader = "out"]
       ELSE /\ data[s].q # <<>>
            /\ data' = [data EXCEPT ![s] = Taken(@)] /\ so' = [so EXCEPT ![s].reader = "out"]
    /\ UNCHANGED <<datas, lastport, owners>>

Resume(s) ==
    /\ so[s].reader = "asleep"
    /\ IF so[s].state # "UNCONNECTED"
       THEN so' = [so EXCEPT ![s].reader = "out"] /\ UNCHANGED data
       ELSE IF ~data[s].live
       THEN so' = [so EXCEPT ![s].reader = "astray"] /\ UNCHANGED data
       ELSE IF data[s].err
       THEN data' = [data EXCEPT ![s].err = FALSE] /\ so' = [so EXCEPT ![s].reader = "out"]
       ELSE IF data[s].q # <<>>
       THEN (UNCHANGED data \/ data' = [data EXCEPT ![s] = Taken(@)]) /\ so' = [so EXCEPT ![s].reader = "out"]
       ELSE ~so[s].rcv /\ so' = [so EXCEPT ![s].reader = "out"] /\ UNCHANGED data
    /\ UNCHANGED <<datas, lastport, owners>>

\* UDP has a port; what is not UDP is for raw sockets.
Dgram(src, dst, port, len, ok) ==
    [src |-> src, dst |-> dst, port |-> port, udp |-> port # 0, len |-> len, ok |-> ok]

Dgrams ==
    {Dgram(src, Local, p, 1, TRUE) : src \in Peers, p \in Ports \cup {0}}
    \cup {Dgram(src, Local, p, n, TRUE) : src \in Others, p \in Ports, n \in Lens}
    \cup {Dgram(src, Broadcast, p, 1, ok) : src \in Others, p \in Ports, ok \in BOOLEAN}

SockNext ==
    \/ \E s \in Socks, t \in Types : mgx_socket(s, t)
    \/ \E s \in Socks, a \in Addrs, p \in Ports \cup {0} : inet_bind(s, a, p)
    \/ \E s \in Socks, p \in Peers : inet_connect(s, p)
    \/ \E s \in Socks : inet_send(s) \/ Disconnect(s) \/ inet_getname(s) \/ socket_close(s)
    \/ \E s \in Socks, how \in Hows : mgx_shutdown(s, how)
    \/ \E s \in Socks, nonblock, peek \in BOOLEAN : inet_recv(s, nonblock, peek)
    \/ \E s \in Socks : Resume(s)
    \/ \E d \in Dgrams, k \in 0 .. Cardinality(Socks) - 1 : ip_input(d, k)
    \/ \E p \in Ports, peer \in Peers : udp_error(p, peer)

SockSpec == SockInit /\ [][SockNext]_svars

\* A process that has yielded gets the processor again.
SockFairSpec == SockSpec /\ \A s \in Socks : WF_svars(Resume(s))

(***************************************************************************)
(* Properties                                                              *)
(***************************************************************************)
Elements(q) == {q[i] : i \in DOMAIN q}

\* No two UDP sockets have the same local address and port, however they came
\* by them: bind, a port of the system's choice, or the first send or receive.
PortsUnique ==
    \A s, t \in Socks :
        /\ so[s].type = "udp" /\ so[t].type = "udp"
        /\ data[s].bound /\ data[t].bound
        /\ data[s].port = data[t].port /\ data[s].addr = data[t].addr
        => s = t

Sum(q) == LET sum[i \in 0 .. Len(q)] == IF i = 0 THEN 0 ELSE sum[i - 1] + q[i].len
          IN  sum[Len(q)]

\* The lists of the protocols hold the sockets that have data, each once, and
\* a queue holds datagrams for the port of its socket, as many as counted and
\* no more than allowed, through every sequence of calls.
QueuesExact ==
    /\ \A t \in Types :
         /\ Elements(datas[t]) = {s \in Socks : data[s].live /\ so[s].type = t}
         /\ \A i, j \in DOMAIN datas[t] : datas[t][i] = datas[t][j] => i = j
    /\ \A s \in Socks :
         LET d == data[s]
         IN  /\ d.live <=> so[s].state = "UNCONNECTED"
             /\ d.curlen = Sum(d.q) /\ d.curlen <= MaxData
             /\ so[s].type = "udp" => \A i \in DOMAIN d.q : d.q[i].port = d.port
             /\ d.q # <<>> => d.bound

\* The buffer of a datagram goes to one place: one queue, the free list, or
\* into an error message.
BufferOnce == owners = 1

\* A reader that was asleep never touches data that has gone meanwhile.
ReaderSafe == \A s \in Socks : so[s].reader # "astray"

\* What lookups rely on when they bring a datagram to its sockets, what becomes
\* of it there, and what a process that waited for it may still look at
SocketInv == PortsUnique /\ QueuesExact /\ BufferOnce /\ ReaderSafe

\* A reader returns when there is something to read, or nothing will ever be.
ReaderReturns ==
    \A s \in Socks :
        (so[s].reader = "asleep" /\ (data[s].q # <<>> \/ ~so[s].rcv)) ~> (so[s].reader # "asleep")
=============================================================================
