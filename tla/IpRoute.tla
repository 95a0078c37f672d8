------------------------------ MODULE IpRoute ------------------------------
(***************************************************************************)
(* Routing, forwarding and ICMP (kernel/ip.c, route.c, icmp.c and the      *)
(* parts of if.c and loopback.c they use): several nodes that all run this *)
(* code, on networks they share.                                           *)
(*                                                                         *)
(* An address is <<network, host>>.  The host All makes it the broadcast   *)
(* address of the network, which is also the network's own address.  A     *)
(* node has at most one interface on a network, so the network names it.   *)
(*                                                                         *)
(* A routing table is a function from destinations, host or network, to    *)
(* routes.  Subnets, metrics and the lifetime of routes, which nothing     *)
(* counts down, are left out, and so are datagrams in several fragments    *)
(* (see IpFrag).                                                           *)
(***************************************************************************)
EXTENDS Naturals, Sequences, FiniteSets

CONSTANTS
    Ifs,        \* the networks that each node has an interface to
    Boot,       \* the routing table of each node, its interfaces being open
    Dsts,       \* destinations of datagrams
    TTLs,       \* their lifetimes
    DefTTL,     \* IP_DEFAULT_TTL
    TTLMod,     \* 2 to the width of the field ttl
    AddDsts,    \* destinations of routes that root adds and deletes
    Gates,      \* their gateways
    MaxSend,    \* datagrams that processes send
    MaxChange,  \* changes by root
    Lo,         \* the loopback network
    All,
    None

VARIABLES
    tables,    \* allroutes and defroute of every node
    up,        \* networks whose interface is open
    wire,      \* frames on their way into a node
    reports,   \* where each datagram goes, and how many errors and redirects it brought
    changes    \* changes by root so far

vars == <<tables, up, wire, reports, changes>>

Nodes == DOMAIN Ifs
AnyAddr == <<"any", All>>          \* INADDR_ANY
Everybody == <<"everybody", All>>  \* INADDR_BROADCAST
Loop == <<Lo, Lo>>                 \* INADDR_LOOPBACK

AddrOf(n, i) == IF i = Lo THEN Loop ELSE <<i, n>>
Own(n) == {AddrOf(n, i) : i \in Ifs[n] \cup {Lo}}

(***************************************************************************)
(* The table                                                               *)
(***************************************************************************)
HostKey(a) == [dst |-> a, mask |-> "host"]
NetKey(i) == [dst |-> <<i, All>>, mask |-> "net"]
Default == [dst |-> AnyAddr, mask |-> "net"]

Route(nif, gway, flags) == [nif |-> nif, gway |-> gway, flags |-> flags]

OwnRoute == Route(Lo, None, {"UP", "STATIC", "LOCAL"})

Usable(n) == {k \in DOMAIN tables[n] : "UP" \in tables[n][k].flags}

Routable(n, a) == {HostKey(a), NetKey(a[1]), Default} \cap Usable(n) # {}

\* The destination of the most specific route that is up, and the route.  A
\* network that is written with host bits never matches an address.
route_key(n, a) ==
    IF HostKey(a) \in Usable(n) THEN HostKey(a)
    ELSE IF NetKey(a[1]) \in Usable(n) THEN NetKey(a[1]) ELSE Default

route_get(n, a) == tables[n][route_key(n, a)]

Entered(t, k, rt) == [j \in DOMAIN t \cup {k} |-> IF j = k THEN rt ELSE t[j]]

route_add_Overwrite(t, k, rt) == Entered(t, k, rt)

\* A route that is not static replaces no static one, unless it is the default.
route_add(t, k, rt) ==
    IF k # Default /\ k \in DOMAIN t /\ "STATIC" \in t[k].flags /\ "STATIC" \notin rt.flags
    THEN t
    ELSE Entered(t, k, rt)

route_del(t, k) == [j \in DOMAIN t \ {k} |-> t[j]]

\* Local routes stay when their interface goes.
route_flush(t, i) ==
    [k \in {j \in DOMAIN t : t[j].nif # i \/ "LOCAL" \in t[j].flags} |-> t[k]]

\* What if_open has entered for the interfaces of n, and what else there may be
Booted(n) ==
    /\ \A i \in Ifs[n] : HostKey(<<i, n>>) \in DOMAIN Boot[n] /\ Boot[n][HostKey(<<i, n>>)] = OwnRoute
    /\ \A k \in DOMAIN Boot[n] :
          Boot[n][k] = OwnRoute \/ (Boot[n][k].nif \in Ifs[n] /\ "LOCAL" \notin Boot[n][k].flags)

BootAssumption == DOMAIN Boot = Nodes /\ \A n \in Nodes : Booted(n)

Init ==
    /\ tables = Boot /\ up = Ifs
    /\ wire = {}
    /\ reports = <<>>
    /\ changes = 0

(***************************************************************************)
(* Addresses                                                               *)
(***************************************************************************)
ip_is_brdcst_addr(n, a) ==
    a \in {AnyAddr, Everybody} \/ (a[2] = All /\ a[1] \in Ifs[n])

ip_chk_addr(n, a, rt) ==
    IF a \in {AnyAddr, Everybody} THEN "brdcst"
    ELSE IF a[1] = Lo \/ "LOCAL" \in rt.flags \/ a = AddrOf(n, rt.nif) THEN "local"
    ELSE IF a = <<rt.nif, All>> THEN "brdcst" ELSE "none"

ip_local_addr(n, a) ==
    IF Routable(n, a) THEN AddrOf(n, route_get(n, a).nif) ELSE AnyAddr

(***************************************************************************)
(* Output.  A frame is a datagram d on its way to a node over a network.   *)
(***************************************************************************)
Attached(n, i) == {m \in Nodes \ {n} : i \in up[m]}

\* loop_output puts the datagram into the input queue of lo0.  On a network the
\* frame goes to all, or to the node that answers ARP for the next hop.
if_send(n, rt, d, brdcst) ==
    LET hop == IF rt.gway = None THEN d.dst ELSE rt.gway
        to  == IF rt.nif = Lo THEN {n}
               ELSE {m \in Attached(n, rt.nif) :
                        rt.nif \in up[n] /\ (brdcst \/ hop = <<rt.nif, m>>)}
    IN  {[to |-> m, nif |-> rt.nif, d |-> d] : m \in to}

\* ip_send once there is a route.  brdok: the caller may broadcast.
ip_emit(n, d, brdok) ==
    LET rt     == route_get(n, d.dst)
        brdcst == ip_chk_addr(n, d.dst, rt) = "brdcst"
        src    == IF d.src = AnyAddr THEN AddrOf(n, rt.nif) ELSE d.src
    IN  IF brdcst /\ ~brdok THEN {} ELSE if_send(n, rt, [d EXCEPT !.src = src], brdcst)

icmp_dontsend_AboutErrors(n, type, d) == d.kind = "data" /\ ip_is_brdcst_addr(n, d.dst)

\* No error is sent about an ICMP message nor about a broadcast.
icmp_dontsend(n, type, d) ==
    IF d.kind = "data" THEN ip_is_brdcst_addr(n, d.dst) ELSE type # "reply"

\* The message about d, to its source; re is what a redirect says.  One that
\* cannot be routed is dropped: no error is sent about it.  An error about a
\* datagram without source is dropped as well, it would be a broadcast.
icmp_send(n, type, d, re) ==
    LET from == IF ip_is_brdcst_addr(n, d.dst) THEN ip_local_addr(n, d.dst) ELSE d.dst
        src  == IF from \in Own(n) THEN from ELSE AnyAddr
        msg  == [src |-> src, dst |-> d.src, ttl |-> DefTTL, kind |-> type,
                 id |-> d.id, re |-> re]
    IN  IF icmp_dontsend(n, type, d) \/ ~Routable(n, d.src) THEN {}
        ELSE ip_emit(n, msg, FALSE)

Reports(frames) == Cardinality({f \in frames : f.d.kind \in {"error", "redirect"}})

\* A process sends through a socket, or with a header of its own, which
\* ip_output takes like one that ip_send has built.
ip_send(n, src, dst, ttl, kind, brdok) ==
    LET id == Len(reports) + 1
        d  == [src |-> src, dst |-> dst, ttl |-> ttl, kind |-> kind, id |-> id, re |-> None]
        out == IF Routable(n, dst) THEN ip_emit(n, d, brdok) ELSE icmp_send(n, "error", d, None)
    IN  /\ id <= MaxSend
        /\ wire' = wire \cup out
        /\ reports' = Append(reports, [dst |-> dst, count |-> Reports(out)])
        /\ UNCHANGED <<tables, up, changes>>

(***************************************************************************)
(* Input                                                                   *)
(***************************************************************************)
\* A redirect is believed if it comes from the gateway that is used and names
\* one that needs no gateway.  The new route is not marked RTF_UP, and for a
\* network it is entered under the address, host bits and all.
do_redir(n, i, d) ==
    LET rt     == route_get(n, d.re.dst)
        gwrt   == route_get(n, d.re.gway)
        key    == IF d.re.code = "host" THEN HostKey(d.re.dst)
                  ELSE [dst |-> d.re.dst, mask |-> "net"]
    IN  IF /\ Routable(n, d.re.gway) /\ gwrt.gway = None
           /\ Routable(n, d.re.dst) /\ rt.gway = d.src
        THEN route_add(tables[n], key, Route(i, d.re.gway, {}))
        ELSE tables[n]

\* What the protocols answer.  taken: somebody reads what is sent.
Answer(n, d, taken) ==
    CASE d.kind = "echo" -> icmp_send(n, "reply", d, None)
      [] d.kind = "data" /\ ~taken -> icmp_send(n, "error", d, None)
      [] OTHER -> {}

Older_NoCount(d) == d

Older(d) == [d EXCEPT !.ttl = (@ + TTLMod - 1) % TTLMod]

\* The sender of d is told that it goes no further, or that it would leave as it
\* came.
Complain(n, i, d, rt, dead) ==
    IF dead THEN icmp_send(n, "error", d, None)
    ELSE IF rt.nif = i /\ rt.gway # None
    THEN icmp_send(n, "redirect", d,
                   [dst |-> d.dst, gway |-> rt.gway, code |-> route_key(n, d.dst).mask])
    ELSE {}

\* ip_input takes one frame.  A broadcast that came over another network than
\* it is for is delivered and a copy of it goes on.  The ttl that is counted
\* down then is in the buffer that the protocols already have: the copy keeps
\* its own, and what the test finds (stale) depends on what became of the buffer.
ip_input(f, taken, stale) ==
    LET n      == f.to
        d      == f.d
        known  == Routable(n, d.dst)
        rt     == route_get(n, d.dst)
        type   == IF known THEN ip_chk_addr(n, d.dst, rt) ELSE "unknown"
        mine   == type \in {"local", "brdcst"}
        onward == type = "none" \/ (type = "brdcst" /\ f.nif # rt.nif)
        e      == IF mine THEN d ELSE Older(d)
        dead   == IF mine THEN stale ELSE e.ttl = 0
        told   == (IF ~known THEN icmp_send(n, "error", d, None) ELSE {})
                    \cup (IF mine THEN Answer(n, d, taken) ELSE {})
                    \cup (IF onward THEN Complain(n, f.nif, e, rt, dead) ELSE {})
        gone   == IF onward /\ ~dead /\ rt.nif # f.nif
                  THEN if_send(n, rt, e, mine) ELSE {}
    IN  /\ wire' = (wire \ {f}) \cup told \cup gone
        /\ reports' = [reports EXCEPT ![d.id].count = @ + Reports(told)]
        /\ tables' = IF mine /\ d.kind = "redirect"
                     THEN [tables EXCEPT ![n] = do_redir(n, f.nif, d)] ELSE tables
        /\ UNCHANGED <<up, changes>>

\* The network or a full queue loses a frame.
Lose(f) ==
    /\ f.nif # Lo
    /\ wire' = wire \ {f}
    /\ UNCHANGED <<tables, up, reports, changes>>

(***************************************************************************)
(* What root does                                                          *)
(***************************************************************************)
Change(n, t) ==
    /\ changes < MaxChange
    /\ changes' = changes + 1
    /\ tables' = [tables EXCEPT ![n] = t]
    /\ UNCHANGED reports

KeyOf(a) == IF a[2] = All THEN [dst |-> a, mask |-> "net"] ELSE HostKey(a)

\* SIOCADDRT of route_ioctl: the interface is that of the gateway's network
AddRoute(n, a, gway) ==
    LET near == IF gway = None THEN a ELSE gway
    IN  /\ near[1] \in up[n]
        /\ Change(n, route_add(tables[n], KeyOf(a), Route(near[1], gway, {"UP"})))
        /\ UNCHANGED <<up, wire>>

\* SIOCDELRT of route_ioctl.  Root leaves the local routes alone.
DelRoute(n, a) ==
    /\ KeyOf(a) \in DOMAIN tables[n]
    /\ "LOCAL" \notin tables[n][KeyOf(a)].flags
    /\ Change(n, route_del(tables[n], KeyOf(a)))
    /\ UNCHANGED <<up, wire>>

if_open(n, i) ==
    /\ i \in Ifs[n] \ up[n]
    /\ up' = [up EXCEPT ![n] = @ \cup {i}]
    /\ Change(n, route_add(tables[n], HostKey(<<i, n>>), OwnRoute))
    /\ UNCHANGED wire

\* The queues of the interface are flushed.
if_close(n, i) ==
    /\ i \in up[n]
    /\ up' = [up EXCEPT ![n] = @ \ {i}]
    /\ wire' = {f \in wire : f.to # n \/ f.nif # i}
    /\ Change(n, route_del(route_flush(tables[n], i), HostKey(<<i, n>>)))

Next ==
    \/ \E n \in Nodes, dst \in Dsts, ttl \in TTLs, kind \in {"data", "echo"}, brdok \in BOOLEAN :
          \E src \in {AnyAddr} \cup (Own(n) \ {Loop}) : ip_send(n, src, dst, ttl, kind, brdok)
    \/ \E f \in wire, taken, stale \in BOOLEAN : ip_input(f, taken, stale)
    \/ \E f \in wire : Lose(f)
    \/ \E n \in Nodes, a \in AddDsts, gway \in Gates : AddRoute(n, a, gway)
    \/ \E n \in Nodes, a \in AddDsts : DelRoute(n, a)
    \/ \E n \in Nodes : \E i \in Ifs[n] : if_open(n, i) \/ if_close(n, i)

Spec == Init /\ [][Next]_vars

\* What has arrived is taken by and by: the main loop calls if_doinput.
Input == \E f \in wire, taken, stale \in BOOLEAN : ip_input(f, taken, stale)
InputGoesOn == []<>(wire = {}) \/ []<><<Input>>_vars

(***************************************************************************)
(* Properties                                                              *)
(***************************************************************************)
\* The addresses of open interfaces lead to the node itself, whatever routes
\* root adds and redirects bring; all routes use interfaces that are open, and
\* nothing is on its way into one that is closed.
RouteInv ==
    /\ \A n \in Nodes : \A i \in up[n] :
          Routable(n, <<i, n>>) /\ "LOCAL" \in route_get(n, <<i, n>>).flags
    /\ \A n \in Nodes : \A k \in DOMAIN tables[n] : tables[n][k].nif \in up[n] \cup {Lo}
    /\ \A f \in wire : f.nif \in up[f.to] \cup {Lo}

\* A datagram for one host brings at most one error or redirect about, however
\* many nodes it comes through, whatever root does to their routes meanwhile,
\* and whatever becomes of the error.
OneReport == \A i \in DOMAIN reports : reports[i].dst[2] # All => reports[i].count <= 1

\* Once processes are silent the network falls silent, even if routes form a
\* circle: everything that goes round is counted down, or is a broadcast that
\* is forwarded once.
Silence == wire # {} ~> wire = {}
=============================================================================
