------------------------------ MODULE IpProofs ------------------------------
(***************************************************************************)
(* Proofs about the two halves of IP.                                      *)
(*                                                                         *)
(* IpRoute: that routes stay right (RouteInv) and that a datagram for one  *)
(* host brings at most one report about (OneReport), for all networks, all *)
(* tables, all changes and datagrams.                                      *)
(*                                                                         *)
(* IpFrag: that its slots are what they should be (SlotInv) and that it    *)
(* implements IpService (IpPromise), for all datagrams, all ways to cut    *)
(* them and all that the network does with the pieces.                     *)
(***************************************************************************)
EXTENDS IpRoute, IpFrag, FiniteSetTheorems, WellFoundedInduction, TLAPS

\* The addresses of open interfaces have the routes that if_open entered: these
\* are static, which no other new route is.
OwnKept ==
    \A n \in Nodes : \A i \in up[n] :
        HostKey(<<i, n>>) \in DOMAIN tables[n] /\ tables[n][HostKey(<<i, n>>)] = OwnRoute

\* Only if_open makes routes local, and these lead to lo0.
NifsOpen ==
    \A n \in Nodes : \A k \in DOMAIN tables[n] :
        tables[n][k] = OwnRoute
          \/ (tables[n][k].nif \in up[n] \cup {Lo} /\ "LOCAL" \notin tables[n][k].flags)

IntoOpen(F) == \A f \in F : f.to \in Nodes /\ f.nif \in up[f.to] \cup {Lo}

\* The inductive invariant
IInv ==
    /\ DOMAIN tables = Nodes /\ DOMAIN up = Nodes
    /\ OwnKept /\ NifsOpen /\ IntoOpen(wire)

\* What holds of the table t of node n, whose open interfaces are I.
Right(t, n, I) ==
    /\ \A i \in I : HostKey(<<i, n>>) \in DOMAIN t /\ t[HostKey(<<i, n>>)] = OwnRoute
    /\ \A k \in DOMAIN t :
          t[k] = OwnRoute \/ (t[k].nif \in I \cup {Lo} /\ "LOCAL" \notin t[k].flags)

\* A host route is never the default.
LEMMA HostNotDefault == ASSUME NEW a PROVE HostKey(a) # Default
BY DEF HostKey, Default

\* Whatever route_add does with a route that is neither static nor local and
\* leads to an open interface, the table stays right.
LEMMA AddKeepsRight ==
    ASSUME NEW t, NEW n, NEW I, Right(t, n, I), NEW k, NEW rt,
           rt.nif \in I \cup {Lo}, "STATIC" \notin rt.flags, "LOCAL" \notin rt.flags
    PROVE  Right(route_add(t, k, rt), n, I)
<1>1. CASE route_add(t, k, rt) = t
  BY <1>1
<1>2. CASE route_add(t, k, rt) = Entered(t, k, rt)
            /\ ~(k # Default /\ k \in DOMAIN t /\ "STATIC" \in t[k].flags)
  <2>1. ASSUME NEW i \in I PROVE k # HostKey(<<i, n>>)
    BY <1>2, <2>1, HostNotDefault DEF Right, OwnRoute, Route
  <2>2. \A j \in DOMAIN Entered(t, k, rt) :
           Entered(t, k, rt)[j] = IF j = k THEN rt ELSE t[j]
    BY DEF Entered
  <2>3. DOMAIN Entered(t, k, rt) = DOMAIN t \cup {k}
    BY DEF Entered
  <2> QED BY <1>2, <2>1, <2>2, <2>3 DEF Right
<1> QED BY <1>1, <1>2 DEF route_add

\* A route that if_open enters makes the table right for one more interface.
LEMMA OpenKeepsRight ==
    ASSUME NEW t, NEW n, NEW I, Right(t, n, I), NEW i
    PROVE  Right(route_add(t, HostKey(<<i, n>>), OwnRoute), n, I \cup {i})
<1> DEFINE u == Entered(t, HostKey(<<i, n>>), OwnRoute)
<1>1. route_add(t, HostKey(<<i, n>>), OwnRoute) = u
  BY DEF route_add, OwnRoute, Route
<1>2. DOMAIN u = DOMAIN t \cup {HostKey(<<i, n>>)}
        /\ \A j \in DOMAIN u : u[j] = IF j = HostKey(<<i, n>>) THEN OwnRoute ELSE t[j]
  BY DEF Entered
<1> HIDE DEF u
<1> QED BY <1>1, <1>2 DEF Right

\* Closing an interface takes its routes away and no others.
LEMMA CloseKeepsRight ==
    ASSUME NEW t, NEW n, NEW I, Right(t, n, I), NEW i
    PROVE  Right(route_del(route_flush(t, i), HostKey(<<i, n>>)), n, I \ {i})
<1> DEFINE u == route_flush(t, i)
<1>1. \A k \in DOMAIN t : t[k] = OwnRoute => k \in DOMAIN u
  BY DEF route_flush, OwnRoute, Route
<1>2. \A k \in DOMAIN u : k \in DOMAIN t /\ u[k] = t[k] /\ (t[k].nif # i \/ "LOCAL" \in t[k].flags)
  BY DEF route_flush
<1> HIDE DEF u
<1> DEFINE v == route_del(u, HostKey(<<i, n>>))
<1>3. DOMAIN v = DOMAIN u \ {HostKey(<<i, n>>)} /\ \A k \in DOMAIN v : v[k] = u[k]
  BY DEF route_del
<1> HIDE DEF v
<1>4. \A j \in I \ {i} : HostKey(<<j, n>>) # HostKey(<<i, n>>)
  BY DEF HostKey
<1>5. Right(v, n, I \ {i})
  BY <1>1, <1>2, <1>3, <1>4 DEF Right
<1> QED BY <1>5 DEF u, v

\* Nothing is sent into an interface that is closed.
LEMMA SendOpen ==
    ASSUME NEW n \in Nodes, NEW rt, NEW d, NEW brdcst
    PROVE  IntoOpen(if_send(n, rt, d, brdcst))
<1> DEFINE hop == IF rt.gway = None THEN d.dst ELSE rt.gway
           to  == IF rt.nif = Lo THEN {n}
                  ELSE {m \in Attached(n, rt.nif) :
                           rt.nif \in up[n] /\ (brdcst \/ hop = <<rt.nif, m>>)}
<1>1. \A m \in to : m \in Nodes /\ rt.nif \in up[m] \cup {Lo}
  BY DEF Attached
<1>2. if_send(n, rt, d, brdcst) = {[to |-> m, nif |-> rt.nif, d |-> d] : m \in to}
  BY DEF if_send
<1> HIDE DEF to
<1> QED BY <1>1, <1>2 DEF IntoOpen

\* What ip_send sends enters open interfaces.
LEMMA EmitOpen ==
    ASSUME NEW n \in Nodes, NEW d, NEW brdok
    PROVE  IntoOpen(ip_emit(n, d, brdok))
<1>1. IntoOpen({})
  BY DEF IntoOpen
<1> QED BY <1>1, SendOpen DEF ip_emit

\* The messages of ICMP, which ip_send sends, enter open interfaces.
LEMMA IcmpOpen ==
    ASSUME NEW n \in Nodes, NEW type, NEW d, NEW re
    PROVE  IntoOpen(icmp_send(n, type, d, re))
<1>1. IntoOpen({})
  BY DEF IntoOpen
<1> QED BY <1>1, EmitOpen DEF icmp_send

\* A redirect that arrives over an open interface leaves the table right.
LEMMA RedirKeepsRight ==
    ASSUME NEW n, NEW I, Right(tables[n], n, I), NEW i \in I \cup {Lo}, NEW d
    PROVE  Right(do_redir(n, i, d), n, I)
<1>1. \A gway : /\ Route(i, gway, {}).nif \in I \cup {Lo}
                /\ "STATIC" \notin Route(i, gway, {}).flags
                /\ "LOCAL" \notin Route(i, gway, {}).flags
  BY DEF Route
<1>2. \A k : Right(route_add(tables[n], k, Route(i, d.re.gway, {})), n, I)
  BY <1>1, AddKeepsRight
<1> QED BY <1>2 DEF do_redir

\* What ip_input sends goes into open interfaces.
LEMMA InputOpen ==
    ASSUME NEW f \in wire, NEW taken, NEW stale, IntoOpen(wire), ip_input(f, taken, stale)
    PROVE  IntoOpen(wire')
<1>1. f.to \in Nodes
  BY DEF IntoOpen
<1>2. IntoOpen({})
  BY DEF IntoOpen
<1>3. \A d : IntoOpen(Answer(f.to, d, taken))
  BY <1>1, <1>2, IcmpOpen DEF Answer
<1>4. \A d, rt, dead : IntoOpen(Complain(f.to, f.nif, d, rt, dead))
  BY <1>1, <1>2, IcmpOpen DEF Complain
<1>5. \A A, B : IntoOpen(A) /\ IntoOpen(B) => IntoOpen(A \cup B)
  BY DEF IntoOpen
<1>6. IntoOpen(wire \ {f})
  BY DEF IntoOpen
<1> QED BY <1>1, <1>2, <1>3, <1>4, <1>5, <1>6, IcmpOpen, SendOpen DEF ip_input

\* Every step keeps the invariant.
LEMMA Inductive == IInv /\ [Next]_vars => IInv'
<1> SUFFICES ASSUME IInv, [Next]_vars PROVE IInv'
  OBVIOUS
<1> USE DEF IInv
<1>0. \A n \in Nodes : Right(tables[n], n, up[n])
  BY DEF OwnKept, NifsOpen, Right
<1>1. ASSUME UNCHANGED <<tables, up>>, IntoOpen(wire') PROVE IInv'
  BY <1>1 DEF OwnKept, NifsOpen, IntoOpen
<1>2. ASSUME NEW n \in Nodes, NEW t, Right(t, n, up'[n]), tables' = [tables EXCEPT ![n] = t],
             DOMAIN up' = Nodes, \A m \in Nodes \ {n} : up'[m] = up[m],
             \A f \in wire' : f.to \in Nodes /\ f.nif \in up'[f.to] \cup {Lo}
      PROVE  IInv'
  <2>1. DOMAIN tables' = Nodes
    BY <1>2
  <2>2. \A m \in Nodes : Right(tables'[m], m, up'[m])
    BY <1>0, <1>2
  <2>3. OwnKept' /\ NifsOpen'
    BY <2>2 DEF OwnKept, NifsOpen, Right
  <2>4. IntoOpen(wire)'
    BY <1>2 DEF IntoOpen
  <2> QED BY <1>2, <2>1, <2>3, <2>4
<1>3. ASSUME NEW n \in Nodes, NEW src, NEW dst, NEW ttl, NEW kind, NEW brdok,
             ip_send(n, src, dst, ttl, kind, brdok)
      PROVE  IInv'
  <2>1. IntoOpen(wire')
    BY <1>3, EmitOpen, IcmpOpen DEF ip_send, IntoOpen
  <2> QED BY <1>1, <1>3, <2>1 DEF ip_send
<1>4. ASSUME NEW f \in wire, NEW taken, NEW stale, ip_input(f, taken, stale) PROVE IInv'
  <2>1. IntoOpen(wire')
    BY <1>4, InputOpen
  <2>2. UNCHANGED up /\ (tables' = tables \/ tables' = [tables EXCEPT ![f.to] = do_redir(f.to, f.nif, f.d)])
    BY <1>4 DEF ip_input
  <2>3. f.to \in Nodes /\ f.nif \in up[f.to] \cup {Lo}
    BY DEF IntoOpen
  <2>4. Right(do_redir(f.to, f.nif, f.d), f.to, up[f.to])
    BY <1>0, <2>3, RedirKeepsRight
  <2>5. \A g \in wire' : g.to \in Nodes /\ g.nif \in up'[g.to] \cup {Lo}
    BY <2>1, <2>2 DEF IntoOpen
  <2>6. CASE tables' = tables
    BY <1>1, <2>1, <2>2, <2>6
  <2>7. CASE tables' = [tables EXCEPT ![f.to] = do_redir(f.to, f.nif, f.d)]
    BY <1>2, <2>2, <2>3, <2>4, <2>5, <2>7
  <2> QED BY <2>2, <2>6, <2>7
<1>5. ASSUME NEW f \in wire, Lose(f) PROVE IInv'
  BY <1>1, <1>5 DEF Lose, IntoOpen
<1>6. ASSUME NEW n \in Nodes, NEW a, NEW gway, AddRoute(n, a, gway) PROVE IInv'
  <2> DEFINE near == IF gway = None THEN a ELSE gway
             rt   == Route(near[1], gway, {"UP"})
  <2>1. rt.nif \in up[n] \cup {Lo} /\ "STATIC" \notin rt.flags /\ "LOCAL" \notin rt.flags
    BY <1>6 DEF AddRoute, Route
  <2>2. tables' = [tables EXCEPT ![n] = route_add(tables[n], KeyOf(a), rt)] /\ UNCHANGED <<up, wire>>
    BY <1>6 DEF AddRoute, Change
  <2> HIDE DEF rt
  <2>3. Right(route_add(tables[n], KeyOf(a), rt), n, up[n])
    BY <1>0, <2>1, AddKeepsRight
  <2> QED BY <1>2, <2>2, <2>3 DEF IntoOpen
<1>7. ASSUME NEW n \in Nodes, NEW a, DelRoute(n, a) PROVE IInv'
  <2> DEFINE t == route_del(tables[n], KeyOf(a))
  <2>1. tables' = [tables EXCEPT ![n] = t] /\ UNCHANGED <<up, wire>>
    BY <1>7 DEF DelRoute, Change
  <2>2. DOMAIN t = DOMAIN tables[n] \ {KeyOf(a)} /\ \A k \in DOMAIN t : t[k] = tables[n][k]
    BY DEF route_del
  <2>3. tables[n][KeyOf(a)] # OwnRoute
    BY <1>7 DEF DelRoute, OwnRoute, Route
  <2> HIDE DEF t
  <2>4. Right(t, n, up[n])
    BY <1>0, <2>2, <2>3 DEF Right
  <2> QED BY <1>2, <2>1, <2>4 DEF IntoOpen
<1>8. ASSUME NEW n \in Nodes, NEW i, if_open(n, i) PROVE IInv'
  <2> DEFINE t == route_add(tables[n], HostKey(<<i, n>>), OwnRoute)
  <2>1. tables' = [tables EXCEPT ![n] = t] /\ UNCHANGED wire
          /\ up' = [up EXCEPT ![n] = @ \cup {i}]
    BY <1>8 DEF if_open, Change
  <2>2. Right(t, n, up'[n])
    BY <1>0, <2>1, OpenKeepsRight
  <2> HIDE DEF t
  <2>3. \A f \in wire' : f.to \in Nodes /\ f.nif \in up'[f.to] \cup {Lo}
    BY <2>1 DEF IntoOpen
  <2> QED BY <1>2, <2>1, <2>2, <2>3
<1>9. ASSUME NEW n \in Nodes, NEW i, if_close(n, i) PROVE IInv'
  <2> DEFINE t == route_del(route_flush(tables[n], i), HostKey(<<i, n>>))
  <2>1. tables' = [tables EXCEPT ![n] = t] /\ up' = [up EXCEPT ![n] = @ \ {i}]
          /\ wire' = {f \in wire : f.to # n \/ f.nif # i}
    BY <1>9 DEF if_close, Change
  <2>2. Right(t, n, up'[n])
    BY <1>0, <2>1, CloseKeepsRight
  <2> HIDE DEF t
  <2>3. \A f \in wire' : f.to \in Nodes /\ f.nif \in up'[f.to] \cup {Lo}
    BY <2>1 DEF IntoOpen
  <2> QED BY <1>2, <2>1, <2>2, <2>3
<1>10. CASE UNCHANGED vars
  BY <1>1, <1>10 DEF vars, IntoOpen
<1> QED BY <1>3, <1>4, <1>5, <1>6, <1>7, <1>8, <1>9, <1>10 DEF Next

\* RouteInv of IpRoute (route_add, route_del, route_flush, do_redir, if_open,
\* if_close, if_send): whatever root does and whatever redirects come, the
\* addresses of open interfaces stay local, routes use open interfaces, and
\* nothing enters one that is closed.
THEOREM RouteInvariant == ASSUME BootAssumption PROVE Spec => []RouteInv
<1>1. Init => IInv
  BY DEF Init, BootAssumption, Booted, IInv, OwnKept, NifsOpen, IntoOpen, Nodes, OwnRoute, Route
<1>2. IInv => RouteInv
  <2> SUFFICES ASSUME IInv PROVE RouteInv
    OBVIOUS
  <2>1. ASSUME NEW n \in Nodes, NEW i \in up[n]
        PROVE  Routable(n, <<i, n>>) /\ "LOCAL" \in route_get(n, <<i, n>>).flags
    <3>1. HostKey(<<i, n>>) \in Usable(n)
      BY <2>1 DEF IInv, OwnKept, Usable, OwnRoute, Route
    <3>2. route_get(n, <<i, n>>) = OwnRoute
      BY <2>1, <3>1 DEF route_get, route_key, IInv, OwnKept
    <3>3. Routable(n, <<i, n>>)
      BY <3>1 DEF Routable
    <3> QED BY <3>2, <3>3 DEF OwnRoute, Route
  <2>2. \A n \in Nodes : \A k \in DOMAIN tables[n] : tables[n][k].nif \in up[n] \cup {Lo}
    BY DEF IInv, NifsOpen, OwnRoute, Route
  <2>3. \A f \in wire : f.nif \in up[f.to] \cup {Lo}
    BY DEF IInv, IntoOpen
  <2> QED BY <2>1, <2>2, <2>3 DEF RouteInv
<1> QED BY <1>1, <1>2, Inductive, PTL DEF Spec

(***************************************************************************)
(* One report                                                              *)
(***************************************************************************)
AtMostOne(S) == \A x, y \in S : x = y

OneHost(a) == a[2] # All

Datas == {f \in wire : f.d.kind = "data"}

\* The inductive invariant: a datagram for one host is in one frame at most,
\* and while it is, nothing has been reported about it.
ReportInv ==
    /\ reports \in Seq([dst : Dsts, count : Nat])
    /\ \A f \in wire : f.d.id \in 1 .. Len(reports)
    /\ \A f \in Datas :
          /\ reports[f.d.id].dst = f.d.dst
          /\ OneHost(f.d.dst) => reports[f.d.id].count = 0
          /\ OneHost(f.d.dst) => \A g \in Datas : g.d.id = f.d.id => g = f
    /\ OneReport

\* A frame of a message of ICMP about the datagram id
Message(f, id) == f.d.kind \in {"error", "redirect", "reply"} /\ f.d.id = id

\* What a node tells about d: errors and redirects about data only
About(f, d) == Message(f, d.id) /\ (d.kind # "data" => f.d.kind = "reply")

\* Among the frames of a set with one member at most, one is a report at most.
LEMMA CountOne ==
    ASSUME NEW S, AtMostOne(S)
    PROVE  /\ Reports(S) \in {0, 1}
           /\ S = {} => Reports(S) = 0
           /\ (\A f \in S : f.d.kind \notin {"error", "redirect"}) => Reports(S) = 0
<1> DEFINE T == {f \in S : f.d.kind \in {"error", "redirect"}}
<1>1. Reports(S) = Cardinality(T)
  BY DEF Reports
<1>2. T = {} \/ \E x : T = {x}
  BY DEF AtMostOne
<1>3. Cardinality(T) \in {0, 1} /\ (T = {} => Cardinality(T) = 0)
  <2> HIDE DEF T
  <2>1. CASE T = {}
    BY <2>1, FS_EmptySet
  <2>2. CASE \E x : T = {x}
    BY <2>2, FS_Singleton, FS_EmptySet
  <2> QED BY <1>2, <2>1, <2>2
<1> QED BY <1>1, <1>3

\* A datagram for one host goes into one frame at most, of the same identity.
LEMMA SendOne ==
    ASSUME NEW n, NEW rt, NEW d
    PROVE  /\ AtMostOne(if_send(n, rt, d, FALSE))
           /\ \A brdcst : \A f \in if_send(n, rt, d, brdcst) : f.d = d
<1> DEFINE hop == IF rt.gway = None THEN d.dst ELSE rt.gway
           to(b) == IF rt.nif = Lo THEN {n}
                    ELSE {m \in Attached(n, rt.nif) :
                             rt.nif \in up[n] /\ (b \/ hop = <<rt.nif, m>>)}
<1>1. \A x, y \in to(FALSE) : x = y
  BY DEF hop
<1>2. \A b : if_send(n, rt, d, b) = {[to |-> m, nif |-> rt.nif, d |-> d] : m \in to(b)}
  BY DEF if_send
<1> HIDE DEF to
<1>3. AtMostOne(if_send(n, rt, d, FALSE))
  BY <1>1, <1>2 DEF AtMostOne
<1>4. \A brdcst : \A f \in if_send(n, rt, d, brdcst) : f.d = d
  BY <1>2
<1> QED BY <1>3, <1>4

IsDgram(d) == d = [src |-> d.src, dst |-> d.dst, ttl |-> d.ttl, kind |-> d.kind, id |-> d.id,
                   re |-> d.re]

\* ip_send broadcasts only what is for all, and only if it may.
LEMMA EmitOne ==
    ASSUME NEW n, NEW brdok \in BOOLEAN, NEW d, IsDgram(d)
    PROVE  /\ OneHost(d.dst) \/ ~brdok => AtMostOne(ip_emit(n, d, brdok))
           /\ \A f \in ip_emit(n, d, brdok) :
                 f.d.kind = d.kind /\ f.d.id = d.id /\ f.d.dst = d.dst
<1> DEFINE rt     == route_get(n, d.dst)
           brdcst == ip_chk_addr(n, d.dst, rt) = "brdcst"
           s      == IF d.src = AnyAddr THEN AddrOf(n, rt.nif) ELSE d.src
           e      == [d EXCEPT !.src = s]
<1>1. ip_emit(n, d, brdok) = IF brdcst /\ ~brdok THEN {} ELSE if_send(n, rt, e, brdcst)
  BY DEF ip_emit
<1>2. e.kind = d.kind /\ e.id = d.id /\ e.dst = d.dst
  BY DEF IsDgram
<1>3. OneHost(d.dst) => ~brdcst
  BY DEF OneHost, ip_chk_addr, AnyAddr, Everybody
<1>4. AtMostOne({}) /\ brdcst \in BOOLEAN
  BY DEF AtMostOne
<1> HIDE DEF rt, brdcst, e
<1>5. ~brdcst => if_send(n, rt, e, brdcst) = if_send(n, rt, e, FALSE)
  <2>1. ~brdcst => brdcst = FALSE
    BY <1>4
  <2> QED BY <2>1
<1>6. OneHost(d.dst) \/ ~brdok => AtMostOne(ip_emit(n, d, brdok))
  BY <1>1, <1>3, <1>4, <1>5, SendOne
<1>7. \A f \in ip_emit(n, d, brdok) : f.d = e
  BY <1>1, SendOne
<1> QED BY <1>2, <1>6, <1>7

\* ICMP sends one frame at most, and no error or redirect but about data.
LEMMA IcmpOne ==
    ASSUME NEW n, NEW type \in {"error", "redirect", "reply"}, NEW d, NEW re
    PROVE  /\ AtMostOne(icmp_send(n, type, d, re))
           /\ \A f \in icmp_send(n, type, d, re) : Message(f, d.id)
           /\ d.kind # "data" => \A f \in icmp_send(n, type, d, re) : f.d.kind = "reply"
<1> DEFINE from == IF ip_is_brdcst_addr(n, d.dst) THEN ip_local_addr(n, d.dst) ELSE d.dst
           src  == IF from \in Own(n) THEN from ELSE AnyAddr
           msg  == [src |-> src, dst |-> d.src, ttl |-> DefTTL, kind |-> type,
                    id |-> d.id, re |-> re]
<1>1. icmp_send(n, type, d, re) =
         IF icmp_dontsend(n, type, d) \/ ~Routable(n, d.src) THEN {} ELSE ip_emit(n, msg, FALSE)
  BY DEF icmp_send
<1>2. /\ AtMostOne(ip_emit(n, msg, FALSE))
      /\ \A f \in ip_emit(n, msg, FALSE) : f.d.kind = type /\ f.d.id = d.id
  <2>1. IsDgram(msg) /\ msg.kind = type /\ msg.id = d.id
    BY DEF IsDgram
  <2> HIDE DEF msg
  <2>2. \A b \in BOOLEAN :
           /\ ~b => AtMostOne(ip_emit(n, msg, b))
           /\ \A f \in ip_emit(n, msg, b) : f.d.kind = msg.kind /\ f.d.id = msg.id
    BY <2>1, EmitOne
  <2> QED BY <2>1, <2>2
<1>3. AtMostOne({})
  BY DEF AtMostOne
<1> HIDE DEF msg
<1>4. AtMostOne(icmp_send(n, type, d, re))
  BY <1>1, <1>2, <1>3
<1>5. \A f \in icmp_send(n, type, d, re) : f.d.kind = type /\ f.d.id = d.id
  BY <1>1, <1>2
<1>6. d.kind # "data" => (icmp_send(n, type, d, re) = {} \/ type = "reply")
  BY <1>1 DEF icmp_dontsend
<1>7. d.kind # "data" => \A f \in icmp_send(n, type, d, re) : f.d.kind = "reply"
  BY <1>5, <1>6
<1> QED BY <1>4, <1>5, <1>7 DEF Message

\* What a process sends is one frame of its own identity, or an error about it.
LEMMA SendStep ==
    ASSUME ReportInv, NEW n, NEW src, NEW dst \in Dsts, NEW ttl, NEW kind \in {"data", "echo"},
           NEW brdok \in BOOLEAN, ip_send(n, src, dst, ttl, kind, brdok)
    PROVE  ReportInv'
<1> DEFINE id  == Len(reports) + 1
           d   == [src |-> src, dst |-> dst, ttl |-> ttl, kind |-> kind, id |-> id, re |-> None]
           out == IF Routable(n, dst) THEN ip_emit(n, d, brdok) ELSE icmp_send(n, "error", d, None)
           r   == [dst |-> dst, count |-> Reports(out)]
<1>0. reports \in Seq([dst : Dsts, count : Nat]) /\ Len(reports) \in Nat
  BY DEF ReportInv
<1>1. wire' = wire \cup out /\ reports' = Append(reports, r)
  BY DEF ip_send
<1>2. IsDgram(d) /\ d.kind = kind /\ d.id = id /\ d.dst = dst
  BY DEF IsDgram
<1> HIDE DEF d, id
<1>3. \A f \in out : /\ f.d.id = id
                     /\ f.d.kind = "data" => f.d.dst = dst /\ Routable(n, dst)
  <2>1. \A f \in ip_emit(n, d, brdok) : f.d.kind = kind /\ f.d.id = id /\ f.d.dst = dst
    BY <1>2, EmitOne
  <2>2. \A f \in icmp_send(n, "error", d, None) : f.d.id = id /\ f.d.kind # "data"
    BY <1>2, IcmpOne DEF Message
  <2> QED BY <2>1, <2>2
<1>4. OneHost(dst) => AtMostOne(out)
  <2>1. OneHost(dst) => AtMostOne(ip_emit(n, d, brdok))
    BY <1>2, EmitOne
  <2>2. AtMostOne(icmp_send(n, "error", d, None))
    BY IcmpOne
  <2> QED BY <2>1, <2>2
<1>5. Routable(n, dst) => \A f \in out : f.d.kind \notin {"error", "redirect"}
  BY <1>2, EmitOne
<1>6. /\ Reports(out) \in Nat
      /\ OneHost(dst) => Reports(out) <= 1
      /\ OneHost(dst) /\ Routable(n, dst) => Reports(out) = 0
  <2>1. CASE OneHost(dst)
    <3>1. Reports(out) \in {0, 1} /\ (Routable(n, dst) => Reports(out) = 0)
      BY <2>1, <1>4, <1>5, CountOne
    <3> QED BY <3>1
  <2>2. CASE ~OneHost(dst)
    <3>1. ~Routable(n, dst) => AtMostOne(out)
      BY IcmpOne
    <3>2. Routable(n, dst) => {f \in out : f.d.kind \in {"error", "redirect"}} = {}
      BY <1>5
    <3>3. Routable(n, dst) => Reports(out) = 0
      BY <3>2, FS_EmptySet DEF Reports
    <3>4. ~Routable(n, dst) => Reports(out) \in {0, 1}
      BY <3>1, CountOne
    <3> QED BY <2>2, <3>3, <3>4
  <2> QED BY <2>1, <2>2
<1> HIDE DEF out
<1>7. /\ r \in [dst : Dsts, count : Nat] /\ r.dst = dst /\ r.count = Reports(out)
  BY <1>6
<1> HIDE DEF r
<1>8. /\ reports' \in Seq([dst : Dsts, count : Nat]) /\ Len(reports') = id
      /\ reports'[id] = r /\ \A i \in 1 .. Len(reports) : reports'[i] = reports[i]
      /\ 1 .. Len(reports') = 1 .. Len(reports) \cup {id} /\ id \notin 1 .. Len(reports)
      /\ DOMAIN reports = 1 .. Len(reports) /\ DOMAIN reports' = 1 .. Len(reports')
  BY <1>0, <1>1, <1>7 DEF id
<1>9. \A f \in wire : f.d.id \in 1 .. Len(reports)
  BY DEF ReportInv
<1>10. \A f \in wire' : f.d.id \in 1 .. Len(reports')
  BY <1>1, <1>3, <1>8, <1>9
<1>11. ASSUME NEW f \in Datas'
       PROVE  /\ reports'[f.d.id].dst = f.d.dst
              /\ OneHost(f.d.dst) => reports'[f.d.id].count = 0
              /\ OneHost(f.d.dst) => \A g \in Datas' : g.d.id = f.d.id => g = f
  <2>1. CASE f \in wire
    <3>1. f \in Datas /\ f.d.id \in 1 .. Len(reports) /\ reports'[f.d.id] = reports[f.d.id]
      BY <2>1, <1>8, <1>9 DEF Datas
    <3>2. \A g \in Datas' : g.d.id = f.d.id => g \in Datas
      BY <3>1, <1>1, <1>3, <1>8 DEF Datas
    <3> QED BY <3>1, <3>2 DEF ReportInv
  <2>2. CASE f \in out
    <3>1. f.d.id = id /\ f.d.dst = dst /\ Routable(n, dst)
      BY <2>2, <1>3 DEF Datas
    <3>2. \A g \in Datas' : g.d.id = f.d.id => g \in out
      BY <3>1, <1>1, <1>8, <1>9 DEF Datas
    <3> QED BY <2>2, <3>1, <3>2, <1>4, <1>6, <1>7, <1>8 DEF AtMostOne
  <2> QED BY <1>1, <2>1, <2>2 DEF Datas
<1>12. OneReport'
  BY <1>6, <1>7, <1>8 DEF ReportInv, OneReport, OneHost
<1> QED BY <1>8, <1>10, <1>11, <1>12 DEF ReportInv

\* ip_input takes a frame and sends at most one in its place, the datagram
\* itself or a report about it, if the datagram is for one host.
LEMMA InputStep ==
    ASSUME ReportInv, NEW f \in wire, NEW taken, NEW stale, ip_input(f, taken, stale)
    PROVE  ReportInv'
<1> DEFINE n      == f.to
           d      == f.d
           known  == Routable(n, d.dst)
           rt     == route_get(n, d.dst)
           type   == IF known THEN ip_chk_addr(n, d.dst, rt) ELSE "unknown"
           mine   == type \in {"local", "brdcst"}
           onward == type = "none" \/ (type = "brdcst" /\ f.nif # rt.nif)
           e      == IF mine THEN d ELSE Older(d)
           dead   == IF mine THEN stale ELSE e.ttl = 0
           lost   == IF ~known THEN icmp_send(n, "error", d, None) ELSE {}
           answer == IF mine THEN Answer(n, d, taken) ELSE {}
           moan   == IF onward THEN Complain(n, f.nif, e, rt, dead) ELSE {}
           told   == lost \cup answer \cup moan
           gone   == IF onward /\ ~dead /\ rt.nif # f.nif
                     THEN if_send(n, rt, e, mine) ELSE {}
<1>0. /\ wire' = (wire \ {f}) \cup told \cup gone
      /\ reports' = [reports EXCEPT ![d.id].count = @ + Reports(told)]
  BY DEF ip_input
<1>1. e.kind = d.kind /\ e.id = d.id /\ e.dst = d.dst
  BY DEF Older
<1>2. /\ ~known => ~mine /\ ~onward
      /\ OneHost(d.dst) => type # "brdcst"
  BY DEF ip_chk_addr, OneHost, AnyAddr, Everybody
<1>3. AtMostOne(lost) /\ \A g \in lost : About(g, d)
  BY IcmpOne DEF AtMostOne, About
<1>4. AtMostOne(answer) /\ \A g \in answer : About(g, d)
  BY IcmpOne DEF AtMostOne, Answer, About
<1>5. AtMostOne(moan) /\ (\A g \in moan : About(g, d))
      /\ (~dead /\ rt.nif # f.nif => moan = {})
  <2> HIDE DEF e, dead
  <2> QED BY <1>1, IcmpOne DEF AtMostOne, Complain, About
<1>6. /\ \A g \in gone : g.d = e
      /\ OneHost(d.dst) => AtMostOne(gone)
  <2>1. OneHost(d.dst) /\ gone # {} => mine = FALSE
    BY <1>2
  <2>2. AtMostOne({})
    BY DEF AtMostOne
  <2> HIDE DEF e, mine
  <2> QED BY <2>1, <2>2, SendOne
<1> HIDE DEF e
<1>7. \A g \in told : About(g, d)
  BY <1>3, <1>4, <1>5
<1>8. /\ ~known => answer = {} /\ moan = {} /\ gone = {}
      /\ known => lost = {}
      /\ OneHost(d.dst) => answer = {} \/ (moan = {} /\ gone = {})
      /\ moan = {} \/ gone = {}
  <2>1. OneHost(d.dst) /\ mine => ~onward
    BY <1>2
  <2>2. gone # {} => ~dead /\ rt.nif # f.nif
    OBVIOUS
  <2> HIDE DEF dead, rt, mine, onward, known
  <2> QED BY <1>2, <1>5, <2>1, <2>2
<1> HIDE DEF lost, answer, moan, gone
<1>9. /\ OneHost(d.dst) => AtMostOne(told)
      /\ OneHost(d.dst) => told = {} \/ gone = {}
  <2> HIDE DEF known
  <2> QED BY <1>3, <1>4, <1>5, <1>8 DEF AtMostOne
<1>10. Reports(told) \in Nat
  <2> DEFINE R(S) == {g \in S : g.d.kind \in {"error", "redirect"}}
  <2>1. \A S : AtMostOne(S) => IsFiniteSet(R(S))
    <3>1. \A S : AtMostOne(S) => R(S) = {} \/ \E x : R(S) = {x}
      BY DEF AtMostOne
    <3>2. \A T : T = {} \/ (\E x : T = {x}) => IsFiniteSet(T)
      BY FS_EmptySet, FS_Singleton
    <3> HIDE DEF R
    <3> QED BY <3>1, <3>2
  <2>2. R(told) = R(lost) \cup R(answer) \cup R(moan)
    OBVIOUS
  <2>3. Reports(told) = Cardinality(R(told))
    BY DEF Reports
  <2> HIDE DEF R
  <2>4. IsFiniteSet(R(lost) \cup R(answer))
    BY <1>3, <1>4, <2>1, FS_Union
  <2>5. IsFiniteSet(R(told))
    BY <1>5, <2>1, <2>2, <2>4, FS_Union
  <2> QED BY <2>3, <2>5, FS_CardinalityType
<1>11. d.kind # "data" => Reports(told) = 0
  <2>1. d.kind # "data" => {g \in told : g.d.kind \in {"error", "redirect"}} = {}
    BY <1>7 DEF About
  <2> QED BY <2>1, FS_EmptySet DEF Reports
<1>12. OneHost(d.dst) => Reports(told) \in {0, 1} /\ (told = {} => Reports(told) = 0)
  BY <1>9, CountOne
<1> HIDE DEF told
<1>13. /\ reports \in Seq([dst : Dsts, count : Nat]) /\ d.id \in 1 .. Len(reports)
       /\ DOMAIN reports = 1 .. Len(reports)
       /\ reports[d.id] \in [dst : Dsts, count : Nat]
  <2> DEFINE T == [dst : Dsts, count : Nat]
  <2>1. reports \in Seq(T) /\ d.id \in 1 .. Len(reports)
    BY DEF ReportInv
  <2> HIDE DEF T
  <2>2. DOMAIN reports = 1 .. Len(reports) /\ reports[d.id] \in T
    BY <2>1
  <2> QED BY <2>1, <2>2 DEF T
<1>14. /\ reports' \in Seq([dst : Dsts, count : Nat]) /\ Len(reports') = Len(reports)
       /\ DOMAIN reports' = DOMAIN reports
       /\ \A i \in DOMAIN reports : reports'[i].dst = reports[i].dst
       /\ \A i \in DOMAIN reports : i # d.id => reports'[i].count = reports[i].count
       /\ reports'[d.id].count = reports[d.id].count + Reports(told)
  <2> DEFINE k == Reports(told)
             r == [dst |-> reports[d.id].dst, count |-> reports[d.id].count + k]
  <2> HIDE DEF d, k
  <2>1. r \in [dst : Dsts, count : Nat] /\ r.dst = reports[d.id].dst
          /\ r.count = reports[d.id].count + k
    BY <1>10, <1>13 DEF k
  <2>2. reports' = [reports EXCEPT ![d.id] =
                      [reports[d.id] EXCEPT !.count = reports[d.id].count + k]]
    BY <1>0, Zenon DEF k
  <2>3. [reports[d.id] EXCEPT !.count = reports[d.id].count + k] = r
    <3>1. \A o \in [dst : Dsts, count : Nat] : \A v :
             [o EXCEPT !.count = v] = [dst |-> o.dst, count |-> v]
      OBVIOUS
    <3> QED BY <1>13, <3>1
  <2>4. reports' = [reports EXCEPT ![d.id] = r]
    BY <1>13, <2>2, <2>3
  <2> HIDE DEF r
  <2> QED BY <1>13, <2>1, <2>4 DEF k
<1>15. \A g \in wire' : g.d.id \in 1 .. Len(reports')
  BY <1>0, <1>1, <1>6, <1>7, <1>13, <1>14 DEF ReportInv, About, Message
<1>16. \A g \in Datas' : (g \in Datas /\ g # f) \/ (g \in gone /\ f \in Datas)
  BY <1>0, <1>1, <1>6, <1>7 DEF Datas, About, Message
<1>17. ASSUME NEW g \in Datas', OneHost(g.d.dst)
       PROVE  /\ reports'[g.d.id].count = 0
              /\ \A h \in Datas' : h.d.id = g.d.id => h = g
  <2>1. CASE g \in Datas /\ g # f
    <3>1. g.d.id = d.id => f \notin Datas
      BY <2>1, <1>13, <1>17 DEF ReportInv
    <3>2. g.d.id = d.id => Reports(told) = 0
      BY <3>1, <1>11 DEF Datas
    <3>3. \A h \in Datas' : h.d.id = g.d.id => h \in Datas
      BY <3>1, <1>1, <1>6, <1>16
    <3>4. /\ g.d.id \in DOMAIN reports /\ reports[g.d.id].count = 0
          /\ \A h \in Datas : h.d.id = g.d.id => h = g
      BY <2>1, <1>13, <1>17 DEF ReportInv, Datas
    <3> QED BY <3>2, <3>3, <3>4, <1>14
  <2>2. CASE g \in gone /\ f \in Datas
    <3>1. g.d.id = d.id /\ g.d.dst = d.dst
      BY <2>2, <1>1, <1>6
    <3>2. told = {} /\ AtMostOne(gone)
      BY <2>2, <3>1, <1>6, <1>9, <1>17
    <3>3. reports[d.id].count = 0 /\ \A h \in Datas : h.d.id = d.id => h = f
      BY <2>2, <3>1, <1>17 DEF ReportInv
    <3>4. \A h \in Datas' : h.d.id = g.d.id => h \in gone
      BY <3>1, <3>3, <1>16
    <3> QED BY <2>2, <3>1, <3>2, <3>3, <3>4, <1>12, <1>14, <1>17 DEF AtMostOne
  <2> QED BY <1>16, <2>1, <2>2
<1>18. \A g \in Datas' : reports'[g.d.id].dst = g.d.dst
  <2>1. \A g \in Datas : g.d.id \in DOMAIN reports /\ reports[g.d.id].dst = g.d.dst
    BY <1>13 DEF ReportInv, Datas
  <2> QED BY <2>1, <1>1, <1>6, <1>14, <1>16
<1>19. OneReport'
  <2>1. d.kind = "data" /\ OneHost(reports[d.id].dst)
          => reports[d.id].count = 0 /\ Reports(told) \in {0, 1}
    BY <1>12 DEF ReportInv, Datas
  <2>2. reports[d.id].count \in Nat
    BY <1>13
  <2> HIDE DEF d
  <2>3. \A i \in DOMAIN reports : OneHost(reports[i].dst) => reports[i].count <= 1
    BY DEF ReportInv, OneReport, OneHost
  <2>4. OneHost(reports[d.id].dst) => reports'[d.id].count <= 1
    <3>1. CASE d.kind = "data"
      BY <3>1, <2>1, <1>14
    <3>2. CASE d.kind # "data"
      BY <3>2, <2>2, <2>3, <1>11, <1>13, <1>14
    <3> QED BY <3>1, <3>2
  <2>5. ASSUME NEW i \in DOMAIN reports, OneHost(reports[i].dst) PROVE reports'[i].count <= 1
    BY <2>3, <2>4, <2>5, <1>14
  <2> QED BY <2>5, <1>14 DEF OneReport, OneHost
<1> QED BY <1>14, <1>15, <1>17, <1>18, <1>19 DEF ReportInv

\* Frames that are lost bring nothing about.
LEMMA FewerFrames ==
    ASSUME ReportInv, wire' \subseteq wire, UNCHANGED reports
    PROVE  ReportInv'
BY DEF ReportInv, Datas, OneReport

\* OneReport of IpRoute (ip_input, ip_send, icmp_send, icmp_dontsend): however
\* many nodes forward a datagram for one host, whatever root does to their routes
\* and wherever its errors get lost, it brings one error or redirect at most.
THEOREM OneReportInvariant == Spec => []OneReport
<1>1. Init => ReportInv
  BY DEF Init, ReportInv, Datas, OneReport
<1>2. ReportInv /\ [Next]_vars => ReportInv'
  <2> SUFFICES ASSUME ReportInv, [Next]_vars PROVE ReportInv'
    OBVIOUS
  <2>1. ASSUME NEW n \in Nodes, NEW dst \in Dsts, NEW ttl \in TTLs, NEW kind \in {"data", "echo"},
               NEW brdok \in BOOLEAN, NEW src, ip_send(n, src, dst, ttl, kind, brdok)
        PROVE  ReportInv'
    BY <2>1, SendStep
  <2>2. ASSUME NEW f \in wire, NEW taken \in BOOLEAN, NEW stale \in BOOLEAN,
               ip_input(f, taken, stale)
        PROVE  ReportInv'
    BY <2>2, InputStep
  <2>3. ASSUME NEW f \in wire, Lose(f) PROVE ReportInv'
    BY <2>3, FewerFrames DEF Lose
  <2>4. ASSUME NEW n \in Nodes, NEW a \in AddDsts, NEW gway \in Gates, AddRoute(n, a, gway)
        PROVE  ReportInv'
    BY <2>4, FewerFrames DEF AddRoute, Change
  <2>5. ASSUME NEW n \in Nodes, NEW a \in AddDsts, DelRoute(n, a) PROVE ReportInv'
    BY <2>5, FewerFrames DEF DelRoute, Change
  <2>6. ASSUME NEW n \in Nodes, NEW i, if_open(n, i) \/ if_close(n, i) PROVE ReportInv'
    BY <2>6, FewerFrames DEF if_open, if_close, Change
  <2>7. CASE UNCHANGED vars
    BY <2>7, FewerFrames DEF vars
  <2> QED BY <2>1, <2>2, <2>3, <2>4, <2>5, <2>6, <2>7 DEF Next
<1>3. ReportInv => OneReport
  BY DEF ReportInv
<1> QED BY <1>1, <1>2, <1>3, PTL DEF Spec

(***************************************************************************)
(* IpFrag: the inductive invariant.  It knows two things that SlotInv does *)
(* not: what a fragment can be, because senders and routers cut as they    *)
(* do, and that curlen is the number of units that the fragments of a slot *)
(* cover, unless some overlap.  (A sum over the list would need induction; *)
(* the number of elements of a set does not.)                              *)
(***************************************************************************)
Span(f) == f.off + 1 .. End(f)
Covered(b) == UNION {Span(f) : f \in b}
Apart(b) == \A g, h \in b : g # h => ~Overlap(g, h)

\* A fragment of a datagram of S
Proper(f, S) ==
    /\ f \in Fragment /\ f.d \in S
    /\ End(f) <= Size[f.d] /\ (~f.mf => End(f) = Size[f.d])

\* A slot that is in use, apart from whether it is complete
Filled(fr, S) ==
    /\ \A f \in fr.buf : Proper(f, S) /\ Key[f.d] = fr.key /\ IsFragment(f)
    /\ \A f, g \in fr.buf : f.off = g.off => f = g
    /\ fr.totlen # 0 => \E f \in fr.buf : ~f.mf /\ fr.totlen = End(f)
    /\ \A f \in fr.buf : f.mf \/ (\E g \in fr.buf : g.off > f.off) \/ fr.totlen = End(f)
    /\ IsFiniteSet(Covered(fr.buf))
    /\ Apart(fr.buf) => fr.curlen = Cardinality(Covered(fr.buf))

Incomplete(fr) == fr.totlen = 0 \/ fr.totlen # fr.curlen

Keys == {Key[d] : d \in Dgrams}
SlotType == [buf : SUBSET Fragment, key : Keys \cup {Nothing}, curlen : Nat, totlen : Nat]

\* What may be said of the last step of the receiver
Event(e, S) ==
    /\ e.kind = "delivered" => Units(e.buf) \in Service!Splices(S)
    /\ e.kind = "malformed" => \E f, g \in e.buf : f.d # g.d \/ (f # g /\ Overlap(f, g))
    /\ e.kind = "lost" => \E f \in e.buf : f.off = 0

Kept ==
    /\ slots \in [Slots -> SlotType]
    /\ armed = InUse
    /\ \A s, t \in InUse : slots[s].key = slots[t].key => s = t
    /\ \A s \in InUse : Filled(slots[s], sent) /\ Incomplete(slots[s])

FragIInv ==
    /\ sent \subseteq Dgrams
    /\ \A f \in net : Proper(f, sent)
    /\ Kept
    /\ Event(ev, sent)

(***************************************************************************)
(* Cutting                                                                 *)
(***************************************************************************)
\* Two facts about numbers
LEMMA DivIs ==
    ASSUME NEW x \in Nat, NEW n \in Nat \ {0}
    PROVE  (x \div n) \in Nat /\ (x \div n) * n <= x
OBVIOUS

LEMMA TimesGrows ==
    ASSUME NEW a \in Nat, NEW b \in Nat, NEW n \in Nat, a <= b
    PROVE  a * n <= b * n /\ a * n \in Nat
OBVIOUS

\* What a sender hands to ip_frag is a fragment of its datagram.
LEMMA WholeProper ==
    ASSUME NEW d \in Dgrams, NEW S, d \in S
    PROVE  Proper(Whole(d), S)
BY FragAssumption DEF Proper, Whole, Fragment, End

\* What ip_frag makes of a fragment are fragments.
LEMMA PiecesProper ==
    ASSUME NEW S, NEW f, Proper(f, S), NEW n \in Fraglens, NEW k
    PROVE  \A g \in ip_frag(f, n, k) : Proper(g, S)
<1> DEFINE cnt == (f.len + n - 1) \div n
           cut == Pieces(f, n)
<1>1. /\ f.d \in S /\ f.d \in Dgrams /\ f.off \in Nat /\ f.len \in Nat \ {0} /\ f.mf \in BOOLEAN
      /\ n \in Nat \ {0} /\ f.off + f.len <= Size[f.d] /\ (~f.mf => f.off + f.len = Size[f.d])
  BY FragAssumption DEF Proper, Fragment, End
<1>2. f.len + n - 1 \in Nat
  BY <1>1
<1>3. cnt \in Nat /\ cnt * n <= f.len + n - 1
  BY <1>1, <1>2, DivIs
<1>4. Size[f.d] \in Nat
  BY <1>1, FragAssumption
<1>5. ASSUME NEW i \in 1 .. cnt PROVE Proper(cut[i], S)
  <2> DEFINE start == (i - 1) * n
             l == IF i = cnt THEN f.len - start ELSE n
             m == i # cnt \/ f.mf
             g == [d |-> f.d, off |-> f.off + start, len |-> l, mf |-> m]
  <2>1. cut[i] = g
    BY DEF Pieces
  <2>2. start \in Nat /\ start + n <= cnt * n /\ (i # cnt => start + n + n <= cnt * n)
    <3>1. i - 1 \in Nat /\ cnt - 1 \in Nat /\ i - 1 <= cnt - 1
      BY <1>3
    <3>2. start \in Nat /\ i * n = start + n /\ i * n <= cnt * n
      <4>1. i * n = (i - 1) * n + n
        BY <1>1
      <4> HIDE DEF cnt
      <4> QED BY <1>1, <1>3, <3>1, <4>1, TimesGrows
    <3>3. i # cnt => i + 1 <= cnt /\ i + 1 \in Nat
      BY <1>3
    <3>4. i # cnt => (i + 1) * n <= cnt * n
      <4> HIDE DEF cnt
      <4> QED BY <1>1, <1>3, <3>3, TimesGrows
    <3>5. (i + 1) * n = i * n + n
      BY <1>1
    <3> HIDE DEF start, cnt
    <3> QED BY <3>2, <3>4, <3>5, <1>1, <1>3
  <2> HIDE DEF start, cnt
  <2>3. l \in Nat \ {0} /\ start + l <= f.len /\ (i = cnt => start + l = f.len)
    BY <1>1, <1>3, <2>2
  <2>4. g \in Fragment
    BY <1>1, <2>2, <2>3 DEF Fragment
  <2>5. End(g) = f.off + start + l
    BY DEF End
  <2>6. m \in BOOLEAN /\ (~m => i = cnt /\ ~f.mf)
    BY <1>1
  <2> HIDE DEF l
  <2>7. End(g) <= Size[f.d] /\ (~m => End(g) = Size[f.d])
    BY <1>1, <1>4, <2>2, <2>3, <2>5, <2>6
  <2>8. Proper(g, S)
    BY <1>1, <2>4, <2>7 DEF Proper
  <2> QED BY <2>1, <2>8
<1>6. DOMAIN cut = 1 .. cnt
  BY DEF Pieces
<1> QED BY <1>5, <1>6 DEF ip_frag

(***************************************************************************)
(* What fragments cover                                                    *)
(***************************************************************************)
\* The units of one fragment
LEMMA SpanIs ==
    ASSUME NEW f \in Fragment
    PROVE  /\ f.off \in Nat /\ f.len \in Nat \ {0} /\ End(f) \in Nat /\ End(f) = f.off + f.len
           /\ f.off < End(f) /\ End(f) \in Span(f)
           /\ IsFiniteSet(Span(f)) /\ Cardinality(Span(f)) = f.len
<1>1. f.off \in Nat /\ f.len \in Nat \ {0} /\ End(f) = f.off + f.len
  BY DEF Fragment, End
<1>2. f.off + 1 \in Int /\ End(f) \in Int /\ ~(f.off + 1 > End(f))
  BY <1>1
<1>3. IsFiniteSet(Span(f)) /\ Cardinality(Span(f)) = End(f) - (f.off + 1) + 1
  BY <1>2, FS_Interval DEF Span
<1> QED BY <1>1, <1>3 DEF Span

\* Fragments overlap if they have a unit in common.
LEMMA CommonUnit ==
    ASSUME NEW f \in Fragment, NEW g \in Fragment
    PROVE  /\ Overlap(f, g) <=> Span(f) \cap Span(g) # {}
           /\ Overlap(f, g) <=> Overlap(g, f)
<1>1. /\ f.off \in Nat /\ End(f) \in Nat /\ g.off \in Nat /\ End(g) \in Nat
      /\ f.off < End(f) /\ g.off < End(g)
  BY SpanIs
<1>2. ASSUME NEW i \in Span(f) \cap Span(g) PROVE Overlap(f, g)
  BY <1>1, <1>2 DEF Span, Overlap
<1>3. ASSUME Overlap(f, g), f.off <= g.off PROVE g.off + 1 \in Span(f) \cap Span(g)
  BY <1>1, <1>3 DEF Span, Overlap
<1>4. ASSUME Overlap(f, g), g.off <= f.off PROVE f.off + 1 \in Span(f) \cap Span(g)
  BY <1>1, <1>4 DEF Span, Overlap
<1>5. Overlap(f, g) <=> Overlap(g, f)
  BY DEF Overlap
<1>6. f.off <= g.off \/ g.off <= f.off
  BY <1>1
<1> QED BY <1>2, <1>3, <1>4, <1>5, <1>6

\* Units are counted from 1.
LEMMA CoveredIn ==
    ASSUME NEW b, b \subseteq Fragment
    PROVE  Covered(b) \subseteq Nat \ {0}
<1>1. ASSUME NEW f \in b PROVE Span(f) \subseteq Nat \ {0}
  <2>1. f \in Fragment
    OBVIOUS
  <2>2. f.off \in Nat /\ End(f) \in Nat
    BY <2>1, SpanIs
  <2> QED BY <2>2 DEF Span
<1> QED BY <1>1 DEF Covered

\* The units of a contiguous list begin at 1: the last one that is missing would
\* be the end of no fragment.
LEMMA NoHole ==
    ASSUME NEW b, b \subseteq Fragment, Contiguous(b), NEW i \in Covered(b)
    PROVE  1 .. i \subseteq Covered(b)
<1> DEFINE missing == (1 .. i) \ Covered(b)
           M == {i - x : x \in missing}
<1>1. i \in Nat \ {0}
  BY CoveredIn
<1>2. SUFFICES ASSUME missing # {} PROVE FALSE
  OBVIOUS
<1>3. M # {} /\ M \subseteq Nat
  BY <1>1, <1>2
<1>4. PICK m \in M : \A y \in M : ~(<<y, m>> \in OpToRel(<, Nat))
  BY <1>3, NatLessThanWellFounded, WFMin
<1>5. \A y \in M : ~(y < m)
  BY <1>3, <1>4 DEF OpToRel
<1>6. PICK x \in missing : m = i - x
  BY <1>4
<1>7. x \in Nat \ {0} /\ x < i /\ x \notin Covered(b)
  BY <1>1, <1>6
<1>8. x + 1 \in Covered(b)
  <2>1. CASE x + 1 \in missing
    <3>1. i - (x + 1) \in M
      BY <2>1
    <3>2. i - (x + 1) < m
      BY <1>1, <1>6, <1>7
    <3> QED BY <1>5, <3>1, <3>2
  <2>2. x + 1 \in 1 .. i
    BY <1>1, <1>7
  <2> QED BY <2>1, <2>2
<1>9. PICK g \in b : x + 1 \in Span(g)
  BY <1>8 DEF Covered
<1>10. g.off \in Nat /\ End(g) \in Nat /\ x \notin Span(g)
  BY <1>7, SpanIs DEF Covered
<1>11. g.off = x
  BY <1>7, <1>9, <1>10 DEF Span
<1>12. PICK h \in b : End(h) = x
  BY <1>7, <1>11 DEF Contiguous
<1>13. x \in Span(h)
  BY <1>12, SpanIs
<1> QED BY <1>7, <1>13 DEF Covered

\* A fragment more
LEMMA CoveredGrows ==
    ASSUME NEW b, b \subseteq Fragment, NEW f \in Fragment, f \notin b, IsFiniteSet(Covered(b)),
           NEW n \in Nat, Apart(b) => n = Cardinality(Covered(b))
    PROVE  /\ IsFiniteSet(Covered(b \cup {f}))
           /\ Apart(b \cup {f}) => n + f.len = Cardinality(Covered(b \cup {f}))
<1>1. Covered(b \cup {f}) = Covered(b) \cup Span(f)
  BY DEF Covered
<1>2. IsFiniteSet(Span(f)) /\ Cardinality(Span(f)) = f.len /\ f.len \in Nat
  BY SpanIs
<1>3. /\ IsFiniteSet(Covered(b) \cup Span(f))
      /\ Cardinality(Covered(b) \cup Span(f))
           = Cardinality(Covered(b)) + Cardinality(Span(f)) - Cardinality(Covered(b) \cap Span(f))
  BY <1>2, FS_Union
<1>4. ASSUME Apart(b \cup {f}) PROVE n + f.len = Cardinality(Covered(b) \cup Span(f))
  <2>1. Apart(b)
    BY <1>4 DEF Apart
  <2>2. Covered(b) \cap Span(f) = {}
    <3>1. ASSUME NEW g \in b PROVE Span(g) \cap Span(f) = {}
      <4>1. ~Overlap(g, f)
        BY <1>4 DEF Apart
      <4>2. g \in Fragment
        OBVIOUS
      <4> QED BY <4>1, <4>2, CommonUnit
    <3> QED BY <3>1 DEF Covered
  <2>3. Cardinality(Covered(b) \cap Span(f)) = 0
    BY <2>2, FS_EmptySet
  <2>4. n = Cardinality(Covered(b))
    BY <2>1
  <2> QED BY <1>2, <1>3, <2>3, <2>4
<1> QED BY <1>1, <1>3, <1>4

\* If curlen and totlen agree and nothing overlaps, then all units are there, and
\* no others: where there is no hole,
LEMMA AllUnits ==
    ASSUME NEW b, b \subseteq Fragment, Contiguous(b), IsFiniteSet(Covered(b)),
           NEW last \in b, End(last) = Cardinality(Covered(b))
    PROVE  Covered(b) = 1 .. End(last)
<1>1. last \in Fragment /\ End(last) \in Nat /\ End(last) \in Span(last)
  BY SpanIs
<1>2. End(last) \in Covered(b)
  BY <1>1 DEF Covered
<1>3. 1 .. End(last) \in SUBSET Covered(b)
  BY <1>2, NoHole
<1>4. Cardinality(1 .. End(last)) = End(last)
  <2>1. 1 \in Int /\ End(last) \in Int
    BY <1>1
  <2> QED BY <1>1, <2>1, FS_Interval
<1> QED BY <1>3, <1>4, FS_Subset

\* ... and where all are of one datagram.
LEMMA NoOthers ==
    ASSUME NEW b, b \subseteq Fragment, Apart(b), NEW n \in Nat, Covered(b) \subseteq 1 .. n,
           Cardinality(Covered(b)) = n
    PROVE  Contiguous(b)
<1>1. IsFiniteSet(1 .. n) /\ Cardinality(1 .. n) = n
  <2>1. 1 \in Int /\ n \in Int
    OBVIOUS
  <2> QED BY <2>1, FS_Interval
<1>2. Covered(b) = 1 .. n
  BY <1>1, FS_Subset
<1>3. ASSUME NEW g \in b, g.off # 0 PROVE \E h \in b : End(h) = g.off
  <2>1. g \in Fragment /\ g.off \in Nat /\ End(g) \in Nat /\ g.off < End(g) /\ End(g) \in Span(g)
    BY SpanIs
  <2>2. End(g) \in 1 .. n
    BY <1>2, <2>1 DEF Covered
  <2>3. g.off \in Covered(b)
    BY <1>2, <1>3, <2>1, <2>2
  <2>4. PICK h \in b : g.off \in Span(h)
    BY <2>3 DEF Covered
  <2>5. h \in Fragment /\ h.off \in Nat /\ End(h) \in Nat
    BY SpanIs
  <2>6. h # g
    BY <2>1, <2>4 DEF Span
  <2>7. ~Overlap(h, g)
    BY <2>6 DEF Apart
  <2>8. End(h) = g.off
    BY <2>1, <2>4, <2>5, <2>7 DEF Overlap, Span
  <2> QED BY <2>8
<1> QED BY <1>3 DEF Contiguous, Apart

\* What is delivered is what IpService promises.
LEMMA UnitsPromised ==
    ASSUME NEW b, NEW S, \A f \in b : Proper(f, S), Contiguous(b), NEW last \in b, ~last.mf,
           Covered(b) = 1 .. End(last), \A f \in b : Key[f.d] = Key[last.d]
    PROVE  Units(b) \in Service!Splices(S)
<1> DEFINE n == End(last)
           At(i) == CHOOSE f \in b : i \in f.off + 1 .. End(f)
           u == [i \in 1 .. n |-> At(i).d]
<1>1. b \subseteq Fragment /\ last \in Fragment /\ last.d \in S /\ n = Size[last.d] /\ n \in Nat
  BY SpanIs DEF Proper
<1>2. Units(b) = u
  BY DEF Units, Covered, Span
<1>3. ASSUME NEW i \in 1 .. n PROVE At(i) \in b /\ i \in Span(At(i))
  <2>1. \E f \in b : i \in f.off + 1 .. End(f)
    BY DEF Covered, Span
  <2> QED BY <2>1 DEF Span
<1>4. ASSUME NEW i \in 1 .. n
      PROVE  u[i] = At(i).d /\ u[i] \in S /\ Key[u[i]] = Key[last.d] /\ i <= Size[u[i]]
  <2>1. At(i) \in b /\ i \in Span(At(i)) /\ u[i] = At(i).d
    BY <1>3
  <2> DEFINE f == At(i)
  <2>2. f \in Fragment /\ f.d \in S /\ End(f) <= Size[f.d] /\ f.d \in Dgrams
    BY <2>1 DEF Proper, Fragment
  <2>3. End(f) \in Nat /\ i <= End(f) /\ Size[f.d] \in Nat
    <3> HIDE DEF f
    <3>1. f.off \in Nat /\ End(f) \in Nat
      BY <2>2, SpanIs
    <3>2. i \in Span(f)
      BY <2>1 DEF f
    <3> QED BY <2>2, <3>1, <3>2, FragAssumption DEF Span
  <2>4. Key[f.d] = Key[last.d]
    BY <2>1
  <2> HIDE DEF f
  <2>5. i <= Size[f.d]
    BY <2>2, <2>3
  <2>6. u[i] = f.d
    BY <2>1 DEF f
  <2> QED BY <2>1, <2>2, <2>4, <2>5, <2>6
<1>5. u[n] = last.d
  <2>1. n \in 1 .. n /\ n \in Span(last)
    BY <1>1, SpanIs
  <2>2. At(n) \in b /\ n \in Span(At(n)) /\ u[n] = At(n).d
    BY <1>3, <2>1
  <2> DEFINE f == At(n)
  <2>3. f \in b /\ n \in Span(f) /\ u[n] = f.d
    BY <2>2
  <2> HIDE DEF f, u
  <2>4. f \in Fragment
    BY <1>1, <2>3
  <2>5. Span(f) \cap Span(last) # {}
    BY <2>1, <2>3
  <2>6. f = last
    BY <1>1, <2>3, <2>4, <2>5, CommonUnit DEF Contiguous
  <2> QED BY <2>3, <2>6
<1>6. u \in [1 .. Size[last.d] -> S]
  BY <1>1, <1>4
<1> HIDE DEF u
<1>7. /\ u[Size[last.d]] = last.d
      /\ \A i \in 1 .. Size[last.d] : Key[u[i]] = Key[last.d] /\ i <= Size[u[i]]
  BY <1>1, <1>4, <1>5
<1> QED BY <1>1, <1>2, <1>6, <1>7 DEF Service!Splices

(***************************************************************************)
(* Slots                                                                   *)
(***************************************************************************)
\* frag_insert keeps the count and the end right.
LEMMA InsertedFilled ==
    ASSUME NEW S, NEW fr \in SlotType, Filled(fr, S), NEW f, Proper(f, S), IsFragment(f),
           Key[f.d] = fr.key
    PROVE  /\ frag_insert(fr, f) \in SlotType /\ Filled(frag_insert(fr, f), S)
           /\ frag_insert(fr, f).key = fr.key /\ frag_insert(fr, f).buf # {}
<1>1. /\ fr.buf \subseteq Fragment /\ fr.curlen \in Nat /\ fr.totlen \in Nat
      /\ f \in Fragment /\ f.mf \in BOOLEAN
  BY DEF SlotType, Proper, Fragment
<1>2. f.off \in Nat /\ f.len \in Nat /\ End(f) \in Nat /\ \A g \in fr.buf : g.off \in Nat /\ g.mf \in BOOLEAN
  BY <1>1, SpanIs DEF Fragment
<1>3. CASE \E g \in fr.buf : g.off = f.off
  BY <1>3 DEF frag_insert
<1>4. CASE ~ \E g \in fr.buf : g.off = f.off
  <2> DEFINE b == fr.buf \cup {f}
             tot == IF f.mf \/ \E g \in fr.buf : g.off > f.off THEN fr.totlen ELSE End(f)
             n == fr.curlen + f.len
             r == [fr EXCEPT !.buf = b, !.curlen = n, !.totlen = tot]
  <2>1. frag_insert(fr, f) = r
    BY <1>4 DEF frag_insert
  <2>2. b \subseteq Fragment /\ n \in Nat /\ tot \in Nat /\ f \notin fr.buf /\ b # {}
    BY <1>1, <1>2, <1>4
  <2> HIDE DEF b, tot, n
  <2>3. r \in SlotType /\ r.buf = b /\ r.curlen = n /\ r.totlen = tot /\ r.key = fr.key
    BY <2>2 DEF SlotType
  <2>4. \A g \in b : Proper(g, S) /\ Key[g.d] = fr.key /\ IsFragment(g)
    BY DEF Filled, b
  <2>5. \A g, h \in b : g.off = h.off => g = h
    BY <1>4 DEF Filled, b
  <2>6. tot # 0 => \E g \in b : ~g.mf /\ tot = End(g)
    BY DEF Filled, b, tot
  <2>7. \A g \in b : g.mf \/ (\E h \in b : h.off > g.off) \/ tot = End(g)
    <3>1. ASSUME NEW g \in fr.buf PROVE g.mf \/ (\E h \in b : h.off > g.off) \/ tot = End(g)
      <4>1. CASE \E h \in fr.buf : h.off > g.off
        BY <4>1 DEF b
      <4>2. CASE f.off > g.off
        BY <4>2 DEF b
      <4>3. CASE ~(\E h \in fr.buf : h.off > g.off) /\ ~(f.off > g.off)
        <5>1. g.off > f.off
          BY <1>2, <1>4, <4>3
        <5>2. tot = fr.totlen
          BY <5>1 DEF tot
        <5>3. g.mf \/ fr.totlen = End(g)
          BY <4>3 DEF Filled
        <5> QED BY <5>2, <5>3
      <4> QED BY <4>1, <4>2, <4>3
    <3>2. f.mf \/ (\E h \in b : h.off > f.off) \/ tot = End(f)
      BY DEF b, tot
    <3> QED BY <3>1, <3>2 DEF b
  <2>8. IsFiniteSet(Covered(b)) /\ (Apart(b) => n = Cardinality(Covered(b)))
    <3>1. IsFiniteSet(Covered(fr.buf)) /\ (Apart(fr.buf) => fr.curlen = Cardinality(Covered(fr.buf)))
      BY DEF Filled
    <3> QED BY <1>1, <2>2, <3>1, CoveredGrows DEF b, n
  <2> HIDE DEF r
  <2>9. Filled(r, S)
    BY <2>3, <2>4, <2>5, <2>6, <2>7, <2>8 DEF Filled
  <2> QED BY <2>1, <2>2, <2>3, <2>9
<1> QED BY <1>3, <1>4

\* A slot that is taken holds nothing yet.
LEMMA FreeFilled ==
    ASSUME NEW S, NEW d \in Dgrams
    PROVE  /\ [Free EXCEPT !.key = Key[d]] \in SlotType
           /\ Filled([Free EXCEPT !.key = Key[d]], S)
           /\ [Free EXCEPT !.key = Key[d]].key = Key[d]
<1> DEFINE fr == [Free EXCEPT !.key = Key[d]]
<1>1. fr \in SlotType /\ fr.buf = {} /\ fr.curlen = 0 /\ fr.totlen = 0 /\ fr.key = Key[d]
  BY DEF Free, SlotType, Keys
<1> HIDE DEF fr
<1>2. Covered({}) = {}
  BY DEF Covered
<1>3. IsFiniteSet(Covered(fr.buf)) /\ fr.curlen = Cardinality(Covered(fr.buf))
  BY <1>1, <1>2, FS_EmptySet
<1>4. Filled(fr, S)
  BY <1>1, <1>3 DEF Filled
<1> QED BY <1>1, <1>4 DEF fr

\* One fragment alone is never complete.
LEMMA OpenedIncomplete ==
    ASSUME NEW f \in Fragment, IsFragment(f)
    PROVE  Incomplete(frag_insert([Free EXCEPT !.key = Key[f.d]], f))
<1> DEFINE fr == [Free EXCEPT !.key = Key[f.d]]
           r == frag_insert(fr, f)
<1>1. f.off \in Nat /\ f.len \in Nat \ {0} /\ End(f) = f.off + f.len
  BY SpanIs
<1>2. r.curlen = f.len /\ r.totlen = IF f.mf THEN 0 ELSE End(f)
  BY <1>1 DEF frag_insert, Free
<1> HIDE DEF r
<1>3. Incomplete(r)
  BY <1>1, <1>2 DEF Incomplete, IsFragment
<1> QED BY <1>3 DEF r

\* frag_pullup delivers what was promised, or finds fragments that do not fit.
LEMMA CompletedEvent ==
    ASSUME NEW S, NEW fr \in SlotType, Filled(fr, S), ~Incomplete(fr)
    PROVE  Event([kind |-> IF Contiguous(fr.buf) THEN "delivered" ELSE "malformed", buf |-> fr.buf], S)
<1> DEFINE b == fr.buf
<1>1. b \subseteq Fragment /\ fr.totlen \in Nat /\ fr.totlen # 0 /\ fr.totlen = fr.curlen
  BY DEF SlotType, Incomplete
<1>2. PICK last \in b : ~last.mf /\ fr.totlen = End(last)
  BY <1>1 DEF Filled
<1>3. /\ \A f \in b : Proper(f, S) /\ Key[f.d] = Key[last.d]
      /\ IsFiniteSet(Covered(b)) /\ (Apart(b) => End(last) = Cardinality(Covered(b)))
  BY <1>1, <1>2 DEF Filled
<1> HIDE DEF b
<1>4. ASSUME Contiguous(b) PROVE Units(b) \in Service!Splices(S)
  <2>1. Apart(b)
    BY <1>4 DEF Contiguous, Apart
  <2>2. Covered(b) = 1 .. End(last)
    BY <1>1, <1>2, <1>3, <1>4, <2>1, AllUnits
  <2> QED BY <1>2, <1>3, <1>4, <2>2, UnitsPromised
<1>5. ASSUME ~Contiguous(b) PROVE \E f, g \in b : f.d # g.d \/ (f # g /\ Overlap(f, g))
  <2> SUFFICES ASSUME \A f, g \in b : f.d = g.d /\ (f # g => ~Overlap(f, g)) PROVE FALSE
    OBVIOUS
  <2>1. Apart(b)
    BY DEF Apart
  <2>2. End(last) \in Nat /\ End(last) = Size[last.d]
    BY <1>1, <1>2, <1>3, SpanIs DEF Proper
  <2>3. ASSUME NEW g \in b PROVE Span(g) \subseteq 1 .. End(last)
    <3>1. g.d = last.d /\ End(g) <= Size[g.d]
      BY <1>2, <1>3 DEF Proper
    <3>2. g.off \in Nat /\ End(g) \in Nat
      BY <1>1, SpanIs
    <3>3. End(g) <= End(last)
      BY <2>2, <3>1
    <3> HIDE DEF b
    <3> QED BY <2>2, <3>2, <3>3 DEF Span
  <2>4. Covered(b) \subseteq 1 .. End(last)
    BY <2>3 DEF Covered
  <2> QED BY <1>1, <1>3, <1>5, <2>1, <2>2, <2>4, NoOthers
<1> QED BY <1>4, <1>5 DEF Event, b

\* What is complete has been pulled up.
LEMMA NoneStuck ==
    ASSUME NEW S, NEW fr \in SlotType, Filled(fr, S), Incomplete(fr)
    PROVE  ~(Contiguous(fr.buf) /\ \E f \in fr.buf : ~f.mf /\ \A g \in fr.buf : g.off <= f.off)
<1> DEFINE b == fr.buf
<1> SUFFICES ASSUME Contiguous(b), NEW f \in b, ~f.mf, \A g \in b : g.off <= f.off PROVE FALSE
  OBVIOUS
<1>1. b \subseteq Fragment /\ fr.totlen \in Nat
  BY DEF SlotType
<1>2. /\ f.off \in Nat /\ End(f) \in Nat /\ End(f) # 0 /\ f.off < End(f) /\ End(f) \in Span(f)
  BY <1>1, SpanIs
<1>3. \A g \in b : g.off \in Nat /\ End(g) \in Nat /\ g.off < End(g)
  BY <1>1, SpanIs
<1>4. fr.totlen = End(f)
  BY <1>2, <1>3 DEF Filled
<1>5. \A g \in b : End(g) <= End(f)
  <2>1. ASSUME NEW g \in b, g # f PROVE End(g) <= End(f)
    <3>1. ~Overlap(g, f)
      BY <2>1 DEF Contiguous
    <3> QED BY <1>2, <1>3, <3>1 DEF Overlap
  <2> QED BY <2>1, <1>2
<1>6. Covered(b) \subseteq 1 .. End(f)
  <2>1. ASSUME NEW g \in b PROVE Span(g) \subseteq 1 .. End(f)
    BY <1>2, <1>3, <1>5 DEF Span
  <2> QED BY <2>1 DEF Covered
<1>7. 1 .. End(f) \subseteq Covered(b)
  <2>1. End(f) \in Covered(b)
    BY <1>2 DEF Covered
  <2> HIDE DEF b
  <2> QED BY <1>1, <2>1, NoHole
<1>8. Cardinality(1 .. End(f)) = End(f)
  <2>1. 1 \in Int /\ End(f) \in Int
    BY <1>2
  <2> QED BY <1>2, <2>1, FS_Interval
<1>9. Apart(b)
  BY DEF Contiguous, Apart
<1>10. fr.curlen = Cardinality(Covered(b))
  BY <1>9 DEF Filled
<1>11. fr.curlen = End(f)
  BY <1>6, <1>7, <1>8, <1>10
<1> QED BY <1>2, <1>4, <1>11 DEF Incomplete

(***************************************************************************)
(* One step                                                                *)
(***************************************************************************)
\* More may be sent.
LEMMA SlotsUntouched ==
    ASSUME Kept, sent \subseteq sent', UNCHANGED <<slots, armed>>
    PROVE  Kept'
<1>1. InUse' = InUse
  BY DEF InUse
<1>2. ASSUME NEW s \in InUse PROVE Filled(slots[s], sent')
  <2>1. Filled(slots[s], sent)
    BY DEF Kept
  <2>2. \A f \in slots[s].buf : Proper(f, sent')
    BY <2>1 DEF Filled, Proper
  <2> QED BY <2>1, <2>2 DEF Filled
<1> QED BY <1>1, <1>2 DEF Kept

\* A slot gets a fragment and is not complete.
LEMMA SlotSet ==
    ASSUME Kept, sent' = sent, NEW s \in Slots, NEW fr \in SlotType, Filled(fr, sent), Incomplete(fr),
           fr.buf # {}, \A t \in InUse : slots[t].key = fr.key => t = s,
           slots' = [slots EXCEPT ![s] = fr], armed' = armed \cup {s}
    PROVE  Kept'
<1>1. slots \in [Slots -> SlotType] /\ slots' \in [Slots -> SlotType]
  BY DEF Kept
<1>2. slots'[s] = fr /\ \A t \in Slots \ {s} : slots'[t] = slots[t]
  BY <1>1
<1>3. InUse' = InUse \cup {s}
  BY <1>2 DEF InUse
<1>4. armed' = InUse'
  BY <1>3 DEF Kept
<1>5. ASSUME NEW t \in InUse', NEW u \in InUse', slots'[t].key = slots'[u].key PROVE t = u
  <2>1. t \in InUse \cup {s} /\ u \in InUse \cup {s} /\ t \in Slots /\ u \in Slots
    BY <1>3 DEF InUse
  <2> QED BY <1>2, <1>5, <2>1 DEF Kept
<1>6. ASSUME NEW t \in InUse' PROVE Filled(slots'[t], sent') /\ Incomplete(slots'[t])
  <2>1. t \in InUse \cup {s} /\ t \in Slots
    BY <1>3 DEF InUse
  <2> QED BY <1>2, <2>1 DEF Kept
<1> QED BY <1>1, <1>4, <1>5, <1>6 DEF Kept

\* A slot is given back.
LEMMA SlotFreed ==
    ASSUME Kept, sent' = sent, NEW s \in Slots,
           slots' = [slots EXCEPT ![s] = Free], armed' = armed \ {s}
    PROVE  Kept'
<1>1. Free \in SlotType /\ Free.buf = {}
  BY DEF Free, SlotType
<1>2. slots \in [Slots -> SlotType] /\ slots' \in [Slots -> SlotType]
  BY <1>1 DEF Kept
<1>3. slots'[s] = Free /\ \A t \in Slots \ {s} : slots'[t] = slots[t]
  BY <1>2
<1>4. InUse' = InUse \ {s}
  BY <1>1, <1>3 DEF InUse
<1>5. armed' = InUse'
  BY <1>4 DEF Kept
<1>6. \A t \in InUse' : t \in InUse /\ slots'[t] = slots[t]
  BY <1>3, <1>4 DEF InUse
<1> QED BY <1>2, <1>5, <1>6 DEF Kept

\* A fragment, or a whole datagram, comes.
LEMMA DefragKept ==
    ASSUME sent \subseteq Dgrams, Kept, sent' = sent, NEW f, Proper(f, sent), NEW mem \in BOOLEAN,
           ip_defrag(f, mem)
    PROVE  Kept' /\ Event(ev', sent')
<1> DEFINE mine == {s \in InUse : slots[s].key = Key[f.d]}
<1>1. f \in Fragment /\ f.d \in Dgrams
  BY DEF Proper, Fragment
<1>2. Event(Quiet, sent')
  BY DEF Event, Quiet
<1>3. slots \in [Slots -> SlotType] /\ armed = InUse
  BY DEF Kept
<1>4. CASE ~IsFragment(f) /\ ev' = [kind |-> "delivered", buf |-> {f}] /\ UNCHANGED <<slots, armed>>
  <2> DEFINE b == {f}
  <2>1. f.off = 0 /\ ~f.mf /\ End(f) \in Nat /\ f.off + 1 = 1
    BY <1>1, <1>4, SpanIs DEF IsFragment
  <2>2. Covered(b) = 1 .. End(f)
    BY <2>1 DEF Covered, Span
  <2>3. Contiguous(b)
    BY <2>1 DEF Contiguous
  <2>4. f \in b /\ \A g \in b : Proper(g, sent) /\ Key[g.d] = Key[f.d]
    OBVIOUS
  <2> HIDE DEF b
  <2>5. Units(b) \in Service!Splices(sent)
    BY <2>1, <2>2, <2>3, <2>4, UnitsPromised
  <2>6. ev'.kind = "delivered" /\ ev'.buf = b
    BY <1>4 DEF b
  <2>7. Event(ev', sent')
    BY <2>5, <2>6 DEF Event
  <2> QED BY <1>4, <2>7, SlotsUntouched
<1>5. CASE IsFragment(f) /\ \E s \in mine : frag_pullup(s, frag_insert(slots[s], f), mem)
  <2>1. PICK s \in mine : frag_pullup(s, frag_insert(slots[s], f), mem)
    BY <1>5
  <2> DEFINE r == frag_insert(slots[s], f)
  <2>2. s \in InUse /\ s \in Slots /\ slots[s] \in SlotType /\ slots[s].key = Key[f.d]
    BY <1>3, <2>1 DEF InUse
  <2>3. Filled(slots[s], sent)
    BY <2>2 DEF Kept
  <2>4. r \in SlotType /\ Filled(r, sent) /\ r.key = slots[s].key /\ r.buf # {}
    BY <1>5, <2>2, <2>3, InsertedFilled
  <2>5. \A t \in InUse : slots[t].key = r.key => t = s
    BY <2>2, <2>4 DEF Kept
  <2>6. frag_pullup(s, r, mem)
    BY <2>1
  <2> HIDE DEF r
  <2>7. CASE Incomplete(r)
    <3>1. slots' = [slots EXCEPT ![s] = r] /\ ev' = Quiet /\ armed' = armed
      BY <2>6, <2>7 DEF frag_pullup, Incomplete
    <3>2. armed' = armed \cup {s}
      BY <1>3, <2>2, <3>1
    <3> QED BY <1>2, <2>2, <2>4, <2>5, <2>7, <3>1, <3>2, SlotSet
  <2>8. CASE ~Incomplete(r)
    <3>1. /\ slots' = [slots EXCEPT ![s] = Free] /\ armed' = armed \ {s}
          /\ ev' = IF ~mem THEN Quiet
                   ELSE [kind |-> IF Contiguous(r.buf) THEN "delivered" ELSE "malformed",
                         buf  |-> r.buf]
      BY <2>6, <2>8 DEF frag_pullup, Incomplete
    <3>2. Kept'
      BY <2>2, <3>1, SlotFreed
    <3>3. Event(ev', sent')
      BY <1>2, <2>4, <2>8, <3>1, CompletedEvent
    <3> QED BY <3>2, <3>3
  <2> QED BY <2>7, <2>8
<1>6. CASE IsFragment(f) /\ mine = {} /\ \E s \in Slots \ InUse : frag_open(s, f)
  <2>1. PICK s \in Slots \ InUse : frag_open(s, f)
    BY <1>6
  <2> DEFINE fr == [Free EXCEPT !.key = Key[f.d]]
             r == frag_insert(fr, f)
  <2>2. fr \in SlotType /\ Filled(fr, sent) /\ fr.key = Key[f.d]
    BY <1>1, FreeFilled
  <2> HIDE DEF fr
  <2>3. r \in SlotType /\ Filled(r, sent) /\ r.key = fr.key /\ r.buf # {}
    BY <1>6, <2>2, InsertedFilled
  <2>4. Incomplete(r)
    BY <1>1, <1>6, OpenedIncomplete DEF fr
  <2>5. slots' = [slots EXCEPT ![s] = r] /\ armed' = armed \cup {s} /\ ev' = Quiet
    BY <2>1 DEF frag_open, fr
  <2> HIDE DEF r
  <2>6. \A t \in InUse : slots[t].key = r.key => t = s
    BY <1>6, <2>2, <2>3
  <2>7. Kept'
    BY <2>3, <2>4, <2>5, <2>6, SlotSet
  <2> QED BY <1>2, <2>5, <2>7
<1>7. CASE ev' = Quiet /\ UNCHANGED <<slots, armed>>
  BY <1>2, <1>7, SlotsUntouched
<1> QED BY <1>4, <1>5, <1>6, <1>7 DEF ip_defrag

\* Nothing is sent at first, and all slots are free.
LEMMA FragInitOk == FragInit => FragIInv
<1> SUFFICES ASSUME FragInit PROVE FragIInv
  OBVIOUS
<1>1. Free \in SlotType /\ Free.buf = {}
  BY DEF Free, SlotType
<1>2. slots \in [Slots -> SlotType] /\ InUse = {}
  BY <1>1 DEF FragInit, InUse
<1>3. Event(ev, sent)
  BY DEF FragInit, Event, Quiet
<1> QED BY <1>2, <1>3 DEF FragInit, FragIInv, Kept

\* Every step keeps the invariant.
LEMMA FragStep == FragIInv /\ [FragNext]_fvars => FragIInv'
<1> SUFFICES ASSUME FragIInv, [FragNext]_fvars PROVE FragIInv'
  OBVIOUS
<1>1. sent \subseteq Dgrams /\ (\A f \in net : Proper(f, sent)) /\ Kept /\ Event(ev, sent)
  BY DEF FragIInv
<1>2. Event(Quiet, sent')
  BY DEF Event, Quiet
<1>3. ASSUME NEW d \in Dgrams, NEW n \in Fraglens, NEW k, SendFragments(d, n, k) PROVE FragIInv'
  <2>1. /\ sent' = sent \cup {d} /\ net' = net \cup ip_frag(Whole(d), n, k) /\ ev' = Quiet
        /\ UNCHANGED <<slots, armed>>
    BY <1>3 DEF SendFragments
  <2>2. \A f \in net : Proper(f, sent')
    BY <1>1, <2>1 DEF Proper
  <2>3. Proper(Whole(d), sent')
    BY <2>1, WholeProper
  <2>4. \A f \in ip_frag(Whole(d), n, k) : Proper(f, sent')
    BY <2>3, PiecesProper
  <2>5. Kept'
    BY <1>1, <2>1, SlotsUntouched
  <2> QED BY <1>1, <1>2, <2>1, <2>2, <2>4, <2>5 DEF FragIInv
<1>4. ASSUME NEW f \in net, NEW n \in Fraglens, NEW k, Forward(f, n, k) PROVE FragIInv'
  <2>1. /\ net' = (net \ {f}) \cup ip_frag(f, n, k) /\ ev' = Quiet
        /\ sent' = sent /\ UNCHANGED <<slots, armed>>
    BY <1>4 DEF Forward
  <2>2. \A g \in ip_frag(f, n, k) : Proper(g, sent)
    BY <1>1, PiecesProper
  <2>3. Kept'
    BY <1>1, <2>1, SlotsUntouched
  <2> QED BY <1>1, <1>2, <2>1, <2>2, <2>3 DEF FragIInv
<1>5. ASSUME NEW f \in net, LoseFragment(f) PROVE FragIInv'
  <2>1. net' = net \ {f} /\ ev' = Quiet /\ sent' = sent /\ UNCHANGED <<slots, armed>>
    BY <1>5 DEF LoseFragment
  <2>2. Kept'
    BY <1>1, <2>1, SlotsUntouched
  <2> QED BY <1>1, <1>2, <2>1, <2>2 DEF FragIInv
<1>6. ASSUME NEW f \in net, NEW again \in BOOLEAN, NEW mem \in BOOLEAN, ReceiveFragment(f, again, mem)
      PROVE  FragIInv'
  <2>1. net' \subseteq net /\ sent' = sent /\ ip_defrag(f, mem)
    BY <1>6 DEF ReceiveFragment
  <2>2. Kept' /\ Event(ev', sent')
    BY <1>1, <2>1, DefragKept
  <2> QED BY <1>1, <2>1, <2>2 DEF FragIInv
<1>7. ASSUME NEW s \in Slots, NEW queued \in BOOLEAN, frag_timeout(s, queued) PROVE FragIInv'
  <2> DEFINE buf == slots[s].buf
  <2>1. /\ slots' = [slots EXCEPT ![s] = Free] /\ armed' = armed \ {s} /\ sent' = sent /\ net' = net
        /\ ev' = IF queued /\ \E f, g \in buf : f.off = 0 /\ g # f
                 THEN [kind |-> "lost", buf |-> buf] ELSE Quiet
    BY <1>7 DEF frag_timeout
  <2>2. Kept'
    BY <1>1, <2>1, SlotFreed
  <2>3. Event(ev', sent')
    BY <1>2, <2>1 DEF Event
  <2> QED BY <1>1, <2>1, <2>2, <2>3 DEF FragIInv
<1>8. CASE UNCHANGED fvars
  <2>1. UNCHANGED <<sent, net, slots, armed, ev>>
    BY <1>8 DEF fvars
  <2>2. Kept'
    BY <1>1, <2>1, SlotsUntouched
  <2> QED BY <1>1, <2>1, <2>2 DEF FragIInv
<1> QED BY <1>3, <1>4, <1>5, <1>6, <1>7, <1>8 DEF FragNext

\* The invariant of IpFrag: fragments are cut as ip_frag cuts, and the slots of
\* ip_defrag count what they hold.
THEOREM FragInvariant == FragSpec => []FragIInv
BY FragInitOk, FragStep, PTL DEF FragSpec

\* The invariant is strong enough.
LEMMA SlotsAsPromised == FragIInv => SlotInv
<1> SUFFICES ASSUME FragIInv PROVE SlotInv
  OBVIOUS
<1>1. Kept /\ Event(ev, sent)
  BY DEF FragIInv
<1>2. SlotsExact
  <2>1. armed = InUse /\ \A s, t \in InUse : slots[s].key = slots[t].key => s = t
    BY <1>1 DEF Kept
  <2>2. \A s \in InUse : Filled(slots[s], sent)
    BY <1>1 DEF Kept
  <2> QED BY <2>1, <2>2 DEF SlotsExact, Filled
<1>3. NoCompleteStuck
  <2>1. ASSUME NEW s \in InUse
        PROVE  ~(/\ Contiguous(slots[s].buf)
                 /\ \E f \in slots[s].buf : ~f.mf /\ \A g \in slots[s].buf : g.off <= f.off)
    <3>1. slots[s] \in SlotType /\ Filled(slots[s], sent) /\ Incomplete(slots[s])
      BY <1>1 DEF Kept, InUse
    <3> QED BY <3>1, NoneStuck
  <2> QED BY <2>1 DEF NoCompleteStuck
<1>4. LossExplained
  BY <1>1 DEF Event, LossExplained
<1> QED BY <1>2, <1>3, <1>4 DEF SlotInv

\* The slots of the reassembly: each is what has come of one identification, each is
\* incomplete and has its timer, and buffers are lost in two known ways only
\* (ip_defrag, frag_insert, frag_pullup, frag_timeout).
THEOREM SlotInvariant == FragSpec => []SlotInv
BY FragInvariant, SlotsAsPromised, PTL

\* Cutting, reassembly and its timer do what IpService promises: what is delivered is
\* complete, has every unit at its place, and is of one identification.
THEOREM PromiseRefinement == FragSpec => IpPromise
<1> DEFINE got == IF ev.kind = "delivered" THEN Units(ev.buf) ELSE Nothing
<1>1. FragInit => Service!Init
  BY DEF FragInit, Service!Init, Quiet
<1>2. FragIInv' /\ [FragNext]_fvars => [Service!Send \/ Service!Deliver]_<<sent, got>>
  <2> SUFFICES ASSUME FragIInv', [FragNext]_fvars
               PROVE  Service!Send \/ Service!Deliver \/ UNCHANGED <<sent, got>>
    OBVIOUS
  <2>1. got' = IF ev'.kind = "delivered" THEN Units(ev'.buf) ELSE Nothing
    BY DEF Units, End
  <2>2. ASSUME NEW d \in Dgrams, sent' = sent \cup {d}, ev' = Quiet PROVE Service!Send
    <3>1. got' = Nothing
      BY <2>1, <2>2 DEF Quiet
    <3> QED BY <2>2, <3>1 DEF Service!Send
  <2>3. ASSUME sent' = sent PROVE Service!Deliver
    <3>1. Event(ev', sent)
      BY <2>3 DEF FragIInv
    <3>2. got' \in {Nothing} \cup Service!Splices(sent)
      BY <2>1, <3>1 DEF Event
    <3> QED BY <2>3, <3>2 DEF Service!Deliver
  <2>4. CASE FragNext
    <3>1. ASSUME NEW d \in Dgrams, NEW n, NEW k, SendFragments(d, n, k) PROVE Service!Send
      BY <2>2, <3>1 DEF SendFragments
    <3>2. (\E d \in Dgrams : \E n, k : SendFragments(d, n, k)) \/ sent' = sent
      BY <2>4 DEF FragNext, Forward, LoseFragment, ReceiveFragment, frag_timeout
    <3> QED BY <2>3, <3>1, <3>2
  <2>5. CASE UNCHANGED fvars
    BY <2>3, <2>5 DEF fvars
  <2> QED BY <2>4, <2>5
<1> QED BY <1>1, <1>2, FragInvariant, PTL DEF FragSpec, IpPromise, Service!Spec
=============================================================================
