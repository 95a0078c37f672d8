---------------------------- MODULE TcpOutProofs ----------------------------
(***************************************************************************)
(* Proofs about TcpOut, for every length of the data, segment, window and  *)
(* buffer and every number of retries.                                     *)
(*                                                                         *)
(* SendInv is not inductive: that nothing is sent beyond the window takes  *)
(* that no answer on its way offers more than the peer's buffer, and that  *)
(* the timer is right takes that FIN is only ever in the last segment and  *)
(* that una moves with the queue.  The invariant Full of a control block   *)
(* adds this.  Core is the part of it that holds at any point of a         *)
(* handler; the rest is disturbed and restored on the way.  There is one   *)
(* lemma for every helper of the output side, and for each event of        *)
(* TCB_OSTATE one that leads from Core to Full.                            *)
(***************************************************************************)
EXTENDS TcpOut, SequenceTheorems, WellFoundedInduction, TLAPS

(***************************************************************************)
(* Least and greatest elements                                             *)
(***************************************************************************)
LEMMA MinIs ==
    ASSUME NEW S, S \subseteq Nat, S # {}
    PROVE  Min(S) \in S /\ \A y \in S : Min(S) <= y
<1>1. PICK x \in S : \A y \in S : ~(<<y, x>> \in OpToRel(<, Nat))
  BY NatLessThanWellFounded, WFMin
<1>2. \A y \in S : ~(y < x)
  BY <1>1 DEF OpToRel
<1>3. \A y \in S : x <= y
  BY <1>2
<1> QED BY <1>3 DEF Min

LEMMA MaxIs ==
    ASSUME NEW n \in Nat, NEW S, S \subseteq 0 .. n, S # {}
    PROVE  Max(S) \in S /\ \A y \in S : y <= Max(S)
<1> DEFINE T == {n - x : x \in S}
<1>1. T \subseteq Nat /\ T # {}
  <2>1. \A x \in S : n - x \in Nat
    OBVIOUS
  <2> QED BY <2>1
<1>2. Min(T) \in T /\ \A y \in T : Min(T) <= y
  BY <1>1, MinIs
<1>3. PICK x \in S : Min(T) = n - x
  BY <1>2
<1>4. \A y \in S : y <= x
  BY <1>2, <1>3
<1> QED BY <1>4 DEF Max

LEMMA MaxOfTwo ==
    ASSUME NEW x \in Int, NEW y \in Int
    PROVE  Max({x, y}) = IF x >= y THEN x ELSE y
<1>1. \E m \in {x, y} : \A k \in {x, y} : m >= k
  OBVIOUS
<1>2. Max({x, y}) \in {x, y} /\ \A k \in {x, y} : Max({x, y}) >= k
  BY <1>1 DEF Max
<1> QED BY <1>2

LEMMA MinOfTwo ==
    ASSUME NEW x \in Int, NEW y \in Int
    PROVE  Min({x, y}) = IF x <= y THEN x ELSE y
<1>1. \E m \in {x, y} : \A k \in {x, y} : m <= k
  OBVIOUS
<1>2. Min({x, y}) \in {x, y} /\ \A k \in {x, y} : Min({x, y}) <= k
  BY <1>1 DEF Min
<1> QED BY <1>2

(***************************************************************************)
(* The inductive invariant, of a control block t and the peer p.  The      *)
(* parts of Core hold at any point of a handler.                           *)
(***************************************************************************)
Segments == [a : Nat, e : Nat, fin : BOOLEAN, room : BOOLEAN]

Tcbs ==
    [state : {"ESTABLISHED", "CLOSEWAIT", "FINWAIT1", "LASTACK", "CLOSED"},
     ostate : {"IDLE", "XMIT", "RETRANS", "PERSIST"},
     timer : BOOLEAN, q : Seq(Segments), una : Nat, nxt : Nat, max : Nat, write : Nat,
     wnd : 0 .. Window, wndack : Nat, wndmax : 0 .. Window, nretrans : 0 .. MaxRetry,
     silent : 0 .. MaxSilent, asleep : BOOLEAN, out : SUBSET (Nat \X Nat),
     nomem : BOOLEAN, fatal : BOOLEAN]

\* The segments are in order and without a gap; FIN is in the last one.
Chain(q) ==
    /\ q \in Seq(Segments)
    /\ \A k \in 1 .. Len(q) : q[k].a < q[k].e /\ DataLen(q[k]) <= Mss
    /\ \A k \in 1 .. Len(q) - 1 : q[k].e = q[k + 1].a /\ ~q[k].fin
    /\ \A j, k \in 1 .. Len(q) : j < k => q[j].e <= q[k].a

\* They hold what is not acknowledged,
Covers(t) ==
    /\ t.q = <<>> /\ t.state # "CLOSED" => t.una = t.write
    /\ t.q # <<>> => t.q[1].a <= t.una /\ LastOf(t.q).e = t.write

\* ... and after tcp_dropdata nothing else.
Fresh(t) == t.q # <<>> => t.una < t.q[1].e

Order(t) ==
    /\ t.wndack <= t.una /\ t.una <= t.max /\ t.nxt <= t.max /\ t.max <= t.write
    /\ t.write <= MaxData + 1
    /\ Connected(t) => t.write <= MaxData /\ \A k \in 1 .. Len(t.q) : ~t.q[k].fin

\* What the peer has received and what it has offered
Offered(t, p) ==
    /\ p.nxt <= t.max
    /\ t.wndack + t.wnd <= p.read + Window
    /\ ~t.nomem => t.max <= p.read + Window
    /\ \A r \in t.out : r[2] <= t.max

Core(t, p) == t \in Tcbs /\ Chain(t.q) /\ Covers(t) /\ Order(t) /\ Offered(t, p)

Phase(t) ==
    /\ t.state # "CLOSED" => (t.ostate = "IDLE" <=> t.una = t.write)
    /\ t.state = "CLOSED" => t.ostate = "IDLE"

Armed(t) == t.timer <=> t.ostate # "IDLE"

Asleep(t) == t.asleep => Connected(t) /\ CanWrite(t) = 0

Full(t, p) == Core(t, p) /\ Fresh(t) /\ Phase(t) /\ Armed(t) /\ Asleep(t)

Peer(p) ==
    /\ p \in [nxt : Nat, read : Nat]
    /\ p.read <= p.nxt /\ p.nxt <= p.read + Window

AnswerOK(m, p) ==
    /\ m \in [ack : Nat, wnd : 0 .. Window, old : BOOLEAN]
    /\ m.ack <= p.nxt /\ m.ack + m.wnd <= p.read + Window

Answers(A, p) == \A m \in A : AnswerOK(m, p)

IInv ==
    /\ Full(s, peer) /\ s.out = {}
    /\ Peer(peer) /\ Answers(acks, peer)
    /\ fatal \in BOOLEAN

(***************************************************************************)
(* Fields                                                                  *)
(***************************************************************************)
States == {"ESTABLISHED", "CLOSEWAIT", "FINWAIT1", "LASTACK", "CLOSED"}
OutStates == {"IDLE", "XMIT", "RETRANS", "PERSIST"}

\* The parts of t that Core speaks of are those of u.
Alike(t, u) ==
    /\ u \in Tcbs
    /\ u.state = t.state /\ u.q = t.q /\ u.una = t.una /\ u.nxt = t.nxt
    /\ u.max = t.max /\ u.write = t.write /\ u.wnd = t.wnd /\ u.wndack = t.wndack
    /\ u.out = t.out /\ (u.nomem <=> t.nomem)

SetPhase(t, o, b) == [t EXCEPT !.ostate = o, !.timer = b]
SetState(t, o) == [t EXCEPT !.ostate = o]
SetTimer(t, b) == [t EXCEPT !.timer = b]
SetUna(t, n) == [t EXCEPT !.una = n]

LEMMA SetPhaseIs ==
    ASSUME NEW t \in Tcbs, NEW o \in OutStates, NEW b \in BOOLEAN
    PROVE  /\ Alike(t, SetPhase(t, o, b))
           /\ SetPhase(t, o, b).ostate = o
           /\ SetPhase(t, o, b).timer <=> b
           /\ SetPhase(t, o, b).asleep <=> t.asleep
BY ZenonT(40) DEF Alike, Tcbs, SetPhase, OutStates

LEMMA SetStateIs ==
    ASSUME NEW t \in Tcbs, NEW o \in OutStates
    PROVE  /\ Alike(t, SetState(t, o))
           /\ SetState(t, o).ostate = o
           /\ SetState(t, o).timer <=> t.timer
           /\ SetState(t, o).asleep <=> t.asleep
BY ZenonT(40) DEF Alike, Tcbs, SetState, OutStates

LEMMA SetTimerIs ==
    ASSUME NEW t \in Tcbs, NEW b \in BOOLEAN
    PROVE  /\ Alike(t, SetTimer(t, b))
           /\ SetTimer(t, b).ostate = t.ostate
           /\ SetTimer(t, b).timer <=> b
           /\ SetTimer(t, b).asleep <=> t.asleep
BY DEF Alike, Tcbs, SetTimer

LEMMA AlikeCore ==
    ASSUME NEW t, NEW u, NEW p, Core(t, p), Alike(t, u)
    PROVE  Core(u, p)
<1>1. t \in Tcbs /\ u \in Tcbs /\ Chain(t.q) /\ Covers(t) /\ Order(t) /\ Offered(t, p)
  BY DEF Core, Alike
<1>2. /\ u.state = t.state /\ u.q = t.q /\ u.una = t.una /\ u.nxt = t.nxt
      /\ u.max = t.max /\ u.write = t.write /\ u.wnd = t.wnd /\ u.wndack = t.wndack
      /\ u.out = t.out /\ (u.nomem <=> t.nomem)
  BY DEF Alike
<1>3. Chain(u.q)
  BY <1>1, <1>2
<1>4. Covers(u)
  BY <1>1, <1>2 DEF Covers
<1>5. Order(u)
  BY <1>1, <1>2 DEF Order, Connected
<1>6. Offered(u, p)
  BY <1>1, <1>2 DEF Offered
<1> QED BY <1>1, <1>3, <1>4, <1>5, <1>6 DEF Core

LEMMA AlikeRest ==
    ASSUME NEW t \in Tcbs, NEW u, Alike(t, u)
    PROVE  /\ Fresh(t) => Fresh(u)
           /\ CanWrite(u) = CanWrite(t)
           /\ Connected(u) <=> Connected(t)
BY DEF Alike, Fresh, CanWrite, Connected

\* t and u differ in what SndHead and Resend change: u has sent more.
SameQueue(q, r) ==
    /\ r \in Seq(Segments) /\ Len(r) = Len(q)
    /\ \A k \in 1 .. Len(q) : r[k].a = q[k].a /\ r[k].e = q[k].e /\ (r[k].fin <=> q[k].fin)

Kept(t, u) ==
    /\ u \in Tcbs /\ SameQueue(t.q, u.q)
    /\ u.state = t.state /\ u.ostate = t.ostate /\ (u.timer <=> t.timer)
    /\ u.una = t.una /\ u.write = t.write /\ u.wnd = t.wnd /\ u.wndack = t.wndack
    /\ (u.asleep <=> t.asleep)

LEMMA SameDataLen ==
    ASSUME NEW g \in Segments, NEW h \in Segments, g.a = h.a, g.e = h.e, g.fin <=> h.fin
    PROVE  DataLen(g) = DataLen(h)
BY DEF DataLen, Segments

LEMMA SameQueueIs ==
    ASSUME NEW q, NEW r, q \in Seq(Segments), SameQueue(q, r)
    PROVE  /\ r = <<>> <=> q = <<>>
           /\ QueueLen(r) = QueueLen(q)
           /\ Chain(q) => Chain(r)
           /\ q # <<>> => r[1].a = q[1].a /\ r[1].e = q[1].e /\ LastOf(r).e = LastOf(q).e
<1>1. Len(q) \in Nat /\ r \in Seq(Segments) /\ Len(r) = Len(q)
  BY DEF SameQueue
<1>2. \A k \in 1 .. Len(q) : /\ q[k] \in Segments /\ r[k] \in Segments
                             /\ r[k].a = q[k].a /\ r[k].e = q[k].e /\ (r[k].fin <=> q[k].fin)
  BY <1>1 DEF SameQueue
<1>3. r = <<>> <=> q = <<>>
  BY <1>1
<1>4. ASSUME q # <<>>
      PROVE  /\ r[1].a = q[1].a /\ r[1].e = q[1].e
             /\ LastOf(r).e = LastOf(q).e /\ (LastOf(r).fin <=> LastOf(q).fin)
  <2>1. 1 \in 1 .. Len(q) /\ Len(q) \in 1 .. Len(q)
    BY <1>1, <1>4
  <2> QED BY <1>1, <1>2, <2>1 DEF LastOf
<1>5. QueueLen(r) = QueueLen(q)
  <2>1. CASE q = <<>>
    BY <1>3, <2>1 DEF QueueLen
  <2>2. CASE q # <<>>
    BY <1>3, <1>4, <2>2 DEF QueueLen
  <2> QED BY <2>1, <2>2
<1>6. ASSUME Chain(q) PROVE Chain(r)
  <2>1. \A k \in 1 .. Len(r) : r[k].a < r[k].e /\ DataLen(r[k]) <= Mss
    <3>1. \A k \in 1 .. Len(q) : DataLen(r[k]) = DataLen(q[k])
      BY <1>2, SameDataLen
    <3> QED BY <1>1, <1>2, <1>6, <3>1 DEF Chain
  <2>2. \A k \in 1 .. Len(r) - 1 : r[k].e = r[k + 1].a /\ ~r[k].fin
    <3>1. ASSUME NEW k \in 1 .. Len(r) - 1
          PROVE  r[k].e = r[k + 1].a /\ ~r[k].fin
      <4>1. k \in 1 .. Len(q) /\ k + 1 \in 1 .. Len(q)
        BY <1>1
      <4>2. q[k].e = q[k + 1].a /\ ~q[k].fin
        BY <1>1, <1>6 DEF Chain
      <4> QED BY <1>2, <4>1, <4>2
    <3> QED BY <3>1
  <2>3. \A j, k \in 1 .. Len(r) : j < k => r[j].e <= r[k].a
    BY <1>1, <1>2, <1>6 DEF Chain
  <2> QED BY <1>1, <2>1, <2>2, <2>3 DEF Chain
<1> QED BY <1>3, <1>4, <1>5, <1>6

LEMMA KeptCore ==
    ASSUME NEW t, NEW u, NEW p, Core(t, p), Kept(t, u),
           u.nxt <= u.max, t.max <= u.max, u.max <= u.write, Offered(u, p)
    PROVE  Core(u, p)
<1>1. t \in Tcbs /\ t.q \in Seq(Segments) /\ Chain(t.q) /\ Covers(t) /\ Order(t)
  BY DEF Core, Chain
<1>2. SameQueue(t.q, u.q) /\ u \in Tcbs /\ u.state = t.state /\ u.una = t.una /\ u.write = t.write
      /\ u.wnd = t.wnd /\ u.wndack = t.wndack
  BY DEF Kept
<1>3. Chain(u.q) /\ (u.q = <<>> <=> t.q = <<>>)
      /\ (t.q # <<>> => u.q[1].a = t.q[1].a /\ LastOf(u.q).e = LastOf(t.q).e)
  BY <1>1, <1>2, SameQueueIs
<1>4. Covers(u)
  BY <1>1, <1>2, <1>3 DEF Covers
<1>5. Order(u)
  <2>1. Connected(u) => \A k \in 1 .. Len(u.q) : ~u.q[k].fin
    BY <1>1, <1>2 DEF Order, Connected, SameQueue
  <2>2. t.una \in Nat /\ t.max \in Nat /\ u.max \in Nat
    BY <1>1, <1>2 DEF Tcbs
  <2> QED BY <1>1, <1>2, <2>1, <2>2 DEF Order, Connected
<1> QED BY <1>2, <1>3, <1>4, <1>5 DEF Core

LEMMA KeptRest ==
    ASSUME NEW t \in Tcbs, NEW u, Kept(t, u)
    PROVE  /\ Fresh(t) => Fresh(u)
           /\ Phase(t) => Phase(u)
           /\ Armed(t) => Armed(u)
           /\ Asleep(t) => Asleep(u)
<1>1. t.q \in Seq(Segments) /\ SameQueue(t.q, u.q)
  BY DEF Tcbs, Kept
<1>2. (u.q = <<>> <=> t.q = <<>>) /\ QueueLen(u.q) = QueueLen(t.q)
      /\ (t.q # <<>> => u.q[1].e = t.q[1].e)
  BY <1>1, SameQueueIs
<1>3. /\ u.state = t.state /\ u.ostate = t.ostate /\ (u.timer <=> t.timer)
      /\ u.una = t.una /\ u.write = t.write /\ (u.asleep <=> t.asleep)
  BY DEF Kept
<1>4. CanWrite(u) = CanWrite(t) /\ (Connected(u) <=> Connected(t))
  BY <1>2, <1>3 DEF CanWrite, Connected
<1> QED BY <1>2, <1>3, <1>4 DEF Fresh, Phase, Armed, Asleep

\* The segments of K are not full-sized for Nagle any more.
Stamp(q, K) ==
    [k \in 1 .. Len(q) |-> IF k \in K THEN [q[k] EXCEPT !.room = TRUE] ELSE q[k]]

LEMMA StampIs ==
    ASSUME NEW q \in Seq(Segments), NEW K
    PROVE  SameQueue(q, Stamp(q, K))
<1> DEFINE r == Stamp(q, K)
<1>1. Len(q) \in Nat /\ DOMAIN r = 1 .. Len(q)
  BY DEF Stamp
<1>2. ASSUME NEW k \in 1 .. Len(q)
      PROVE  /\ r[k] \in Segments /\ r[k].a = q[k].a /\ r[k].e = q[k].e /\ (r[k].fin <=> q[k].fin)
  <2>1. q[k] \in Segments
    OBVIOUS
  <2>2. r[k] = IF k \in K THEN [q[k] EXCEPT !.room = TRUE] ELSE q[k]
    BY DEF Stamp
  <2> HIDE DEF r
  <2> QED BY <2>1, <2>2 DEF Segments
<1>3. r \in [1 .. Len(q) -> Segments]
  BY <1>1, <1>2 DEF Stamp
<1>4. r \in Seq(Segments) /\ Len(r) = Len(q)
  BY <1>1, <1>3
<1> QED BY <1>2, <1>4 DEF SameQueue

\* What SndHead makes of t
Sent(t, n, m, f, q) == [t EXCEPT !.nxt = n, !.max = m, !.fatal = @ \/ f, !.q = q]
Unsent(t, n, m, q) == [t EXCEPT !.nxt = n, !.max = m, !.nomem = TRUE, !.q = q]
Failed(t) == [t EXCEPT !.fatal = TRUE]

\* Emit
Emits(t, u, x, y) ==
    /\ Kept(t, u) /\ u.q = t.q /\ u.nxt = t.nxt /\ u.max = t.max
    /\ u.out = t.out \cup {<<x, y>>} /\ (u.nomem <=> t.nomem)

LEMMA EmitIs ==
    ASSUME NEW t \in Tcbs, NEW x \in Nat, NEW y \in Nat
    PROVE  Emits(t, Emit(t, x, y), x, y)
<1> DEFINE u == Emit(t, x, y)
           o == t.out \cup {<<x, y>>}
<1>1. u \in Tcbs
  <2>1. o \in SUBSET (Nat \X Nat)
    BY DEF Tcbs
  <2>2. u = [t EXCEPT !.out = o]
    BY DEF Emit
  <2> HIDE DEF u, o
  <2> QED BY <2>1, <2>2 DEF Tcbs
<1>2. /\ u.q = t.q /\ u.nxt = t.nxt /\ u.max = t.max
      /\ u.out = t.out \cup {<<x, y>>} /\ (u.nomem <=> t.nomem)
  BY DEF Tcbs, Emit
<1>3. /\ u.state = t.state /\ u.ostate = t.ostate /\ (u.timer <=> t.timer)
      /\ u.una = t.una /\ u.write = t.write /\ u.wnd = t.wnd /\ u.wndack = t.wndack
      /\ (u.asleep <=> t.asleep)
  BY DEF Tcbs, Emit
<1>4. SameQueue(t.q, u.q)
  BY <1>2 DEF Tcbs, SameQueue
<1> QED BY <1>1, <1>2, <1>3, <1>4 DEF Kept, Emits

LEMMA SentIs ==
    ASSUME NEW t \in Tcbs, NEW n \in Nat, NEW m \in Nat, NEW f \in BOOLEAN, NEW q, SameQueue(t.q, q)
    PROVE  /\ Kept(t, Sent(t, n, m, f, q))
           /\ Sent(t, n, m, f, q).nxt = n /\ Sent(t, n, m, f, q).max = m
           /\ Sent(t, n, m, f, q).out = t.out
           /\ Sent(t, n, m, f, q).nomem <=> t.nomem
<1>1. q \in Seq(Segments)
  BY DEF SameQueue
<1> DEFINE u == Sent(t, n, m, f, q)
<1>2. u \in Tcbs
  BY <1>1 DEF Tcbs, Sent
<1>3. u.q = q /\ u.nxt = n /\ u.max = m /\ u.out = t.out /\ (u.nomem <=> t.nomem)
  BY DEF Tcbs, Sent
<1>4. /\ u.state = t.state /\ u.ostate = t.ostate /\ (u.timer <=> t.timer)
      /\ u.una = t.una /\ u.write = t.write /\ u.wnd = t.wnd /\ u.wndack = t.wndack
      /\ (u.asleep <=> t.asleep)
  BY DEF Tcbs, Sent
<1> QED BY <1>2, <1>3, <1>4 DEF Kept

LEMMA UnsentIs ==
    ASSUME NEW t \in Tcbs, NEW n \in Nat, NEW m \in Nat, NEW q, SameQueue(t.q, q)
    PROVE  /\ Kept(t, Unsent(t, n, m, q))
           /\ Unsent(t, n, m, q).nxt = n /\ Unsent(t, n, m, q).max = m
           /\ Unsent(t, n, m, q).out = t.out
           /\ Unsent(t, n, m, q).nomem
<1>1. q \in Seq(Segments)
  BY DEF SameQueue
<1> DEFINE u == Unsent(t, n, m, q)
<1>2. u \in Tcbs
  BY <1>1 DEF Tcbs, Unsent
<1>3. u.q = q /\ u.nxt = n /\ u.max = m /\ u.out = t.out /\ u.nomem
  BY DEF Tcbs, Unsent
<1>4. /\ u.state = t.state /\ u.ostate = t.ostate /\ (u.timer <=> t.timer)
      /\ u.una = t.una /\ u.write = t.write /\ u.wnd = t.wnd /\ u.wndack = t.wndack
      /\ (u.asleep <=> t.asleep)
  BY DEF Tcbs, Unsent
<1> QED BY <1>2, <1>3, <1>4 DEF Kept

LEMMA FailedIs ==
    ASSUME NEW t \in Tcbs
    PROVE  /\ Kept(t, Failed(t)) /\ Alike(t, Failed(t))
BY DEF Tcbs, Failed, Kept, Alike, SameQueue
LEMMA KeptRefl ==
    ASSUME NEW t \in Tcbs PROVE Kept(t, t)
BY DEF Kept, Tcbs, SameQueue

LEMMA KeptTrans ==
    ASSUME NEW t, NEW u, NEW v, Kept(t, u), Kept(u, v)
    PROVE  Kept(t, v)
BY DEF Kept, SameQueue

LEMMA ElementIs ==
    ASSUME NEW t, NEW p, Core(t, p), NEW k \in 1 .. Len(t.q)
    PROVE  /\ t.q[k] \in Segments /\ t.q[k].a \in Nat /\ t.q[k].e \in Nat
           /\ t.q[k].a < t.q[k].e /\ t.q[k].e <= t.write
<1>1. /\ t.q \in Seq(Segments) /\ t.q # <<>> /\ Len(t.q) \in 1 .. Len(t.q)
      /\ t.write \in Nat /\ LastOf(t.q).e = t.write
  BY DEF Core, Covers, Tcbs
<1>2. /\ t.q[k] \in Segments /\ t.q[Len(t.q)] \in Segments
  BY <1>1
<1>3. /\ t.q[k].a \in Nat /\ t.q[k].e \in Nat /\ t.q[Len(t.q)].a \in Nat /\ t.q[Len(t.q)].e \in Nat
  BY <1>2 DEF Segments
<1>4. t.q[k].a < t.q[k].e /\ t.q[Len(t.q)].a < t.q[Len(t.q)].e
  BY <1>1 DEF Core, Chain
<1>5. t.q[k].e <= t.write
  <2>1. CASE k = Len(t.q)
    BY <1>1, <1>3, <2>1 DEF LastOf
  <2>2. CASE k # Len(t.q)
    <3>1. k < Len(t.q)
      BY <1>1, <2>2
    <3>2. t.q[k].e <= t.q[Len(t.q)].a
      BY <1>1, <3>1 DEF Core, Chain
    <3> QED BY <1>1, <1>3, <1>4, <3>2 DEF LastOf
  <2> QED BY <2>1, <2>2
<1> QED BY <1>2, <1>3, <1>4, <1>5

LEMMA CoreNumbers ==
    ASSUME NEW t, NEW p, Core(t, p)
    PROVE  /\ t \in Tcbs /\ t.q \in Seq(Segments) /\ Len(t.q) \in Nat
           /\ t.una \in Nat /\ t.nxt \in Nat /\ t.max \in Nat /\ t.write \in Nat
           /\ t.wnd \in Nat /\ t.wndack \in Nat /\ t.wnd <= Window
           /\ t.wndack <= t.una /\ t.una <= t.max /\ t.nxt <= t.max /\ t.max <= t.write
<1>1. t \in Tcbs /\ Order(t)
  BY DEF Core
<1>2. t.una \in Nat /\ t.nxt \in Nat /\ t.max \in Nat /\ t.write \in Nat /\ t.wndack \in Nat
      /\ t.q \in Seq(Segments) /\ t.wnd \in 0 .. Window
  BY <1>1 DEF Tcbs
<1>3. t.wnd \in Nat /\ t.wnd <= Window
  BY <1>2, OutAssumption
<1>4. t.wndack <= t.una /\ t.una <= t.max /\ t.nxt <= t.max /\ t.max <= t.write
  BY <1>1 DEF Order
<1>5. Len(t.q) \in Nat
  BY <1>2
<1> QED BY ZenonT(40), <1>1, <1>2, <1>3, <1>4, <1>5

\* A step that only sends octets up to to: in order and, unless memory was
\* short, within the window.
LEMMA SentCore ==
    ASSUME NEW t, NEW p, Core(t, p), Peer(p),
           NEW x \in Nat, NEW y \in Nat, NEW n \in Nat, NEW m \in Nat, NEW f \in BOOLEAN,
           NEW q, SameQueue(t.q, q),
           y <= m, n <= m, t.max <= m, m <= t.write,
           m = t.max \/ m <= t.wndack + t.wnd
    PROVE  /\ Core(Sent(Emit(t, x, y), n, m, f, q), p)
           /\ Kept(t, Sent(Emit(t, x, y), n, m, f, q))
<1> DEFINE u == Emit(t, x, y)
           v == Sent(u, n, m, f, q)
<1>1. t \in Tcbs /\ t.max \in Nat /\ t.wndack \in Nat /\ t.wnd \in Nat
  BY CoreNumbers
<1>2. u \in Tcbs /\ Kept(t, u) /\ u.q = t.q /\ u.out = t.out \cup {<<x, y>>} /\ (u.nomem <=> t.nomem)
  <2>1. Emits(t, u, x, y)
    BY <1>1, EmitIs
  <2> HIDE DEF u
  <2> QED BY <2>1 DEF Emits, Kept
<1>3. Kept(u, v) /\ v.nxt = n /\ v.max = m /\ v.out = u.out /\ (v.nomem <=> u.nomem)
  BY <1>2, SentIs
<1>4. Kept(t, v)
  BY <1>2, <1>3, KeptTrans
<1>5. v.wnd = t.wnd /\ v.wndack = t.wndack /\ v.write = t.write
  BY <1>4 DEF Kept
<1>6. Offered(v, p)
  <2>1. Offered(t, p) /\ p.nxt \in Nat /\ p.read \in Nat
    BY DEF Core, Peer
  <2>2. p.nxt <= v.max
    BY <1>1, <1>3, <2>1 DEF Offered
  <2>3. v.wndack + v.wnd <= p.read + Window
    BY <1>5, <2>1 DEF Offered
  <2>4. ~v.nomem => v.max <= p.read + Window
    BY <1>1, <1>2, <1>3, <2>1, OutAssumption DEF Offered
  <2>5. ASSUME NEW r \in v.out PROVE r[2] <= v.max
    <3>1. CASE r \in t.out
      <4>1. r[2] <= t.max /\ r[2] \in Nat
        BY <1>1, <2>1, <3>1 DEF Offered, Tcbs
      <4> QED BY <1>1, <1>3, <4>1
    <3>2. CASE r = <<x, y>>
      BY <1>3, <3>2
    <3> QED BY <1>2, <1>3, <2>5, <3>1, <3>2
  <2> QED BY <2>2, <2>3, <2>4, <2>5 DEF Offered
<1>7. Core(v, p)
  BY <1>3, <1>4, <1>5, <1>6, KeptCore
<1> QED BY <1>4, <1>7
\* A segment for which there is no memory is taken for sent.
LEMMA UnsentCore ==
    ASSUME NEW t, NEW p, Core(t, p), Peer(p), NEW n \in Nat, NEW m \in Nat, NEW q, SameQueue(t.q, q),
           n <= m, t.max <= m, m <= t.write
    PROVE  Core(Unsent(t, n, m, q), p) /\ Kept(t, Unsent(t, n, m, q))
<1> DEFINE v == Unsent(t, n, m, q)
<1>1. t \in Tcbs /\ t.max \in Nat
  BY CoreNumbers
<1>2. Kept(t, v) /\ v.nxt = n /\ v.max = m /\ v.out = t.out /\ v.nomem
  BY <1>1, UnsentIs
<1> HIDE DEF v
<1>3. v.wnd = t.wnd /\ v.wndack = t.wndack /\ v.write = t.write
  BY <1>2 DEF Kept
<1>4. Offered(t, p) /\ p.nxt \in Nat
  BY DEF Core, Peer
<1>5. \A r \in v.out : r[2] <= v.max
  <2>1. ASSUME NEW r \in v.out PROVE r[2] <= v.max
    <3>1. r[2] <= t.max /\ r[2] \in Nat
      BY <1>1, <1>2, <1>4 DEF Offered, Tcbs
    <3> QED BY <1>1, <1>2, <3>1
  <2> QED BY <2>1
<1>6. Offered(v, p)
  BY <1>1, <1>2, <1>3, <1>4, <1>5 DEF Offered
<1>7. Core(v, p)
  BY <1>2, <1>3, <1>6, KeptCore
<1> QED BY <1>2, <1>7 DEF v

\* What tcp_sndhead takes for sent is written and, unless memory was short, in
\* the window.
LEMMA SndHeadCore ==
    ASSUME NEW t, NEW p, Core(t, p), Peer(p), NEW c \in Nat, NEW ok \in BOOLEAN
    PROVE  Core(SndHead(t, c, ok), p) /\ Kept(t, SndHead(t, c, ok))
<1> DEFINE last   == LastOf(t.q)
           nagle  == last.room /\ (t.una < t.nxt \/ Len(t.q) > 1)
           r      == IF nagle THEN Min({last.a - t.wndack, c}) ELSE c
           wndnxt == t.wndack + Min({t.wnd, r})
           todo   == {k \in 1 .. Len(t.q) : t.nxt < t.q[k].e}
           ends   == {t.q[k].e : k \in {j \in todo : t.q[j].e <= wndnxt}} \cup {t.nxt}
           base   == Max(ends)
           rest   == {k \in todo : base < t.q[k].e}
           part   == rest # {} /\ base < wndnxt /\ 2 * (wndnxt - base) > t.wndmax
           bad    == part /\ t.q[Min(rest)].a >= wndnxt
           to     == IF part /\ ~bad THEN wndnxt ELSE base
           lost   == t.q[Min(todo)].e
           now    == {k \in todo : t.q[k].a < to}
           w      == SndHead(t, c, ok)
<1>1. /\ t \in Tcbs /\ t.q \in Seq(Segments) /\ Len(t.q) \in Nat
      /\ t.una \in Nat /\ t.nxt \in Nat /\ t.max \in Nat /\ t.write \in Nat
      /\ t.wnd \in Nat /\ t.wndack \in Nat /\ t.nxt <= t.max /\ t.max <= t.write
  BY CoreNumbers
<1>2. \A k \in 1 .. Len(t.q) : t.q[k].a \in Nat /\ t.q[k].e \in Nat /\ t.q[k].e <= t.write
  BY ElementIs
<1> DEFINE sent   == [Emit(t, t.nxt, to) EXCEPT !.nxt = to, !.max = Max({t.max, to}), !.fatal = @ \/ bad,
                        !.q = [k \in 1 .. Len(t.q) |->
                        IF k \in todo /\ t.q[k].a < to THEN [t.q[k] EXCEPT !.room = TRUE] ELSE t.q[k]]]
           unsent == [t EXCEPT !.nxt = lost, !.max = Max({t.max, lost}), !.nomem = TRUE,
                               !.q[Min(todo)].room = TRUE]
           g1 == todo = {} \/ (to = t.nxt /\ ~bad)
           g2 == todo # {} /\ to > t.nxt /\ ok
           g3 == todo # {} /\ to > t.nxt /\ ~ok
<1>3. w = CASE g1 -> t [] g2 -> sent
          [] g3 -> IF t.una = t.nxt THEN unsent ELSE t
          [] OTHER -> Failed(t)
  BY Zenon DEF SndHead, Failed
<1>4. todo \subseteq 1 .. Len(t.q)
  OBVIOUS
<1>5. ends \subseteq 0 .. t.write /\ t.nxt \in ends
  BY <1>1, <1>2
<1>6. base \in ends /\ \A x \in ends : x <= base
  BY <1>1, <1>5, MaxIs
<1>7. base \in Nat /\ base <= t.write /\ t.nxt <= base
  <2> HIDE DEF base, ends
  <2> QED BY <1>1, <1>5, <1>6
<1>8. todo # {} => wndnxt \in Int /\ wndnxt <= t.wndack + t.wnd
  <2>1. ASSUME todo # {} PROVE wndnxt \in Int /\ wndnxt <= t.wndack + t.wnd
    <3>1. Len(t.q) \in 1 .. Len(t.q)
      BY <1>1, <2>1
    <3>2. last.a \in Nat
      BY <1>2, <3>1 DEF LastOf
    <3> DEFINE d == last.a - t.wndack
    <3>6. d \in Int
      BY <1>1, <3>2
    <3> HIDE DEF d
    <3>7. Min({d, c}) \in Int
      BY <3>6, MinOfTwo
    <3>3. Min({last.a - t.wndack, c}) \in Int
      BY <3>7 DEF d
    <3>4. r \in Int
      BY <3>3
    <3> HIDE DEF r
    <3>5. Min({t.wnd, r}) = IF t.wnd <= r THEN t.wnd ELSE r
      BY <1>1, <3>4, MinOfTwo
    <3> QED BY <1>1, <3>4, <3>5
  <2> QED BY <2>1
<1>9. todo # {} => to \in Nat /\ t.nxt <= to /\ to <= t.write /\ (to = t.nxt \/ to <= t.wndack + t.wnd)
  <2>1. ASSUME todo # {}
        PROVE  to \in Nat /\ t.nxt <= to /\ to <= t.write /\ (to = t.nxt \/ to <= t.wndack + t.wnd)
    <3>1. wndnxt \in Int /\ wndnxt <= t.wndack + t.wnd
      BY <1>8, <2>1
    <3>9. /\ \A k \in todo : t.q[k].e <= wndnxt => t.q[k].e \in ends
          /\ base = t.nxt \/ base <= wndnxt
      BY <1>6
    <3> HIDE DEF wndnxt, base, ends
    <3>2. CASE part /\ ~bad
      <4>1. PICK k \in todo : base < t.q[k].e
        BY <3>2
      <4>2. ~(t.q[k].e <= wndnxt)
        <5>1. t.q[k].e <= wndnxt => t.q[k].e <= base
          BY <1>6, <3>9
        <5>2. t.q[k].e \in Nat
          BY <1>2, <1>4
        <5> QED BY <1>7, <4>1, <5>1, <5>2
      <4>3. t.q[k].e \in Nat /\ t.q[k].e <= t.write
        BY <1>2, <1>4
      <4>4. base < wndnxt /\ to = wndnxt
        BY <3>2
      <4> HIDE DEF to, part, bad
      <4> QED BY <1>1, <1>7, <3>1, <4>2, <4>3, <4>4
    <3>3. CASE ~(part /\ ~bad)
      <4>1. to = base
        BY <3>3
      <4> HIDE DEF to, part, bad
      <4> QED BY <1>1, <1>7, <3>1, <3>9, <4>1
    <3> QED BY <3>2, <3>3
  <2> QED BY <2>1
<1>10. todo # {} => Min(todo) \in todo
  <2>1. todo \subseteq Nat
    BY <1>1, <1>4
  <2> HIDE DEF todo
  <2> QED BY <2>1, MinIs
<1>11. todo # {} => lost \in Nat /\ lost <= t.write
  BY <1>2, <1>4, <1>10
<1>12. sent = Sent(Emit(t, t.nxt, to), to, Max({t.max, to}), bad, Stamp(t.q, now))
  <2>1. [k \in 1 .. Len(t.q) |-> IF k \in todo /\ t.q[k].a < to THEN [t.q[k] EXCEPT !.room = TRUE] ELSE t.q[k]]
        = Stamp(t.q, now)
    <3> HIDE DEF to, todo
    <3> QED BY DEF Stamp
  <2> HIDE DEF to, bad, now, todo
  <2> QED BY <2>1 DEF Sent
<1>13. todo # {} => unsent = Unsent(t, lost, Max({t.max, lost}), Stamp(t.q, {Min(todo)}))
  <2>1. ASSUME NEW m \in 1 .. Len(t.q)
        PROVE  [t.q EXCEPT ![m].room = TRUE] = Stamp(t.q, {m})
    <3>1. DOMAIN t.q = 1 .. Len(t.q) /\ t.q = [k \in 1 .. Len(t.q) |-> t.q[k]]
      BY <1>1
    <3> QED BY <3>1, Zenon DEF Stamp
  <2>2. todo # {} => Min(todo) \in 1 .. Len(t.q)
    BY <1>4, <1>10
  <2> HIDE DEF todo, lost
  <2>3. todo # {} => [t.q EXCEPT ![Min(todo)].room = TRUE] = Stamp(t.q, {Min(todo)})
    BY <2>1, <2>2
  <2> QED BY <1>1, <2>2, <2>3 DEF Unsent, Tcbs
<1>14. bad \in BOOLEAN
  OBVIOUS
<1> HIDE DEF w, sent, unsent, to, bad, todo, lost, now
<1>15. CASE g1
  <2>1. w = t
    BY <1>1, <1>3, <1>9, <1>15
  <2> QED BY <1>1, <2>1, KeptRefl DEF w
<1>16. CASE ~g1 /\ g2
  <2>1. w = sent
    BY <1>3, <1>16
  <2> DEFINE m == Max({t.max, to})
  <2>2. m = IF t.max >= to THEN t.max ELSE to
    BY <1>1, <1>9, <1>16, MaxOfTwo
  <2>3. m \in Nat /\ to <= m /\ t.max <= m /\ m <= t.write /\ (m = t.max \/ m <= t.wndack + t.wnd)
    BY <1>1, <1>9, <1>16, <2>2
  <2> HIDE DEF m
  <2>4. SameQueue(t.q, Stamp(t.q, now))
    BY <1>1, StampIs
  <2> DEFINE q == Stamp(t.q, now)
  <2> HIDE DEF q
  <2>5. Core(Sent(Emit(t, t.nxt, to), to, m, bad, q), p) /\ Kept(t, Sent(Emit(t, t.nxt, to), to, m, bad, q))
    BY <1>1, <1>9, <1>14, <1>16, <2>3, <2>4, SentCore DEF q
  <2> QED BY <1>12, <2>1, <2>5 DEF w, m, q
<1>17. CASE ~g1 /\ ~g2 /\ g3
  <2>1. w = IF t.una = t.nxt THEN unsent ELSE t
    BY <1>3, <1>17
  <2>2. CASE w = t
    BY <1>1, <2>2, KeptRefl DEF w
  <2>3. CASE w = unsent
    <3> DEFINE m == Max({t.max, lost})
               q == Stamp(t.q, {Min(todo)})
    <3>1. m = IF t.max >= lost THEN t.max ELSE lost
      BY <1>1, <1>11, <1>17, MaxOfTwo
    <3>2. m \in Nat /\ lost \in Nat /\ lost <= m /\ t.max <= m /\ m <= t.write
      BY <1>1, <1>11, <1>17, <3>1
    <3>3. SameQueue(t.q, q)
      BY <1>1, StampIs
    <3>4. w = Unsent(t, lost, m, q)
      BY <1>13, <1>17, <2>3
    <3> HIDE DEF m, q
    <3>5. Core(Unsent(t, lost, m, q), p) /\ Kept(t, Unsent(t, lost, m, q))
      BY <3>2, <3>3, UnsentCore
    <3> QED BY <3>4, <3>5 DEF w
  <2> QED BY <2>1, <2>2, <2>3
<1>18. CASE ~g1 /\ ~g2 /\ ~g3
  <2>1. w = Failed(t)
    BY <1>3, <1>18
  <2>2. Kept(t, Failed(t)) /\ Alike(t, Failed(t))
    BY <1>1, FailedIs
  <2>3. Core(Failed(t), p)
    BY <2>2, AlikeCore
  <2> QED BY <2>1, <2>2, <2>3 DEF w
<1> QED BY <1>15, <1>16, <1>17, <1>18
LEMMA MoreCore ==
    ASSUME NEW t, NEW v, NEW p, Core(t, p), Peer(p), Kept(t, v), NEW x, NEW y \in Nat,
           v.nxt <= v.max, t.max <= v.max, v.max <= t.write,
           v.max = t.max \/ v.max <= t.wndack + t.wnd,
           v.out = t.out \cup {<<x, y>>}, y <= v.max,
           v.nomem <=> t.nomem
    PROVE  Core(v, p)
<1>1. t \in Tcbs /\ t.max \in Nat /\ t.wndack \in Nat /\ t.wnd \in Nat
  BY CoreNumbers
<1>2. v \in Tcbs /\ v.wnd = t.wnd /\ v.wndack = t.wndack /\ v.write = t.write
  BY DEF Kept
<1>3. v.max \in Nat
  BY <1>2 DEF Tcbs
<1>4. Offered(t, p) /\ p.nxt \in Nat /\ p.read \in Nat
  BY DEF Core, Peer
<1>5. p.nxt <= v.max
  BY <1>1, <1>3, <1>4 DEF Offered
<1>6. ~v.nomem => v.max <= p.read + Window
  BY <1>1, <1>3, <1>4, OutAssumption DEF Offered
<1>7. ASSUME NEW r \in v.out PROVE r[2] <= v.max
  <2>1. CASE r \in t.out
    <3>1. r[2] <= t.max /\ r[2] \in Nat
      BY <1>1, <1>4, <2>1 DEF Offered, Tcbs
    <3> QED BY <1>1, <1>3, <3>1
  <2>2. CASE r = <<x, y>>
    BY <2>2
  <2> QED BY <1>7, <2>1, <2>2
<1>8. Offered(v, p)
  BY <1>2, <1>4, <1>5, <1>6, <1>7 DEF Offered
<1> QED BY <1>2, <1>8, KeptCore

SetMax(t, m) == [t EXCEPT !.max = m]

LEMMA SetMaxIs ==
    ASSUME NEW t \in Tcbs, NEW m \in Nat
    PROVE  /\ Kept(t, SetMax(t, m))
           /\ SetMax(t, m).nxt = t.nxt /\ SetMax(t, m).max = m
           /\ SetMax(t, m).out = t.out /\ (SetMax(t, m).nomem <=> t.nomem)
<1> DEFINE u == SetMax(t, m)
<1>1. u \in Tcbs
  BY DEF Tcbs, SetMax
<1>2. u.q = t.q /\ u.nxt = t.nxt /\ u.max = m /\ u.out = t.out /\ (u.nomem <=> t.nomem)
  BY DEF Tcbs, SetMax
<1>3. /\ u.state = t.state /\ u.ostate = t.ostate /\ (u.timer <=> t.timer)
      /\ u.una = t.una /\ u.write = t.write /\ u.wnd = t.wnd /\ u.wndack = t.wndack
      /\ (u.asleep <=> t.asleep)
  BY DEF Tcbs, SetMax
<1>4. SameQueue(t.q, u.q)
  BY <1>2 DEF Tcbs, SameQueue
<1> QED BY <1>1, <1>2, <1>3, <1>4 DEF Kept

\* A retransmission stays in the window, too.
LEMMA ResendCore ==
    ASSUME NEW t, NEW p, Core(t, p), Peer(p), t.q # <<>>, NEW n \in Nat
    PROVE  Core(Resend(t, n), p) /\ Kept(t, Resend(t, n))
<1> DEFINE g     == t.q[1]
           h     == t.q[2]
           extra == Min({DataLen(h), n})
           more  == /\ t.q[1].e <= t.nxt /\ Len(t.q) > 1
                    /\ extra > 0 /\ ~h.fin /\ h.a + extra <= t.wndack + t.wnd
           from  == Max({t.una, g.a})
           w     == Resend(t, n)
           m     == Max({t.max, h.a + extra})
           u     == Emit(t, from, h.a + extra)
           v     == Emit(t, from, Min({t.nxt, g.e}))
<1>1. /\ t \in Tcbs /\ t.q \in Seq(Segments) /\ Len(t.q) \in Nat
      /\ t.una \in Nat /\ t.nxt \in Nat /\ t.max \in Nat /\ t.write \in Nat
      /\ t.wnd \in Nat /\ t.wndack \in Nat /\ t.nxt <= t.max /\ t.max <= t.write
  BY CoreNumbers
<1>2. 1 \in 1 .. Len(t.q)
  BY <1>1
<1>3. g.a \in Nat /\ g.e \in Nat /\ g.a < g.e
  BY <1>2, ElementIs
<1>4. from \in Nat
  <2> HIDE DEF g
  <2>1. from = IF t.una >= g.a THEN t.una ELSE g.a
    BY <1>1, <1>3, MaxOfTwo
  <2> QED BY <1>1, <1>3, <2>1
<1>5. CASE t.nxt <= g.a
  <2>1. w = Failed(t)
    BY <1>5 DEF Resend, Failed
  <2>2. Kept(t, Failed(t)) /\ Alike(t, Failed(t))
    BY <1>1, FailedIs
  <2>3. Core(Failed(t), p)
    BY <2>2, AlikeCore
  <2> HIDE DEF w
  <2> QED BY <2>1, <2>2, <2>3 DEF w
<1>6. CASE ~(t.nxt <= g.a) /\ more
  <2>1. 2 \in 1 .. Len(t.q)
    BY <1>1, <1>6
  <2>2. h \in Segments /\ h.a \in Nat /\ h.e \in Nat /\ h.a < h.e /\ h.e <= t.write
    BY <2>1, ElementIs
  <2>3. DataLen(h) = h.e - h.a
    <3>1. ~h.fin
      BY <1>6
    <3> HIDE DEF h
    <3> QED BY <2>2, <3>1 DEF DataLen
  <2>4. extra \in Nat /\ extra <= h.e - h.a
    <3> HIDE DEF h
    <3>1. Min({DataLen(h), n}) = IF DataLen(h) <= n THEN DataLen(h) ELSE n
      BY <2>2, <2>3, MinOfTwo
    <3> QED BY <2>2, <2>3, <3>1
  <2>20. h.a + extra <= t.wndack + t.wnd
    BY <1>6, Zenon
  <2> HIDE DEF extra, h
  <2>5. /\ m \in Nat /\ t.max <= m /\ m <= t.write /\ h.a + extra <= m /\ h.a + extra \in Nat
        /\ m = t.max \/ m <= t.wndack + t.wnd
    <3> DEFINE z == h.a + extra
    <3>1. z \in Nat /\ z <= t.write /\ z <= t.wndack + t.wnd
      <4>1. z \in Nat /\ z <= h.e
        BY <2>2, <2>4
      <4>2. t.write \in Nat
        BY <1>1
      <4> QED BY <2>2, <2>20, <4>1, <4>2
    <3> HIDE DEF z
    <3>2. Max({t.max, z}) = IF t.max >= z THEN t.max ELSE z
      BY <1>1, <3>1, MaxOfTwo
    <3>3. /\ Max({t.max, z}) \in Nat /\ t.max <= Max({t.max, z}) /\ Max({t.max, z}) <= t.write
          /\ z <= Max({t.max, z}) /\ z \in Nat
          /\ Max({t.max, z}) = t.max \/ Max({t.max, z}) <= t.wndack + t.wnd
      BY <1>1, <3>1, <3>2
    <3> QED BY <3>3 DEF z
  <2>6. m \in Nat /\ t.max <= m /\ m <= t.write /\ h.a + extra <= m /\ h.a + extra \in Nat
        /\ (m = t.max \/ m <= t.wndack + t.wnd)
    BY <2>5
  <2> DEFINE z == h.a + extra
  <2>7. Emits(t, Emit(t, from, z), from, z)
    BY <1>1, <1>4, <2>6, EmitIs
  <2>8. u \in Tcbs /\ Kept(t, u) /\ u.max = t.max /\ u.nxt = t.nxt
        /\ u.out = t.out \cup {<<from, z>>} /\ (u.nomem <=> t.nomem)
    <3> HIDE DEF u, z
    <3>1. Emits(t, u, from, z)
      BY <2>7 DEF u, z
    <3> QED BY <3>1 DEF Emits, Kept
  <2>9. w = SetMax(u, m)
    <3>1. w = [u EXCEPT !.max = Max({@, h.a + extra})]
      BY <1>6, Zenon DEF Resend, h, extra
    <3> HIDE DEF u
    <3> QED BY <2>8, <3>1 DEF SetMax
  <2> HIDE DEF u, m, z
  <2>10. /\ Kept(u, SetMax(u, m))
         /\ SetMax(u, m).nxt = u.nxt /\ SetMax(u, m).max = m
         /\ SetMax(u, m).out = u.out /\ (SetMax(u, m).nomem <=> u.nomem)
    BY <2>6, <2>8, SetMaxIs
  <2> HIDE DEF w, from
  <2>11. /\ Kept(u, w) /\ w.nxt = t.nxt /\ w.max = m
         /\ w.out = t.out \cup {<<from, z>>} /\ (w.nomem <=> t.nomem)
    BY <2>8, <2>9, <2>10
  <2>12. Kept(t, w)
    BY <2>8, <2>11, KeptTrans
  <2>13. z \in Nat /\ z <= m
    BY <2>6 DEF z
  <2>14. w.nxt <= w.max
    BY <1>1, <2>6, <2>11
  <2>15. Core(w, p)
    BY <2>6, <2>11, <2>12, <2>13, <2>14, MoreCore
  <2> QED BY <2>12, <2>15 DEF w
<1>7. CASE ~(t.nxt <= g.a) /\ ~more
  <2>1. w = v
    BY <1>7, Zenon DEF Resend
  <2> DEFINE z == Min({t.nxt, g.e})
  <2>2. z = IF t.nxt <= g.e THEN t.nxt ELSE g.e
    BY <1>1, <1>3, MinOfTwo
  <2>3. z \in Nat /\ z <= t.max
    BY <1>1, <1>3, <2>2
  <2> HIDE DEF z
  <2>4. Emits(t, Emit(t, from, z), from, z)
    BY <1>1, <1>4, <2>3, EmitIs
  <2> HIDE DEF w, from
  <2>5. Emits(t, w, from, z)
    BY <2>1, <2>4 DEF z
  <2>6. Kept(t, w) /\ w.max = t.max /\ w.nxt = t.nxt
        /\ w.out = t.out \cup {<<from, z>>} /\ (w.nomem <=> t.nomem)
    BY <2>5 DEF Emits
  <2>7. w.nxt <= w.max /\ t.max <= w.max /\ w.max <= t.write /\ z <= w.max
    BY <1>1, <2>3, <2>6
  <2>8. Core(w, p)
    BY <2>3, <2>6, <2>7, MoreCore
  <2> QED BY <2>6, <2>8 DEF w
<1> QED BY <1>5, <1>6, <1>7
\* The rest of a queue
LEMMA SuffixIs ==
    ASSUME NEW q, Chain(q), NEW m \in 1 .. Len(q)
    PROVE  /\ Chain(SubSeq(q, m, Len(q))) /\ SubSeq(q, m, Len(q)) # <<>>
           /\ SubSeq(q, m, Len(q))[1] = q[m]
           /\ LastOf(SubSeq(q, m, Len(q))) = LastOf(q)
           /\ \A k \in 1 .. Len(SubSeq(q, m, Len(q))) :
                 \E j \in 1 .. Len(q) : SubSeq(q, m, Len(q))[k] = q[j]
<1> DEFINE r == SubSeq(q, m, Len(q))
           n == Len(q) - m + 1
<1>1. q \in Seq(Segments) /\ Len(q) \in Nat /\ m \in Nat /\ m <= Len(q) /\ 1 <= m
  BY DEF Chain
<1>2. r \in Seq(Segments) /\ Len(r) = n /\ \A k \in 1 .. n : r[k] = q[m + k - 1]
  BY <1>1
<1>3. n \in Nat /\ n >= 1
  BY <1>1
<1> HIDE DEF r
<1>4. \A k \in 1 .. n : m + k - 1 \in 1 .. Len(q)
  BY <1>1
<1>5. r # <<>> /\ r[1] = q[m]
  BY <1>1, <1>2, <1>3
<1>6. LastOf(r) = LastOf(q)
  BY <1>1, <1>2, <1>3 DEF LastOf
<1>7. \A k \in 1 .. n : \E j \in 1 .. Len(q) : r[k] = q[j]
  BY <1>2, <1>4
<1>8. \A k \in 1 .. n : r[k].a < r[k].e /\ DataLen(r[k]) <= Mss
  BY <1>7 DEF Chain
<1>9. ASSUME NEW k \in 1 .. n - 1 PROVE r[k].e = r[k + 1].a /\ ~r[k].fin
  <2>1. k \in 1 .. n /\ k + 1 \in 1 .. n
    BY <1>3
  <2> DEFINE j == m + k - 1
  <2>2. j \in 1 .. Len(q) - 1 /\ j + 1 = m + (k + 1) - 1
    BY <1>1, <1>3
  <2>3. r[k] = q[j] /\ r[k + 1] = q[j + 1]
    <3>1. r[k] = q[j]
      BY <1>2, <2>1
    <3>2. r[k + 1] = q[m + (k + 1) - 1]
      BY <1>2, <2>1
    <3> QED BY <2>2, <3>1, <3>2
  <2> HIDE DEF j
  <2> QED BY <2>2, <2>3 DEF Chain
<1>10. ASSUME NEW k \in 1 .. n, NEW l \in 1 .. n, k < l PROVE r[k].e <= r[l].a
  <2> DEFINE i == m + k - 1
             j == m + l - 1
  <2>1. i \in 1 .. Len(q) /\ j \in 1 .. Len(q) /\ i < j
    BY <1>1, <1>3, <1>10
  <2>2. r[k] = q[i] /\ r[l] = q[j]
    BY <1>2
  <2> HIDE DEF i, j
  <2> QED BY <2>1, <2>2 DEF Chain
<1>11. Chain(r)
  BY <1>2, <1>8, <1>9, <1>10 DEF Chain
<1> QED BY <1>2, <1>5, <1>6, <1>7, <1>11 DEF r

\* tcp_dropdata leaves the rest of the queue.
Dropped(t, u) ==
    /\ u \in Tcbs
    /\ u.state = t.state /\ u.ostate = t.ostate /\ (u.timer <=> t.timer)
    /\ u.una = t.una /\ u.nxt = t.nxt /\ u.max = t.max /\ u.write = t.write
    /\ u.wnd = t.wnd /\ u.wndack = t.wndack /\ u.out = t.out /\ (u.nomem <=> t.nomem)

SetQueue(t, q, n) == [t EXCEPT !.q = q, !.nretrans = n]
SetAsleep(t, b) == [t EXCEPT !.asleep = @ /\ b]

LEMMA SetQueueIs ==
    ASSUME NEW t \in Tcbs, NEW q \in Seq(Segments), NEW n \in 0 .. MaxRetry
    PROVE  Dropped(t, SetQueue(t, q, n)) /\ SetQueue(t, q, n).q = q
           /\ (SetQueue(t, q, n).asleep <=> t.asleep)
<1> DEFINE u == SetQueue(t, q, n)
<1>1. u \in Tcbs
  BY DEF Tcbs, SetQueue
<1>2. u.q = q /\ u.nxt = t.nxt /\ u.max = t.max /\ u.out = t.out /\ (u.nomem <=> t.nomem)
  BY DEF Tcbs, SetQueue
<1>3. /\ u.state = t.state /\ u.ostate = t.ostate /\ (u.timer <=> t.timer)
      /\ u.una = t.una /\ u.write = t.write /\ u.wnd = t.wnd /\ u.wndack = t.wndack
      /\ (u.asleep <=> t.asleep)
  BY DEF Tcbs, SetQueue
<1> QED BY <1>1, <1>2, <1>3 DEF Dropped

LEMMA SetAsleepIs ==
    ASSUME NEW t \in Tcbs, NEW b \in BOOLEAN
    PROVE  /\ Alike(t, SetAsleep(t, b)) /\ Dropped(t, SetAsleep(t, b))
           /\ SetAsleep(t, b).asleep <=> (t.asleep /\ b)
<1> DEFINE u == SetAsleep(t, b)
<1>1. u \in Tcbs
  BY ZenonT(40) DEF Tcbs, SetAsleep
<1>2. u.q = t.q /\ u.nxt = t.nxt /\ u.max = t.max /\ u.out = t.out /\ (u.nomem <=> t.nomem)
  BY DEF Tcbs, SetAsleep
<1>3. /\ u.state = t.state /\ u.ostate = t.ostate /\ (u.timer <=> t.timer)
      /\ u.una = t.una /\ u.write = t.write /\ u.wnd = t.wnd /\ u.wndack = t.wndack
  BY DEF Tcbs, SetAsleep
<1>4. u.asleep <=> (t.asleep /\ b)
  BY DEF Tcbs, SetAsleep
<1> QED BY <1>1, <1>2, <1>3, <1>4 DEF Dropped, Alike
LEMMA DropCore ==
    ASSUME NEW t, NEW p, Core(t, p), t.state # "CLOSED", Asleep(t)
    PROVE  /\ Core(DropData(t), p) /\ Dropped(t, DropData(t))
           /\ Fresh(DropData(t)) /\ Asleep(DropData(t))
<1> DEFINE kept == {k \in 1 .. Len(t.q) : t.q[k].e > t.una}
           q    == IF kept = {} THEN <<>> ELSE SubSeq(t.q, Min(kept), Len(t.q))
           u    == SetQueue(t, q, 0)
           d    == DropData(t)
           b    == CanWrite(u) = 0
<1>1. /\ t \in Tcbs /\ t.q \in Seq(Segments) /\ Len(t.q) \in Nat
      /\ t.una \in Nat /\ t.write \in Nat /\ t.una <= t.write
  <2>1. t.una <= t.max /\ t.max <= t.write /\ t.max \in Nat
    BY CoreNumbers
  <2> QED BY <2>1, CoreNumbers
<1>2. Chain(t.q) /\ Covers(t) /\ Order(t) /\ Offered(t, p)
  BY DEF Core
<1>3. ASSUME kept = {}
      PROVE  Chain(q) /\ q = <<>> /\ t.una = t.write
  <2>1. q = <<>>
    BY <1>3
  <2>2. t.una = t.write
    <3>1. CASE t.q = <<>>
      BY <1>2, <3>1 DEF Covers
    <3>2. CASE t.q # <<>>
      <4>1. Len(t.q) \in 1 .. Len(t.q)
        BY <1>1, <3>2
      <4>2. ~(t.q[Len(t.q)].e > t.una)
        BY <1>3, <4>1
      <4>3. t.q[Len(t.q)].e = t.write
        BY <1>2, <3>2 DEF Covers, LastOf
      <4> QED BY <1>1, <4>2, <4>3
    <3> QED BY <3>1, <3>2
  <2> HIDE DEF q, kept
  <2> QED BY <2>1, <2>2 DEF Chain
<1>4. ASSUME kept # {}
      PROVE  /\ Chain(q) /\ q # <<>> /\ q[1].a <= t.una /\ t.una < q[1].e /\ LastOf(q).e = t.write
             /\ \A k \in 1 .. Len(q) : \E j \in 1 .. Len(t.q) : q[k] = t.q[j]
  <2> DEFINE m == Min(kept)
  <2>1. m \in kept /\ \A y \in kept : m <= y
    <3>1. kept \subseteq Nat
      BY <1>1
    <3> HIDE DEF kept
    <3> QED BY <1>4, <3>1, MinIs
  <2>2. q = SubSeq(t.q, m, Len(t.q))
    BY <1>4
  <2>3. m \in 1 .. Len(t.q) /\ t.q[m].e > t.una
    BY <2>1
  <2>4. \A k \in 1 .. Len(t.q) : k < m => ~(t.q[k].e > t.una)
    <3>1. \A k \in kept : k \in 1 .. Len(t.q)
      OBVIOUS
    <3>2. \A k \in 1 .. Len(t.q) : t.q[k].e > t.una => k \in kept
      OBVIOUS
    <3> HIDE DEF kept, m
    <3> QED BY <1>1, <2>1, <2>3, <3>2
  <2> HIDE DEF kept, m, q
  <2>5. /\ Chain(q) /\ q # <<>> /\ q[1] = t.q[m] /\ LastOf(q) = LastOf(t.q)
        /\ \A k \in 1 .. Len(q) : \E j \in 1 .. Len(t.q) : q[k] = t.q[j]
    BY <1>2, <2>2, <2>3, SuffixIs
  <2>6. t.q # <<>>
    BY <1>1, <2>3
  <2>7. t.q[m].a \in Nat /\ t.q[m].e \in Nat
    BY <2>3, ElementIs
  <2>8. t.q[m].a <= t.una
    <3>1. CASE m = 1
      BY <1>2, <2>6, <3>1 DEF Covers
    <3>2. CASE m # 1
      <4> DEFINE l == m - 1
      <4>1. l \in 1 .. Len(t.q) - 1 /\ l \in 1 .. Len(t.q) /\ l < m /\ l + 1 = m
        BY <1>1, <2>3, <3>2
      <4> HIDE DEF l
      <4>2. t.q[l].e = t.q[m].a
        BY <1>2, <4>1 DEF Chain
      <4>3. ~(t.q[l].e > t.una)
        BY <2>4, <4>1
      <4> QED BY <1>1, <2>7, <4>2, <4>3
    <3> QED BY <3>1, <3>2
  <2>9. LastOf(q).e = t.write
    BY <1>2, <2>5, <2>6 DEF Covers
  <2>10. t.una < t.q[m].e
    BY <1>1, <2>3, <2>7
  <2> QED BY <2>5, <2>8, <2>9, <2>10
<1> HIDE DEF kept, q
<1>5. Chain(q) /\ q \in Seq(Segments)
  BY <1>3, <1>4 DEF Chain
<1>6. Dropped(t, u) /\ u.q = q /\ (u.asleep <=> t.asleep)
  <2>1. 0 \in 0 .. MaxRetry
    BY OutAssumption
  <2> QED BY <1>1, <1>5, <2>1, SetQueueIs
<1>7. d = IF q = t.q THEN t ELSE SetAsleep(u, b)
  BY DEF DropData, SetAsleep, SetQueue, q, kept
<1> HIDE DEF u
<1>8. u \in Tcbs
  BY <1>6 DEF Dropped
<1>9. b \in BOOLEAN
  OBVIOUS
<1> HIDE DEF b
<1>10. /\ Alike(u, SetAsleep(u, b)) /\ Dropped(u, SetAsleep(u, b))
       /\ SetAsleep(u, b).asleep <=> (u.asleep /\ b)
  BY <1>8, <1>9, SetAsleepIs
<1> HIDE DEF d
<1>11. d.q = q /\ Dropped(t, d)
  <2>1. CASE q = t.q
    BY <1>1, <1>7, <2>1 DEF Dropped
  <2>2. CASE q # t.q
    <3>1. d = SetAsleep(u, b)
      BY <1>7, <2>2
    <3>2. d.q = q
      BY <1>6, <1>10, <3>1 DEF Alike
    <3> QED BY <1>6, <1>10, <3>1, <3>2 DEF Dropped
  <2> QED BY <2>1, <2>2
<1>12. Asleep(d)
  <2>1. CASE q = t.q
    BY <1>7, <2>1
  <2>2. CASE q # t.q
    <3>1. d = SetAsleep(u, b)
      BY <1>7, <2>2
    <3>2. CanWrite(d) = CanWrite(u) /\ (Connected(d) <=> Connected(u))
      BY <1>8, <1>10, <3>1, AlikeRest
    <3>3. Connected(u) <=> Connected(t)
      BY <1>6 DEF Dropped, Connected
    <3>4. d.asleep => t.asleep /\ b
      BY <1>6, <1>10, <3>1
    <3> QED BY <3>2, <3>3, <3>4 DEF Asleep, b
  <2> QED BY <2>1, <2>2
<1>13. /\ d \in Tcbs /\ d.state = t.state
       /\ d.una = t.una /\ d.nxt = t.nxt /\ d.max = t.max /\ d.write = t.write
       /\ d.wnd = t.wnd /\ d.wndack = t.wndack /\ d.out = t.out /\ (d.nomem <=> t.nomem)
  BY <1>11 DEF Dropped
<1>14. Covers(d) /\ Fresh(d)
  <2>1. CASE kept = {}
    BY <1>3, <1>11, <1>13, <2>1 DEF Covers, Fresh
  <2>2. CASE kept # {}
    BY <1>4, <1>11, <1>13, <2>2 DEF Covers, Fresh
  <2> QED BY <2>1, <2>2
<1>15. Order(d)
  <2>1. Connected(d) => \A k \in 1 .. Len(d.q) : ~d.q[k].fin
    <3>1. ASSUME Connected(d), NEW k \in 1 .. Len(q) PROVE ~q[k].fin
      <4>1. \A j \in 1 .. Len(t.q) : ~t.q[j].fin
        BY <1>2, <1>13, <3>1 DEF Order, Connected
      <4>2. CASE kept = {}
        BY <1>3, <4>2
      <4>3. CASE kept # {}
        BY <1>4, <4>1, <4>3
      <4> QED BY <4>2, <4>3
    <3> QED BY <1>11, <3>1
  <2> QED BY <1>2, <1>13, <2>1 DEF Order, Connected
<1>16. Offered(d, p)
  BY <1>2, <1>13 DEF Offered
<1> QED BY <1>5, <1>11, <1>12, <1>13, <1>14, <1>15, <1>16 DEF Core, d
(***************************************************************************)
(* The output state machine                                                *)
(***************************************************************************)
\* Something is unacknowledged, and the output state says so; the timer may
\* just have expired.
Ready(t, p) ==
    /\ Core(t, p) /\ Fresh(t) /\ Asleep(t)
    /\ t.state # "CLOSED" /\ t.una # t.write /\ t.ostate # "IDLE"

LEMMA ReadyFull ==
    ASSUME NEW t, NEW p, Ready(t, p), t.timer
    PROVE  Full(t, p)
BY DEF Ready, Full, Phase, Armed

LEMMA ReadyQueue ==
    ASSUME NEW t, NEW p, Ready(t, p)
    PROVE  t \in Tcbs /\ t.q # <<>>
BY DEF Ready, Core, Covers

LEMMA AlikeReady ==
    ASSUME NEW t, NEW u, NEW p, Ready(t, p), Alike(t, u), u.ostate # "IDLE", u.asleep <=> t.asleep
    PROVE  Ready(u, p)
<1>1. t \in Tcbs
  BY ReadyQueue
<1>2. Core(u, p)
  BY AlikeCore DEF Ready
<1>3. Fresh(u) /\ CanWrite(u) = CanWrite(t) /\ (Connected(u) <=> Connected(t))
  BY <1>1, AlikeRest DEF Ready
<1>4. u.state = t.state /\ u.una = t.una /\ u.write = t.write
  BY DEF Alike
<1> QED BY <1>2, <1>3, <1>4 DEF Ready, Asleep

LEMMA KeptReady ==
    ASSUME NEW t, NEW u, NEW p, Ready(t, p), Kept(t, u), Core(u, p)
    PROVE  Ready(u, p)
<1>1. t \in Tcbs
  BY ReadyQueue
<1>2. Fresh(u) /\ Asleep(u)
  BY <1>1, KeptRest DEF Ready
<1> QED BY <1>2 DEF Ready, Kept

LEMMA ClosedFull ==
    ASSUME NEW t, NEW p, Core(t, p)
    PROVE  Full(Closed(t), p)
<1> DEFINE u == Closed(t)
<1>1. t \in Tcbs /\ Order(t) /\ Offered(t, p)
  BY DEF Core
<1>2. u \in Tcbs
  <2> DEFINE v == [t EXCEPT !.state = "CLOSED", !.ostate = "IDLE", !.timer = FALSE]
  <2>1. v \in Tcbs
    BY <1>1 DEF Tcbs
  <2>2. u = [v EXCEPT !.q = <<>>, !.asleep = FALSE]
    BY DEF Closed
  <2> HIDE DEF v
  <2>3. <<>> \in Seq(Segments)
    OBVIOUS
  <2> QED BY ZenonT(40), <2>1, <2>2, <2>3 DEF Tcbs
<1>3. u.q = <<>> /\ u.nxt = t.nxt /\ u.max = t.max /\ u.out = t.out /\ (u.nomem <=> t.nomem)
  BY <1>1 DEF Tcbs, Closed
<1>4. /\ u.state = "CLOSED" /\ u.ostate = "IDLE" /\ ~u.timer
      /\ u.una = t.una /\ u.write = t.write /\ u.wnd = t.wnd /\ u.wndack = t.wndack
      /\ ~u.asleep
  BY <1>1 DEF Tcbs, Closed
<1> HIDE DEF u
<1>5. Chain(u.q)
  BY <1>3 DEF Chain
<1>6. Covers(u)
  BY <1>3, <1>4 DEF Covers
<1>7. Order(u)
  BY <1>1, <1>3, <1>4 DEF Order, Connected
<1>8. Offered(u, p)
  BY <1>1, <1>3, <1>4 DEF Offered
<1> QED BY <1>2, <1>3, <1>4, <1>5, <1>6, <1>7, <1>8 DEF u, Full, Core, Fresh, Phase, Armed, Asleep

CountRetry(t) == [t EXCEPT !.nretrans = @ + 1, !.timer = TRUE]
CountProbe(t) == [t EXCEPT !.silent = @ + 1, !.timer = TRUE]

LEMMA CountRetryIs ==
    ASSUME NEW t \in Tcbs, t.nretrans + 1 <= MaxRetry
    PROVE  /\ Alike(t, CountRetry(t)) /\ CountRetry(t).timer /\ CountRetry(t).ostate = t.ostate
           /\ CountRetry(t).asleep <=> t.asleep
<1>2. MaxRetry \in Nat /\ t.nretrans \in 0 .. MaxRetry
  BY OutAssumption DEF Tcbs
<1>1. t.nretrans + 1 \in 0 .. MaxRetry
  BY <1>2
<1> QED BY <1>1 DEF Tcbs, Alike, CountRetry

LEMMA CountProbeIs ==
    ASSUME NEW t \in Tcbs, t.silent + 1 <= MaxSilent
    PROVE  /\ Alike(t, CountProbe(t)) /\ CountProbe(t).timer /\ CountProbe(t).ostate = t.ostate
           /\ CountProbe(t).asleep <=> t.asleep
<1>2. MaxSilent \in Nat /\ t.silent \in 0 .. MaxSilent
  BY OutAssumption DEF Tcbs
<1>1. t.silent + 1 \in 0 .. MaxSilent
  BY <1>2
<1> QED BY <1>1 DEF Tcbs, Alike, CountProbe

\* tcp_retrans rearms the timer or gives up.
LEMMA RetransFull ==
    ASSUME NEW t, NEW p, Ready(t, p), Peer(p), NEW ok \in BOOLEAN
    PROVE  Full(Retrans(t, ok), p)
<1> DEFINE u == CountRetry(t)
           n == t.nretrans + 1
<1>1. t \in Tcbs /\ t.q # <<>> /\ t.nretrans \in Nat
  <2>1. t \in Tcbs /\ t.q # <<>>
    BY ReadyQueue
  <2> QED BY <2>1, OutAssumption DEF Tcbs
<1>2. u.nretrans = n
  BY <1>1 DEF Tcbs, CountRetry
<1>3. CASE n > MaxRetry
  <2>1. Retrans(t, ok) = Closed(t)
    BY <1>2, <1>3, OutAssumption, <1>1 DEF Retrans, CountRetry
  <2> QED BY <2>1, ClosedFull DEF Ready
<1>4. CASE n <= MaxRetry
  <2>1. Retrans(t, ok) = IF ok THEN Resend(u, n) ELSE u
    BY <1>1, <1>2, <1>4, OutAssumption DEF Retrans, CountRetry
  <2>2. Alike(t, u) /\ u.timer /\ u.ostate = t.ostate /\ (u.asleep <=> t.asleep)
    BY <1>1, <1>4, CountRetryIs
  <2> HIDE DEF u
  <2>3. Ready(u, p)
    BY <2>2, AlikeReady DEF Ready
  <2>4. Full(u, p)
    BY <2>2, <2>3, ReadyFull
  <2>5. Core(Resend(u, n), p) /\ Kept(u, Resend(u, n))
    <3>1. Core(u, p) /\ u.q # <<>>
      BY <2>3, ReadyQueue DEF Ready
    <3>2. n \in Nat
      BY <1>1
    <3> HIDE DEF n
    <3> QED BY <3>1, <3>2, ResendCore
  <2>6. Full(Resend(u, n), p)
    <3>1. Ready(Resend(u, n), p)
      BY <2>3, <2>5, KeptReady
    <3>2. Resend(u, n).timer
      BY <2>2, <2>5 DEF Kept
    <3> QED BY <3>1, <3>2, ReadyFull
  <2> QED BY <2>1, <2>4, <2>6
<1> QED BY <1>1, <1>3, <1>4, OutAssumption

\* tcp_probe, too.
LEMMA ProbeFull ==
    ASSUME NEW t, NEW p, Ready(t, p), Peer(p)
    PROVE  Full(Probe(t), p)
<1> DEFINE u == CountProbe(t)
           w == Probe(t)
<1>1. t \in Tcbs /\ t.silent \in Nat
  <2>1. t \in Tcbs /\ t.q # <<>>
    BY ReadyQueue
  <2> QED BY <2>1, OutAssumption DEF Tcbs
<1>2. CASE t.silent + 1 > MaxSilent
  <2>1. w = Closed(t)
    BY <1>2 DEF Probe
  <2> QED BY <2>1, ClosedFull DEF Ready
<1>3. CASE ~(t.silent + 1 > MaxSilent)
  <2>1. w = Emit(u, 0, 0)
    BY <1>1, <1>3 DEF Probe, Emit, CountProbe, Tcbs
  <2>2. Alike(t, u) /\ u.timer /\ u.ostate = t.ostate /\ (u.asleep <=> t.asleep)
    BY <1>1, <1>3, OutAssumption, CountProbeIs
  <2> HIDE DEF u
  <2>3. Ready(u, p)
    BY <2>2, AlikeReady DEF Ready
  <2> DEFINE z == 0
  <2>4. u \in Tcbs /\ z \in Nat
    BY <2>2 DEF Alike
  <2> HIDE DEF w, z
  <2>5. Emits(u, w, z, z)
    <3>1. Emits(u, Emit(u, z, z), z, z)
      BY <2>4, EmitIs
    <3> QED BY <2>1, <3>1 DEF z
  <2>6. Kept(u, w) /\ w.nxt = u.nxt /\ w.max = u.max
        /\ w.out = u.out \cup {<<z, z>>} /\ (w.nomem <=> u.nomem)
    BY <2>5 DEF Emits
  <2>7. Core(u, p)
    BY <2>3 DEF Ready
  <2>8. w.nxt <= w.max /\ u.max <= w.max /\ w.max <= u.write /\ z <= w.max
    BY <2>6, <2>7, CoreNumbers DEF z
  <2>9. Core(w, p)
    BY <2>4, <2>6, <2>7, <2>8, MoreCore
  <2>10. Ready(w, p) /\ w.timer
    BY <2>2, <2>3, <2>6, <2>9, KeptReady DEF Kept
  <2> QED BY <2>10, ReadyFull DEF w
<1> QED BY <1>2, <1>3
\* Everything is acknowledged.
LEMMA RestFull ==
    ASSUME NEW t, NEW p, Core(t, p), Fresh(t), Asleep(t), t.state # "CLOSED", t.una >= t.write
    PROVE  Full(SetPhase(t, "IDLE", FALSE), p)
<1> DEFINE u == SetPhase(t, "IDLE", FALSE)
<1>1. t \in Tcbs /\ t.una = t.write
  <2>1. /\ t \in Tcbs /\ t.una \in Nat /\ t.max \in Nat /\ t.write \in Nat
        /\ t.una <= t.max /\ t.max <= t.write
    BY CoreNumbers
  <2> QED BY <2>1
<1>2. Alike(t, u) /\ u.ostate = "IDLE" /\ ~u.timer /\ (u.asleep <=> t.asleep)
  <2> DEFINE o == "IDLE"
             b == FALSE
  <2>1. o \in OutStates /\ b \in BOOLEAN
    BY DEF OutStates
  <2>2. u = SetPhase(t, o, b)
    OBVIOUS
  <2>3. ~b /\ o = "IDLE"
    OBVIOUS
  <2> HIDE DEF o, b, u
  <2> QED BY <1>1, <2>1, <2>2, <2>3, SetPhaseIs
<1> HIDE DEF u
<1>3. Core(u, p)
  BY <1>2, AlikeCore
<1>4. Fresh(u) /\ CanWrite(u) = CanWrite(t) /\ (Connected(u) <=> Connected(t))
  BY <1>1, <1>2, AlikeRest
<1>5. u.state = t.state /\ u.una = u.write
  BY <1>1, <1>2 DEF Alike
<1> QED BY <1>2, <1>3, <1>4, <1>5 DEF u, Full, Phase, Armed, Asleep

\* XMIT or PERSIST, with the timer armed
LEMMA XmitOrPersistFull ==
    ASSUME NEW t, NEW p, Core(t, p), Fresh(t), Asleep(t), t.state # "CLOSED", t.una # t.write
    PROVE  Full(XmitOrPersist(t), p)
<1> DEFINE o == IF CanRetrans(t) THEN "XMIT" ELSE "PERSIST"
           u == XmitOrPersist(t)
<1>1. t \in Tcbs /\ o \in OutStates /\ o # "IDLE"
  BY DEF Core, OutStates
<1>2. Alike(t, u) /\ u.ostate = o /\ u.timer /\ (u.asleep <=> t.asleep)
  <2> DEFINE b == TRUE
  <2>1. b \in BOOLEAN /\ b
    OBVIOUS
  <2>2. u = SetPhase(t, o, b)
    BY DEF XmitOrPersist, SetPhase
  <2> HIDE DEF o, b, u
  <2> QED BY <1>1, <2>1, <2>2, SetPhaseIs
<1> HIDE DEF u, o
<1>3. Core(u, p)
  BY <1>2, AlikeCore
<1>4. Fresh(u) /\ CanWrite(u) = CanWrite(t) /\ (Connected(u) <=> Connected(t))
  BY <1>1, <1>2, AlikeRest
<1>5. u.state = t.state /\ u.una = t.una /\ u.write = t.write
  BY <1>2 DEF Alike
<1> QED BY <1>1, <1>2, <1>3, <1>4, <1>5 DEF u, Full, Phase, Armed, Asleep

\* A change between the states in which the timer runs
LEMMA SetStateReady ==
    ASSUME NEW t, NEW p, Ready(t, p), NEW o \in OutStates, o # "IDLE"
    PROVE  /\ Ready(SetState(t, o), p)
           /\ t.timer => Full(SetState(t, o), p)
<1> DEFINE u == SetState(t, o)
<1>1. Alike(t, u) /\ u.ostate = o /\ (u.timer <=> t.timer) /\ (u.asleep <=> t.asleep)
  BY ReadyQueue, SetStateIs
<1>2. Ready(u, p)
  BY <1>1, AlikeReady
<1>3. t.timer => Full(u, p)
  BY <1>1, <1>2, ReadyFull
<1> QED BY <1>2, <1>3

SetWndmax(t) == [t EXCEPT !.wndmax = t.wnd]

LEMMA SetWndmaxIs ==
    ASSUME NEW t \in Tcbs
    PROVE  /\ Alike(t, SetWndmax(t))
           /\ SetWndmax(t).ostate = t.ostate
           /\ SetWndmax(t).timer <=> t.timer
           /\ SetWndmax(t).asleep <=> t.asleep
BY DEF Alike, Tcbs, SetWndmax

LEMMA SndHeadReady ==
    ASSUME NEW t, NEW p, Ready(t, p), Peer(p), NEW c \in Nat, NEW ok \in BOOLEAN
    PROVE  /\ Ready(SndHead(t, c, ok), p) /\ (SndHead(t, c, ok).timer <=> t.timer)
           /\ SndHead(t, c, ok).ostate = t.ostate
<1> DEFINE u == SndHead(t, c, ok)
<1>1. Core(u, p) /\ Kept(t, u)
  BY SndHeadCore DEF Ready
<1> HIDE DEF u
<1>2. Ready(u, p)
  BY <1>1, KeptReady
<1> QED BY <1>1, <1>2 DEF u, Kept

\* The timer expires.
LEMMA TimeoutFull ==
    ASSUME NEW t, NEW p, Ready(t, p), Peer(p), NEW c \in Nat, NEW ok \in BOOLEAN
    PROVE  Full(Event(t, "TIMEOUT", c, ok), p)
<1> DEFINE w == Event(t, "TIMEOUT", c, ok)
<1>1. t \in Tcbs /\ t.ostate \in {"XMIT", "RETRANS", "PERSIST"}
  BY ReadyQueue DEF Ready, Tcbs
<1>2. CASE t.ostate = "XMIT"
  <2>1. w = Retrans(SetState(t, "RETRANS"), ok)
    BY <1>2 DEF Event, tcbos_xmit, SetState
  <2> DEFINE o == "RETRANS"
  <2>2. o \in OutStates /\ o # "IDLE"
    BY DEF OutStates
  <2> HIDE DEF w, o
  <2>3. Ready(SetState(t, o), p)
    BY <2>2, SetStateReady
  <2>4. Full(Retrans(SetState(t, o), ok), p)
    BY <2>3, RetransFull
  <2> QED BY <2>1, <2>4 DEF w, o
<1>3. CASE t.ostate = "RETRANS"
  <2>1. w = Retrans(t, ok)
    BY <1>3 DEF Event, tcbos_retrans
  <2> QED BY <2>1, RetransFull
<1>4. CASE t.ostate = "PERSIST"
  <2> DEFINE v == SetWndmax(t)
             h == SndHead(v, c, ok)
  <2>1. w = IF t.wnd = 0 THEN Probe(t) ELSE IF CanRetrans(h) THEN XmitOrPersist(h) ELSE Probe(h)
    BY <1>4 DEF Event, tcbos_persist, SetWndmax
  <2>2. Alike(t, v) /\ v.ostate = t.ostate /\ (v.asleep <=> t.asleep)
    BY <1>1, SetWndmaxIs
  <2> HIDE DEF v
  <2>3. Ready(v, p)
    BY <2>2, AlikeReady DEF Ready
  <2>4. Ready(h, p)
    BY <2>3, SndHeadReady
  <2> HIDE DEF w, h
  <2>5. Full(Probe(t), p) /\ Full(Probe(h), p)
    BY <2>4, ProbeFull
  <2>6. Full(XmitOrPersist(h), p)
    BY <2>4, XmitOrPersistFull DEF Ready
  <2> QED BY <2>1, <2>5, <2>6 DEF w
<1> QED BY <1>1, <1>2, <1>3, <1>4
\* Something is queued.
LEMMA SendFull ==
    ASSUME NEW t, NEW p, Core(t, p), Fresh(t), Asleep(t), Armed(t), Peer(p),
           t.state # "CLOSED", t.una # t.write, t.ostate = "IDLE" => t.nxt < t.write,
           NEW c \in Nat, NEW ok \in BOOLEAN
    PROVE  Full(Event(t, "SEND", c, ok), p)
<1> DEFINE w == Event(t, "SEND", c, ok)
           h == SndHead(t, c, ok)
<1>1. t \in Tcbs /\ t.ostate \in {"IDLE", "XMIT", "RETRANS", "PERSIST"}
  BY DEF Core, Tcbs
<1>2. Core(h, p) /\ Kept(t, h)
  BY SndHeadCore
<1>3. Fresh(h) /\ Asleep(h) /\ Armed(h)
  BY <1>1, <1>2, KeptRest
<1>4. h.state # "CLOSED" /\ h.una # h.write /\ h.ostate = t.ostate
  BY <1>2 DEF Kept
<1>5. CASE t.ostate = "IDLE"
  <2>1. w = XmitOrPersist(h)
    BY <1>5 DEF Event, tcbos_idle
  <2> HIDE DEF w, h
  <2> QED BY <1>2, <1>3, <1>4, <2>1, XmitOrPersistFull DEF w
<1>6. CASE t.ostate # "IDLE"
  <2>1. w = h \/ w = t
    <3>1. CASE t.ostate = "XMIT"
      BY <3>1 DEF Event, tcbos_xmit
    <3>2. CASE t.ostate = "RETRANS"
      BY <3>2 DEF Event, tcbos_retrans
    <3>3. CASE t.ostate = "PERSIST"
      BY <3>3 DEF Event, tcbos_persist
    <3> QED BY <1>1, <1>6, <3>1, <3>2, <3>3
  <2> HIDE DEF h, w
  <2>2. Full(h, p)
    BY <1>2, <1>3, <1>4, <1>6 DEF Full, Phase
  <2>3. Full(t, p)
    BY <1>6 DEF Full, Phase
  <2> QED BY <2>1, <2>2, <2>3 DEF w
<1> QED BY <1>5, <1>6

LEMMA FullReady ==
    ASSUME NEW t, NEW p, Full(t, p), t.ostate # "IDLE"
    PROVE  Ready(t, p) /\ t.timer
BY DEF Full, Ready, Phase, Armed

\* The window has changed, or an acknowledgement has been repeated.
LEMMA WindowFull ==
    ASSUME NEW t, NEW p, Full(t, p), Peer(p),
           NEW ev \in {"WNDOPEN", "WNDCLOSE", "DUPACK"}, NEW c \in Nat, NEW ok \in BOOLEAN
    PROVE  Full(Event(t, ev, c, ok), p)
<1> DEFINE w == Event(t, ev, c, ok)
           h == SndHead(t, c, ok)
           Persists(v) == SetState(v, "PERSIST")
<1>1. t \in Tcbs /\ t.ostate \in {"IDLE", "XMIT", "RETRANS", "PERSIST"}
  BY DEF Full, Core, Tcbs
<1>2. CASE t.ostate = "IDLE"
  <2>1. w = t
    BY <1>2 DEF Event, tcbos_idle
  <2> QED BY <2>1
<1>3. ASSUME t.ostate # "IDLE"
      PROVE  /\ Full(h, p) /\ Full(Persists(h), p) /\ Full(Persists(t), p)
             /\ Full(XmitOrPersist(h), p) /\ Full(XmitOrPersist(t), p)
             /\ CanRetrans(t) => Full(Resend(t, t.nretrans), p)
  <2>1. Ready(t, p) /\ t.timer
    BY <1>3, FullReady
  <2>2. Ready(h, p) /\ h.timer
    BY <2>1, SndHeadReady
  <2> HIDE DEF h
  <2>3. Full(h, p)
    BY <2>2, ReadyFull
  <2> DEFINE o == "PERSIST"
  <2>4. o \in OutStates /\ o # "IDLE"
    BY DEF OutStates
  <2> HIDE DEF o
  <2>5. Full(SetState(h, o), p) /\ Full(SetState(t, o), p)
    BY <2>1, <2>2, <2>4, SetStateReady
  <2>6. Full(XmitOrPersist(h), p) /\ Full(XmitOrPersist(t), p)
    BY <2>1, <2>2, XmitOrPersistFull DEF Ready
  <2>7. CanRetrans(t) => Full(Resend(t, t.nretrans), p)
    <3> DEFINE n == t.nretrans
               v == Resend(t, n)
    <3>1. n \in Nat
      BY <1>1, OutAssumption DEF Tcbs
    <3> HIDE DEF n
    <3>2. t.q # <<>>
      BY <2>1, ReadyQueue
    <3>3. Core(v, p) /\ Kept(t, v)
      BY <2>1, <3>1, <3>2, ResendCore DEF Ready
    <3>4. Ready(v, p) /\ v.timer
      BY <2>1, <3>3, KeptReady DEF Kept
    <3> QED BY <3>4, ReadyFull DEF n
  <2> QED BY <2>3, <2>5, <2>6, <2>7 DEF o
<1>4. CASE t.ostate = "XMIT"
  <2>1. w \in {h, t, Persists(h), Persists(t)}
    <3>1. CASE ev = "WNDOPEN"
      BY <1>4, <3>1 DEF Event, tcbos_xmit, SetState
    <3>2. CASE ev = "WNDCLOSE"
      BY <1>4, <3>2 DEF Event, tcbos_xmit, SetState
    <3>3. CASE ev = "DUPACK"
      BY <1>4, <3>3 DEF Event, tcbos_xmit, SetState
    <3> QED BY <3>1, <3>2, <3>3
  <2> HIDE DEF w, h, Persists
  <2> QED BY <1>3, <1>4, <2>1 DEF w
<1>5. CASE t.ostate = "RETRANS"
  <2>1. w \in {t, Persists(t)} \/ (CanRetrans(t) /\ w = Resend(t, t.nretrans))
    <3>1. CASE ev = "WNDOPEN"
      BY <1>5, <3>1 DEF Event, tcbos_retrans
    <3>2. CASE ev = "WNDCLOSE"
      BY <1>5, <3>2 DEF Event, tcbos_retrans, SetState
    <3>3. CASE ev = "DUPACK"
      BY <1>5, <3>3 DEF Event, tcbos_retrans
    <3> QED BY <3>1, <3>2, <3>3
  <2> HIDE DEF w, h, Persists
  <2> QED BY <1>3, <1>5, <2>1 DEF w
<1>6. CASE t.ostate = "PERSIST"
  <2>1. w \in {t, h, XmitOrPersist(t), XmitOrPersist(h)}
    <3>1. CASE ev = "WNDOPEN"
      BY <1>6, <3>1 DEF Event, tcbos_persist
    <3>2. CASE ev = "WNDCLOSE"
      BY <1>6, <3>2 DEF Event, tcbos_persist
    <3>3. CASE ev = "DUPACK"
      BY <1>6, <3>3 DEF Event, tcbos_persist
    <3> QED BY <3>1, <3>2, <3>3
  <2> HIDE DEF w, h, Persists
  <2> QED BY <1>3, <1>6, <2>1 DEF w
<1> QED BY <1>1, <1>2, <1>4, <1>5, <1>6

\* Something has been acknowledged.
LEMMA AckFull ==
    ASSUME NEW t, NEW p, Core(t, p), Asleep(t), Armed(t), Peer(p),
           t.state # "CLOSED", t.ostate # "IDLE", NEW c \in Nat, NEW ok \in BOOLEAN
    PROVE  Full(Event(t, "ACKRCVD", c, ok), p)
<1> DEFINE w == Event(t, "ACKRCVD", c, ok)
           d == DropData(t)
           h == SndHead(d, c, ok)
           rest == SetPhase(d, "IDLE", FALSE)
           Xmits(v) == SetState(v, "XMIT")
<1>1. t.ostate \in {"XMIT", "RETRANS", "PERSIST"}
  BY DEF Core, Tcbs
<1>2. Core(d, p) /\ Dropped(t, d) /\ Fresh(d) /\ Asleep(d)
  BY DropCore
<1>3. d.una \in Nat /\ d.write \in Nat
  BY <1>2 DEF Dropped, Tcbs
<1>4. \/ d.una >= d.write /\ w = rest
      \/ (~(d.una >= d.write)) /\ w \in {d, Xmits(h), Xmits(d)}
  <2>1. CASE t.ostate = "XMIT"
    <3>1. w = IF d.una >= d.write THEN rest ELSE d
      BY <2>1 DEF Event, tcbos_xmit, SetPhase
    <3> HIDE DEF w, d, rest
    <3> QED BY <3>1
  <2>2. CASE t.ostate = "RETRANS"
    <3>1. w = IF d.una >= d.write THEN rest
              ELSE IF d.una >= d.nxt THEN Xmits(IF d.nxt < d.write THEN h ELSE d) ELSE d
      BY <2>2 DEF Event, tcbos_retrans, SetPhase, SetState
    <3> HIDE DEF w, d, rest, h, Xmits
    <3> QED BY <3>1
  <2>3. CASE t.ostate = "PERSIST"
    <3>1. w = IF d.una >= d.write THEN rest ELSE d
      BY <2>3 DEF Event, tcbos_persist, SetPhase
    <3> HIDE DEF w, d, rest
    <3> QED BY <3>1
  <2> QED BY <1>1, <2>1, <2>2, <2>3
<1> HIDE DEF d
<1>5. CASE d.una >= d.write /\ w = rest
  <2>1. Full(rest, p)
    BY <1>2, <1>5, RestFull DEF Dropped
  <2> QED BY <1>5, <2>1
<1>6. CASE (~(d.una >= d.write)) /\ w \in {d, Xmits(h), Xmits(d)}
  <2>1. Ready(d, p) /\ d.timer
    BY <1>2, <1>3, <1>6 DEF Ready, Dropped, Armed
  <2>2. Ready(h, p) /\ h.timer
    BY <2>1, SndHeadReady
  <2> DEFINE o == "XMIT"
  <2>3. o \in OutStates /\ o # "IDLE"
    BY DEF OutStates
  <2> HIDE DEF w, h, o
  <2>4. Full(SetState(h, o), p) /\ Full(SetState(d, o), p)
    BY <2>1, <2>2, <2>3, SetStateReady
  <2>5. Full(d, p)
    BY <2>1, ReadyFull
  <2> QED BY <1>6, <2>4, <2>5 DEF w, o
<1> QED BY <1>4, <1>5, <1>6
(***************************************************************************)
(* Writing                                                                 *)
(***************************************************************************)
NoFin(q) == \A k \in 1 .. Len(q) : ~q[k].fin

LEMMA ChainLast ==
    ASSUME NEW q, Chain(q), q # <<>>
    PROVE  /\ Len(q) \in 1 .. Len(q) /\ 1 \in 1 .. Len(q) /\ LastOf(q) \in Segments
           /\ LastOf(q).a \in Nat /\ LastOf(q).e \in Nat /\ LastOf(q).a < LastOf(q).e
           /\ \A k \in 1 .. Len(q) : q[k].a \in Nat /\ q[k].e \in Nat /\ q[k].e <= LastOf(q).e
<1>1. q \in Seq(Segments) /\ Len(q) \in Nat /\ Len(q) # 0
  BY DEF Chain
<1>2. Len(q) \in 1 .. Len(q) /\ 1 \in 1 .. Len(q)
  BY <1>1
<1>3. \A k \in 1 .. Len(q) : q[k] \in Segments /\ q[k].a \in Nat /\ q[k].e \in Nat
  <2>1. \A k \in 1 .. Len(q) : q[k] \in Segments
    BY <1>1
  <2> QED BY <2>1 DEF Segments
<1>4. LastOf(q).a < LastOf(q).e
  BY <1>2 DEF Chain, LastOf
<1>5. ASSUME NEW k \in 1 .. Len(q) PROVE q[k].e <= LastOf(q).e
  <2>1. CASE k = Len(q)
    BY <1>3, <2>1 DEF LastOf
  <2>2. CASE k # Len(q)
    <3>1. k < Len(q)
      BY <1>1, <2>2
    <3>2. q[k].e <= LastOf(q).a
      BY <1>2, <3>1 DEF Chain, LastOf
    <3>3. LastOf(q).a \in Nat /\ LastOf(q).e \in Nat /\ q[k].e \in Nat
      BY <1>2, <1>3 DEF LastOf
    <3> QED BY <1>4, <3>2, <3>3
  <2> QED BY <2>1, <2>2
<1> QED BY <1>2, <1>3, <1>4, <1>5 DEF LastOf

\* The last segment grows,
Regrown(q, g) == [q EXCEPT ![Len(q)] = g]

LEMMA RegrownIs ==
    ASSUME NEW q, Chain(q), q # <<>>, NEW g \in Segments,
           g.a = LastOf(q).a, LastOf(q).e <= g.e, DataLen(g) <= Mss
    PROVE  /\ Chain(Regrown(q, g)) /\ Regrown(q, g) # <<>> /\ LastOf(Regrown(q, g)) = g
           /\ Regrown(q, g)[1].a = q[1].a /\ q[1].e <= Regrown(q, g)[1].e
           /\ NoFin(q) /\ ~g.fin => NoFin(Regrown(q, g))
<1> DEFINE r == Regrown(q, g)
           n == Len(q)
<1>1. q \in Seq(Segments) /\ n \in Nat /\ n >= 1
  BY DEF Chain
<1>2. r \in Seq(Segments) /\ Len(r) = n /\ r[n] = g
      /\ \A k \in 1 .. n : k # n => r[k] = q[k]
  BY <1>1 DEF Regrown
<1> HIDE DEF r
<1>3. /\ n \in 1 .. n /\ 1 \in 1 .. n
      /\ q[n].a \in Nat /\ q[n].e \in Nat /\ q[n].a < q[n].e
      /\ \A k \in 1 .. n : q[k].a \in Nat /\ q[k].e \in Nat
  BY ChainLast DEF LastOf
<1>4. g.a = q[n].a /\ q[n].e <= g.e /\ g.e \in Nat
  BY DEF LastOf, Segments
<1>5. \A k \in 1 .. n : r[k].a = q[k].a /\ (k # n => r[k].e = q[k].e /\ (r[k].fin <=> q[k].fin))
  BY <1>2, <1>4
<1>6. \A k \in 1 .. n : r[k].a < r[k].e /\ DataLen(r[k]) <= Mss
  <2>1. ASSUME NEW k \in 1 .. n PROVE r[k].a < r[k].e /\ DataLen(r[k]) <= Mss
    <3>1. CASE k = n
      BY <1>2, <1>3, <1>4, <3>1
    <3>2. CASE k # n
      BY <1>2, <3>2 DEF Chain
    <3> QED BY <3>1, <3>2
  <2> QED BY <2>1
<1>7. ASSUME NEW k \in 1 .. n - 1 PROVE r[k].e = r[k + 1].a /\ ~r[k].fin
  <2>1. k \in 1 .. n /\ k + 1 \in 1 .. n /\ k # n
    BY <1>1
  <2>2. q[k].e = q[k + 1].a /\ ~q[k].fin
    BY DEF Chain
  <2> QED BY <1>5, <2>1, <2>2
<1>8. ASSUME NEW j \in 1 .. n, NEW k \in 1 .. n, j < k PROVE r[j].e <= r[k].a
  <2>1. j # n
    BY <1>1, <1>8
  <2>2. q[j].e <= q[k].a
    BY <1>8 DEF Chain
  <2> QED BY <1>5, <2>1, <2>2
<1>9. Chain(r)
  BY <1>2, <1>6, <1>7, <1>8 DEF Chain
<1>10. r # <<>> /\ LastOf(r) = g /\ r[1].a = q[1].a
  BY <1>1, <1>2, <1>3, <1>5 DEF LastOf
<1>11. q[1].e <= r[1].e
  <2>1. CASE n = 1
    BY <1>2, <1>4, <2>1
  <2>2. CASE n # 1
    <3>1. r[1].e = q[1].e
      BY <1>3, <1>5, <2>2
    <3> QED BY <1>3, <3>1
  <2> QED BY <2>1, <2>2
<1>12. NoFin(q) /\ ~g.fin => NoFin(r)
  BY <1>2 DEF NoFin
<1> QED BY <1>9, <1>10, <1>11, <1>12 DEF r

\* ... or another one is appended.
Appended(q, g) == q \o <<g>>

LEMMA AppendedIs ==
    ASSUME NEW q, Chain(q), NEW g \in Segments, g.a < g.e, DataLen(g) <= Mss,
           q # <<>> => LastOf(q).e = g.a /\ ~LastOf(q).fin
    PROVE  /\ Chain(Appended(q, g)) /\ Appended(q, g) # <<>> /\ LastOf(Appended(q, g)) = g
           /\ q # <<>> => Appended(q, g)[1] = q[1]
           /\ q = <<>> => Appended(q, g)[1] = g
           /\ NoFin(q) /\ ~g.fin => NoFin(Appended(q, g))
<1> DEFINE r == Appended(q, g)
           n == Len(q)
<1>1. q \in Seq(Segments) /\ n \in Nat /\ (q = <<>> <=> n = 0)
  BY DEF Chain
<1>2. r \in Seq(Segments) /\ Len(r) = n + 1 /\ r[n + 1] = g /\ \A k \in 1 .. n : r[k] = q[k]
  BY <1>1 DEF Appended
<1> HIDE DEF r
<1>3. \A k \in 1 .. n : q[k].a \in Nat /\ q[k].e \in Nat /\ q[k].e <= g.a
  <2>1. CASE q = <<>>
    BY <1>1, <2>1
  <2>2. CASE q # <<>>
    BY <2>2, ChainLast
  <2> QED BY <2>1, <2>2
<1>4. \A k \in 1 .. n + 1 : k \in 1 .. n \/ k = n + 1
  BY <1>1
<1>5. \A k \in 1 .. n + 1 : r[k].a < r[k].e /\ DataLen(r[k]) <= Mss
  BY <1>2, <1>4 DEF Chain
<1>6. ASSUME NEW k \in 1 .. n PROVE r[k].e = r[k + 1].a /\ ~r[k].fin
  <2>1. CASE k = n
    <3>1. q # <<>> /\ LastOf(q) = r[n] /\ r[k + 1] = g
      BY <1>1, <1>2, <2>1 DEF LastOf
    <3> QED BY <2>1, <3>1
  <2>2. CASE k # n
    <3>1. k \in 1 .. n - 1 /\ k + 1 \in 1 .. n
      BY <1>1, <2>2
    <3>2. q[k].e = q[k + 1].a /\ ~q[k].fin
      BY <3>1 DEF Chain
    <3> QED BY <1>2, <3>1, <3>2
  <2> QED BY <2>1, <2>2
<1>7. ASSUME NEW j \in 1 .. n + 1, NEW k \in 1 .. n + 1, j < k PROVE r[j].e <= r[k].a
  <2>1. j \in 1 .. n
    BY <1>1, <1>7
  <2>2. CASE k \in 1 .. n
    <3>1. q[j].e <= q[k].a
      BY <1>7, <2>1, <2>2 DEF Chain
    <3> QED BY <1>2, <2>1, <2>2, <3>1
  <2>3. CASE k = n + 1
    BY <1>2, <1>3, <2>1, <2>3
  <2> QED BY <1>4, <2>2, <2>3
<1>8. Chain(r)
  <2>1. Len(r) - 1 = n
    BY <1>1, <1>2
  <2> QED BY <1>2, <1>5, <1>6, <1>7, <2>1 DEF Chain
<1>9. r # <<>> /\ LastOf(r) = g
  BY <1>1, <1>2 DEF LastOf
<1>10. (q # <<>> => r[1] = q[1]) /\ (q = <<>> => r[1] = g)
  BY <1>1, <1>2
<1>11. NoFin(q) /\ ~g.fin => NoFin(r)
  BY <1>2, <1>4 DEF NoFin
<1> QED BY <1>8, <1>9, <1>10, <1>11 DEF r
SetWritten(t, q, w) == [t EXCEPT !.q = q, !.write = w]

Wrote(t, u, q, w) ==
    /\ u \in Tcbs /\ u.q = q /\ u.write = w
    /\ u.state = t.state /\ u.ostate = t.ostate /\ (u.timer <=> t.timer)
    /\ u.una = t.una /\ u.nxt = t.nxt /\ u.max = t.max
    /\ u.wnd = t.wnd /\ u.wndack = t.wndack /\ u.out = t.out
    /\ (u.nomem <=> t.nomem) /\ (u.asleep <=> t.asleep)

LEMMA SetWrittenIs ==
    ASSUME NEW t \in Tcbs, NEW q \in Seq(Segments), NEW w \in Nat
    PROVE  Wrote(t, SetWritten(t, q, w), q, w)
<1> DEFINE u == SetWritten(t, q, w)
<1>1. u \in Tcbs
  BY DEF Tcbs, SetWritten
<1>2. u.q = q /\ u.write = w /\ u.nxt = t.nxt /\ u.max = t.max /\ u.out = t.out /\ (u.nomem <=> t.nomem)
  BY DEF Tcbs, SetWritten
<1>3. /\ u.state = t.state /\ u.ostate = t.ostate /\ (u.timer <=> t.timer)
      /\ u.una = t.una /\ u.wnd = t.wnd /\ u.wndack = t.wndack /\ (u.asleep <=> t.asleep)
  BY DEF Tcbs, SetWritten
<1> QED BY <1>1, <1>2, <1>3 DEF Wrote

\* The queue q, which ends at w, has grown to r, which ends at w + n.
Grown(q, r, una, w) ==
    /\ Chain(r) /\ r # <<>> /\ LastOf(r).e = w
    /\ r[1].a <= una /\ una < r[1].e

\* tcp_output queues n octets or FIN.
LEMMA EnqueuedIs ==
    ASSUME NEW t \in Tcbs, Chain(t.q), Covers(t), Fresh(t), NoFin(t.q), t.state # "CLOSED",
           t.una <= t.write, NEW n \in 0 .. Mss, NEW fin \in BOOLEAN,
           n > 0 <=> ~fin
    PROVE  \E r, w : /\ Enqueued(t, n, fin) = SetWritten(t, r, w)
                     /\ w = t.write + n + (IF fin THEN 1 ELSE 0)
                     /\ Grown(t.q, r, t.una, w)
                     /\ ~fin => NoFin(r)
<1> DEFINE comb == t.q # <<>> /\ t.max <= LastOf(t.q).a /\ LastOf(t.q).room
           k    == IF comb THEN Min({n, Mss - DataLen(LastOf(t.q))}) ELSE 0
           f    == IF fin THEN 1 ELSE 0
           left == n - k
           g    == LastOf(t.q)
           x    == fin /\ left = 0
           h    == Segment(g.a, g.e + k + (IF x THEN 1 ELSE 0), x, ~x /\ DataLen(g) + k < Mss)
           l    == Segment(t.write + k, t.write + n + f, fin, ~fin /\ left < Mss)
           old  == IF ~comb THEN t.q ELSE Regrown(t.q, h)
           new  == IF left > 0 \/ (fin /\ ~comb) THEN <<l>> ELSE <<>>
           w    == t.write + n + f
<1>1. /\ t.una \in Nat /\ t.write \in Nat /\ n \in Nat /\ n <= Mss /\ Mss \in Nat /\ f \in Nat /\ w \in Nat
  <2>1. t.una \in Nat /\ t.write \in Nat
    BY DEF Tcbs
  <2>2. n \in Nat /\ n <= Mss /\ Mss \in Nat
    BY OutAssumption
  <2>3. f \in Nat
    OBVIOUS
  <2> QED BY <2>1, <2>2, <2>3
<1>2. Enqueued(t, n, fin) = SetWritten(t, old \o new, w)
  BY DEF Enqueued, SetWritten, Regrown
<1>3. ASSUME t.q # <<>>
      PROVE  /\ g \in Segments /\ g.a \in Nat /\ g.e \in Nat /\ g.a < g.e /\ ~g.fin /\ g.e = t.write
             /\ DataLen(g) = g.e - g.a /\ DataLen(g) <= Mss
             /\ t.q[1].a <= t.una /\ t.una < t.q[1].e /\ t.q[1].e \in Nat
  <2>1. /\ g \in Segments /\ g.a \in Nat /\ g.e \in Nat /\ g.a < g.e
        /\ Len(t.q) \in 1 .. Len(t.q) /\ 1 \in 1 .. Len(t.q) /\ t.q[1].e \in Nat
    BY <1>3, ChainLast
  <2>2. ~g.fin /\ DataLen(g) <= Mss
    BY <2>1 DEF NoFin, LastOf, Chain
  <2>3. DataLen(g) = g.e - g.a
    <3> HIDE DEF g
    <3> QED BY <2>1, <2>2 DEF DataLen
  <2> QED BY <1>3, <2>1, <2>2, <2>3 DEF Covers, Fresh
<1>4. CASE comb
  <2>1. g \in Segments /\ g.a \in Nat /\ g.e \in Nat /\ g.a < g.e /\ ~g.fin /\ g.e = t.write
        /\ DataLen(g) = g.e - g.a /\ DataLen(g) <= Mss
    BY <1>3, <1>4
  <2>2. k = IF n <= Mss - DataLen(g) THEN n ELSE Mss - DataLen(g)
    <3> HIDE DEF g
    <3>1. Min({n, Mss - DataLen(g)}) = IF n <= Mss - DataLen(g) THEN n ELSE Mss - DataLen(g)
      BY <1>1, <2>1, MinOfTwo
    <3> QED BY <1>4, <3>1 DEF g
  <2> HIDE DEF k, g
  <2>3. k \in Nat /\ k <= n /\ DataLen(g) + k <= Mss
    BY <1>1, <2>1, <2>2
  <2>4. left \in Nat /\ (left > 0 => ~fin)
    BY <1>1, <2>3
  <2> DEFINE xx == IF x THEN 1 ELSE 0
             rr == ~x /\ DataLen(g) + k < Mss
             b  == g.e + k + xx
  <2>5. xx \in {0, 1} /\ x \in BOOLEAN /\ rr \in BOOLEAN /\ (x <=> xx = 1)
    OBVIOUS
  <2>6. b \in Nat /\ g.e <= b /\ b - g.a - xx <= Mss
    BY <1>1, <2>1, <2>3, <2>5
  <2> HIDE DEF left
  <2>7. h.a = g.a /\ h.e = b /\ (h.fin <=> x) /\ h \in Segments
    <3> HIDE DEF b, x, rr
    <3> QED BY <2>1, <2>5, <2>6 DEF Segment, Segments, b, rr
  <2>8. DataLen(h) <= Mss
    <3>1. DataLen(h) = b - g.a - xx
      <4> HIDE DEF h, b, x
      <4>1. DataLen(h) = h.e - h.a - (IF h.fin THEN 1 ELSE 0)
        BY DEF DataLen
      <4>2. (IF h.fin THEN 1 ELSE 0) = xx
        BY <2>5, <2>7
      <4> QED BY <2>7, <4>1, <4>2
    <3> QED BY <2>6, <3>1
  <2> HIDE DEF h, x
  <2> DEFINE o == Regrown(t.q, h)
  <2>9. /\ Chain(o) /\ o # <<>> /\ LastOf(o) = h
        /\ o[1].a = t.q[1].a /\ t.q[1].e <= o[1].e
        /\ NoFin(t.q) /\ ~h.fin => NoFin(o)
    <3>1. h.a = LastOf(t.q).a /\ LastOf(t.q).e <= h.e /\ t.q # <<>>
      BY <1>4, <2>6, <2>7 DEF g
    <3> QED BY <2>7, <2>8, <3>1, RegrownIs
  <2>10. o[1].a <= t.una /\ t.una < o[1].e
    <3>1. t.q[1].a <= t.una /\ t.una < t.q[1].e /\ t.q[1].e \in Nat
      BY <1>3, <1>4
    <3>2. o[1].e \in Nat
      BY <2>9, ChainLast
    <3> QED BY <1>1, <2>9, <3>1, <3>2
  <2> HIDE DEF o
  <2>11. CASE left > 0
    <3>1. ~fin /\ f = 0 /\ ~x /\ xx = 0
      BY <2>4, <2>5, <2>11 DEF x
    <3>2. h.e = t.write + k /\ ~h.fin
      BY <2>1, <2>3, <2>7, <3>1
    <3>3. k < n
      BY <1>1, <2>3, <2>11 DEF left
    <3>4. l.a = t.write + k /\ l.e = w /\ (l.fin <=> fin) /\ l \in Segments
      BY <1>1, <2>3 DEF Segment, Segments
    <3>5. l.a < l.e /\ DataLen(l) <= Mss
      <4>1. DataLen(l) = l.e - l.a
        <5> HIDE DEF l
        <5> QED BY <3>1, <3>4, <1>1, <2>3 DEF DataLen
      <4> HIDE DEF l
      <4> QED BY <1>1, <2>3, <3>1, <3>3, <3>4, <4>1
    <3> HIDE DEF l
    <3>6. /\ Chain(Appended(o, l)) /\ Appended(o, l) # <<>> /\ LastOf(Appended(o, l)) = l
          /\ Appended(o, l)[1] = o[1]
          /\ NoFin(o) /\ ~l.fin => NoFin(Appended(o, l))
      BY <2>9, <3>2, <3>4, <3>5, AppendedIs
    <3>7. old \o new = Appended(o, l)
      BY <1>4, <2>11 DEF o, Appended
    <3> HIDE DEF old, new, comb, w
    <3>8. Grown(t.q, Appended(o, l), t.una, w) /\ NoFin(Appended(o, l))
      BY <2>9, <2>10, <3>1, <3>2, <3>4, <3>6 DEF Grown
    <3> QED BY <1>2, <3>7, <3>8 DEF w, f
  <2>12. CASE ~(left > 0)
    <3>1. left = 0 /\ k = n
      BY <1>1, <2>3, <2>4, <2>12 DEF left
    <3>2. (x <=> fin) /\ xx = f
      BY <2>5, <3>1 DEF x
    <3>3. h.e = w
      BY <2>1, <2>7, <3>1, <3>2
    <3>4. old \o new = o
      <4>1. old = o /\ new = <<>> /\ o \in Seq(Segments)
        BY <1>4, <2>9, <2>12 DEF o, Chain
      <4> HIDE DEF old, new, o
      <4> QED BY <4>1
    <3> HIDE DEF old, new, comb, w
    <3>5. Grown(t.q, o, t.una, w) /\ (~fin => NoFin(o))
      BY <2>7, <2>9, <2>10, <3>2, <3>3 DEF Grown
    <3> QED BY <1>2, <3>4, <3>5 DEF w, f
  <2> QED BY <2>11, <2>12
<1>5. CASE ~comb
  <2>1. k = 0 /\ left = n
    BY <1>1, <1>5
  <2>2. old = t.q /\ new = <<l>>
    BY <1>1, <1>5, <2>1
  <2>3. l.a = t.write /\ l.e = w /\ (l.fin <=> fin) /\ l \in Segments
    BY <1>1, <2>1 DEF Segment, Segments
  <2> HIDE DEF l
  <2>4. l.a < l.e
    BY <1>1, <2>3
  <2>5. DataLen(l) <= Mss
    <3>1. DataLen(l) = l.e - l.a - f
      BY <2>3 DEF DataLen
    <3> HIDE DEF f
    <3> QED BY <1>1, <2>3, <3>1
  <2>6. t.q # <<>> => LastOf(t.q).e = l.a /\ ~LastOf(t.q).fin
    BY <1>3, <2>3
  <2> DEFINE o == Appended(t.q, l)
  <2>7. /\ Chain(o) /\ o # <<>> /\ LastOf(o) = l
        /\ t.q # <<>> => o[1] = t.q[1]
        /\ t.q = <<>> => o[1] = l
        /\ NoFin(t.q) /\ ~l.fin => NoFin(o)
    BY <2>3, <2>4, <2>5, <2>6, AppendedIs
  <2>8. old \o new = o
    BY <2>2 DEF Appended
  <2> HIDE DEF old, new, comb, o
  <2>9. o[1].a <= t.una /\ t.una < o[1].e
    <3>1. CASE t.q # <<>>
      BY <1>3, <2>7, <3>1
    <3>2. CASE t.q = <<>>
      <4>1. t.una = t.write
        BY <3>2 DEF Covers
      <4> QED BY <1>1, <2>3, <2>4, <2>7, <3>2, <4>1
    <3> QED BY <3>1, <3>2
  <2> HIDE DEF w
  <2>10. Grown(t.q, o, t.una, w) /\ (~fin => NoFin(o))
    BY <2>3, <2>7, <2>9 DEF Grown
  <2> QED BY <1>2, <2>8, <2>10 DEF w, f
<1> QED BY <1>4, <1>5
\* Output of n octets, or of FIN when the state has changed already
LEMMA OutputFull ==
    ASSUME NEW t, NEW p, Core(t, p), Fresh(t), Phase(t), Armed(t), ~t.asleep, Peer(p),
           NoFin(t.q), t.write <= MaxData, t.state # "CLOSED",
           NEW n \in 0 .. Mss, t.write + n <= MaxData, NEW fin \in BOOLEAN, n > 0 <=> ~fin,
           fin => ~Connected(t),
           NEW c \in Nat, NEW ok \in BOOLEAN
    PROVE  Full(Output(t, n, fin, c, ok), p)
<1> DEFINE f == IF fin THEN 1 ELSE 0
           u == Enqueued(t, n, fin)
<1>1. /\ t \in Tcbs /\ t.una \in Nat /\ t.nxt \in Nat /\ t.max \in Nat /\ t.write \in Nat
      /\ t.una <= t.max /\ t.nxt <= t.max /\ t.max <= t.write /\ t.wndack <= t.una
      /\ n \in Nat /\ MaxData \in Nat
  BY CoreNumbers, OutAssumption
<1>2. Chain(t.q) /\ Covers(t) /\ Offered(t, p) /\ t.una <= t.write
  BY <1>1 DEF Core
<1>3. PICK r, w : /\ u = SetWritten(t, r, w) /\ w = t.write + n + f
                  /\ Grown(t.q, r, t.una, w) /\ (~fin => NoFin(r))
  BY <1>1, <1>2, EnqueuedIs
<1>4. w \in Nat /\ t.write < w /\ w <= MaxData + 1 /\ (~fin => w <= MaxData)
  BY <1>1, <1>3
<1> HIDE DEF u, f
<1>5. r \in Seq(Segments) /\ Chain(r) /\ r # <<>> /\ LastOf(r).e = w /\ r[1].a <= t.una /\ t.una < r[1].e
  BY <1>3 DEF Grown, Chain
<1>6. /\ u \in Tcbs /\ u.q = r /\ u.write = w
      /\ u.state = t.state /\ u.ostate = t.ostate /\ (u.timer <=> t.timer)
      /\ u.una = t.una /\ u.nxt = t.nxt /\ u.max = t.max
      /\ u.wnd = t.wnd /\ u.wndack = t.wndack /\ u.out = t.out
      /\ (u.nomem <=> t.nomem) /\ (u.asleep <=> t.asleep)
  <2>1. Wrote(t, u, r, w)
    BY <1>1, <1>3, <1>4, <1>5, SetWrittenIs
  <2> QED BY <2>1 DEF Wrote
<1>7. Covers(u) /\ Fresh(u)
  BY <1>5, <1>6 DEF Covers, Fresh
<1>8. Order(u)
  <2>1. Connected(u) => ~fin
    BY <1>6 DEF Connected
  <2>2. Connected(u) => u.write <= MaxData /\ \A k \in 1 .. Len(u.q) : ~u.q[k].fin
    BY <1>3, <1>4, <1>6, <2>1 DEF NoFin
  <2> QED BY <1>1, <1>4, <1>6, <2>2 DEF Order
<1>9. Offered(u, p)
  BY <1>2, <1>6 DEF Offered
<1>10. Core(u, p)
  BY <1>5, <1>6, <1>7, <1>8, <1>9 DEF Core
<1>11. Asleep(u) /\ Armed(u) /\ u.state # "CLOSED"
  BY <1>6 DEF Asleep, Armed
<1>12. u.una # u.write /\ u.nxt < u.write
  BY <1>1, <1>4, <1>6
<1>13. Full(Event(u, "SEND", c, ok), p)
  BY <1>7, <1>10, <1>11, <1>12, SendFull
<1> QED BY <1>13 DEF Output, u

(***************************************************************************)
(* Answers of the peer                                                     *)
(***************************************************************************)
\* tcp_sndwnd
SetWindow(t, n, w, a, x) == [t EXCEPT !.nxt = n, !.wnd = w, !.wndack = a, !.wndmax = x]

\* What tcp_sndwnd leaves alone
Offers(t, u) ==
    /\ u \in Tcbs /\ u.q = t.q /\ u.write = t.write
    /\ u.state = t.state /\ u.ostate = t.ostate /\ (u.timer <=> t.timer)
    /\ u.una = t.una /\ u.max = t.max /\ u.out = t.out
    /\ (u.nomem <=> t.nomem) /\ (u.asleep <=> t.asleep)

WindowIs(u, n, w, a) == u.nxt = n /\ u.wnd = w /\ u.wndack = a

LEMMA SetWindowIs ==
    ASSUME NEW t \in Tcbs, NEW n \in Nat, NEW w \in 0 .. Window, NEW a \in Nat, NEW x \in 0 .. Window
    PROVE  Offers(t, SetWindow(t, n, w, a, x)) /\ WindowIs(SetWindow(t, n, w, a, x), n, w, a)
<1> DEFINE u == SetWindow(t, n, w, a, x)
<1>1. u \in Tcbs
  BY DEF Tcbs, SetWindow
<1>2. u.q = t.q /\ u.write = t.write /\ u.nxt = n /\ u.max = t.max /\ u.out = t.out /\ (u.nomem <=> t.nomem)
  BY DEF Tcbs, SetWindow
<1>3. /\ u.state = t.state /\ u.ostate = t.ostate /\ (u.timer <=> t.timer)
      /\ u.una = t.una /\ u.wnd = w /\ u.wndack = a /\ (u.asleep <=> t.asleep)
  BY DEF Tcbs, SetWindow
<1> QED BY <1>1, <1>2, <1>3 DEF Offers, WindowIs

LEMMA SndWndIs ==
    ASSUME NEW t, NEW p, Core(t, p), Peer(p), NEW m, AnswerOK(m, p)
    PROVE  /\ Offers(t, SndWnd(t, m)) /\ SndWnd(t, m).nxt <= t.max
           /\ SndWnd(t, m).wnd = m.wnd /\ SndWnd(t, m).wndack = m.ack
<1> DEFINE owlast == t.wndack + t.wnd
           wlast  == m.ack + m.wnd
           n == IF wlast < owlast /\ wlast < t.nxt THEN wlast ELSE t.nxt
           x == Max({t.wndmax, m.wnd})
           u == SndWnd(t, m)
<1>1. /\ t \in Tcbs /\ t.nxt \in Nat /\ t.max \in Nat /\ t.nxt <= t.max
      /\ t.wnd \in Nat /\ t.wndack \in Nat
  BY CoreNumbers
<1>2. t.wndmax \in 0 .. Window /\ m.wnd \in 0 .. Window /\ m.ack \in Nat /\ Window \in Nat
  BY <1>1, OutAssumption DEF Tcbs, AnswerOK
<1>3. x = IF t.wndmax >= m.wnd THEN t.wndmax ELSE m.wnd
  BY <1>2, MaxOfTwo
<1>4. x \in 0 .. Window /\ n \in Nat /\ n <= t.max
  BY <1>1, <1>2, <1>3
<1>5. u = SetWindow(t, n, m.wnd, m.ack, x)
  BY DEF SndWnd, SetWindow
<1> HIDE DEF u, n, x
<1> DEFINE w == m.wnd
           a == m.ack
<1> HIDE DEF w, a
<1>6. w \in 0 .. Window /\ a \in Nat /\ u = SetWindow(t, n, w, a, x)
  BY <1>2, <1>5 DEF w, a
<1>7. Offers(t, u) /\ WindowIs(u, n, w, a)
  BY <1>1, <1>4, <1>6, SetWindowIs
<1> QED BY <1>4, <1>7 DEF WindowIs, u, w, a
\* An acknowledgement moves una and the window to the right.
LEMMA MovedCore ==
    ASSUME NEW t, NEW p, Core(t, p), NEW v \in Tcbs,
           v.q = t.q, v.write = t.write, v.state = t.state, v.max = t.max, v.out = t.out,
           v.nomem <=> t.nomem, v.nxt <= t.max, t.una <= v.una, v.una <= t.max,
           v.wndack <= v.una, v.wndack + v.wnd <= p.read + Window
    PROVE  Core(v, p)
<1>1. /\ t \in Tcbs /\ t.una \in Nat /\ t.max \in Nat /\ t.write \in Nat /\ t.max <= t.write /\ v.una \in Nat
  BY CoreNumbers DEF Tcbs
<1>2. Chain(t.q) /\ Covers(t) /\ Order(t) /\ Offered(t, p)
  BY DEF Core
<1>3. Covers(v)
  <2>1. CASE t.q = <<>>
    BY <1>1, <1>2, <2>1 DEF Covers
  <2>2. CASE t.q # <<>>
    <3>1. t.q[1].a \in Nat /\ t.q[1].a <= t.una /\ LastOf(t.q).e = t.write
      BY <1>2, <2>2, ChainLast DEF Covers
    <3>2. t.q[1].a <= v.una
      BY <1>1, <3>1
    <3> QED BY <2>2, <3>1, <3>2 DEF Covers
  <2> QED BY <2>1, <2>2
<1>4. Order(v)
  BY <1>1, <1>2 DEF Order, Connected
<1>5. Offered(v, p)
  BY <1>2 DEF Offered
<1> QED BY <1>2, <1>3, <1>4, <1>5 DEF Core

LEMMA SetUnaIs ==
    ASSUME NEW t \in Tcbs, NEW n \in Nat
    PROVE  LET u == SetUna(t, n)
           IN  /\ u \in Tcbs /\ u.q = t.q /\ u.write = t.write
               /\ u.state = t.state /\ u.ostate = t.ostate /\ (u.timer <=> t.timer)
               /\ u.una = n /\ u.nxt = t.nxt /\ u.max = t.max
               /\ u.wnd = t.wnd /\ u.wndack = t.wndack /\ u.out = t.out
               /\ (u.nomem <=> t.nomem) /\ (u.asleep <=> t.asleep)
<1> DEFINE u == SetUna(t, n)
<1>1. u \in Tcbs
  BY DEF Tcbs, SetUna
<1>2. u.q = t.q /\ u.write = t.write /\ u.nxt = t.nxt /\ u.max = t.max /\ u.out = t.out /\ (u.nomem <=> t.nomem)
  BY DEF Tcbs, SetUna
<1>3. /\ u.state = t.state /\ u.ostate = t.ostate /\ (u.timer <=> t.timer)
      /\ u.una = n /\ u.wnd = t.wnd /\ u.wndack = t.wndack /\ (u.asleep <=> t.asleep)
  BY DEF Tcbs, SetUna
<1> QED BY <1>1, <1>2, <1>3

\* tcp_ack
LEMMA AckedFull ==
    ASSUME NEW t, NEW p, Full(t, p), Peer(p), t.state # "CLOSED", NEW m, AnswerOK(m, p),
           NEW c \in Nat, NEW ok \in BOOLEAN
    PROVE  Full(Acked(t, m, c, ok), p)
<1> DEFINE up == Updates(t, m)
           u  == IF up THEN SndWnd(t, m) ELSE t
           a  == SetUna(u, m.ack)
           g1 == t.una < m.ack /\ m.ack <= t.max
           g2 == t.una = m.ack /\ t.wnd = m.wnd
           v  == CASE g1 -> Event(a, "ACKRCVD", c, ok)
                   [] g2 -> Event(u, "DUPACK", c, ok)
                   [] OTHER -> u
           ev == SndWndEvent(t, m)
           w  == Acked(t, m, c, ok)
<1>1. /\ t \in Tcbs /\ t.una \in Nat /\ t.nxt \in Nat /\ t.max \in Nat /\ t.write \in Nat
      /\ t.wnd \in Nat /\ t.wndack \in Nat
      /\ t.wndack <= t.una /\ t.una <= t.max /\ t.nxt <= t.max /\ t.max <= t.write
  BY CoreNumbers DEF Full
<1>2. Core(t, p) /\ Fresh(t) /\ Phase(t) /\ Armed(t) /\ Asleep(t) /\ Offered(t, p)
  BY DEF Full, Core
<1>3. /\ m.ack \in Nat /\ m.wnd \in Nat /\ m.ack <= t.max /\ m.ack + m.wnd <= p.read + Window
      /\ t.wndack + t.wnd <= p.read + Window
  <2>1. /\ m.ack \in Nat /\ m.wnd \in 0 .. Window /\ m.ack <= p.nxt /\ m.ack + m.wnd <= p.read + Window
    BY DEF AnswerOK
  <2>2. p.nxt \in Nat /\ p.nxt <= t.max /\ t.wndack + t.wnd <= p.read + Window
    BY <1>2 DEF Peer, Offered
  <2> QED BY <1>1, <2>1, <2>2, OutAssumption
<1>4. w = IF up THEN Event(v, ev, c, ok) ELSE v
  BY Zenon DEF Acked, SetUna
<1>5. ev \in {"WNDOPEN", "WNDCLOSE"}
  BY DEF SndWndEvent
<1>6. /\ Offers(t, u) /\ u.nxt <= t.max
      /\ up => u.wnd = m.wnd /\ u.wndack = m.ack
      /\ ~up => u = t
  <2>1. CASE up
    BY <1>2, <2>1, SndWndIs
  <2>2. CASE ~up
    BY <1>1, <2>2 DEF Offers
  <2> QED BY <2>1, <2>2
<1> HIDE DEF u, up, ev, w
<1>7. /\ u \in Tcbs /\ u.q = t.q /\ u.write = t.write
      /\ u.state = t.state /\ u.ostate = t.ostate /\ (u.timer <=> t.timer)
      /\ u.una = t.una /\ u.max = t.max /\ u.out = t.out
      /\ (u.nomem <=> t.nomem) /\ (u.asleep <=> t.asleep)
  BY <1>6 DEF Offers
<1>8. u.wndack + u.wnd <= p.read + Window
  BY <1>3, <1>6
<1>9. ASSUME m.ack <= t.una
      PROVE  Full(u, p)
  <2>1. u.wndack <= u.una
    BY <1>1, <1>6, <1>7, <1>9
  <2>2. Core(u, p)
    BY <1>1, <1>2, <1>6, <1>7, <1>8, <2>1, MovedCore
  <2>3. CanWrite(u) = CanWrite(t) /\ (Connected(u) <=> Connected(t))
    BY <1>7 DEF CanWrite, Connected
  <2> QED BY <1>2, <1>7, <2>2, <2>3 DEF Full, Fresh, Phase, Armed, Asleep
<1>10. Full(v, p)
  <2>1. CASE g1
    <3> DEFINE n == m.ack
    <3>1. n \in Nat
      BY <1>3
    <3>2. a = SetUna(u, n)
      OBVIOUS
    <3> HIDE DEF n, a
    <3>3. /\ a \in Tcbs /\ a.q = u.q /\ a.write = u.write
          /\ a.state = u.state /\ a.ostate = u.ostate /\ (a.timer <=> u.timer)
          /\ a.una = n /\ a.nxt = u.nxt /\ a.max = u.max
          /\ a.wnd = u.wnd /\ a.wndack = u.wndack /\ a.out = u.out
          /\ (a.nomem <=> u.nomem) /\ (a.asleep <=> u.asleep)
      BY <1>7, <3>1, <3>2, SetUnaIs
    <3>4. t.una < n /\ n <= t.max
      BY <2>1 DEF n
    <3>5. a.wndack <= a.una
      BY <1>1, <1>6, <3>1, <3>3, <3>4 DEF n
    <3>6. t.una <= a.una /\ a.una <= t.max /\ a.nxt <= t.max /\ a.wndack + a.wnd <= p.read + Window
      BY <1>1, <1>6, <1>8, <3>1, <3>3, <3>4
    <3>7. Core(a, p)
      BY <1>2, <1>7, <3>3, <3>5, <3>6, MovedCore
    <3>8. Asleep(a) /\ Armed(a)
      <4>1. CanWrite(a) = CanWrite(t) /\ (Connected(a) <=> Connected(t))
        BY <1>7, <3>3 DEF CanWrite, Connected
      <4> QED BY <1>2, <1>7, <3>3, <4>1 DEF Asleep, Armed
    <3>9. a.state # "CLOSED" /\ a.ostate # "IDLE"
      <4>1. t.una # t.write
        BY <1>1, <3>1, <3>4
      <4> QED BY <1>2, <1>7, <3>3, <4>1 DEF Phase
    <3>10. Full(Event(a, "ACKRCVD", c, ok), p)
      BY <3>7, <3>8, <3>9, AckFull
    <3> QED BY <1>1, <1>3, <2>1, <3>10
  <2>2. CASE ~g1
    <3>1. m.ack <= t.una
      BY <1>1, <1>3, <2>2
    <3>2. Full(u, p)
      BY <1>9, <3>1
    <3> DEFINE e == "DUPACK"
    <3>3. e \in {"WNDOPEN", "WNDCLOSE", "DUPACK"}
      OBVIOUS
    <3> HIDE DEF e, g1, g2
    <3>4. Full(Event(u, e, c, ok), p)
      BY <3>2, <3>3, WindowFull
    <3>5. v = IF g2 THEN Event(u, "DUPACK", c, ok) ELSE u
      BY <2>2
    <3> QED BY <3>2, <3>4, <3>5 DEF e
  <2> QED BY <2>1, <2>2
<1> HIDE DEF v
<1>11. Full(Event(v, ev, c, ok), p)
  BY <1>5, <1>10, WindowFull
<1> QED BY <1>4, <1>10, <1>11 DEF w
(***************************************************************************)
(* Steps                                                                   *)
(***************************************************************************)
Clear(t) == [t EXCEPT !.out = {}, !.fatal = FALSE]
SetAsleepNow(t) == [t EXCEPT !.asleep = TRUE]
SetSilent(t) == [t EXCEPT !.silent = 0]
SetConn(t, x) == [t EXCEPT !.state = x]

LEMMA ClearIs ==
    ASSUME NEW t \in Tcbs
    PROVE  LET u == Clear(t)
           IN  /\ u \in Tcbs /\ u.q = t.q /\ u.write = t.write
               /\ u.state = t.state /\ u.ostate = t.ostate /\ (u.timer <=> t.timer)
               /\ u.una = t.una /\ u.nxt = t.nxt /\ u.max = t.max
               /\ u.wnd = t.wnd /\ u.wndack = t.wndack /\ u.out = {}
               /\ (u.nomem <=> t.nomem) /\ (u.asleep <=> t.asleep)
<1> DEFINE u == Clear(t)
<1>1. u \in Tcbs
  BY DEF Tcbs, Clear
<1>2. u.q = t.q /\ u.write = t.write /\ u.nxt = t.nxt /\ u.max = t.max /\ u.out = {} /\ (u.nomem <=> t.nomem)
  BY DEF Tcbs, Clear
<1>3. /\ u.state = t.state /\ u.ostate = t.ostate /\ (u.timer <=> t.timer)
      /\ u.una = t.una /\ u.wnd = t.wnd /\ u.wndack = t.wndack /\ (u.asleep <=> t.asleep)
  BY DEF Tcbs, Clear
<1> QED BY <1>1, <1>2, <1>3

LEMMA SetConnIs ==
    ASSUME NEW t \in Tcbs, NEW x \in States
    PROVE  LET u == SetConn(t, x)
           IN  /\ u \in Tcbs /\ u.q = t.q /\ u.write = t.write
               /\ u.state = x /\ u.ostate = t.ostate /\ (u.timer <=> t.timer)
               /\ u.una = t.una /\ u.nxt = t.nxt /\ u.max = t.max
               /\ u.wnd = t.wnd /\ u.wndack = t.wndack /\ u.out = t.out
               /\ (u.nomem <=> t.nomem) /\ (u.asleep <=> t.asleep)
<1> DEFINE u == SetConn(t, x)
<1>1. u \in Tcbs
  BY DEF Tcbs, SetConn, States
<1>2. u.q = t.q /\ u.write = t.write /\ u.nxt = t.nxt /\ u.max = t.max /\ u.out = t.out /\ (u.nomem <=> t.nomem)
  BY DEF Tcbs, SetConn
<1>3. /\ u.state = x /\ u.ostate = t.ostate /\ (u.timer <=> t.timer)
      /\ u.una = t.una /\ u.wnd = t.wnd /\ u.wndack = t.wndack /\ (u.asleep <=> t.asleep)
  BY DEF Tcbs, SetConn
<1> QED BY <1>1, <1>2, <1>3

\* Fields that no invariant speaks of
LEMMA AlikeFull ==
    ASSUME NEW t, NEW u, NEW p, Full(t, p), Alike(t, u), u.ostate = t.ostate, u.timer <=> t.timer,
           u.asleep => t.asleep
    PROVE  Full(u, p)
<1>1. t \in Tcbs /\ Core(t, p)
  BY DEF Full, Core
<1>2. Core(u, p)
  BY <1>1, AlikeCore
<1>3. (Fresh(t) => Fresh(u)) /\ CanWrite(u) = CanWrite(t) /\ (Connected(u) <=> Connected(t))
  BY <1>1, AlikeRest
<1>4. u.state = t.state /\ u.una = t.una /\ u.write = t.write
  BY DEF Alike
<1> QED BY <1>2, <1>3, <1>4 DEF Full, Phase, Armed, Asleep

\* What was sent is gone, the peer has received more.
LEMMA ClearFull ==
    ASSUME NEW t, NEW p, NEW r, Full(t, p), Peer(p), Peer(r),
           r.nxt <= t.max, r.read = p.read
    PROVE  Full(Clear(t), r) /\ Clear(t).out = {}
<1> DEFINE u == Clear(t)
<1>1. t \in Tcbs /\ Chain(t.q) /\ Covers(t) /\ Order(t) /\ Offered(t, p) /\ Fresh(t)
      /\ Phase(t) /\ Armed(t) /\ Asleep(t)
  BY DEF Full, Core
<1>2. /\ u \in Tcbs /\ u.q = t.q /\ u.write = t.write
      /\ u.state = t.state /\ u.ostate = t.ostate /\ (u.timer <=> t.timer)
      /\ u.una = t.una /\ u.nxt = t.nxt /\ u.max = t.max
      /\ u.wnd = t.wnd /\ u.wndack = t.wndack /\ u.out = {}
      /\ (u.nomem <=> t.nomem) /\ (u.asleep <=> t.asleep)
  BY <1>1, ClearIs
<1> HIDE DEF u
<1>3. Covers(u) /\ Fresh(u)
  BY <1>1, <1>2 DEF Covers, Fresh
<1>4. Order(u)
  BY <1>1, <1>2 DEF Order, Connected
<1>5. Offered(u, r)
  BY <1>1, <1>2 DEF Offered
<1>6. CanWrite(u) = CanWrite(t) /\ (Connected(u) <=> Connected(t))
  BY <1>2 DEF CanWrite, Connected
<1> QED BY <1>1, <1>2, <1>3, <1>4, <1>5, <1>6 DEF u, Full, Core, Phase, Armed, Asleep

LEMMA AnswerIs ==
    ASSUME NEW p, Peer(p), NEW old \in BOOLEAN
    PROVE  AnswerOK(Answer(p, old), p)
<1>1. p.nxt \in Nat /\ p.read \in Nat /\ p.read <= p.nxt /\ p.nxt <= p.read + Window /\ Window \in Nat
  BY OutAssumption DEF Peer
<1> DEFINE w == p.read + Window - p.nxt
           a == p.nxt
<1>2. w \in 0 .. Window /\ a \in Nat /\ a <= p.nxt /\ a + w <= p.read + Window
  BY <1>1
<1>3. Answer(p, old) = [ack |-> a, wnd |-> w, old |-> old]
  BY DEF Answer
<1> HIDE DEF a, w
<1> QED BY <1>2, <1>3 DEF AnswerOK

LEMMA AnswersGrow ==
    ASSUME NEW A, NEW p, NEW r, Peer(p), Peer(r), Answers(A, p), p.nxt <= r.nxt, p.read <= r.read
    PROVE  Answers(A, r)
<1>1. ASSUME NEW m \in A PROVE AnswerOK(m, r)
  <2>1. m \in [ack : Nat, wnd : 0 .. Window, old : BOOLEAN] /\ m.ack <= p.nxt /\ m.ack + m.wnd <= p.read + Window
    BY DEF Answers, AnswerOK
  <2>2. m.ack \in Nat /\ m.wnd \in 0 .. Window
    BY <2>1
  <2>3. p.nxt \in Nat /\ r.nxt \in Nat /\ p.read \in Nat /\ r.read \in Nat /\ Window \in Nat
    BY OutAssumption DEF Peer
  <2>4. m.ack <= r.nxt /\ m.ack + m.wnd <= r.read + Window
    BY <2>1, <2>2, <2>3
  <2> QED BY <2>1, <2>4 DEF AnswerOK
<1> QED BY <1>1 DEF Answers

LEMMA ReplyStep ==
    ASSUME NEW p, NEW r, NEW base, Peer(p), Peer(r), Answers(base, p), p.nxt <= r.nxt, p.read <= r.read,
           acks' = base \/ Reply(r, base, FALSE)
    PROVE  Answers(acks', r)
<1>1. Answers(base, r)
  BY AnswersGrow
<1>2. CASE acks' = base
  BY <1>1, <1>2
<1>3. CASE Reply(r, base, FALSE)
  <2>1. PICK old \in BOOLEAN : acks' \in {base, base \cup {Answer(r, old)}}
    BY <1>3 DEF Reply
  <2>2. AnswerOK(Answer(r, old), r)
    BY AnswerIs
  <2> QED BY <1>1, <2>1, <2>2 DEF Answers
<1> QED BY <1>2, <1>3

LEMMA DoneStep ==
    ASSUME NEW t, NEW base, Full(t, peer), Peer(peer), Answers(base, peer), fatal \in BOOLEAN,
           Done(t, base, FALSE)
    PROVE  IInv'
<1>1. PICK n \in Receptions(t.out, peer) : peer' = [peer EXCEPT !.nxt = n]
  BY DEF Done
<1>2. s' = Clear(t) /\ fatal' = (fatal \/ t.fatal) /\ (acks' = base \/ Reply(peer', base, FALSE))
  BY DEF Done, Clear
<1>3. /\ peer.nxt \in Nat /\ peer.read \in Nat /\ Window \in Nat /\ peer \in [nxt : Nat, read : Nat]
      /\ peer.read <= peer.nxt /\ peer.nxt <= peer.read + Window
  BY OutAssumption DEF Peer
<1>4. t \in Tcbs /\ t.max \in Nat /\ peer.nxt <= t.max /\ \A r \in t.out : r[2] <= t.max
  <2>1. Core(t, peer) /\ Offered(t, peer)
    BY DEF Full, Core
  <2> QED BY <2>1, CoreNumbers DEF Offered
<1>5. n \in Nat /\ peer.nxt <= n /\ n <= peer.read + Window /\ n <= t.max
  <2>1. CASE n = peer.nxt
    BY <1>3, <1>4, <2>1
  <2>2. CASE n # peer.nxt
    <3>1. n \in peer.nxt + 1 .. peer.read + Window /\ \E r \in t.out : r[1] <= peer.nxt /\ n <= r[2]
      BY <1>1, <2>2 DEF Receptions
    <3>2. PICK r \in t.out : n <= r[2]
      BY <3>1
    <3>3. r[2] \in Nat /\ r[2] <= t.max
      BY <1>4 DEF Tcbs
    <3> QED BY <1>3, <1>4, <3>1, <3>2, <3>3
  <2> QED BY <2>1, <2>2
<1>6. peer' \in [nxt : Nat, read : Nat] /\ peer'.nxt = n /\ peer'.read = peer.read
  BY <1>1, <1>3, <1>5
<1>7. Peer(peer')
  BY <1>3, <1>5, <1>6 DEF Peer
<1>8. Full(s', peer') /\ s'.out = {}
  BY <1>2, <1>5, <1>6, <1>7, ClearFull
<1>9. Answers(acks', peer')
  <2>1. peer.nxt <= peer'.nxt /\ peer.read <= peer'.read
    BY <1>3, <1>5, <1>6
  <2> QED BY <1>2, <1>7, <2>1, ReplyStep
<1>10. fatal' \in BOOLEAN
  BY <1>2
<1> QED BY <1>7, <1>8, <1>9, <1>10 DEF IInv

LEMMA InitIInv == Init => IInv
<1> SUFFICES ASSUME Init PROVE IInv
  OBVIOUS
<1>1. /\ MaxData \in Nat /\ MaxRetry \in Nat /\ MaxSilent \in Nat /\ Window \in Nat /\ HalfClosed \in BOOLEAN
  BY OutAssumption
<1>2. s.state \in {"ESTABLISHED", "CLOSEWAIT"} /\ s.ostate = "IDLE" /\ ~s.timer /\ s.q = <<>> /\ s.out = {}
  BY DEF Init
<1>3. s.una = 0 /\ s.nxt = 0 /\ s.max = 0 /\ s.write = 0 /\ s.wnd = Window /\ s.wndack = 0 /\ ~s.asleep
  BY DEF Init
<1>4. s \in Tcbs
  <2>1. /\ s.state \in States /\ s.ostate \in OutStates /\ <<>> \in Seq(Segments)
        /\ Window \in 0 .. Window /\ 0 \in 0 .. MaxRetry /\ 0 \in 0 .. MaxSilent
    BY <1>1, <1>2 DEF States, OutStates
  <2> QED BY <1>1, <2>1 DEF Init, Tcbs, States, OutStates
<1>5. peer = [nxt |-> 0, read |-> 0] /\ acks = {} /\ fatal = FALSE
  BY DEF Init
<1>6. Peer(peer) /\ Answers(acks, peer) /\ fatal \in BOOLEAN
  <2>1. peer \in [nxt : Nat, read : Nat] /\ peer.nxt = 0 /\ peer.read = 0
    BY <1>5
  <2>2. Peer(peer)
    BY <1>1, <2>1 DEF Peer
  <2>3. Answers(acks, peer)
    BY <1>5 DEF Answers
  <2>4. fatal \in BOOLEAN
    BY <1>5
  <2> QED BY <2>2, <2>3, <2>4
<1>7. Chain(s.q)
  BY <1>2 DEF Chain
<1>8. Covers(s) /\ Order(s) /\ Fresh(s)
  BY <1>1, <1>2, <1>3 DEF Covers, Order, Fresh
<1>9. Offered(s, peer)
  BY <1>1, <1>2, <1>3, <1>5 DEF Offered
<1>10. Phase(s) /\ Armed(s) /\ Asleep(s)
  BY <1>2, <1>3 DEF Phase, Armed, Asleep
<1> QED BY <1>2, <1>4, <1>6, <1>7, <1>8, <1>9, <1>10 DEF IInv, Full, Core

LEMMA LuckIs ==
    ASSUME NEW ch \in Luck
    PROVE  ch[1] \in Nat /\ ch[2] \in BOOLEAN
BY OutAssumption DEF Luck

LEMMA WriteStep == ASSUME IInv, NEW n \in 1 .. Mss, Write(n) PROVE IInv'
<1>1. /\ Full(s, peer) /\ Peer(peer) /\ Answers(acks, peer) /\ fatal \in BOOLEAN
      /\ Connected(s) /\ ~s.asleep /\ s.write + n <= MaxData
  BY DEF IInv, Write
<1>2. PICK ch \in Luck : Done(Output(s, n, FALSE, ch[1], ch[2]), acks, FALSE)
  BY DEF Write
<1>3. ch[1] \in Nat /\ ch[2] \in BOOLEAN
  BY LuckIs
<1>4. NoFin(s.q) /\ s.write <= MaxData /\ s.state # "CLOSED"
  BY <1>1 DEF Full, Core, Order, NoFin, Connected
<1> DEFINE fin == FALSE
<1>5. fin \in BOOLEAN /\ ~fin
  OBVIOUS
<1>6. n \in 0 .. Mss /\ (n > 0 <=> ~fin)
  BY OutAssumption
<1> HIDE DEF fin
<1>7. Full(Output(s, n, fin, ch[1], ch[2]), peer)
  BY <1>1, <1>3, <1>4, <1>5, <1>6, OutputFull DEF Full
<1> QED BY <1>1, <1>2, <1>7, DoneStep DEF fin

LEMMA BlockStep == ASSUME IInv, Block PROVE IInv'
<1>1. /\ Full(s, peer) /\ Peer(peer) /\ Answers(acks, peer) /\ fatal \in BOOLEAN /\ s.out = {}
      /\ Connected(s) /\ CanWrite(s) = 0 /\ s' = SetAsleepNow(s)
      /\ peer' = peer /\ acks' = acks /\ fatal' = fatal
  BY DEF IInv, Block, SetAsleepNow
<1>2. s \in Tcbs /\ Core(s, peer)
  BY <1>1 DEF Full, Core
<1>3. Alike(s, s') /\ s'.ostate = s.ostate /\ (s'.timer <=> s.timer)
  <2>1. s' \in Tcbs
    BY ZenonT(40), <1>1, <1>2 DEF Tcbs, SetAsleepNow
  <2> QED BY ZenonT(40), <1>1, <1>2, <2>1 DEF Tcbs, SetAsleepNow, Alike
<1>4. Core(s', peer)
  BY <1>2, <1>3, AlikeCore
<1>5. Fresh(s') /\ CanWrite(s') = CanWrite(s) /\ (Connected(s') <=> Connected(s))
  BY <1>1, <1>2, <1>3, AlikeRest DEF Full
<1>6. s'.state = s.state /\ s'.una = s.una /\ s'.write = s.write /\ s'.out = s.out
  BY <1>3 DEF Alike
<1>7. Full(s', peer')
  BY <1>1, <1>3, <1>4, <1>5, <1>6 DEF Full, Phase, Armed, Asleep
<1> QED BY <1>1, <1>6, <1>7 DEF IInv

LEMMA CloseStep == ASSUME IInv, Close PROVE IInv'
<1> DEFINE x == IF HalfClosed THEN "LASTACK" ELSE "FINWAIT1"
           t == SetConn(s, x)
<1>1. /\ Full(s, peer) /\ Peer(peer) /\ Answers(acks, peer) /\ fatal \in BOOLEAN
      /\ Connected(s) /\ ~s.asleep
  BY DEF IInv, Close
<1>2. PICK ch \in Luck : Done(Output(t, 0, TRUE, ch[1], ch[2]), acks, FALSE)
  BY DEF Close, SetConn
<1>3. ch[1] \in Nat /\ ch[2] \in BOOLEAN
  BY LuckIs
<1>4. /\ s \in Tcbs /\ Chain(s.q) /\ Covers(s) /\ Order(s) /\ Offered(s, peer) /\ Fresh(s)
      /\ Phase(s) /\ Armed(s) /\ NoFin(s.q) /\ s.write <= MaxData /\ s.state # "CLOSED"
  BY <1>1 DEF Full, Core, Order, NoFin, Connected
<1>5. x \in States /\ x \notin {"CLOSED", "ESTABLISHED", "CLOSEWAIT"}
  BY DEF States
<1> HIDE DEF x
<1>6. /\ t \in Tcbs /\ t.q = s.q /\ t.write = s.write
      /\ t.state = x /\ t.ostate = s.ostate /\ (t.timer <=> s.timer)
      /\ t.una = s.una /\ t.nxt = s.nxt /\ t.max = s.max
      /\ t.wnd = s.wnd /\ t.wndack = s.wndack /\ t.out = s.out
      /\ (t.nomem <=> s.nomem) /\ (t.asleep <=> s.asleep)
  BY <1>4, <1>5, SetConnIs
<1> HIDE DEF t
<1>7. ~Connected(t) /\ t.state # "CLOSED"
  BY <1>5, <1>6 DEF Connected
<1>8. Core(t, peer) /\ Fresh(t) /\ Phase(t) /\ Armed(t)
  <2>1. Covers(t) /\ Fresh(t)
    BY <1>4, <1>6 DEF Covers, Fresh
  <2>2. Order(t)
    BY <1>4, <1>6, <1>7 DEF Order
  <2>3. Offered(t, peer)
    BY <1>4, <1>6 DEF Offered
  <2>4. Phase(t) /\ Armed(t)
    BY <1>4, <1>6, <1>7 DEF Phase, Armed
  <2> QED BY <1>4, <1>6, <2>1, <2>2, <2>3, <2>4 DEF Core
<1> DEFINE n == 0
           fin == TRUE
<1>9. n \in 0 .. Mss /\ fin \in BOOLEAN /\ (n > 0 <=> ~fin)
  BY OutAssumption
<1>10. t.write + n <= MaxData
  BY <1>4, <1>6, OutAssumption DEF Tcbs
<1> HIDE DEF n, fin
<1>11. Full(Output(t, n, fin, ch[1], ch[2]), peer)
  BY <1>1, <1>3, <1>4, <1>6, <1>7, <1>8, <1>9, <1>10, OutputFull
<1> QED BY <1>1, <1>2, <1>11, DoneStep DEF n, fin

LEMMA TimeoutStep == ASSUME IInv, Timeout(FALSE) PROVE IInv'
<1> DEFINE t == SetTimer(s, FALSE)
<1>1. /\ Full(s, peer) /\ Peer(peer) /\ Answers(acks, peer) /\ fatal \in BOOLEAN /\ s.timer
  BY DEF IInv, Timeout
<1>2. PICK ch \in Luck : Done(Event(t, "TIMEOUT", ch[1], ch[2]), acks, FALSE)
  BY DEF Timeout, SetTimer
<1>3. ch[1] \in Nat /\ ch[2] \in BOOLEAN
  BY LuckIs
<1>4. Ready(s, peer) /\ s \in Tcbs
  <2>1. s.ostate # "IDLE"
    BY <1>1 DEF Full, Armed
  <2> QED BY <1>1, <2>1, FullReady, ReadyQueue
<1>5. Alike(s, t) /\ t.ostate = s.ostate /\ (t.asleep <=> s.asleep)
  <2> DEFINE b == FALSE
  <2>1. b \in BOOLEAN
    OBVIOUS
  <2>2. t = SetTimer(s, b)
    OBVIOUS
  <2> HIDE DEF b, t
  <2> QED BY <1>4, <2>1, <2>2, SetTimerIs
<1> HIDE DEF t
<1>6. Ready(t, peer)
  BY <1>4, <1>5, AlikeReady DEF Ready
<1>7. Full(Event(t, "TIMEOUT", ch[1], ch[2]), peer)
  BY <1>1, <1>3, <1>6, TimeoutFull
<1> QED BY <1>1, <1>2, <1>7, DoneStep

LEMMA ReceiveStep == ASSUME IInv, NEW m \in acks, Receive(m) PROVE IInv'
<1> DEFINE t == SetSilent(s)
<1>1. /\ Full(s, peer) /\ Peer(peer) /\ Answers(acks, peer) /\ fatal \in BOOLEAN /\ s.state # "CLOSED"
  BY DEF IInv, Receive
<1>2. PICK ch \in Luck, base \in {acks, acks \ {m}} : Done(Acked(t, m, ch[1], ch[2]), base, FALSE)
  BY DEF Receive, SetSilent
<1>3. ch[1] \in Nat /\ ch[2] \in BOOLEAN
  BY LuckIs
<1>4. Answers(base, peer) /\ AnswerOK(m, peer)
  BY <1>1, <1>2 DEF Answers
<1>5. Alike(s, t) /\ t.ostate = s.ostate /\ (t.timer <=> s.timer) /\ (t.asleep <=> s.asleep)
  <2>1. s \in Tcbs /\ 0 \in 0 .. MaxSilent
    BY <1>1, OutAssumption DEF Full, Core
  <2> QED BY <2>1 DEF Tcbs, SetSilent, Alike
<1> HIDE DEF t
<1>6. Full(t, peer) /\ t.state # "CLOSED"
  BY <1>1, <1>5, AlikeFull DEF Alike
<1>7. Full(Acked(t, m, ch[1], ch[2]), peer)
  BY <1>1, <1>3, <1>4, <1>6, AckedFull
<1> QED BY <1>1, <1>2, <1>4, <1>7, DoneStep

LEMMA PeerReadsStep == ASSUME IInv, PeerReads PROVE IInv'
<1>1. /\ Full(s, peer) /\ Peer(peer) /\ Answers(acks, peer) /\ fatal \in BOOLEAN /\ s.out = {}
      /\ s' = s /\ fatal' = fatal /\ (acks' = acks \/ Reply(peer', acks, FALSE))
  BY DEF IInv, PeerReads
<1>2. PICK k \in peer.read + 1 .. peer.nxt : peer' = [peer EXCEPT !.read = k]
  BY DEF PeerReads
<1>3. /\ peer.nxt \in Nat /\ peer.read \in Nat /\ Window \in Nat /\ peer \in [nxt : Nat, read : Nat]
      /\ peer.read <= peer.nxt /\ peer.nxt <= peer.read + Window
  BY <1>1, OutAssumption DEF Peer
<1>4. peer' \in [nxt : Nat, read : Nat] /\ peer'.nxt = peer.nxt /\ peer'.read = k
  BY <1>2, <1>3
<1>5. peer.read <= k /\ k <= peer.nxt /\ k \in Nat
  BY <1>3
<1>6. Peer(peer')
  BY <1>3, <1>4, <1>5 DEF Peer
<1>7. Answers(acks', peer')
  <2>1. peer.nxt <= peer'.nxt /\ peer.read <= peer'.read
    BY <1>3, <1>4, <1>5
  <2> QED BY <1>1, <1>6, <2>1, ReplyStep
<1>8. Full(s, peer')
  <2>1. Offered(s, peer) /\ s \in Tcbs
    BY <1>1 DEF Full, Core
  <2>2. s.max \in Nat /\ s.wndack \in Nat /\ s.wnd \in 0 .. Window
    BY <2>1 DEF Tcbs
  <2>3. Offered(s, peer')
    BY <1>3, <1>4, <1>5, <2>1, <2>2 DEF Offered
  <2> QED BY <1>1, <2>3 DEF Full, Core
<1> QED BY <1>1, <1>6, <1>7, <1>8 DEF IInv

LEMMA LoseStep == ASSUME IInv, Lose PROVE IInv'
BY DEF IInv, Lose, Answers

LEMMA StutterStep == ASSUME IInv, UNCHANGED vars PROVE IInv'
BY DEF IInv, vars

THEOREM IInvInvariant == Spec => []IInv
<1>1. Init => IInv
  BY InitIInv
<1>2. IInv /\ [Next]_vars => IInv'
  <2> SUFFICES ASSUME IInv, [Next]_vars PROVE IInv'
    OBVIOUS
  <2>1. CASE \E n \in 1 .. Mss : Write(n)
    BY <2>1, WriteStep
  <2>2. CASE Block
    BY <2>2, BlockStep
  <2>3. CASE Close
    BY <2>3, CloseStep
  <2>4. CASE Timeout(FALSE)
    BY <2>4, TimeoutStep
  <2>5. CASE \E m \in acks : Receive(m)
    BY <2>5, ReceiveStep
  <2>6. CASE PeerReads
    BY <2>6, PeerReadsStep
  <2>7. CASE Lose
    BY <2>7, LoseStep
  <2>8. CASE UNCHANGED vars
    BY <2>8, StutterStep
  <2> QED BY <2>1, <2>2, <2>3, <2>4, <2>5, <2>6, <2>7, <2>8 DEF Next
<1> QED BY <1>1, <1>2, PTL DEF Spec
\* The queue covers what is unacknowledged, the timer and the writer agree with
\* it and nothing is sent beyond the window, whatever the network does and
\* whenever memory is short.
THEOREM SendInvariant == Spec => []SendInv
<1>1. IInv => SendInv
  <2> SUFFICES ASSUME IInv PROVE SendInv
    OBVIOUS
  <2>1. /\ Core(s, peer) /\ Fresh(s) /\ Phase(s) /\ Armed(s) /\ Asleep(s) /\ s.out = {}
        /\ Peer(peer) /\ Answers(acks, peer) /\ fatal \in BOOLEAN
    BY DEF IInv, Full
  <2>2. s \in Tcbs /\ Chain(s.q) /\ Covers(s) /\ Order(s) /\ Offered(s, peer)
    BY <2>1 DEF Core
  <2>3. /\ s.una \in Nat /\ s.nxt \in Nat /\ s.max \in Nat /\ s.write \in Nat
        /\ s.una <= s.max /\ s.nxt <= s.max /\ s.max <= s.write /\ s.write <= MaxData + 1
        /\ s.wndack <= s.una /\ MaxData \in Nat
    BY <2>1, <2>2, CoreNumbers, OutAssumption DEF Order
  <2>4. TypeOK
    <3>1. /\ s.state \in {"ESTABLISHED", "CLOSEWAIT", "FINWAIT1", "LASTACK", "CLOSED"}
          /\ s.ostate \in {"IDLE", "XMIT", "RETRANS", "PERSIST"}
          /\ {s.timer, s.asleep, s.nomem, fatal} \subseteq BOOLEAN
          /\ s.wnd \in 0 .. Window /\ s.wndmax \in 0 .. Window
          /\ s.nretrans \in 0 .. MaxRetry /\ s.silent \in 0 .. MaxSilent
      BY <2>1, <2>2 DEF Tcbs
    <3>2. /\ s.una \in 0 .. MaxData + 1 /\ s.nxt \in 0 .. MaxData + 1
          /\ s.max \in 0 .. MaxData + 1 /\ s.write \in 0 .. MaxData + 1
      BY <2>3
    <3>3. \A f \in {"una", "nxt", "max", "write"} : s[f] \in 0 .. MaxData + 1
      BY <3>2
    <3>4. peer.read <= peer.nxt /\ peer.nxt <= s.max /\ peer.nxt \in Nat
      BY <2>1, <2>2 DEF Peer, Offered
    <3>5. acks \subseteq AllAnswers
      <4>1. ASSUME NEW m \in acks PROVE m \in AllAnswers
        <5>1. m \in [ack : Nat, wnd : 0 .. Window, old : BOOLEAN] /\ m.ack <= peer.nxt
          BY <2>1 DEF Answers, AnswerOK
        <5>2. m.ack \in 0 .. MaxData + 1
          BY <2>3, <3>4, <5>1
        <5> QED BY <5>1, <5>2 DEF AllAnswers
      <4> QED BY <4>1
    <3> QED BY <2>1, <2>3, <3>1, <3>3, <3>4, <3>5 DEF TypeOK
  <2>5. QueueCovers
    <3>1. ASSUME s.state # "CLOSED" PROVE s.q = <<>> <=> s.una = s.write
      <4>1. s.q # <<>> => s.una # s.write
        <5>1. ASSUME s.q # <<>> PROVE s.una # s.write
          <6>1. s.una < s.q[1].e /\ LastOf(s.q).e = s.write
            BY <2>1, <2>2, <5>1 DEF Fresh, Covers
          <6>2. s.q[1].e \in Nat /\ s.q[1].e <= LastOf(s.q).e
            BY <2>2, <5>1, ChainLast
          <6> QED BY <2>3, <6>1, <6>2
        <5> QED BY <5>1
      <4> QED BY <2>2, <3>1, <4>1 DEF Covers
    <3>2. s.q # <<>> => /\ s.q[1].a <= s.una /\ s.una < s.q[1].e
                        /\ LastOf(s.q).e = s.write
      BY <2>1, <2>2 DEF Covers, Fresh
    <3>3. \A k \in 1 .. Len(s.q) - 1 : s.q[k].e = s.q[k + 1].a
      BY <2>2 DEF Chain
    <3>4. \A k \in 1 .. Len(s.q) : s.q[k].a < s.q[k].e /\ DataLen(s.q[k]) <= Mss
      BY <2>2 DEF Chain
    <3> QED BY <3>1, <3>2, <3>3, <3>4 DEF QueueCovers
  <2>6. SentInWindow
    BY <2>2 DEF Offered, SentInWindow
  <2>7. NeverForgotten
    BY <2>1 DEF Phase, Armed, NeverForgotten
  <2>8. WriterWoken
    BY <2>1 DEF Asleep, WriterWoken
  <2> QED BY <2>4, <2>5, <2>6, <2>7, <2>8 DEF SendInv
<1> QED BY <1>1, IInvInvariant, PTL
=============================================================================
