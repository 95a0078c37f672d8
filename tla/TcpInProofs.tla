---------------------------- MODULE TcpInProofs ----------------------------
(***************************************************************************)
(* Proofs about the receiving side of TCP: about TcpConn, for every amount *)
(* of data, every network and every number of retransmissions, and about   *)
(* TcpRecv, for every length of the stream, every buffer and every way to  *)
(* cut the stream into segments.  The two share no state; the theorems on  *)
(* one do not use the other.                                               *)
(***************************************************************************)
EXTENDS TcpConn, TcpRecv, SequenceTheorems, FiniteSetTheorems, WellFoundedInduction, TLAPS

(***************************************************************************)
(* Connections: TcpConn                                                    *)
(***************************************************************************)
Flags == {"SYN", "ACK", "FIN", "RST"}

Segment == [to : Hosts, seq : Nat, fl : SUBSET Flags, ack : Nat, len : Nat]

Block ==
    [state : States, sock : BOOLEAN, queued : BOOLEAN, passive : BOOLEAN, dead : BOOLEAN,
     isn : Nat, una : Nat, write : Nat, fin : BOOLEAN, risn : Nat, nxt : Nat,
     got : {g \in SUBSET Nat : IsFiniteSet(g)}, seq_fin : Nat, deltimer : BOOLEAN,
     nretrans : Nat, asleep : BOOLEAN]

\* What holds of a control block on its own
Good(t) ==
    /\ t \in Block
    /\ t.una <= t.write
    /\ t.state = "FREE" => t = Free
    /\ t.queued => t.sock /\ t.passive
    /\ t.asleep => t.state = "ESTABLISHED" /\ ~t.queued
    /\ t.deltimer => t.state \in {"FINWAIT2", "TIMEWAIT", "CLOSED"}

\* What a step may make of a control block that is allocated
Moves(t, u) ==
    /\ t.state = u.state \/ u.state \in {"CLOSED", "FREE"} \/ <<t.state, u.state>> \in Edges
    /\ u.state # "FREE" => /\ u.sock => t.sock
                           /\ t.state # "SYNSENT" => t.nxt <= u.nxt
    /\ u.queued => t.queued

(***************************************************************************)
(* Segments                                                                *)
(***************************************************************************)
Syn(m) == IF "SYN" \in m.fl THEN 1 ELSE 0
Fin(m) == IF "FIN" \in m.fl THEN 1 ELSE 0

LEMMA SegLenIs ==
    ASSUME NEW m \in Segment
    PROVE  SegLen(m) = m.len + Syn(m) + Fin(m) /\ SegLen(m) \in Nat
<1> DEFINE C == Cardinality(m.fl \cap {"SYN", "FIN"})
<1>1. C = Syn(m) + Fin(m)
  <2>1. CASE "SYN" \in m.fl /\ "FIN" \in m.fl
    <3>1. m.fl \cap {"SYN", "FIN"} = {"SYN"} \cup {"FIN"}
      BY <2>1
    <3>2. Cardinality({"SYN"} \cup {"FIN"}) = 2
      <4>1. IsFiniteSet({"SYN"}) /\ Cardinality({"SYN"}) = 1 /\ "FIN" \notin {"SYN"}
        BY FS_Singleton
      <4> QED BY <4>1, FS_AddElement
    <3> QED BY <2>1, <3>1, <3>2 DEF Syn, Fin
  <2>2. CASE "SYN" \in m.fl /\ "FIN" \notin m.fl
    <3>1. m.fl \cap {"SYN", "FIN"} = {"SYN"}
      BY <2>2
    <3>2. Cardinality({"SYN"}) = 1
      BY FS_Singleton
    <3> QED BY <2>2, <3>1, <3>2 DEF Syn, Fin
  <2>3. CASE "SYN" \notin m.fl /\ "FIN" \in m.fl
    <3>1. m.fl \cap {"SYN", "FIN"} = {"FIN"}
      BY <2>3
    <3> QED BY <2>3, <3>1, FS_Singleton DEF Syn, Fin
  <2>4. CASE "SYN" \notin m.fl /\ "FIN" \notin m.fl
    <3>1. m.fl \cap {"SYN", "FIN"} = {}
      BY <2>4
    <3> QED BY <2>4, <3>1, FS_EmptySet DEF Syn, Fin
  <2> QED BY <2>1, <2>2, <2>3, <2>4
<1>2. m.len \in Nat
  BY DEF Segment
<1> HIDE DEF C
<1> QED BY <1>1, <1>2 DEF SegLen, C, Syn, Fin

\* The next octet that is missing exists, and everything below it is there.
LEMMA MissingIs ==
    ASSUME NEW n \in Nat, NEW got \in SUBSET Nat, IsFiniteSet(got)
    PROVE  /\ NextMissing(n, got) \in Nat /\ n <= NextMissing(n, got)
           /\ NextMissing(n, got) \notin got
           /\ \A j \in n .. NextMissing(n, got) - 1 : j \in got
<1> DEFINE c == Cardinality(got)
           T == {k \in n .. n + c : k \notin got}
<1>1. c \in Nat
  BY FS_CardinalityType
<1>2. T # {}
  <2> SUFFICES ASSUME T = {} PROVE FALSE
    OBVIOUS
  <2>1. n .. n + c \in SUBSET got
    OBVIOUS
  <2>2. Cardinality(n .. n + c) <= c
    BY <2>1, FS_Subset
  <2>3. Cardinality(n .. n + c) = c + 1
    <3> HIDE DEF c
    <3> QED BY <1>1, FS_Interval
  <2> HIDE DEF c
  <2> QED BY <1>1, <2>2, <2>3
<1>3. T \subseteq Nat
  BY <1>1
<1> HIDE DEF c
<1>4. PICK k \in T : \A y \in T : ~(<<y, k>> \in OpToRel(<, Nat))
  BY <1>2, <1>3, NatLessThanWellFounded, WFMin
<1>5. \A y \in T : ~(y < k)
  BY <1>3, <1>4 DEF OpToRel
<1>6. k \in n .. n + c /\ k \notin got /\ \A j \in n .. k - 1 : j \in got
  BY <1>1, <1>5
<1>7. /\ NextMissing(n, got) \in n .. n + c
      /\ NextMissing(n, got) \notin got
      /\ \A j \in n .. NextMissing(n, got) - 1 : j \in got
  BY <1>6 DEF NextMissing, c
<1> QED BY <1>1, <1>7

LEMMA AckSegTyped ==
    ASSUME NEW i \in Ids, NEW t \in Block
    PROVE  AckSeg(i, t) \in Segment /\ FinSeg(i, t) \in Segment
BY DEF AckSeg, FinSeg, Seg, Segment, Block, Host, Peer, Hosts, Flags

LEMMA HeadTyped ==
    ASSUME NEW i \in Ids, NEW t, Good(t)
    PROVE  t.una < t.write \/ t.una = t.isn => SendQueueHead(i, t) \in Segment
BY DEF SendQueueHead, Good, Seg, Segment, Block, Host, Peer, Hosts, Flags

LEMMA RstTyped ==
    ASSUME NEW m \in Segment
    PROVE  Rst(m) \subseteq Segment
<1>1. SegLen(m) \in Nat
  BY SegLenIs
<1> QED BY <1>1 DEF Rst, Seg, Segment, Peer, Hosts, Flags

\* tcp_valid takes the SYN or the FIN away, never an octet.
LEMMA StripIs ==
    ASSUME NEW t \in Block, NEW m \in Segment
    PROVE  LET n == Strip(t, m)
           IN  /\ n \in Segment
               /\ n.fl \subseteq m.fl /\ m.fl \ n.fl \subseteq {"SYN", "FIN"}
               /\ n.to = m.to /\ n.ack = m.ack /\ n.len = m.len
               /\ n.seq + Syn(n) = m.seq + Syn(m) /\ m.seq <= n.seq
               /\ Fin(n) <= Fin(m)
               /\ "SYN" \in n.fl => n.seq = m.seq
<1> DEFINE last == m.seq + SegLen(m) - (IF SegLen(m) > 0 THEN 1 ELSE 0)
           old  == "SYN" \in m.fl /\ m.seq < t.nxt
           far  == "FIN" \in m.fl /\ last >= t.nxt + Window
           fl   == m.fl \ ((IF old THEN {"SYN"} ELSE {}) \cup (IF far THEN {"FIN"} ELSE {}))
           seq  == IF old THEN m.seq + 1 ELSE m.seq
           n    == [m EXCEPT !.seq = seq, !.fl = fl]
<1>1. Strip(t, m) = n
  BY DEF Strip
<1>2. /\ fl \subseteq m.fl /\ m.fl \ fl \subseteq {"SYN", "FIN"}
      /\ "SYN" \in fl <=> "SYN" \in m.fl /\ ~old
      /\ "FIN" \in fl => "FIN" \in m.fl
      /\ old => "SYN" \in m.fl
  <2> HIDE DEF last
  <2> QED OBVIOUS
<1>3. m.seq \in Nat /\ m.fl \in SUBSET Flags
  BY DEF Segment
<1> HIDE DEF fl, old
<1>4. seq \in Nat /\ m.seq <= seq /\ (~old => seq = m.seq) /\ (old => seq = m.seq + 1)
  BY <1>3
<1> HIDE DEF seq
<1>5. n \in Segment
  BY <1>2, <1>3, <1>4 DEF Segment
<1>6. n.seq = seq /\ n.fl = fl /\ n.to = m.to /\ n.ack = m.ack /\ n.len = m.len
  BY DEF Segment
<1> HIDE DEF n
<1>7. n.seq + Syn(n) = m.seq + Syn(m) /\ Fin(n) <= Fin(m)
  BY <1>2, <1>3, <1>4, <1>6 DEF Syn, Fin
<1> QED BY <1>1, <1>2, <1>4, <1>5, <1>6, <1>7

LEMMA RstFinite ==
    ASSUME NEW m
    PROVE  IsFiniteSet(Rst(m))
<1>1. Rst(m) = {} \/ \E r : Rst(m) = {r}
  BY DEF Rst
<1>2. IsFiniteSet({}) /\ \A r : IsFiniteSet({r})
  BY FS_EmptySet, FS_Singleton
<1> QED BY <1>1, <1>2

(***************************************************************************)
(* Control blocks                                                          *)
(***************************************************************************)
LEMMA FreeGood == Good(Free)
<1>1. Free \in Block
  BY FS_EmptySet DEF Free, Block, States
<1> QED BY <1>1 DEF Good, Free

\* The connection and its socket, what is sent, and what is received
KeepsSocket(t, u) ==
    /\ u.state = t.state /\ u.sock = t.sock /\ u.queued = t.queued
    /\ u.passive = t.passive /\ u.dead = t.dead /\ u.deltimer = t.deltimer
KeepsSend(t, u) == u.isn = t.isn /\ u.write = t.write /\ u.fin = t.fin
KeepsReceive(t, u) == u.risn = t.risn /\ u.nxt = t.nxt /\ u.got = t.got /\ u.seq_fin = t.seq_fin

\* tcp_ack moves nothing but snd_una, forward and up to what was written.
LEMMA AckIs ==
    ASSUME NEW t \in Block, t.una <= t.write, NEW m \in Segment
    PROVE  LET u == Ack(t, m)
           IN  /\ u \in Block
               /\ KeepsSocket(t, u) /\ KeepsSend(t, u) /\ KeepsReceive(t, u)
               /\ u.asleep = t.asleep
               /\ t.una <= u.una /\ u.una <= t.write
               /\ u.una = t.una \/ ("ACK" \in m.fl /\ u.una = m.ack)
<1>1. CASE "ACK" \in m.fl /\ t.una < m.ack /\ m.ack <= t.write
  <2> DEFINE u == [t EXCEPT !.una = m.ack, !.nretrans = 0]
  <2>1. Ack(t, m) = u
    BY <1>1 DEF Ack
  <2>2. m.ack \in Nat /\ t.una \in Nat
    BY DEF Segment, Block
  <2>3. u \in Block
    BY <2>2 DEF Block
  <2>4. /\ KeepsSocket(t, u) /\ KeepsSend(t, u) /\ KeepsReceive(t, u)
        /\ u.asleep = t.asleep /\ u.una = m.ack
    BY DEF Block, KeepsSocket, KeepsSend, KeepsReceive
  <2> HIDE DEF u
  <2> QED BY <1>1, <2>1, <2>2, <2>3, <2>4
<1>2. CASE ~("ACK" \in m.fl /\ t.una < m.ack /\ m.ack <= t.write)
  <2>1. Ack(t, m) = t
    BY <1>2 DEF Ack
  <2>2. t.una \in Nat
    BY DEF Block
  <2> QED BY <2>1, <2>2 DEF KeepsSocket, KeepsSend, KeepsReceive
<1> QED BY <1>1, <1>2

\* The octets and the FIN of m are taken in where they belong, the FIN after the
\* last octet, and what is there without a gap counts as received.
Takes(t, m, u) ==
    LET first == m.seq + Syn(m)
        next  == NextMissing(t.nxt + Syn(m), u.got)
    IN  /\ u.risn = t.risn
        /\ u.got = t.got \cup (first .. first + m.len - 1)
        /\ u.seq_fin = IF "FIN" \in m.fl THEN first + m.len ELSE t.seq_fin
        /\ next \in Nat /\ t.nxt + Syn(m) <= next
        /\ next \notin u.got /\ \A j \in t.nxt + Syn(m) .. next - 1 : j \in u.got
        /\ u.nxt = IF u.seq_fin # 0 /\ u.seq_fin = next THEN next + 1 ELSE next

\* tcp_rcvdata moves nothing but the receive side.
LEMMA RcvDataIs ==
    ASSUME NEW t \in Block, NEW m \in Segment
    PROVE  LET u == RcvData(t, m)
           IN  /\ u \in Block
               /\ KeepsSocket(t, u) /\ KeepsSend(t, u) /\ u.una = t.una
               /\ u.asleep => t.asleep
               /\ Takes(t, m, u)
<1> DEFINE first == m.seq + Syn(m)
           got   == t.got \cup (first .. first + m.len - 1)
           last  == IF "FIN" \in m.fl THEN first + m.len ELSE t.seq_fin
           next  == NextMissing(t.nxt + Syn(m), got)
           upto  == IF last # 0 /\ last = next THEN next + 1 ELSE next
           sleep == t.asleep /\ next = t.nxt
           u     == [t EXCEPT !.got = got, !.seq_fin = last, !.nxt = upto, !.asleep = sleep]
<1>1. RcvData(t, m) = u
  BY DEF RcvData, Syn
<1>2. /\ first \in Nat /\ m.len \in Nat /\ Syn(m) \in Nat /\ t.nxt \in Nat /\ t.seq_fin \in Nat
      /\ t.asleep \in BOOLEAN /\ t.got \in SUBSET Nat /\ IsFiniteSet(t.got)
  BY DEF Segment, Block, Syn
<1> HIDE DEF first
<1>3. got \in SUBSET Nat /\ IsFiniteSet(got)
  <2>1. IsFiniteSet(first .. first + m.len - 1)
    <3>1. first \in Int /\ first + m.len - 1 \in Int
      BY <1>2
    <3> DEFINE b == first + m.len - 1
    <3> HIDE DEF b
    <3>2. IsFiniteSet(first .. b)
      BY <3>1, FS_Interval DEF b
    <3> QED BY <3>2 DEF b
  <2>2. first .. first + m.len - 1 \subseteq Nat
    BY <1>2
  <2> QED BY <1>2, <2>1, <2>2, FS_Union
<1> HIDE DEF got
<1>4. /\ next \in Nat /\ t.nxt + Syn(m) <= next
      /\ next \notin got /\ \A j \in t.nxt + Syn(m) .. next - 1 : j \in got
  <2>1. t.nxt + Syn(m) \in Nat
    BY <1>2
  <2> QED BY <1>3, <2>1, MissingIs
<1>5. last \in Nat
  BY <1>2
<1> HIDE DEF next, last
<1>6. upto \in Nat /\ sleep \in BOOLEAN
  BY <1>2, <1>4
<1>7. upto = IF last # 0 /\ last = next THEN next + 1 ELSE next
  OBVIOUS
<1> HIDE DEF upto
<1>8. sleep => t.asleep
  OBVIOUS
<1> HIDE DEF sleep
<1>9. u \in Block
  BY <1>3, <1>5, <1>6 DEF Block
<1>10. /\ KeepsSocket(t, u) /\ KeepsSend(t, u) /\ u.una = t.una /\ u.risn = t.risn
       /\ u.asleep = sleep /\ u.got = got /\ u.seq_fin = last /\ u.nxt = upto
  BY DEF Block, KeepsSocket, KeepsSend
<1> HIDE DEF u
<1>11. u.asleep => t.asleep
  BY <1>8, <1>10, Zenon
<1>12. Takes(t, m, u)
  BY <1>4, <1>7, <1>10 DEF Takes, first, got, last, next
<1> QED BY <1>1, <1>9, <1>10, <1>11, <1>12

\* The connection goes on whatever m says.
Usual(m) == m.fl \cap {"RST", "SYN"} = {}

\* What a segment may do to the sequence variables of a connection
Progress(t, m, u) ==
    /\ KeepsSend(t, u)
    /\ t.una <= u.una /\ u.una <= t.write
    /\ \/ u.una = t.una /\ KeepsReceive(t, u)
       \/ /\ Usual(m)
          /\ u.una = t.una \/ ("ACK" \in m.fl /\ u.una = m.ack)
          /\ KeepsReceive(t, u) \/ Takes(t, m, u)

\* What a handler makes of t before it changes the state of the connection
Digested(t, m, v) ==
    /\ v \in Block /\ KeepsSocket(t, v) /\ Progress(t, m, v) /\ t.nxt <= v.nxt
    /\ v.asleep => t.asleep

LEMMA DigestedIs ==
    ASSUME NEW t, Good(t), NEW m \in Segment
    PROVE  /\ Digested(t, m, t)
           /\ Usual(m) => /\ Digested(t, m, Ack(t, m))
                          /\ Digested(t, m, RcvData(Ack(t, m), m))
<1> DEFINE a == Ack(t, m)
           r == RcvData(a, m)
<1>0. /\ t \in Block /\ t.una <= t.write /\ t.una \in Nat /\ t.write \in Nat /\ t.nxt \in Nat
      /\ Syn(m) \in Nat
  BY DEF Good, Block, Syn
<1>1. /\ a \in Block
      /\ KeepsSocket(t, a) /\ KeepsSend(t, a) /\ KeepsReceive(t, a)
      /\ a.asleep = t.asleep
      /\ t.una <= a.una /\ a.una <= t.write
      /\ a.una = t.una \/ ("ACK" \in m.fl /\ a.una = m.ack)
  BY <1>0, AckIs
<1> HIDE DEF a
<1>2. /\ r \in Block
      /\ KeepsSocket(a, r) /\ KeepsSend(a, r) /\ r.una = a.una
      /\ r.asleep => a.asleep
      /\ Takes(a, m, r)
  BY <1>1, RcvDataIs
<1> HIDE DEF r
<1>3. Digested(t, m, t)
  BY <1>0 DEF Digested, Progress, KeepsSocket, KeepsSend, KeepsReceive
<1>4. Usual(m) => Digested(t, m, a)
  <2>1. t.nxt <= a.nxt
    BY <1>0, <1>1 DEF KeepsReceive
  <2> QED BY <1>1, <2>1, Zenon DEF Digested, Progress
<1>5. Takes(t, m, r)
  BY <1>1, <1>2 DEF Takes, KeepsReceive
<1>6. t.nxt <= r.nxt
  BY <1>0, <1>5 DEF Takes
<1>7. Usual(m) => Digested(t, m, r)
  <2>1. KeepsSocket(t, r) /\ KeepsSend(t, r)
    BY <1>1, <1>2 DEF KeepsSocket, KeepsSend
  <2>2. Usual(m) => Progress(t, m, r)
    BY <1>1, <1>2, <1>5, <2>1 DEF Progress
  <2> QED BY <1>1, <1>2, <1>6, <2>1, <2>2 DEF Digested
<1> QED BY <1>3, <1>4, <1>7 DEF a, r

\* Whatever ends a connection leaves it closed or frees it.
Ended(t, u) ==
    \/ u = Free
    \/ u.state = "CLOSED" /\ KeepsSend(t, u) /\ KeepsReceive(t, u) /\ t.una <= u.una

LEMMA AbortIs ==
    ASSUME NEW t, Good(t)
    PROVE  /\ \A u \in {Free, Reset(t), Deleted(Reset(t))} :
                 Good(u) /\ Moves(t, u) /\ Ended(t, u)
           /\ t.state # "ESTABLISHED" =>
                 Good(Deleted(t)) /\ Moves(t, Deleted(t)) /\ Ended(t, Deleted(t))
<1> DEFINE r == Reset(t)
           c(v) == [v EXCEPT !.state = "CLOSED"]
<1>1. t \in Block
  BY DEF Good
<1>2. Good(Free) /\ Moves(t, Free) /\ Ended(t, Free)
  BY FreeGood DEF Moves, Free, Ended
<1>3. /\ r \in Block /\ r.state = "CLOSED" /\ r.una = t.write /\ r.write = t.write
      /\ r.asleep = FALSE /\ r.deltimer = FALSE
      /\ r.sock = t.sock /\ r.queued = t.queued /\ r.passive = t.passive /\ r.nxt = t.nxt
      /\ KeepsSend(t, r) /\ KeepsReceive(t, r)
  BY <1>1 DEF Reset, Block, States, KeepsSend, KeepsReceive
<1> HIDE DEF r
<1>4. Good(r) /\ Moves(t, r) /\ Ended(t, r)
  BY <1>1, <1>3 DEF Good, Moves, Block, Ended
<1>5. ASSUME NEW v, Good(v), Moves(t, v), ~v.asleep, v.state # "FREE",
             KeepsSend(t, v), KeepsReceive(t, v), t.una <= v.una
      PROVE  Good(c(v)) /\ Moves(t, c(v)) /\ Ended(t, c(v))
  <2>1. v \in Block
    BY <1>5 DEF Good
  <2>2. /\ c(v) \in Block /\ c(v).state = "CLOSED" /\ c(v).una = v.una /\ c(v).write = v.write
        /\ c(v).asleep = v.asleep /\ c(v).deltimer = v.deltimer
        /\ c(v).sock = v.sock /\ c(v).queued = v.queued /\ c(v).passive = v.passive
        /\ c(v).nxt = v.nxt /\ KeepsSend(v, c(v)) /\ KeepsReceive(v, c(v))
    BY <2>1 DEF Block, States, KeepsSend, KeepsReceive
  <2> HIDE DEF c
  <2>3. Ended(t, c(v))
    BY <1>5, <2>2 DEF Ended, KeepsSend, KeepsReceive
  <2> QED BY <1>5, <2>1, <2>2, <2>3 DEF Good, Moves
<1>6. \A v : Deleted(v) = IF v.sock THEN c(v) ELSE Free
  BY DEF Deleted
<1> HIDE DEF c
<1>7. Good(Deleted(r)) /\ Moves(t, Deleted(r)) /\ Ended(t, Deleted(r))
  <2>1. t.una <= r.una
    BY <1>3 DEF Good
  <2> QED BY <1>2, <1>3, <1>4, <1>5, <1>6, <2>1
<1>8. t.state # "ESTABLISHED" =>
         Good(Deleted(t)) /\ Moves(t, Deleted(t)) /\ Ended(t, Deleted(t))
  <2>1. /\ Moves(t, t) /\ KeepsSend(t, t) /\ KeepsReceive(t, t) /\ t.una <= t.una
    BY <1>1 DEF Good, Moves, Block, KeepsSend, KeepsReceive
  <2>2. t.sock => t.state # "FREE"
    BY DEF Good, Free
  <2>3. t.state # "ESTABLISHED" => ~t.asleep
    BY DEF Good
  <2> QED BY <1>2, <1>5, <1>6, <2>1, <2>2, <2>3
<1> QED BY <1>2, <1>3, <1>4, <1>7, <1>8 DEF r

\* What a SYN makes of a connection in SYNSENT
Greeted(t, m, u) ==
    /\ "SYN" \in m.fl /\ "RST" \notin m.fl
    /\ u.state = IF u.una > u.isn THEN "ESTABLISHED" ELSE "SYNRCVD"
    /\ KeepsSend(t, u)
    /\ t.una <= u.una /\ u.una <= t.write
    /\ u.una = t.una \/ ("ACK" \in m.fl /\ u.una = m.ack)
    /\ \E b \in Block : /\ b.risn = m.seq /\ b.nxt = m.seq /\ b.got = t.got /\ b.seq_fin = t.seq_fin
                        /\ Takes(b, m, u)

\* What a handler makes of a control block: the connection ends, or begins, or
\* what it has digested is dressed in a new state.
Dressed(t, m, u) ==
    /\ Good(u) /\ Moves(t, u)
    /\ \/ Ended(t, u)
       \/ Progress(t, m, u) /\ (t.state = "SYNSENT" => u = t)
       \/ t.state = "SYNSENT" /\ Greeted(t, m, u)

LEMMA SameDressed ==
    ASSUME NEW t, Good(t), NEW m \in Segment
    PROVE  Dressed(t, m, t)
<1>1. Progress(t, m, t)
  BY DigestedIs DEF Digested
<1>2. Moves(t, t)
  BY DEF Good, Moves, Block
<1> QED BY <1>1, <1>2 DEF Dressed

\* A new state, and that the connection is dead, is to be deleted, or wakes its
\* reader, changes nothing else.
LEMMA DressIs ==
    ASSUME NEW t, Good(t), NEW m \in Segment, NEW v, Digested(t, m, v),
           t.state \notin {"FREE", "CLOSED", "SYNSENT"},
           NEW u \in Block,
           u.sock = v.sock, u.queued = v.queued, u.passive = v.passive, u.una = v.una,
           KeepsSend(v, u), KeepsReceive(v, u),
           u.asleep => v.asleep /\ u.state = v.state,
           u.deltimer => u.state \in {"FINWAIT2", "TIMEWAIT"},
           u.state = t.state \/ <<t.state, u.state>> \in Edges
    PROVE  Dressed(t, m, u)
<1>1. u.state # "FREE" /\ v.state = t.state
  BY DEF Edges, Digested, KeepsSocket
<1>2. /\ t.una \in Nat /\ t.write \in Nat /\ t.nxt \in Nat
      /\ v.una \in Nat /\ v.write \in Nat /\ v.nxt \in Nat
      /\ u.una \in Nat /\ u.write \in Nat /\ u.nxt \in Nat
  BY DEF Good, Digested, Block
<1>3. Progress(t, m, u)
  BY DEF Digested, Progress, KeepsSend, KeepsReceive, Takes
<1>4. Good(u)
  <2>1. u.una <= u.write
    BY <1>2, <1>3 DEF Progress, KeepsSend
  <2>2. u.queued => u.sock /\ u.passive
    BY DEF Digested, KeepsSocket, Good
  <2>3. u.asleep => u.state = "ESTABLISHED" /\ ~u.queued
    BY <1>1 DEF Digested, KeepsSocket, Good
  <2> QED BY <1>1, <2>1, <2>2, <2>3 DEF Good
<1>5. Moves(t, u)
  BY <1>1, <1>2 DEF Moves, Digested, KeepsSocket, KeepsReceive
<1> QED BY <1>3, <1>4, <1>5 DEF Dressed

(***************************************************************************)
(* The handlers of the input state machine                                 *)
(***************************************************************************)
\* The network has taken the segments S, or had no room for them.
Sent(S) == net' = net \/ (net' = net \cup S /\ Cardinality(net') <= MaxNet)

\* What a handler that makes u of t may answer to m
Replies(i, t, u, m) ==
    {AckSeg(i, t)} \cup (IF u.state = "FREE" THEN {} ELSE {AckSeg(i, u)}) \cup Rst(m)

\* What a handler does with the segment m for the connection i
Result(i, m) ==
    \E u, S : /\ tcb' = [tcb EXCEPT ![i] = u] /\ Sent(S) /\ UNCHANGED <<listening, isns>>
             /\ Dressed(tcb[i], m, u)
             /\ S \subseteq Replies(i, tcb[i], u, m)

LEMMA SentIs == \A S : Send(S) => Sent(S)
BY DEF Send, Sent

LEMMA ResultIs ==
    ASSUME NEW i, NEW m, NEW u, NEW S, Do(i, u, S), Dressed(tcb[i], m, u),
           S \subseteq Replies(i, tcb[i], u, m)
    PROVE  Result(i, m)
BY SentIs DEF Do, Set, Result

LEMMA ResultOfDrop ==
    ASSUME NEW i \in Ids, NEW m \in Segment, tcb \in [Ids -> Block], Good(tcb[i]), Drop
    PROVE  Result(i, m)
<1>1. Dressed(tcb[i], m, tcb[i])
  BY SameDressed
<1> DEFINE u == tcb[i]
           S == {}
<1>2. tcb' = [tcb EXCEPT ![i] = u] /\ Sent(S) /\ UNCHANGED <<listening, isns>>
  BY DEF Drop, vars, Sent
<1>3. S \subseteq Replies(i, tcb[i], u, m)
  OBVIOUS
<1>4. Dressed(tcb[i], m, u)
  BY <1>1
<1> HIDE DEF u, S
<1> QED BY <1>2, <1>3, <1>4 DEF Result

\* What a handler says besides a reset
LEMMA RepliesAre ==
    ASSUME NEW i, NEW t, NEW m
    PROVE  /\ AckReply(i, t, m) \subseteq {AckSeg(i, t)} \cup Rst(m)
           /\ RcvReply(i, Ack(t, m), m) \subseteq {AckSeg(i, RcvData(Ack(t, m), m))}
           /\ \A u, v : u.write = v.write /\ u.nxt = v.nxt => AckSeg(i, u) = AckSeg(i, v)
BY DEF AckReply, RcvReply, AckSeg

\* u is v but for the state of the connection and what goes with it.
Plain(v, u) ==
    /\ u \in Block /\ u.sock = v.sock /\ u.queued = v.queued /\ u.passive = v.passive
    /\ u.una = v.una /\ KeepsSend(v, u) /\ KeepsReceive(v, u)

InState(v, st) == [v EXCEPT !.state = st]
Woken(v, st) == [v EXCEPT !.state = st, !.asleep = FALSE]
TimeWait(v) == Wait([v EXCEPT !.state = "TIMEWAIT", !.dead = TRUE])

LEMMA WaitIs ==
    ASSUME NEW v \in Block
    PROVE  /\ Plain(v, v)
           /\ Plain(v, Wait(v)) /\ Wait(v).state = v.state
           /\ Wait(v).asleep = v.asleep /\ Wait(v).deltimer
BY DEF Plain, Wait, Block, KeepsSend, KeepsReceive

LEMMA InStateIs ==
    ASSUME NEW v \in Block, NEW st \in States
    PROVE  /\ Plain(v, InState(v, st)) /\ InState(v, st).state = st
           /\ InState(v, st).asleep = v.asleep /\ InState(v, st).deltimer = v.deltimer
BY DEF Plain, InState, Block, KeepsSend, KeepsReceive

LEMMA WokenIs ==
    ASSUME NEW v \in Block, NEW st \in States
    PROVE  /\ Plain(v, Woken(v, st)) /\ Woken(v, st).state = st
           /\ Woken(v, st).asleep = FALSE /\ Woken(v, st).deltimer = v.deltimer
BY DEF Plain, Woken, Block, KeepsSend, KeepsReceive

LEMMA WaitInStateIs ==
    ASSUME NEW v \in Block, NEW st \in States
    PROVE  LET u == Wait(InState(v, st))
           IN  Plain(v, u) /\ u.state = st /\ u.asleep = v.asleep /\ u.deltimer
<1>1. InState(v, st) \in Block
  BY InStateIs DEF Plain
<1> QED BY <1>1, InStateIs, WaitIs DEF Plain, KeepsSend, KeepsReceive

LEMMA TimeWaitIs ==
    ASSUME NEW v \in Block
    PROVE  LET u == TimeWait(v)
           IN  Plain(v, u) /\ u.state = "TIMEWAIT" /\ u.asleep = v.asleep /\ u.deltimer
<1> DEFINE w == [v EXCEPT !.state = "TIMEWAIT", !.dead = TRUE]
<1>1. Plain(v, w) /\ w.state = "TIMEWAIT" /\ w.asleep = v.asleep
  BY DEF Plain, Block, KeepsSend, KeepsReceive, States, Synchronized
<1>2. TimeWait(v) = Wait(w)
  BY DEF TimeWait
<1> HIDE DEF w
<1> QED BY <1>1, <1>2, WaitIs DEF Plain, KeepsSend, KeepsReceive

\* A handler that takes what it gets and then dresses it
LEMMA Takers ==
    ASSUME NEW i \in Ids, NEW m \in Segment, Good(tcb[i]),
           tcb[i].state \notin {"FREE", "CLOSED", "SYNSENT"},
           NEW v, v \in {Ack(tcb[i], m), RcvData(Ack(tcb[i], m), m)},
           NEW u, Plain(v, u),
           u.asleep => v.asleep /\ u.state = v.state,
           u.deltimer => u.state \in {"FINWAIT2", "TIMEWAIT"},
           u.state = tcb[i].state \/ <<tcb[i].state, u.state>> \in Edges,
           Usual(m), NEW S,
           \/ S = AckReply(i, tcb[i], m)
           \/ /\ S = AckReply(i, tcb[i], m) \cup RcvReply(i, Ack(tcb[i], m), m)
              /\ v = RcvData(Ack(tcb[i], m), m),
           Do(i, u, S)
    PROVE  Result(i, m)
<1> DEFINE t == tcb[i]
<1>1. Digested(t, m, v)
  BY DigestedIs
<1> HIDE DEF t
<1>2. Dressed(t, m, u)
  BY <1>1, DressIs DEF t, Plain
<1>3. AckSeg(i, u) = AckSeg(i, v)
  BY RepliesAre DEF KeepsSend, KeepsReceive, Plain
<1>4. S \subseteq Replies(i, t, u, m)
  <2>1. u.state # "FREE"
    BY DEF Edges
  <2> QED BY <1>3, <2>1, RepliesAre DEF t, Replies
<1> QED BY <1>2, <1>4, ResultIs DEF t

\* What a handler answers by a reset
LEMMA Enders ==
    ASSUME NEW i \in Ids, NEW m, Good(tcb[i]),
           NEW u, \/ u \in {Free, Reset(tcb[i]), Deleted(Reset(tcb[i]))}
                  \/ u = Deleted(tcb[i]) /\ tcb[i].state # "ESTABLISHED",
           Do(i, u, Rst(m))
    PROVE  Result(i, m)
<1>1. Dressed(tcb[i], m, u)
  BY AbortIs DEF Dressed
<1> QED BY <1>1, ResultIs DEF Replies

\* What the handlers work on, before they choose the new state
LEMMA Workpieces ==
    ASSUME NEW t, Good(t), NEW m \in Segment, Usual(m)
    PROVE  \A v \in {Ack(t, m), RcvData(Ack(t, m), m)} :
              /\ v \in Block /\ v.state = t.state /\ v.deltimer = t.deltimer
              /\ v.asleep => t.asleep
BY DigestedIs DEF Digested, KeepsSocket

LEMMA EstablishedIs ==
    ASSUME NEW i \in Ids, NEW m \in Segment, tcb \in [Ids -> Block], Good(tcb[i]),
           tcb[i].state = "ESTABLISHED", tcbs_established(i, m)
    PROVE  Result(i, m)
<1> DEFINE t == tcb[i]
           v == RcvData(Ack(t, m), m)
           u == IF Finished(v) THEN Woken(v, "CLOSEWAIT") ELSE v
<1>1. CASE m.fl \cap {"RST", "SYN"} # {}
  BY <1>1, Enders DEF tcbs_established
<1>2. CASE m.fl \cap {"RST", "SYN", "ACK"} = {}
  BY <1>2, ResultOfDrop DEF tcbs_established
<1>3. CASE m.fl \cap {"RST", "SYN"} = {} /\ m.fl \cap {"RST", "SYN", "ACK"} # {}
  <2>0. Usual(m)
    BY <1>3 DEF Usual, Fatal
  <2>1. Do(i, u, AckReply(i, t, m) \cup RcvReply(i, Ack(t, m), m))
    BY <1>3 DEF tcbs_established, Woken
  <2>2. v \in Block /\ v.state = t.state /\ ~v.deltimer
    BY <2>0, Workpieces DEF Good
  <2> HIDE DEF v
  <2>3. /\ Plain(v, u) /\ ~u.deltimer /\ (u.asleep => v.asleep /\ u.state = v.state)
        /\ u.state = t.state \/ <<t.state, u.state>> \in Edges
    <3>1. "CLOSEWAIT" \in States /\ <<t.state, "CLOSEWAIT">> \in Edges
      BY DEF States, Synchronized, Edges
    <3>2. LET w == Woken(v, "CLOSEWAIT")
          IN  Plain(v, w) /\ w.state = "CLOSEWAIT" /\ w.asleep = FALSE /\ w.deltimer = v.deltimer
      BY <2>2, <3>1, WokenIs
    <3>3. Plain(v, v)
      BY <2>2, WaitIs
    <3> QED BY <2>2, <3>1, <3>2, <3>3
  <2> HIDE DEF u
  <2> QED BY <2>0, <2>1, <2>3, Takers DEF v
<1> QED BY <1>1, <1>2, <1>3

LEMMA SynrcvdIs ==
    ASSUME NEW i \in Ids, NEW m \in Segment, tcb \in [Ids -> Block], Good(tcb[i]),
           tcb[i].state = "SYNRCVD", tcbs_synrcvd(i, m)
    PROVE  Result(i, m)
<1> DEFINE t == tcb[i]
           v == RcvData(Ack(t, m), m)
           u == InState(v, IF Finished(v) THEN "CLOSEWAIT" ELSE "ESTABLISHED")
<1>1. CASE m.fl \cap {"RST", "SYN"} # {}
  BY <1>1, Enders DEF tcbs_synrcvd
<1>2. CASE m.fl \cap {"RST", "SYN", "ACK"} = {}
  BY <1>2, ResultOfDrop DEF tcbs_synrcvd
<1>3. CASE m.fl \cap {"RST", "SYN"} = {} /\ m.fl \cap {"RST", "SYN", "ACK"} # {}
  <2>0. Usual(m)
    BY <1>3 DEF Usual, Fatal
  <2>1. Do(i, u, AckReply(i, t, m) \cup RcvReply(i, Ack(t, m), m))
    BY <1>3 DEF tcbs_synrcvd, InState
  <2>2. v \in Block /\ v.state = t.state /\ ~v.deltimer /\ ~v.asleep
    BY <2>0, Workpieces DEF Good
  <2> HIDE DEF v
  <2>3. /\ Plain(v, u) /\ ~u.deltimer /\ ~u.asleep /\ <<t.state, u.state>> \in Edges
    <3> DEFINE st == IF Finished(v) THEN "CLOSEWAIT" ELSE "ESTABLISHED"
    <3>1. st \in States /\ <<t.state, st>> \in Edges
      BY DEF States, Synchronized, Edges
    <3> HIDE DEF st
    <3>2. Plain(v, u) /\ u.state = st /\ u.asleep = v.asleep /\ u.deltimer = v.deltimer
      BY <2>2, <3>1, InStateIs DEF st
    <3> QED BY <2>2, <3>1, <3>2
  <2> HIDE DEF u
  <2> QED BY <2>0, <2>1, <2>3, Takers DEF v
<1> QED BY <1>1, <1>2, <1>3

LEMMA Finwait1Is ==
    ASSUME NEW i \in Ids, NEW m \in Segment, tcb \in [Ids -> Block], Good(tcb[i]),
           tcb[i].state = "FINWAIT1", tcbs_finwait1(i, m)
    PROVE  Result(i, m)
<1> DEFINE t == tcb[i]
           v == RcvData(Ack(t, m), m)
           u == CASE Finished(v) /\ ~FinAcked(v) -> InState(v, "CLOSING")
                  [] Finished(v) /\ FinAcked(v) -> TimeWait(v)
                  [] ~Finished(v) /\ FinAcked(v) -> Wait(InState(v, "FINWAIT2"))
                  [] OTHER -> v
<1>1. CASE Fatal(t, m)
  BY <1>1, Enders DEF tcbs_finwait1
<1>2. CASE ~Fatal(t, m) /\ "ACK" \notin m.fl
  BY <1>2, ResultOfDrop DEF tcbs_finwait1
<1>3. CASE ~Fatal(t, m) /\ "ACK" \in m.fl
  <2>0. Usual(m)
    BY <1>3 DEF Usual, Fatal
  <2>1. Do(i, u, AckReply(i, t, m) \cup RcvReply(i, Ack(t, m), m))
    BY <1>3 DEF tcbs_finwait1, TimeWait, InState
  <2>2. v \in Block /\ v.state = t.state /\ ~v.deltimer /\ ~v.asleep
    BY <2>0, Workpieces DEF Good
  <2> HIDE DEF v
  <2>3. /\ Plain(v, u) /\ (u.deltimer => u.state \in {"FINWAIT2", "TIMEWAIT"}) /\ ~u.asleep
        /\ u.state = t.state \/ <<t.state, u.state>> \in Edges
    <3>1. /\ {"CLOSING", "FINWAIT2"} \subseteq States
          /\ \A st \in {"CLOSING", "FINWAIT2", "TIMEWAIT"} : <<t.state, st>> \in Edges
      BY DEF States, Synchronized, Edges
    <3>2. LET w == InState(v, "CLOSING")
          IN  Plain(v, w) /\ w.state = "CLOSING" /\ w.asleep = v.asleep /\ w.deltimer = v.deltimer
      BY <2>2, <3>1, InStateIs
    <3>3. LET w == Wait(InState(v, "FINWAIT2"))
          IN  Plain(v, w) /\ w.state = "FINWAIT2" /\ w.asleep = v.asleep
      BY <2>2, <3>1, WaitInStateIs
    <3>4. Plain(v, TimeWait(v)) /\ TimeWait(v).state = "TIMEWAIT" /\ TimeWait(v).asleep = v.asleep
      BY <2>2, TimeWaitIs
    <3>5. Plain(v, v)
      BY <2>2, WaitIs
    <3> HIDE DEF t
    <3>6. CASE Finished(v) /\ ~FinAcked(v)
      BY <2>2, <3>1, <3>2, <3>6
    <3>7. CASE Finished(v) /\ FinAcked(v)
      BY <2>2, <3>1, <3>4, <3>7
    <3>8. CASE ~Finished(v) /\ FinAcked(v)
      BY <2>2, <3>1, <3>3, <3>8
    <3>9. CASE ~Finished(v) /\ ~FinAcked(v)
      BY <2>2, <3>5, <3>9
    <3> QED BY <3>6, <3>7, <3>8, <3>9
  <2> HIDE DEF u
  <2> QED BY <2>0, <2>1, <2>3, Takers DEF v
<1> QED BY <1>1, <1>2, <1>3

LEMMA Finwait2Is ==
    ASSUME NEW i \in Ids, NEW m \in Segment, tcb \in [Ids -> Block], Good(tcb[i]),
           tcb[i].state = "FINWAIT2", tcbs_finwait2(i, m)
    PROVE  Result(i, m)
<1> DEFINE t == tcb[i]
           v == RcvData(Ack(t, m), m)
           u == IF Finished(v) THEN TimeWait(v) ELSE v
<1>1. CASE Fatal(t, m)
  BY <1>1, Enders DEF tcbs_finwait2
<1>2. CASE ~Fatal(t, m) /\ "ACK" \notin m.fl
  BY <1>2, ResultOfDrop DEF tcbs_finwait2
<1>3. CASE ~Fatal(t, m) /\ "ACK" \in m.fl
  <2>0. Usual(m)
    BY <1>3 DEF Usual, Fatal
  <2>1. Do(i, u, AckReply(i, t, m) \cup RcvReply(i, Ack(t, m), m))
    BY <1>3 DEF tcbs_finwait2, TimeWait
  <2>2. v \in Block /\ v.state = t.state /\ ~v.asleep
    BY <2>0, Workpieces DEF Good
  <2> HIDE DEF v
  <2>3. /\ Plain(v, u) /\ u.state \in {"FINWAIT2", "TIMEWAIT"} /\ ~u.asleep
        /\ u.state = t.state \/ <<t.state, u.state>> \in Edges
    BY <2>2, TimeWaitIs, WaitIs DEF Edges
  <2> HIDE DEF u
  <2> QED BY <2>0, <2>1, <2>3, Takers DEF v
<1> QED BY <1>1, <1>2, <1>3

LEMMA ClosewaitIs ==
    ASSUME NEW i \in Ids, NEW m \in Segment, tcb \in [Ids -> Block], Good(tcb[i]),
           tcb[i].state = "CLOSEWAIT", tcbs_closewait(i, m)
    PROVE  Result(i, m)
<1> DEFINE t == tcb[i]
           v == Ack(t, m)
<1>1. CASE m.fl \cap {"RST", "SYN"} # {}
  BY <1>1, Enders DEF tcbs_closewait
<1>2. CASE m.fl \cap {"RST", "SYN"} = {}
  <2>0. Usual(m)
    BY <1>2 DEF Usual, Fatal
  <2>1. Do(i, v, AckReply(i, t, m))
    BY <1>2 DEF tcbs_closewait
  <2>2. v \in Block /\ v.state = t.state /\ ~v.deltimer /\ ~v.asleep
    BY <2>0, Workpieces DEF Good
  <2> HIDE DEF v
  <2>3. Plain(v, v)
    BY <2>2, WaitIs
  <2> QED BY <2>0, <2>1, <2>2, <2>3, Takers DEF v
<1> QED BY <1>1, <1>2

LEMMA ClosingIs ==
    ASSUME NEW i \in Ids, NEW m \in Segment, tcb \in [Ids -> Block], Good(tcb[i]),
           tcb[i].state = "CLOSING", tcbs_closing(i, m)
    PROVE  Result(i, m)
<1> DEFINE t == tcb[i]
           v == Ack(t, m)
           u == IF FinAcked(v) THEN TimeWait(v) ELSE v
<1>1. CASE Fatal(t, m)
  BY <1>1, Enders DEF tcbs_closing
<1>2. CASE ~Fatal(t, m)
  <2>0. Usual(m)
    BY <1>2 DEF Usual, Fatal
  <2>1. Do(i, u, AckReply(i, t, m))
    BY <1>2 DEF tcbs_closing, TimeWait
  <2>2. v \in Block /\ v.state = t.state /\ ~v.deltimer /\ ~v.asleep
    BY <2>0, Workpieces DEF Good
  <2> HIDE DEF v
  <2>3. /\ Plain(v, u) /\ (u.deltimer => u.state = "TIMEWAIT") /\ ~u.asleep
        /\ u.state = t.state \/ <<t.state, u.state>> \in Edges
    BY <2>2, TimeWaitIs, WaitIs DEF Edges
  <2> HIDE DEF u
  <2> QED BY <2>0, <2>1, <2>3, Takers DEF v
<1> QED BY <1>1, <1>2

LEMMA LastackIs ==
    ASSUME NEW i \in Ids, NEW m \in Segment, tcb \in [Ids -> Block], Good(tcb[i]),
           tcb[i].state = "LASTACK", tcbs_lastack(i, m)
    PROVE  Result(i, m)
<1> DEFINE t == tcb[i]
           v == Ack(t, m)
           w == [v EXCEPT !.dead = TRUE]
<1>1. CASE Fatal(t, m)
  BY <1>1, Enders DEF tcbs_lastack
<1>2. CASE ~Fatal(t, m)
  <2>0. Usual(m)
    BY <1>2 DEF Usual, Fatal
  <2>1. Do(i, IF FinAcked(v) THEN Deleted(w) ELSE v, AckReply(i, t, m))
    BY <1>2 DEF tcbs_lastack
  <2>2. v \in Block /\ v.state = t.state /\ ~v.deltimer /\ ~v.asleep /\ Digested(t, m, v)
    BY <2>0, Workpieces, DigestedIs DEF Good
  <2> HIDE DEF v
  <2>3. Plain(v, v)
    BY <2>2, WaitIs
  <2>4. CASE ~FinAcked(v)
    BY <2>0, <2>1, <2>2, <2>3, <2>4, Takers DEF v
  <2>5. CASE FinAcked(v)
    <3>1. /\ w \in Block /\ w.state = t.state /\ w.deltimer = v.deltimer /\ w.asleep = v.asleep
          /\ Plain(v, w)
      BY <2>2 DEF Block, Plain, KeepsSend, KeepsReceive
    <3> HIDE DEF w
    <3>2. Dressed(t, m, w)
      BY <2>2, <3>1, DressIs DEF Plain
    <3>3. Good(Deleted(w)) /\ Moves(w, Deleted(w)) /\ Deleted(w) \in {Free, InState(w, "CLOSED")}
      BY <3>1, <3>2, AbortIs DEF Dressed, Deleted, InState
    <3>4. Moves(t, Deleted(w))
      <4>1. Moves(t, w) /\ t.nxt \in Nat /\ w.nxt \in Nat
        BY <3>1, <3>2 DEF Dressed, Block, Good
      <4>2. Deleted(w).nxt \in Nat /\ Deleted(w).state \in {"CLOSED", "FREE"}
        BY <3>1, <3>2, <3>3, AbortIs, InStateIs DEF Good, Block, States, Free
      <4> QED BY <3>1, <3>3, <4>1, <4>2 DEF Moves
    <3>5. Ended(t, Deleted(w)) \/ Progress(t, m, Deleted(w))
      <4>1. "CLOSED" \in States
        BY DEF States
      <4>2. Plain(w, InState(w, "CLOSED"))
        BY <3>1, <4>1, InStateIs
      <4>3. Progress(t, m, v)
        BY <2>2 DEF Digested
      <4>4. Progress(t, m, InState(w, "CLOSED"))
        BY <3>1, <4>2, <4>3 DEF Progress, Plain, KeepsSend, KeepsReceive, Takes
      <4> QED BY <3>3, <4>4 DEF Ended
    <3>6. AckReply(i, t, m) \subseteq Replies(i, t, Deleted(w), m)
      BY RepliesAre DEF Replies
    <3> QED BY <2>1, <2>5, <3>3, <3>4, <3>5, <3>6, ResultIs DEF Dressed
  <2> QED BY <2>4, <2>5
<1> QED BY <1>1, <1>2

LEMMA TimewaitIs ==
    ASSUME NEW i \in Ids, NEW m \in Segment, tcb \in [Ids -> Block], Good(tcb[i]),
           tcb[i].state = "TIMEWAIT", tcbs_timewait(i, m)
    PROVE  Result(i, m)
<1> DEFINE t == tcb[i]
           v == RcvData(Ack(t, m), m)
<1>1. CASE Fatal(t, m)
  BY <1>1, Enders DEF tcbs_timewait
<1>2. CASE ~Fatal(t, m)
  <2>0. Usual(m)
    BY <1>2 DEF Usual, Fatal
  <2>1. Do(i, Wait(v), AckReply(i, t, m) \cup RcvReply(i, Ack(t, m), m))
    BY <1>2 DEF tcbs_timewait
  <2>2. v \in Block /\ v.state = t.state /\ ~v.asleep
    BY <2>0, Workpieces DEF Good
  <2> HIDE DEF v
  <2>3. Plain(v, Wait(v)) /\ Wait(v).state = t.state /\ ~Wait(v).asleep
    BY <2>2, WaitIs
  <2> QED BY <2>0, <2>1, <2>3, Takers DEF v
<1> QED BY <1>1, <1>2

LEMMA SynsentIs ==
    ASSUME NEW i \in Ids, NEW m \in Segment, tcb \in [Ids -> Block], Good(tcb[i]),
           tcb[i].state = "SYNSENT", tcbs_synsent(i, m)
    PROVE  Result(i, m)
<1> DEFINE t   == tcb[i]
           bad == "ACK" \in m.fl /\ (m.ack <= t.isn \/ m.ack > t.write)
           b   == [t EXCEPT !.risn = m.seq, !.nxt = m.seq]
           a   == Ack(b, m)
           v   == RcvData(a, m)
           st  == IF v.una > v.isn THEN "ESTABLISHED" ELSE "SYNRCVD"
           u   == InState(v, st)
<1>0. t \in Block /\ t.una <= t.write /\ ~t.asleep /\ ~t.deltimer
  BY DEF Good
<1>1. CASE bad
  <2>1. Do(i, t, Rst(m))
    BY <1>1 DEF tcbs_synsent
  <2> QED BY <2>1, SameDressed, ResultIs DEF Replies
<1>2. CASE ~bad /\ "RST" \in m.fl
  <2>1. CASE "ACK" \in m.fl
    <3>1. Do(i, Reset(t), {})
      BY <1>2, <2>1 DEF tcbs_synsent
    <3>2. Dressed(t, m, Reset(t))
      BY AbortIs DEF Dressed
    <3> QED BY <3>1, <3>2, ResultIs
  <2>2. CASE "ACK" \notin m.fl
    BY <1>2, <2>2, ResultOfDrop DEF tcbs_synsent
  <2> QED BY <2>1, <2>2
<1>3. CASE ~bad /\ "RST" \notin m.fl /\ "SYN" \notin m.fl
  BY <1>3, ResultOfDrop DEF tcbs_synsent
<1>4. CASE ~bad /\ "RST" \notin m.fl /\ "SYN" \in m.fl
  <2>1. Do(i, u, {AckSeg(i, v)})
    BY <1>4 DEF tcbs_synsent, InState
  <2>2. /\ b \in Block /\ b.risn = m.seq /\ b.nxt = m.seq /\ b.got = t.got /\ b.seq_fin = t.seq_fin
        /\ KeepsSocket(t, b) /\ KeepsSend(t, b) /\ b.una = t.una /\ b.asleep = t.asleep
    <3>1. m.seq \in Nat
      BY DEF Segment
    <3> QED BY <1>0, <3>1 DEF Block, KeepsSocket, KeepsSend
  <2> HIDE DEF b
  <2>3. /\ a \in Block
        /\ KeepsSocket(b, a) /\ KeepsSend(b, a) /\ KeepsReceive(b, a)
        /\ a.asleep = b.asleep
        /\ b.una <= a.una /\ a.una <= b.write
        /\ a.una = b.una \/ ("ACK" \in m.fl /\ a.una = m.ack)
    BY <1>0, <2>2, AckIs DEF KeepsSend
  <2> HIDE DEF a
  <2>4. /\ v \in Block /\ KeepsSocket(a, v) /\ KeepsSend(a, v) /\ v.una = a.una
        /\ v.asleep => a.asleep
        /\ Takes(a, m, v)
    BY <2>3, RcvDataIs
  <2> HIDE DEF v
  <2>5. st \in States /\ <<t.state, st>> \in Edges /\ st \notin {"FREE", "CLOSED"}
    BY DEF States, Synchronized, Edges
  <2>6. /\ Plain(v, u) /\ u.state = st /\ u.asleep = v.asleep /\ u.deltimer = v.deltimer
    BY <2>4, <2>5, InStateIs
  <2>7. st = IF v.una > v.isn THEN "ESTABLISHED" ELSE "SYNRCVD"
    OBVIOUS
  <2> HIDE DEF u, st, t
  <2>8. KeepsSend(t, u) /\ u.una = a.una
    BY <2>2, <2>3, <2>4, <2>6 DEF KeepsSend, Plain
  <2>9. Takes(b, m, u)
    BY <2>3, <2>4, <2>6 DEF Takes, Plain, KeepsReceive
  <2>10. Greeted(t, m, u)
    <3>1. /\ t.una <= u.una /\ u.una <= t.write
          /\ u.una = t.una \/ ("ACK" \in m.fl /\ u.una = m.ack)
      BY <2>2, <2>3, <2>8 DEF KeepsSend
    <3>2. u.state = IF u.una > u.isn THEN "ESTABLISHED" ELSE "SYNRCVD"
      BY <2>6, <2>7 DEF Plain, KeepsSend
    <3>3. \E w \in Block : /\ w.risn = m.seq /\ w.nxt = m.seq
                           /\ w.got = t.got /\ w.seq_fin = t.seq_fin /\ Takes(w, m, u)
      BY <2>2, <2>9
    <3> QED BY <1>4, <2>8, <3>1, <3>2, <3>3, Zenon DEF Greeted
  <2>11. /\ u.queued = t.queued /\ u.sock = t.sock /\ u.passive = t.passive
         /\ ~u.asleep /\ ~u.deltimer
    BY <1>0, <2>2, <2>3, <2>4, <2>6 DEF KeepsSocket, Plain
  <2>12. Good(u)
    <3>1. u.una <= u.write
      BY <2>10 DEF Greeted, KeepsSend
    <3>2. u.queued => u.sock /\ u.passive
      BY <2>11 DEF Good, t
    <3> QED BY <2>5, <2>6, <2>11, <3>1, <3>2 DEF Good, Plain
  <2>13. Moves(t, u)
    BY <2>5, <2>6, <2>11 DEF Moves, t
  <2>14. AckSeg(i, u) = AckSeg(i, v)
    BY <2>6, RepliesAre DEF Plain, KeepsSend, KeepsReceive
  <2>15. Dressed(t, m, u)
    BY <2>10, <2>12, <2>13 DEF Dressed, t
  <2>16. {AckSeg(i, v)} \subseteq Replies(i, t, u, m)
    BY <2>5, <2>6, <2>14 DEF Replies
  <2> QED BY <2>1, <2>15, <2>16, ResultIs DEF t
<1> QED BY <1>1, <1>2, <1>3, <1>4

LEMMA NotAcceptableIs ==
    ASSUME NEW i \in Ids, NEW m \in Segment, tcb \in [Ids -> Block], Good(tcb[i]),
           NotAcceptable(i, m)
    PROVE  Result(i, m)
<1> DEFINE S == IF "RST" \in m.fl THEN {} ELSE {AckSeg(i, tcb[i])}
<1>1. Do(i, tcb[i], S) /\ Dressed(tcb[i], m, tcb[i])
  BY SameDressed DEF NotAcceptable
<1>2. S \subseteq Replies(i, tcb[i], tcb[i], m)
  BY DEF Replies
<1> QED BY <1>1, <1>2, ResultIs

LEMMA HandleIs ==
    ASSUME NEW i \in Ids, NEW m \in Segment, tcb \in [Ids -> Block], Good(tcb[i]), Handle(i, m)
    PROVE  Result(i, m)
BY SynrcvdIs, EstablishedIs, Finwait1Is, Finwait2Is, ClosewaitIs, LastackIs, ClosingIs, TimewaitIs
   DEF Handle

(***************************************************************************)
(* The state diagram                                                       *)
(***************************************************************************)
\* A tcb that has never been used is free: connections of B are begun in the
\* order b1, b2.
Unborn ==
    /\ isns["B"] = 0 => tcb["b1"] = Free
    /\ isns["B"] <= 1 => tcb["b2"] = Free

\* The inductive invariant
Sane ==
    /\ tcb \in [Ids -> Block] /\ \A i \in Ids : Good(tcb[i])
    /\ \A i \in Ids : tcb[i].queued => listening = "yes" /\ i # "a"
    /\ listening \in {"no", "yes", "closed"}
    /\ isns \in [Hosts -> 0 .. 2]
    /\ Unborn
    /\ net \subseteq Segment /\ IsFiniteSet(net) /\ Cardinality(net) <= MaxNet

\* One step along the diagram
Along(t, u) ==
    /\ t.state = u.state \/ u.state \in {"CLOSED", "FREE"} \/ <<t.state, u.state>> \in Edges
    /\ t.state # "FREE" /\ u.state # "FREE" =>
          /\ u.sock => t.sock
          /\ t.state # "SYNSENT" => t.nxt <= u.nxt

AllAlong == \A i \in Ids : Along(tcb[i], tcb'[i])

LEMMA SentTyped ==
    ASSUME Sane, NEW S, S \subseteq Segment, IsFiniteSet(S), Sent(S)
    PROVE  net' \subseteq Segment /\ IsFiniteSet(net') /\ Cardinality(net') <= MaxNet
BY FS_Union DEF Sent, Sane

LEMMA SameAlong ==
    ASSUME Sane, NEW i \in Ids
    PROVE  Along(tcb[i], tcb[i])
BY DEF Along, Sane, Block

\* An allocated control block moves.
LEMMA MoveOne ==
    ASSUME Sane, NEW i \in Ids, Allocated(i), NEW u, Good(u), Moves(tcb[i], u),
           tcb' = [tcb EXCEPT ![i] = u], UNCHANGED <<listening, isns>>,
           NEW S, Sent(S), S \subseteq Segment, IsFiniteSet(S)
    PROVE  Sane' /\ AllAlong
<1>1. net' \subseteq Segment /\ IsFiniteSet(net') /\ Cardinality(net') <= MaxNet
  BY SentTyped
<1>2. /\ tcb' \in [Ids -> Block] /\ tcb'[i] = u
      /\ \A j \in Ids : j # i => tcb'[j] = tcb[j]
  BY DEF Sane, Good
<1>3. \A j \in Ids : Good(tcb'[j]) /\ (tcb'[j].queued => tcb[j].queued)
  BY <1>2 DEF Sane, Moves
<1>4. Unborn'
  <2>1. tcb[i] # Free
    BY DEF Allocated, Free
  <2>2. \A j \in {"b1", "b2"} : tcb[j] = Free => tcb'[j] = Free
    BY <1>2, <2>1 DEF Ids
  <2> QED BY <2>2 DEF Sane, Unborn
<1>5. Sane'
  BY <1>1, <1>2, <1>3, <1>4 DEF Sane
<1>6. AllAlong
  BY <1>2, SameAlong DEF AllAlong, Along, Moves
<1> QED BY <1>5, <1>6

\* A control block that has not been used is allocated.
LEMMA BeginOne ==
    ASSUME Sane, NEW i \in Ids, tcb[i] = Free, NEW u, Good(u), u.state \in {"SYNSENT", "SYNRCVD"},
           u.queued => listening = "yes" /\ i # "a",
           i = "b1" => isns["B"] = 0, i = "b2" => isns["B"] = 1, isns[Host(i)] < 2,
           tcb' = [tcb EXCEPT ![i] = u], isns' = [isns EXCEPT ![Host(i)] = @ + 1],
           UNCHANGED listening,
           NEW S, Sent(S), S \subseteq Segment, IsFiniteSet(S)
    PROVE  Sane' /\ AllAlong
<1>1. net' \subseteq Segment /\ IsFiniteSet(net') /\ Cardinality(net') <= MaxNet
  BY SentTyped
<1>2. /\ tcb' \in [Ids -> Block] /\ tcb'[i] = u
      /\ \A j \in Ids : j # i => tcb'[j] = tcb[j]
  BY DEF Sane, Good
<1>3. \A j \in Ids : Good(tcb'[j]) /\ (tcb'[j].queued => listening = "yes")
  BY <1>2 DEF Sane
<1>4. isns' \in [Hosts -> 0 .. 2] /\ Host(i) \in Hosts
      /\ isns'[Host(i)] = isns[Host(i)] + 1 /\ \A h \in Hosts : h # Host(i) => isns'[h] = isns[h]
  BY DEF Sane, Host, Hosts
<1>5. Unborn'
  <2>1. CASE i = "a"
    BY <2>1, <1>2, <1>4 DEF Sane, Unborn, Ids, Host, Hosts
  <2>2. CASE i = "b1"
    BY <2>2, <1>2, <1>4 DEF Sane, Unborn, Ids, Host, Hosts
  <2>3. CASE i = "b2"
    BY <2>3, <1>2, <1>4 DEF Sane, Unborn, Ids, Host, Hosts
  <2> QED BY <2>1, <2>2, <2>3 DEF Ids
<1>6. Sane'
  BY <1>1, <1>2, <1>3, <1>4, <1>5 DEF Sane
<1>7. Along(tcb[i], tcb'[i])
  BY <1>2 DEF Along, Free, Edges
<1>8. AllAlong
  BY <1>2, <1>7, SameAlong DEF AllAlong
<1> QED BY <1>6, <1>8

\* A handler's step
LEMMA ResultMoves ==
    ASSUME Sane, NEW i \in Ids, Allocated(i), NEW m \in Segment, Result(i, m)
    PROVE  Sane' /\ AllAlong
<1>1. PICK u, S : /\ tcb' = [tcb EXCEPT ![i] = u] /\ Sent(S) /\ UNCHANGED <<listening, isns>>
                  /\ Dressed(tcb[i], m, u)
                  /\ S \subseteq {AckSeg(i, tcb[i]), AckSeg(i, u)} \cup Rst(m)
  BY DEF Result, Replies
<1>2. Good(u) /\ Moves(tcb[i], u)
  BY <1>1 DEF Dressed
<1>3. S \subseteq Segment
  BY <1>1, <1>2, AckSegTyped, RstTyped DEF Good, Sane
<1>4. IsFiniteSet(S)
  <2>1. IsFiniteSet(Rst(m))
    BY RstFinite
  <2>2. IsFiniteSet({AckSeg(i, tcb[i])} \cup {AckSeg(i, u)})
    BY FS_Singleton, FS_Union
  <2>3. IsFiniteSet(({AckSeg(i, tcb[i])} \cup {AckSeg(i, u)}) \cup Rst(m))
    BY <2>1, <2>2, FS_Union
  <2>4. S \in SUBSET (({AckSeg(i, tcb[i])} \cup {AckSeg(i, u)}) \cup Rst(m))
    BY <1>1
  <2> QED BY <2>3, <2>4, FS_Subset
<1> QED BY <1>1, <1>2, <1>3, <1>4, MoveOne

\* A connection begins: connect sends a SYN, or the SYN m to the listening socket
\* forks off a tcb that answers it.
Begins(i) ==
    \E u \in Block :
       LET n == tcp_isn(Host(i))
       IN  /\ tcb[i] = Free /\ isns[Host(i)] < MaxOpens[Host(i)]
           /\ i = "b1" => isns["B"] = 0
           /\ i = "b2" => isns["B"] = 1
           /\ tcb' = [tcb EXCEPT ![i] = u] /\ isns' = [isns EXCEPT ![Host(i)] = @ + 1]
           /\ UNCHANGED listening /\ Sent({SendQueueHead(i, u)})
           /\ Good(u) /\ u.isn = n /\ u.una = n /\ u.write = n + 1 /\ ~u.fin
           /\ \/ /\ u.state = "SYNSENT" /\ ~u.queued
                 /\ u.risn = 0 /\ u.nxt = 0 /\ u.got = {} /\ u.seq_fin = 0
              \/ /\ u.state = "SYNRCVD" /\ i # "a" /\ listening = "yes"
                 /\ \E m \in net, b \in Block :
                       /\ m.to = "B" /\ m.fl = {"SYN"}
                       /\ b.risn = m.seq /\ b.nxt = m.seq /\ b.got = {} /\ b.seq_fin = 0
                       /\ Takes(b, m, u)

LEMMA BeginsMoves ==
    ASSUME Sane, NEW i \in Ids, Begins(i)
    PROVE  Sane' /\ AllAlong
<1>1. PICK u \in Block :
          /\ tcb[i] = Free /\ isns[Host(i)] < MaxOpens[Host(i)]
          /\ i = "b1" => isns["B"] = 0
          /\ i = "b2" => isns["B"] = 1
          /\ tcb' = [tcb EXCEPT ![i] = u] /\ isns' = [isns EXCEPT ![Host(i)] = @ + 1]
          /\ UNCHANGED listening /\ Sent({SendQueueHead(i, u)})
          /\ Good(u) /\ u.una = u.isn /\ u.state \in {"SYNSENT", "SYNRCVD"}
          /\ u.queued => listening = "yes" /\ i # "a"
  BY DEF Begins
<1>2. SendQueueHead(i, u) \in Segment
  BY <1>1, HeadTyped
<1>3. IsFiniteSet({SendQueueHead(i, u)}) /\ {SendQueueHead(i, u)} \subseteq Segment
  BY <1>2, FS_Singleton
<1>4. isns[Host(i)] < 2
  <2>1. Host(i) \in Hosts
    BY DEF Host, Hosts
  <2>2. MaxOpens[Host(i)] \in 0 .. 2 /\ isns[Host(i)] \in 0 .. 2
    BY <2>1, ConnAssumption DEF Sane
  <2> QED BY <1>1, <2>2
<1> QED BY <1>1, <1>3, <1>4, BeginOne

\* Nothing happens but that a reset may be sent.
Refuses ==
    /\ UNCHANGED <<tcb, listening, isns>>
    /\ \E S : /\ Sent(S) /\ S \subseteq Segment /\ IsFiniteSet(S)
              /\ \A m \in S : "RST" \in m.fl

LEMMA RefusesIs ==
    ASSUME NEW m \in Segment, UNCHANGED <<tcb, listening, isns>>, Send(Rst(m)) \/ UNCHANGED net
    PROVE  Refuses
<1>1. \A g \in Rst(m) : "RST" \in g.fl
  BY DEF Rst, Seg
<1>2. Rst(m) \subseteq Segment /\ IsFiniteSet(Rst(m))
  BY RstTyped, RstFinite
<1>3. Sent(Rst(m))
  BY SentIs DEF Sent
<1> QED BY <1>1, <1>2, <1>3 DEF Refuses

LEMMA RefusesMoves ==
    ASSUME Sane, Refuses
    PROVE  Sane' /\ AllAlong
<1>1. net' \subseteq Segment /\ IsFiniteSet(net') /\ Cardinality(net') <= MaxNet
  BY SentTyped DEF Refuses
<1> QED BY <1>1, SameAlong DEF Refuses, Sane, Unborn, AllAlong

\* The tcb that a SYN to the listening socket forks off
LEMMA ListenIs ==
    ASSUME Sane, NEW m \in net, tcbs_listen(m)
    PROVE  Refuses \/ \E i \in Ids : Begins(i)
<1>0. m \in Segment
  BY DEF Sane
<1>1. CASE Drop
  BY <1>0, <1>1, RefusesIs DEF Drop, vars
<1>2. CASE Send(Rst(m)) /\ UNCHANGED <<tcb, listening, isns>>
  BY <1>0, <1>2, RefusesIs
<1>3. ASSUME isns["B"] < MaxOpens["B"], Lookup(m.to) = {"listener"}, m.fl = {"SYN"},
             NEW i, NEW n, NEW t, NEW u,
             i = (IF isns["B"] = 0 THEN "b1" ELSE "b2"), n = tcp_isn("B"),
             t = [Free EXCEPT !.state = "SYNRCVD", !.sock = TRUE, !.queued = TRUE,
                              !.passive = TRUE, !.isn = n, !.una = n, !.write = n + 1,
                              !.risn = m.seq, !.nxt = m.seq],
             u = RcvData(t, m), Set(i, u), Send({SendQueueHead(i, u)}),
             isns' = [isns EXCEPT !["B"] = @ + 1], UNCHANGED listening
      PROVE  i \in Ids /\ Begins(i)
  <2>1. isns["B"] \in {0, 1} /\ MaxOpens["B"] <= 2
    BY <1>3, ConnAssumption DEF Sane, Hosts
  <2>2. /\ i \in Ids /\ i # "a" /\ Host(i) = "B" /\ tcb[i] = Free
        /\ i = "b1" => isns["B"] = 0
        /\ i = "b2" => isns["B"] = 1
    BY <1>3, <2>1 DEF Ids, Host, Sane, Unborn
  <2>3. n \in Nat
    BY <1>3, <2>1, ConnAssumption DEF tcp_isn
  <2>4. /\ t \in Block /\ t.state = "SYNRCVD" /\ t.sock = TRUE /\ t.queued = TRUE /\ t.passive = TRUE
        /\ t.isn = n /\ t.una = n /\ t.write = n + 1 /\ t.asleep = FALSE /\ t.deltimer = FALSE
        /\ t.risn = m.seq /\ t.nxt = m.seq /\ t.got = {} /\ t.seq_fin = 0 /\ t.fin = FALSE
    <3>1. m.seq \in Nat /\ Free \in Block /\ "SYNRCVD" \in States
      BY <1>0, FreeGood DEF Segment, Good, States
    <3>2. t = [Free EXCEPT !.state = "SYNRCVD", !.sock = TRUE, !.queued = TRUE,
                           !.passive = TRUE, !.isn = n, !.una = n, !.write = n + 1,
                           !.risn = m.seq, !.nxt = m.seq]
      BY <1>3
    <3> DEFINE v == [Free EXCEPT !.state = "SYNRCVD", !.sock = TRUE, !.queued = TRUE,
                                 !.passive = TRUE]
               k == n + 1
               w == [v EXCEPT !.isn = n, !.una = n, !.write = k]
    <3>3. v \in Block
      BY <3>1 DEF Block
    <3>4. t = [w EXCEPT !.risn = m.seq, !.nxt = m.seq]
      BY <3>2, Zenon
    <3>5. k \in Nat
      BY <2>3
    <3> HIDE DEF v, k
    <3>6. w \in Block
      BY <2>3, <3>3, <3>5 DEF Block
    <3> HIDE DEF w
    <3>7. t \in Block
      BY <3>1, <3>4, <3>6 DEF Block
    <3>8. /\ t.state = "SYNRCVD" /\ t.sock = TRUE /\ t.queued = TRUE /\ t.passive = TRUE
          /\ t.isn = n /\ t.una = n /\ t.write = n + 1
          /\ t.asleep = Free.asleep /\ t.deltimer = Free.deltimer
          /\ t.risn = m.seq /\ t.nxt = m.seq
          /\ t.got = Free.got /\ t.seq_fin = Free.seq_fin /\ t.fin = Free.fin
      BY <3>1, <3>2 DEF Block
    <3> QED BY <3>7, <3>8 DEF Free
  <2>5. u = RcvData(t, m)
    BY <1>3
  <2>6. /\ u \in Block /\ KeepsSocket(t, u) /\ KeepsSend(t, u) /\ u.una = t.una
        /\ u.asleep => t.asleep
        /\ Takes(t, m, u)
    BY <1>0, <2>4, <2>5, RcvDataIs
  <2>7. Good(u) /\ u.state = "SYNRCVD" /\ u.isn = n /\ u.una = n /\ u.write = n + 1 /\ ~u.fin
    BY <2>3, <2>4, <2>6 DEF Good, KeepsSocket, KeepsSend
  <2>8. listening = "yes" /\ m.to = "B"
    BY <1>3 DEF Lookup, Listens, Live, Dead, Ids
  <2>9. Sent({SendQueueHead(i, u)})
    BY <1>3, SentIs
  <2>10. /\ tcb' = [tcb EXCEPT ![i] = u] /\ isns' = [isns EXCEPT !["B"] = @ + 1]
         /\ UNCHANGED listening
    BY <1>3 DEF Set
  <2>11. \E g \in net, b \in Block :
             /\ g.to = "B" /\ g.fl = {"SYN"}
             /\ b.risn = g.seq /\ b.nxt = g.seq /\ b.got = {} /\ b.seq_fin = 0
             /\ Takes(b, g, u)
    BY <1>3, <2>4, <2>6, <2>8
  <2>12. isns[Host(i)] < MaxOpens[Host(i)] /\ n = tcp_isn(Host(i))
    BY <1>3, <2>2
  <2>13. isns' = [isns EXCEPT ![Host(i)] = @ + 1]
    BY <2>2, <2>10
  <2> QED BY <2>2, <2>6, <2>7, <2>8, <2>9, <2>10, <2>11, <2>12, <2>13 DEF Begins
<1> QED BY <1>1, <1>2, <1>3 DEF tcbs_listen

\* What a segment does: it is refused, begins a connection, or is handled.
LEMMA InputIs ==
    ASSUME Sane, NEW m \in net, tcp_input(m)
    PROVE  \/ Refuses
           \/ \E i \in Ids : Begins(i)
           \/ \E i \in Ids : /\ Allocated(i) /\ tcb[i].state # "CLOSED" /\ Host(i) = m.to
                             /\ \/ Result(i, m)
                                \/ tcb[i].state # "SYNSENT" /\ Result(i, Strip(tcb[i], m))
<1>1. m \in Segment
  BY DEF Sane
<1>2. CASE tcbs_closed(m)
  BY <1>1, <1>2, RefusesIs DEF tcbs_closed
<1>3. CASE tcbs_listen(m)
  BY <1>3, ListenIs
<1>4. ASSUME NEW i \in Lookup(m.to) \cap Ids,
             \/ tcb[i].state = "SYNSENT" /\ tcbs_synsent(i, m)
             \/ /\ tcb[i].state \in Synchronized \cup {"SYNRCVD"}
                /\ NotAcceptable(i, m) \/ (Valid(tcb[i], m) /\ Handle(i, Strip(tcb[i], m)))
      PROVE  /\ i \in Ids /\ Allocated(i) /\ tcb[i].state # "CLOSED" /\ Host(i) = m.to
             /\ \/ Result(i, m)
                \/ tcb[i].state # "SYNSENT" /\ Result(i, Strip(tcb[i], m))
  <2>1. /\ i \in Ids /\ Good(tcb[i]) /\ tcb \in [Ids -> Block]
        /\ Allocated(i) /\ tcb[i].state # "CLOSED"
    BY <1>4 DEF Sane, Allocated, Synchronized
  <2>2. Host(i) = m.to
    BY <1>4 DEF Lookup, Live, Dead, Listens, Ids
  <2>3. CASE tcb[i].state = "SYNSENT" /\ tcbs_synsent(i, m)
    BY <1>1, <2>1, <2>2, <2>3, SynsentIs
  <2>4. CASE NotAcceptable(i, m)
    BY <1>1, <2>1, <2>2, <2>4, NotAcceptableIs
  <2>5. CASE Handle(i, Strip(tcb[i], m))
    <3>1. tcb[i] \in Block
      BY <2>1
    <3>2. Strip(tcb[i], m) \in Segment
      BY <1>1, <3>1, StripIs
    <3> QED BY <2>1, <2>2, <2>5, <3>2, HandleIs DEF Handle
  <2> QED BY <1>4, <2>3, <2>4, <2>5
<1> QED BY <1>2, <1>3, <1>4 DEF tcp_input

LEMMA InputMoves ==
    ASSUME Sane, NEW m \in net, tcp_input(m)
    PROVE  Sane' /\ AllAlong
<1>1. m \in Segment
  BY DEF Sane
<1>2. \A i \in Ids : Strip(tcb[i], m) \in Segment
  BY <1>1, StripIs DEF Sane
<1> QED BY <1>1, <1>2, InputIs, RefusesMoves, BeginsMoves, ResultMoves

(***************************************************************************)
(* Timers, calls and the network                                           *)
(***************************************************************************)
\* What a process or a timer does with a connection: it ends, or it says again
\* what is not acknowledged, writes an octet, or writes its FIN.
OctetSeg(i, t) == Seg(Host(i), t.write, {"ACK"}, t.nxt, 1)
FinState(t) == IF t.state = "CLOSEWAIT" THEN "LASTACK" ELSE "FINWAIT1"

Repeats(i, t, u, S) ==
    /\ KeepsSend(t, u) /\ u.state = t.state
    /\ S = {} \/ (S = {SendQueueHead(i, t)} /\ t.una < t.write)

Writes(i, t, u, S) ==
    /\ t.state \in {"ESTABLISHED", "CLOSEWAIT"} /\ u.state = t.state
    /\ u.write = t.write + 1 /\ u.fin = t.fin /\ S = {OctetSeg(i, t)}

Finishes(i, t, u, S) ==
    /\ CanFin(t) /\ u.state = FinState(t)
    /\ u.write = t.write + 1 /\ u.fin /\ S = {FinSeg(i, t)}

Carries(i, t, u, S) ==
    \/ Ended(t, u) /\ S = {}
    \/ /\ u.isn = t.isn /\ u.una = t.una /\ KeepsReceive(t, u)
       /\ Repeats(i, t, u, S) \/ Writes(i, t, u, S) \/ Finishes(i, t, u, S)

Called(i) ==
    \E u, S : /\ tcb' = [tcb EXCEPT ![i] = u] /\ Sent(S) /\ UNCHANGED <<listening, isns>>
             /\ Good(u) /\ Moves(tcb[i], u) /\ Carries(i, tcb[i], u, S)

LEMMA CalledIs ==
    ASSUME NEW i, NEW u, NEW S, Do(i, u, S), Good(u), Moves(tcb[i], u), Carries(i, tcb[i], u, S)
    PROVE  Called(i)
BY SentIs DEF Do, Set, Called

\* What is sent are segments, one at most.
LEMMA CarriesTyped ==
    ASSUME NEW i \in Ids, NEW t, Good(t), NEW u, NEW S, Carries(i, t, u, S)
    PROVE  S \subseteq Segment /\ IsFiniteSet(S)
<1>1. t \in Block
  BY DEF Good
<1>2. OctetSeg(i, t) \in Segment
  BY <1>1 DEF OctetSeg, Seg, Segment, Block, Host, Peer, Hosts, Flags
<1>3. S = {} \/ \E g \in Segment : S = {g}
  BY <1>1, <1>2, AckSegTyped, HeadTyped DEF Carries, Repeats, Writes, Finishes
<1> QED BY <1>3, FS_EmptySet, FS_Singleton

LEMMA CalledMoves ==
    ASSUME Sane, NEW i \in Ids, Allocated(i), Called(i)
    PROVE  Sane' /\ AllAlong
BY CarriesTyped, MoveOne DEF Called, Sane

LEMMA EndIs ==
    ASSUME Sane, NEW i \in Ids, Do(i, Deleted(Reset(tcb[i])), {})
    PROVE  Called(i)
<1> DEFINE u == Deleted(Reset(tcb[i]))
<1>1. Good(u) /\ Moves(tcb[i], u) /\ Ended(tcb[i], u)
  BY AbortIs DEF Sane
<1>2. Do(i, u, {})
  OBVIOUS
<1> HIDE DEF u
<1> QED BY <1>1, <1>2, CalledIs DEF Carries

LEMMA RetransmitIs ==
    ASSUME Sane, NEW i \in Ids, Retransmit(i)
    PROVE  Allocated(i) /\ Called(i)
<1> DEFINE t == tcb[i]
           n == t.nretrans + 1
           u == [t EXCEPT !.nretrans = n]
<1>1. Allocated(i) /\ t.una < t.write /\ Good(t) /\ t \in Block
  BY DEF Retransmit, Unacked, Sane, Good
<1>2. CASE t.nretrans + 1 > MaxRetry
  BY <1>1, <1>2, EndIs DEF Retransmit
<1>3. CASE ~(t.nretrans + 1 > MaxRetry)
  <2>1. Do(i, u, {SendQueueHead(i, t)})
    BY <1>3 DEF Retransmit
  <2>2. n \in Nat
    BY <1>1 DEF Block
  <2> HIDE DEF n
  <2>3. /\ u \in Block /\ u.state = t.state /\ u.sock = t.sock /\ u.queued = t.queued
        /\ u.passive = t.passive /\ u.una = t.una /\ u.write = t.write /\ u.nxt = t.nxt
        /\ u.deltimer = t.deltimer /\ u.asleep = t.asleep
        /\ KeepsSend(t, u) /\ KeepsReceive(t, u)
    BY <1>1, <2>2 DEF Block, KeepsSend, KeepsReceive
  <2> HIDE DEF u
  <2>4. Good(u) /\ Moves(t, u)
    <3>1. t.nxt \in Nat /\ t.state # "FREE"
      BY <1>1 DEF Block, Allocated
    <3> QED BY <1>1, <2>3, <3>1 DEF Good, Moves
  <2>5. Carries(i, t, u, {SendQueueHead(i, t)})
    BY <1>1, <2>3 DEF Carries, Repeats, KeepsSend
  <2> QED BY <1>1, <2>1, <2>4, <2>5, CalledIs
<1> QED BY <1>2, <1>3

LEMMA DeletemeIs ==
    ASSUME Sane, NEW i \in Ids, deleteme(i)
    PROVE  Allocated(i) /\ Called(i)
<1> DEFINE t == tcb[i]
           u == [t EXCEPT !.deltimer = FALSE]
           v == Deleted(u)
<1>1. Allocated(i) /\ t.deltimer /\ Good(t) /\ t \in Block
  BY DEF deleteme, Sane, Good
<1>2. Do(i, v, {})
  BY DEF deleteme
<1>3. /\ u \in Block /\ u.state = t.state /\ u.sock = t.sock /\ u.queued = t.queued
      /\ u.passive = t.passive /\ u.una = t.una /\ u.write = t.write /\ u.nxt = t.nxt
      /\ u.deltimer = FALSE /\ u.asleep = t.asleep
      /\ KeepsSend(t, u) /\ KeepsReceive(t, u)
  BY <1>1 DEF Block, KeepsSend, KeepsReceive
<1> HIDE DEF u
<1>4. Good(u) /\ u.state # "ESTABLISHED"
  BY <1>1, <1>3 DEF Good, Allocated
<1>5. Good(v) /\ Moves(u, v) /\ Ended(u, v)
  BY <1>4, AbortIs
<1> HIDE DEF v
<1>6. Moves(t, v) /\ Ended(t, v)
  BY <1>3, <1>5 DEF Moves, Ended, KeepsSend, KeepsReceive
<1> QED BY <1>1, <1>2, <1>5, <1>6, CalledIs DEF Carries

LEMMA ErrorIs ==
    ASSUME Sane, NEW i \in Ids, tcp_error(i)
    PROVE  Allocated(i) /\ Called(i)
BY EndIs DEF tcp_error

LEMMA ConnectIs ==
    ASSUME Sane, NEW i \in Ids, tcp_connect(i)
    PROVE  Begins(i)
<1> DEFINE n == tcp_isn(Host(i))
           k == n + 1
           v == [Free EXCEPT !.state = "SYNSENT", !.sock = TRUE]
           u == [v EXCEPT !.isn = n, !.una = n, !.write = k]
<1>1. Host(i) \in Hosts /\ isns[Host(i)] \in 0 .. 2
  BY DEF Sane, Host, Hosts
<1>2. n \in Nat /\ k \in Nat /\ k = n + 1 /\ n = tcp_isn(Host(i))
  BY <1>1, ConnAssumption DEF tcp_isn
<1>3. /\ tcb' = [tcb EXCEPT ![i] = u] /\ Sent({SendQueueHead(i, u)})
      /\ isns' = [isns EXCEPT ![Host(i)] = @ + 1] /\ UNCHANGED listening
  <2>1. u = [Free EXCEPT !.state = "SYNSENT", !.sock = TRUE, !.isn = n, !.una = n, !.write = n + 1]
    BY Zenon
  <2> HIDE DEF u
  <2> QED BY <2>1, SentIs, Zenon DEF tcp_connect, Set
<1> HIDE DEF n, k
<1>4. /\ v \in Block /\ v.state = "SYNSENT" /\ v.queued = FALSE /\ v.asleep = FALSE
      /\ v.deltimer = FALSE /\ v.fin = FALSE
      /\ v.risn = 0 /\ v.nxt = 0 /\ v.got = {} /\ v.seq_fin = 0
  <2>1. Free \in Block
    BY FreeGood DEF Good
  <2>2. /\ v \in Block /\ v.state = "SYNSENT" /\ v.queued = Free.queued
        /\ v.asleep = Free.asleep /\ v.deltimer = Free.deltimer /\ v.fin = Free.fin
        /\ v.risn = Free.risn /\ v.nxt = Free.nxt /\ v.got = Free.got /\ v.seq_fin = Free.seq_fin
    BY <2>1 DEF Block, States
  <2> QED BY <2>2 DEF Free
<1> HIDE DEF v
<1>5. /\ u \in Block /\ u.state = v.state /\ u.queued = v.queued /\ u.asleep = v.asleep
      /\ u.deltimer = v.deltimer /\ u.isn = n /\ u.una = n /\ u.write = k
      /\ u.fin = v.fin /\ KeepsReceive(v, u)
  BY <1>2, <1>4 DEF Block, KeepsReceive
<1> HIDE DEF u
<1>6. /\ Good(u) /\ u.state = "SYNSENT" /\ ~u.queued /\ ~u.fin
      /\ u.risn = 0 /\ u.nxt = 0 /\ u.got = {} /\ u.seq_fin = 0
  BY <1>2, <1>4, <1>5 DEF Good, KeepsReceive
<1>7. /\ tcb[i] = Free /\ isns[Host(i)] < MaxOpens[Host(i)]
      /\ i = "b1" => isns["B"] = 0
      /\ i # "b2"
  BY DEF tcp_connect
<1> QED BY <1>2, <1>3, <1>5, <1>6, <1>7 DEF Begins

LEMMA AcceptIs ==
    ASSUME Sane, NEW i \in Ids, tcp_accept(i)
    PROVE  Allocated(i) /\ Called(i)
<1> DEFINE t == tcb[i]
           u == [t EXCEPT !.queued = FALSE]
<1>1. Allocated(i) /\ Good(t) /\ t \in Block /\ Do(i, u, {})
  BY DEF tcp_accept, Sane, Good
<1>2. /\ u \in Block /\ u.state = t.state /\ u.sock = t.sock /\ u.queued = FALSE
      /\ u.una = t.una /\ u.write = t.write /\ u.nxt = t.nxt
      /\ u.deltimer = t.deltimer /\ u.asleep = t.asleep
      /\ KeepsSend(t, u) /\ KeepsReceive(t, u)
  BY <1>1 DEF Block, KeepsSend, KeepsReceive
<1> HIDE DEF u
<1>3. Good(u) /\ Moves(t, u)
  <2>1. t.nxt \in Nat /\ t.state # "FREE"
    BY <1>1 DEF Block, Allocated
  <2> QED BY <1>1, <1>2, <2>1 DEF Good, Moves
<1>4. Carries(i, t, u, {})
  BY <1>2 DEF Carries, Repeats, KeepsSend
<1> QED BY <1>1, <1>3, <1>4, CalledIs

LEMMA RecvIs ==
    ASSUME Sane, NEW i \in Ids, tcp_recv(i)
    PROVE  Allocated(i) /\ Called(i)
<1> DEFINE t == tcb[i]
           u == [t EXCEPT !.asleep = TRUE]
<1>1. /\ Allocated(i) /\ t.state = "ESTABLISHED" /\ ~t.queued /\ Good(t) /\ t \in Block
      /\ Do(i, u, {})
  BY DEF tcp_recv, Owned, Sane, Good
<1>2. /\ u \in Block /\ u.state = t.state /\ u.sock = t.sock /\ u.queued = t.queued
      /\ u.passive = t.passive /\ u.una = t.una /\ u.write = t.write /\ u.nxt = t.nxt
      /\ u.deltimer = t.deltimer
      /\ KeepsSend(t, u) /\ KeepsReceive(t, u)
  BY <1>1 DEF Block, KeepsSend, KeepsReceive
<1> HIDE DEF u
<1>3. Good(u) /\ Moves(t, u)
  <2>1. t.nxt \in Nat
    BY <1>1 DEF Block
  <2> QED BY <1>1, <1>2, <2>1 DEF Good, Moves
<1>4. Carries(i, t, u, {})
  BY <1>2 DEF Carries, Repeats, KeepsSend
<1> QED BY <1>1, <1>3, <1>4, CalledIs

LEMMA WriteIs ==
    ASSUME Sane, NEW i \in Ids, tcp_send(i)
    PROVE  Allocated(i) /\ Called(i)
<1> DEFINE t == tcb[i]
           k == t.write + 1
           u == [t EXCEPT !.write = k]
<1>1. /\ Allocated(i) /\ Good(t) /\ t \in Block /\ Do(i, u, {OctetSeg(i, t)})
      /\ t.state \in {"ESTABLISHED", "CLOSEWAIT"}
  BY DEF tcp_send, Owned, Sane, Good, OctetSeg
<1>2. k \in Nat /\ k = t.write + 1
  BY <1>1 DEF Block
<1> HIDE DEF k
<1>4. /\ u \in Block /\ u.state = t.state /\ u.sock = t.sock /\ u.queued = t.queued
      /\ u.passive = t.passive /\ u.una = t.una /\ u.write = k /\ u.nxt = t.nxt
      /\ u.deltimer = t.deltimer /\ u.asleep = t.asleep
      /\ u.isn = t.isn /\ u.fin = t.fin /\ KeepsReceive(t, u)
  BY <1>1, <1>2 DEF Block, KeepsReceive
<1> HIDE DEF u
<1>5. Good(u) /\ Moves(t, u)
  <2>1. t.nxt \in Nat /\ t.una \in Nat /\ t.write \in Nat /\ t.state # "FREE"
    BY <1>1 DEF Block, Allocated
  <2> QED BY <1>1, <1>2, <1>4, <2>1 DEF Good, Moves
<1>6. Carries(i, t, u, {OctetSeg(i, t)})
  BY <1>1, <1>2, <1>4 DEF Carries, Writes
<1> QED BY <1>1, <1>5, <1>6, CalledIs

\* The FIN goes behind what was written.
LEMMA SendFinIs ==
    ASSUME NEW t, Good(t)
    PROVE  LET u == SendFin(t)
           IN  /\ u \in Block /\ u.fin = TRUE /\ u.write = t.write + 1 /\ t.una <= u.write
               /\ u.state = t.state /\ u.sock = t.sock /\ u.queued = t.queued
               /\ u.passive = t.passive /\ u.dead = t.dead /\ u.una = t.una /\ u.isn = t.isn
               /\ KeepsReceive(t, u) /\ u.deltimer = t.deltimer /\ u.asleep = t.asleep
<1> DEFINE k == t.write + 1
           u == [t EXCEPT !.fin = TRUE, !.write = k]
<1>1. t \in Block /\ k \in Nat /\ k = t.write + 1 /\ t.una <= k
  BY DEF Good, Block
<1>2. SendFin(t) = u
  BY DEF SendFin
<1> HIDE DEF k
<1>3. /\ u \in Block /\ u.fin = TRUE /\ u.write = k
      /\ u.state = t.state /\ u.sock = t.sock /\ u.queued = t.queued
      /\ u.passive = t.passive /\ u.dead = t.dead /\ u.una = t.una /\ u.isn = t.isn
      /\ KeepsReceive(t, u) /\ u.deltimer = t.deltimer /\ u.asleep = t.asleep
  BY <1>1 DEF Block, KeepsReceive
<1> HIDE DEF u
<1> QED BY <1>1, <1>2, <1>3

LEMMA ShutdownIs ==
    ASSUME Sane, NEW i \in Ids, tcp_shutdown(i)
    PROVE  Allocated(i) /\ Called(i)
<1> DEFINE t == tcb[i]
           st == FinState(t)
           f == SendFin(t)
           u == InState(f, st)
<1>1. Allocated(i) /\ Good(t) /\ t \in Block /\ CanFin(t) /\ ~t.asleep
  BY DEF tcp_shutdown, Owned, Sane, Good
<1>2. /\ f \in Block /\ f.fin /\ f.isn = t.isn /\ f.write = t.write + 1 /\ t.una <= f.write
      /\ f.state = t.state /\ f.sock = t.sock /\ f.queued = t.queued
      /\ f.passive = t.passive /\ f.una = t.una
      /\ KeepsReceive(t, f) /\ f.deltimer = t.deltimer /\ f.asleep = t.asleep
  BY <1>1, SendFinIs
<1>3. Do(i, u, {FinSeg(i, t)})
  <2>1. f.state = t.state
    BY <1>2
  <2> QED BY <2>1 DEF tcp_shutdown, InState, FinState
<1>4. st \in States /\ <<t.state, st>> \in Edges /\ st \notin {"FREE", "CLOSED"}
  BY <1>1 DEF CanFin, FinState, Edges, States, Synchronized
<1> HIDE DEF f, st
<1>5. Plain(f, u) /\ u.state = st /\ u.asleep = f.asleep /\ u.deltimer = f.deltimer
  BY <1>2, <1>4, InStateIs
<1> HIDE DEF u
<1>6. Good(u) /\ Moves(t, u)
  <2>1. t.nxt \in Nat /\ u.nxt = t.nxt
    BY <1>1, <1>2, <1>5 DEF Block, Plain, KeepsReceive
  <2>2. u \in Block /\ u.una <= u.write /\ u.sock = t.sock /\ u.queued = t.queued /\ u.passive = t.passive
    BY <1>2, <1>5 DEF Plain, KeepsSend
  <2>3. ~u.deltimer
    BY <1>1, <1>2, <1>5 DEF Good, CanFin
  <2> QED BY <1>1, <1>2, <1>4, <1>5, <2>1, <2>2, <2>3 DEF Good, Moves
<1>7. Carries(i, t, u, {FinSeg(i, t)})
  <2>1. u.isn = t.isn /\ u.una = t.una /\ KeepsReceive(t, u)
    BY <1>2, <1>5 DEF Plain, KeepsSend, KeepsReceive
  <2>2. u.state = FinState(t) /\ u.write = t.write + 1 /\ u.fin
    BY <1>2, <1>5 DEF Plain, KeepsSend, st
  <2> QED BY <1>1, <2>1, <2>2 DEF Carries, Finishes
<1> QED BY <1>1, <1>3, <1>6, <1>7, CalledIs

\* What tcp_detach leaves of a control block has no socket and is on no queue.
LEMMA DetachedIs ==
    ASSUME NEW i \in Ids, NEW t, Good(t), t.state # "FREE", ~t.asleep
    PROVE  LET u == Detached(t)
           IN  /\ Good(u) /\ Moves(t, u) /\ ~u.queued
               /\ Carries(i, t, u, IF CanFin(t) THEN {FinSeg(i, t)} ELSE {})
<1> DEFINE w(v, st) == [v EXCEPT !.state = st, !.sock = FALSE, !.queued = FALSE]
<1>1. t \in Block
  BY DEF Good
<1>2. ASSUME NEW v \in Block, NEW st \in States
      PROVE  /\ w(v, st) \in Block /\ w(v, st).state = st /\ w(v, st).sock = FALSE
             /\ w(v, st).queued = FALSE /\ w(v, st).una = v.una
             /\ w(v, st).asleep = v.asleep /\ w(v, st).deltimer = v.deltimer
             /\ KeepsSend(v, w(v, st)) /\ KeepsReceive(v, w(v, st))
  BY <1>2 DEF Block, KeepsSend, KeepsReceive
<1>3. CASE CanFin(t)
  <2> DEFINE f == SendFin(t)
             st == FinState(t)
             u == w(f, st)
  <2>1. /\ f \in Block /\ f.fin /\ f.isn = t.isn /\ f.write = t.write + 1 /\ t.una <= f.write
        /\ f.una = t.una /\ KeepsReceive(t, f) /\ f.deltimer = t.deltimer /\ f.asleep = t.asleep
    BY SendFinIs
  <2>2. st \in States /\ <<t.state, st>> \in Edges /\ st \notin {"FREE", "CLOSED"}
    BY <1>3 DEF CanFin, FinState, Edges, States, Synchronized
  <2>3. Detached(t) = u
    BY <1>3 DEF Detached, FinState, CanFin
  <2> HIDE DEF f, st
  <2>4. /\ u \in Block /\ u.state = st /\ u.sock = FALSE
        /\ u.queued = FALSE /\ u.una = f.una
        /\ u.asleep = f.asleep /\ u.deltimer = f.deltimer
        /\ KeepsSend(f, u) /\ KeepsReceive(f, u)
    BY <1>2, <2>1, <2>2
  <2> HIDE DEF u, w
  <2>5. /\ t.nxt \in Nat /\ u.nxt = t.nxt /\ ~t.deltimer
        /\ u.write = f.write /\ u.isn = t.isn /\ u.fin /\ KeepsReceive(t, u)
    BY <1>1, <1>3, <2>1, <2>4 DEF Block, KeepsSend, KeepsReceive, Good, CanFin
  <2>6. Good(u) /\ Moves(t, u) /\ ~u.queued
    BY <2>1, <2>2, <2>4, <2>5 DEF Good, Moves
  <2>7. Carries(i, t, u, {FinSeg(i, t)})
    BY <1>3, <2>1, <2>4, <2>5 DEF Carries, Finishes, st
  <2> QED BY <1>3, <2>3, <2>6, <2>7
<1>4. CASE t.state \in {"CLOSED", "SYNSENT"}
  <2>1. Detached(t) = Free /\ ~CanFin(t)
    BY <1>4 DEF Detached, CanFin
  <2>2. Good(Free) /\ Moves(t, Free) /\ ~Free.queued /\ Carries(i, t, Free, {})
    BY FreeGood DEF Moves, Free, Carries, Ended
  <2> QED BY <2>1, <2>2
<1>5. CASE ~CanFin(t) /\ t.state \notin {"CLOSED", "SYNSENT"}
  <2> DEFINE u == [t EXCEPT !.sock = FALSE, !.queued = FALSE]
  <2>1. Detached(t) = u
    BY <1>5 DEF Detached, CanFin
  <2>2. /\ u \in Block /\ u.state = t.state /\ u.sock = FALSE
        /\ u.queued = FALSE /\ u.una = t.una /\ u.write = t.write
        /\ u.nxt = t.nxt /\ u.asleep = t.asleep /\ u.deltimer = t.deltimer
        /\ KeepsSend(t, u) /\ KeepsReceive(t, u)
    BY <1>1 DEF Block, KeepsSend, KeepsReceive
  <2> HIDE DEF u
  <2>3. t.nxt \in Nat
    BY <1>1 DEF Block
  <2>4. Good(u) /\ Moves(t, u) /\ ~u.queued
    BY <2>2, <2>3 DEF Good, Moves
  <2>5. Carries(i, t, u, {})
    BY <2>2 DEF Carries, Repeats, KeepsSend
  <2> QED BY <1>5, <2>1, <2>4, <2>5
<1> QED BY <1>3, <1>4, <1>5

LEMMA DetachIs ==
    ASSUME Sane, NEW i \in Ids, tcp_detach(i)
    PROVE  Allocated(i) /\ Called(i)
<1> DEFINE t == tcb[i]
           u == Detached(t)
           S == IF CanFin(t) THEN {FinSeg(i, t)} ELSE {}
<1>1. Allocated(i) /\ Good(t) /\ t \in Block /\ t.state # "FREE" /\ ~t.asleep /\ Do(i, u, S)
  BY DEF tcp_detach, Owned, Sane, Good, Allocated
<1>2. Good(u) /\ Moves(t, u) /\ Carries(i, t, u, S)
  BY <1>1, DetachedIs
<1> HIDE DEF u, S
<1> QED BY <1>1, <1>2, CalledIs

LEMMA CloseMoves ==
    ASSUME Sane, CloseListener
    PROVE  Sane' /\ AllAlong
<1> DEFINE J == {i \in Ids : Allocated(i) /\ tcb[i].queued /\ CanFin(tcb[i])}
           S == {FinSeg(i, tcb[i]) : i \in J}
<1>1. /\ tcb' \in [Ids -> Block] /\ AllAlong
      /\ \A i \in Ids : Good(tcb'[i]) /\ ~tcb'[i].queued /\ (tcb[i] = Free => tcb'[i] = Free)
  <2>1. ASSUME NEW i \in Ids
        PROVE  /\ Good(tcb'[i]) /\ ~tcb'[i].queued /\ (tcb[i] = Free => tcb'[i] = Free)
               /\ Along(tcb[i], tcb'[i])
    <3>1. Good(tcb[i])
      BY DEF Sane
    <3>2. CASE Allocated(i) /\ tcb[i].queued
      <4>1. ~tcb[i].asleep
        BY <3>1, <3>2 DEF Good
      <4>2. tcb'[i] = Detached(tcb[i]) /\ tcb[i].state # "FREE" /\ tcb[i] # Free
        BY <3>2 DEF CloseListener, Allocated, Free
      <4> QED BY <3>1, <4>1, <4>2, DetachedIs DEF Along, Moves
    <3>3. CASE ~(Allocated(i) /\ tcb[i].queued)
      <4>1. tcb'[i] = tcb[i]
        BY <3>3 DEF CloseListener
      <4>2. ~tcb[i].queued
        BY <3>1, <3>3 DEF Allocated, Good, Free
      <4> QED BY <3>1, <4>1, <4>2, SameAlong
    <3> QED BY <3>2, <3>3
  <2>2. tcb' \in [Ids -> Block]
    BY <2>1 DEF CloseListener, Good
  <2> QED BY <2>1, <2>2 DEF AllAlong
<1>2. S \subseteq Segment
  BY AckSegTyped DEF Sane
<1>3. IsFiniteSet(S)
  <2>1. IsFiniteSet(J)
    <3>1. IsFiniteSet({"a"} \cup {"b1"}) /\ IsFiniteSet({"b2"})
      BY FS_Singleton, FS_Union
    <3>2. IsFiniteSet(({"a"} \cup {"b1"}) \cup {"b2"})
      BY <3>1, FS_Union
    <3>3. J \in SUBSET (({"a"} \cup {"b1"}) \cup {"b2"})
      BY DEF Ids
    <3> QED BY <3>2, <3>3, FS_Subset
  <2> HIDE DEF J
  <2> DEFINE f == [i \in J |-> FinSeg(i, tcb[i])]
  <2>2. f \in [J -> S]
    OBVIOUS
  <2>3. \A g \in S : \E i \in J : f[i] = g
    OBVIOUS
  <2> HIDE DEF f, S
  <2> QED BY <2>1, <2>2, <2>3, FS_Surjection DEF Surjection
<1>4. Sent(S)
  BY SentIs DEF CloseListener
<1>5. net' \subseteq Segment /\ IsFiniteSet(net') /\ Cardinality(net') <= MaxNet
  BY <1>2, <1>3, <1>4, SentTyped
<1>6. listening' = "closed" /\ isns' = isns
  BY DEF CloseListener
<1>7. Unborn'
  BY <1>1, <1>6 DEF Sane, Unborn, Ids
<1> QED BY <1>1, <1>5, <1>6, <1>7 DEF Sane

LEMMA LoseMoves ==
    ASSUME Sane, Lose
    PROVE  Sane' /\ AllAlong
<1>1. PICK m \in net : net' = net \ {m} /\ UNCHANGED <<tcb, listening, isns>>
  BY DEF Lose
<1>2. IsFiniteSet(net') /\ Cardinality(net') <= Cardinality(net) /\ Cardinality(net) \in Nat
      /\ Cardinality(net') \in Nat
  BY <1>1, FS_Subset, FS_CardinalityType DEF Sane
<1>3. net' \subseteq Segment /\ Cardinality(net') <= MaxNet
  BY <1>1, <1>2, ConnAssumption DEF Sane
<1> QED BY <1>1, <1>2, <1>3, SameAlong DEF Sane, Unborn, AllAlong

LEMMA InitSane == Init => Sane
<1> SUFFICES ASSUME Init PROVE Sane
  OBVIOUS
<1>1. \A i \in Ids : tcb[i] = Free
  BY DEF Init
<1>2. tcb \in [Ids -> Block]
  BY FreeGood DEF Init, Good
<1>3. \A i \in Ids : Good(tcb[i]) /\ ~tcb[i].queued
  BY <1>1, FreeGood DEF Free
<1>4. net \subseteq Segment /\ IsFiniteSet(net) /\ Cardinality(net) <= MaxNet
  BY FS_EmptySet, ConnAssumption DEF Init
<1> QED BY <1>1, <1>2, <1>3, <1>4 DEF Init, Sane, Unborn, Ids

LEMMA StepMoves == Sane /\ [Next]_vars => Sane' /\ AllAlong
<1> SUFFICES ASSUME Sane, [Next]_vars PROVE Sane' /\ AllAlong
  OBVIOUS
<1>1. ASSUME NEW m \in net, tcp_input(m) PROVE Sane' /\ AllAlong
  BY <1>1, InputMoves
<1>2. CASE Timers
  BY <1>2, RetransmitIs, DeletemeIs, CalledMoves DEF Timers
<1>3. ASSUME NEW i \in Ids, tcp_error(i) PROVE Sane' /\ AllAlong
  BY <1>3, ErrorIs, CalledMoves
<1>4. CASE Calls
  <2>1. ASSUME NEW i \in Ids,
               \/ tcp_connect(i) \/ tcp_accept(i) \/ tcp_detach(i)
               \/ tcp_shutdown(i) \/ tcp_send(i) \/ tcp_recv(i)
        PROVE  Sane' /\ AllAlong
    BY <2>1, ConnectIs, BeginsMoves, AcceptIs, DetachIs, ShutdownIs, WriteIs, RecvIs, CalledMoves
  <2>2. CASE tcp_listen
    BY <2>2, SameAlong DEF tcp_listen, Sane, Unborn, AllAlong
  <2> QED BY <1>4, <2>1, <2>2, CloseMoves DEF Calls
<1>5. CASE Lose
  BY <1>5, LoseMoves
<1>6. CASE UNCHANGED vars
  BY <1>6, SameAlong DEF vars, Sane, Unborn, AllAlong
<1> QED BY <1>1, <1>2, <1>3, <1>4, <1>5, <1>6 DEF Next

LEMMA AlwaysSane == Spec => []Sane
BY InitSane, StepMoves, PTL DEF Spec

\* Connections move along the edges of the state diagram only, a control block
\* never regains a socket, and rcv_nxt never moves back.
THEOREM DiagramTheorem == Spec => Diagram
<1> DEFINE Step1 == \A i \in Ids :
          LET s == tcb[i].state
              n == tcb'[i].state
          IN  /\ s = n \/ n \in {"CLOSED", "FREE"} \/ <<s, n>> \in Edges
              /\ s # "FREE" /\ n # "FREE" => /\ tcb'[i].sock => tcb[i].sock
                                             /\ s # "SYNSENT" => tcb[i].nxt <= tcb'[i].nxt
<1>1. AllAlong => Step1
  BY DEF AllAlong, Along
<1>2. Sane /\ [Next]_vars => [Step1]_vars
  BY <1>1, StepMoves
<1>3. Diagram <=> [][Step1]_vars
  BY DEF Diagram
<1> HIDE DEF Step1
<1> QED BY <1>2, <1>3, AlwaysSane, PTL DEF Spec

(***************************************************************************)
(* The two ends of a connection                                            *)
(***************************************************************************)
\* Where the FIN of m is
FinAt(m) == m.seq + Syn(m) + m.len

\* The states after the handshake has begun
Joined == Synchronized \cup {"SYNRCVD"}

\* What holds of one end on its own: everything up to rcv_nxt is there, and the
\* FIN is sent in the closing states only.
Solo(t) ==
    /\ t.state # "FREE" => t.isn = 1 /\ 1 <= t.una /\ 2 <= t.write
    /\ t.state = "SYNSENT" => t.una = 1 /\ t.nxt = 0 /\ t.got = {} /\ t.seq_fin = 0
    /\ t.fin => t.state \notin {"SYNSENT", "SYNRCVD", "ESTABLISHED", "CLOSEWAIT"}
    /\ t.state \in Joined => t.risn = 1 /\ 2 <= t.nxt
    /\ \A k \in Nat : t.risn < k /\ k < t.nxt => k \in t.got \/ k = t.seq_fin

\* The segments M on the way to r, and what r knows of the peer's FIN, do not
\* contradict each other, even if the peer is gone.
Plausible(M, r) ==
    /\ \A m \in M : /\ 1 <= m.seq
                    /\ "SYN" \in m.fl => m.seq = 1 /\ "FIN" \notin m.fl
    /\ \A m, n \in M : "FIN" \in m.fl /\ "FIN" \in n.fl => FinAt(m) = FinAt(n)
    /\ \A m \in M : "FIN" \in m.fl /\ r.seq_fin # 0 => FinAt(m) = r.seq_fin

\* What t may say: nothing it has not written and no acknowledgement of what it
\* has not received; its FIN is the last it has written.
Says(t, m) ==
    /\ 1 <= m.seq /\ m.seq + m.len + Syn(m) + Fin(m) <= t.write
    /\ "SYN" \in m.fl => m.seq = 1 /\ "FIN" \notin m.fl
    /\ "ACK" \in m.fl => m.ack <= t.nxt
    /\ "FIN" \in m.fl => t.fin /\ FinAt(m) = t.write - 1

\* What is on the way from t to r, and what r has taken in, t has said.
Linked(t, M, r) ==
    /\ \A m \in M : Says(t, m)
    /\ r.seq_fin # 0 => t.fin /\ r.seq_fin = t.write - 1
    /\ \A k \in r.got : k < t.write
    /\ r.state \in Joined => r.nxt <= t.write
    /\ r.state \notin {"FREE", "CLOSED"} => r.una = 1 \/ r.una <= t.nxt

\* Nobody has said anything to r.
Nothing(M, r) ==
    /\ M = {} /\ r.got = {} /\ r.seq_fin = 0
    /\ r.state \in {"FREE", "CLOSED", "SYNSENT"}

\* An end r that hears the segments M of s, which may be gone
Hears(s, M, r) ==
    /\ Solo(r) /\ Plausible(M, r)
    /\ s.state # "FREE" => Linked(s, M, r)

LEMMA FreeHears ==
    ASSUME NEW M, M \subseteq Segment, NEW s \in Block, NEW r \in Block, Hears(s, M, r)
    PROVE  Hears(s, M, Free)
<1>1. Solo(Free)
  BY DEF Solo, Free, Joined, Synchronized
<1>2. Free.seq_fin = 0 /\ Free.got = {} /\ Free.state = "FREE"
  BY DEF Free
<1>3. Plausible(M, Free)
  BY <1>2 DEF Hears, Plausible
<1>4. s.state # "FREE" => Linked(s, M, Free)
  BY <1>2 DEF Hears, Linked, Joined, Synchronized
<1> QED BY <1>1, <1>3, <1>4 DEF Hears

\* A step that takes nothing in: what was acknowledged may be more.
LEMMA KeptHears ==
    ASSUME NEW M, M \subseteq Segment, NEW s \in Block, NEW t, Good(t), t.state # "FREE", Hears(s, M, t),
           NEW u, Good(u), Moves(t, u), u.isn = t.isn, t.una <= u.una, KeepsReceive(t, u),
           t.write <= u.write,
           u.fin => u.state \notin {"SYNSENT", "SYNRCVD", "ESTABLISHED", "CLOSEWAIT"},
           t.state = "SYNSENT" => u.una = t.una \/ u.state = "CLOSED",
           u.state \in Joined => t.state \in Joined,
           \/ u.state = "CLOSED"
           \/ u.una = t.una
           \/ \E m \in M : "ACK" \in m.fl /\ u.una = m.ack
    PROVE  Hears(s, M, u)
<1>1. /\ t \in Block /\ u \in Block
      /\ u.risn = t.risn /\ u.nxt = t.nxt /\ u.got = t.got /\ u.seq_fin = t.seq_fin
  BY DEF Good, KeepsReceive
<1>2. /\ t.una \in Nat /\ u.una \in Nat /\ t.write \in Nat /\ u.write \in Nat
      /\ t.nxt \in Nat
  BY <1>1 DEF Block
<1>3. u.state = "SYNSENT" => t.state = "SYNSENT"
  BY DEF Moves, Edges
<1>4. u.state # "FREE" => u.isn = 1 /\ 1 <= u.una /\ 2 <= u.write
  BY <1>2 DEF Hears, Solo
<1>5. Solo(u)
  BY <1>1, <1>3, <1>4 DEF Hears, Solo
<1>6. Plausible(M, u)
  BY <1>1 DEF Hears, Plausible
<1>7. ASSUME s.state # "FREE" PROVE Linked(s, M, u)
  <2>1. Linked(s, M, t)
    BY <1>7 DEF Hears
  <2>2. u.state \notin {"FREE", "CLOSED"} => t.state \notin {"FREE", "CLOSED"}
    BY DEF Moves, Edges
  <2>3. u.state \notin {"FREE", "CLOSED"} => u.una = 1 \/ u.una <= s.nxt
    <3>1. CASE u.una = t.una
      BY <2>1, <2>2, <3>1 DEF Linked
    <3>2. CASE \E m \in M : "ACK" \in m.fl /\ u.una = m.ack
      BY <2>1, <3>2 DEF Linked, Says
    <3> QED BY <3>1, <3>2
  <2> QED BY <1>1, <2>1, <2>3 DEF Linked
<1> QED BY <1>5, <1>6, <1>7 DEF Hears

\* What the part m of m0 says (tcp_valid may have taken its SYN or FIN away)
Part(m0, m) ==
    /\ m \in Segment /\ m.fl \subseteq m0.fl /\ m.ack = m0.ack /\ m.len = m0.len
    /\ m.seq + Syn(m) = m0.seq + Syn(m0)

\* rcv_nxt does not go beyond what has been said.
LEMMA NextBounded ==
    ASSUME NEW t \in Block, NEW u \in Block, NEW m \in Segment, NEW w \in Nat, Takes(t, m, u),
           t.nxt + Syn(m) <= w, \A k \in u.got : k < w, u.seq_fin # 0 => u.seq_fin = w - 1
    PROVE  u.nxt <= w
<1> DEFINE n0 == t.nxt + Syn(m)
           next == NextMissing(n0, u.got)
<1>1. n0 \in Nat
  BY DEF Block, Syn
<1>2. /\ next \in Nat /\ n0 <= next /\ \A j \in n0 .. next - 1 : j \in u.got
      /\ u.nxt = IF u.seq_fin # 0 /\ u.seq_fin = next THEN next + 1 ELSE next
  BY DEF Takes
<1> HIDE DEF n0, next
<1>3. next <= w
  <2>1. CASE next = n0
    BY <2>1 DEF n0
  <2>2. CASE next # n0
    <3>1. next - 1 \in n0 .. next - 1
      BY <1>1, <1>2, <2>2
    <3> QED BY <1>2, <3>1
  <2> QED BY <2>1, <2>2
<1> QED BY <1>2, <1>3

\* Everything up to the new rcv_nxt is there.
LEMMA NextCovered ==
    ASSUME NEW t \in Block, NEW u \in Block, NEW m \in Segment, Takes(t, m, u),
           \A k \in Nat : t.risn < k /\ k < t.nxt + Syn(m) => k \in u.got \/ k = u.seq_fin
    PROVE  \A k \in Nat : u.risn < k /\ k < u.nxt => k \in u.got \/ k = u.seq_fin
<1> DEFINE n0 == t.nxt + Syn(m)
           next == NextMissing(n0, u.got)
<1>1. n0 \in Nat
  BY DEF Block, Syn
<1>2. /\ next \in Nat /\ n0 <= next /\ \A j \in n0 .. next - 1 : j \in u.got
      /\ u.nxt = IF u.seq_fin # 0 /\ u.seq_fin = next THEN next + 1 ELSE next
      /\ u.risn = t.risn
  BY DEF Takes
<1> HIDE DEF next
<1>3. ASSUME NEW k \in Nat, u.risn < k, k < u.nxt
      PROVE  k \in u.got \/ k = u.seq_fin
  <2>1. CASE k < n0
    BY <1>2, <1>3, <2>1
  <2>2. CASE n0 <= k /\ k < next
    <3>1. k \in n0 .. next - 1
      BY <1>1, <1>2, <2>2
    <3> QED BY <1>2, <3>1
  <2>3. CASE next <= k
    BY <1>2, <1>3, <2>3
  <2> QED BY <1>1, <1>2, <2>1, <2>2, <2>3
<1> QED BY <1>3

\* Taking in something that the peer has said
LEMMA TakenHears ==
    ASSUME NEW M, M \subseteq Segment, NEW s \in Block, NEW t, Good(t), t.state \in Joined, Hears(s, M, t),
           NEW u, Good(u), Moves(t, u), u.state # "FREE",
           NEW m0 \in M, NEW m, Part(m0, m), Usual(m),
           Takes(t, m, u), KeepsSend(t, u), t.una <= u.una,
           u.una = t.una \/ ("ACK" \in m.fl /\ u.una = m.ack)
    PROVE  Hears(s, M, u)
<1>1. /\ t \in Block /\ u \in Block /\ m \in Segment /\ m0 \in Segment
      /\ t.una \in Nat /\ u.una \in Nat /\ t.nxt \in Nat /\ u.nxt \in Nat
      /\ t.write \in Nat /\ u.seq_fin \in Nat /\ t.seq_fin \in Nat
  BY DEF Good, Part, Block
<1>2. m.len \in Nat /\ m.seq \in Nat /\ m.ack \in Nat /\ m0.seq \in Nat /\ m0.len \in Nat
      /\ Syn(m) = 0 /\ Syn(m0) \in Nat /\ Fin(m0) \in Nat
  BY <1>1 DEF Segment, Syn, Fin, Usual
<1>3. /\ u.risn = t.risn
      /\ u.got = t.got \cup (m.seq .. m.seq + m.len - 1)
      /\ u.seq_fin = IF "FIN" \in m.fl THEN FinAt(m0) ELSE t.seq_fin
      /\ t.nxt <= u.nxt
  <2>1. m.seq + Syn(m) + m.len = FinAt(m0) /\ m.seq + Syn(m) = m.seq
    BY <1>2 DEF Part, FinAt
  <2>2. t.nxt + Syn(m) = t.nxt
    BY <1>1, <1>2
  <2> QED BY <1>1, <2>1, <2>2 DEF Takes
<1>4. "FIN" \in m.fl => "FIN" \in m0.fl
  BY DEF Part
<1>5. t.seq_fin # 0 => u.seq_fin = t.seq_fin
  BY <1>3, <1>4 DEF Hears, Plausible
<1>6. Plausible(M, u)
  BY <1>3, <1>4, <1>5 DEF Hears, Plausible
<1>7. \A k \in Nat : u.risn < k /\ k < u.nxt => k \in u.got \/ k = u.seq_fin
  <2>1. \A k \in Nat : t.risn < k /\ k < t.nxt + Syn(m) => k \in u.got \/ k = u.seq_fin
    <3>1. ASSUME NEW k \in Nat, t.risn < k, k < t.nxt + Syn(m)
          PROVE  k \in u.got \/ k = u.seq_fin
      <4>1. k < t.nxt /\ k # 0
        BY <1>1, <1>2, <3>1 DEF Block
      <4>2. k \in t.got \/ k = t.seq_fin
        BY <3>1, <4>1 DEF Hears, Solo
      <4> QED BY <1>3, <1>5, <4>1, <4>2
    <3> QED BY <3>1
  <2> QED BY <1>1, <2>1, NextCovered
<1>8. Solo(u)
  <2>1. u.state # "SYNSENT"
    BY DEF Moves, Edges, Joined, Synchronized
  <2>2. u.fin => u.state \notin {"SYNSENT", "SYNRCVD", "ESTABLISHED", "CLOSEWAIT"}
    BY <2>1 DEF Moves, Edges, Joined, Synchronized, Hears, Solo, KeepsSend
  <2>3. u.isn = 1 /\ 1 <= u.una /\ 2 <= u.write
    BY <1>1 DEF Hears, Solo, KeepsSend, Joined, Synchronized
  <2>4. u.risn = 1 /\ 2 <= u.nxt
    BY <1>1, <1>3 DEF Hears, Solo
  <2> QED BY <1>7, <2>1, <2>2, <2>3, <2>4 DEF Solo
<1>9. ASSUME s.state # "FREE" PROVE Linked(s, M, u)
  <2>1. Linked(s, M, t) /\ Says(s, m0)
    BY <1>9 DEF Hears, Linked
  <2>2. s.write \in Nat /\ s.nxt \in Nat
    BY DEF Block
  <2>3. u.seq_fin # 0 => s.fin /\ u.seq_fin = s.write - 1
    BY <1>3, <1>4, <2>1 DEF Linked, Says
  <2>4. m.seq + m.len <= s.write
    BY <1>2, <2>1, <2>2 DEF Says, Part
  <2>5. \A k \in u.got : k < s.write
    BY <1>2, <1>3, <2>1, <2>2, <2>4 DEF Linked
  <2>6. u.nxt <= s.write
    <3>1. t.nxt + Syn(m) <= s.write
      BY <1>1, <1>2, <2>1 DEF Linked
    <3> QED BY <1>1, <2>2, <2>3, <2>5, <3>1, NextBounded
  <2>7. u.una = 1 \/ u.una <= s.nxt
    <3>1. CASE u.una = t.una
      BY <2>1, <3>1 DEF Linked, Joined, Synchronized
    <3>2. CASE "ACK" \in m.fl /\ u.una = m.ack
      BY <2>1, <3>2 DEF Says, Part
    <3> QED BY <3>1, <3>2
  <2> QED BY <2>1, <2>3, <2>5, <2>6, <2>7 DEF Linked
<1> QED BY <1>6, <1>8, <1>9 DEF Hears

\* The handshake: what came before it is nothing.
LEMMA GreetedHears ==
    ASSUME NEW M, M \subseteq Segment, NEW s \in Block, NEW r \in Block, Hears(s, M, r),
           NEW m \in M, "SYN" \in m.fl, NEW b \in Block,
           b.risn = m.seq, b.nxt = m.seq, b.got = {}, b.seq_fin = 0,
           NEW u, Good(u), Takes(b, m, u), u.state \in {"SYNRCVD", "ESTABLISHED"},
           u.isn = 1, 1 <= u.una, 2 <= u.write, ~u.fin,
           u.una = 1 \/ ("ACK" \in m.fl /\ u.una = m.ack)
    PROVE  Hears(s, M, u)
<1>1. u \in Block /\ m \in Segment /\ m.seq \in Nat /\ m.len \in Nat /\ u.nxt \in Nat
  BY DEF Good, Segment, Block
<1>2. m.seq = 1 /\ "FIN" \notin m.fl /\ Syn(m) = 1
  BY DEF Hears, Plausible, Syn
<1>3. /\ u.risn = 1 /\ u.seq_fin = 0 /\ 2 <= u.nxt
      /\ u.got = 2 .. 2 + m.len - 1
  <2>1. b.nxt + Syn(m) = 2 /\ m.seq + Syn(m) = 2
    BY <1>2
  <2> QED BY <1>1, <1>2, <2>1 DEF Takes
<1>4. \A k \in Nat : u.risn < k /\ k < u.nxt => k \in u.got \/ k = u.seq_fin
  <2>1. \A k \in Nat : b.risn < k /\ k < b.nxt + Syn(m) => k \in u.got \/ k = u.seq_fin
    BY <1>2
  <2> QED BY <1>1, <2>1, NextCovered
<1>5. Solo(u)
  BY <1>3, <1>4 DEF Solo
<1>6. Plausible(M, u)
  BY <1>3 DEF Hears, Plausible
<1>7. ASSUME s.state # "FREE" PROVE Linked(s, M, u)
  <2>1. \A g \in M : Says(s, g)
    BY <1>7 DEF Hears, Linked
  <2>2. s.write \in Nat
    BY DEF Block
  <2>3. 2 + m.len <= s.write
    BY <1>1, <1>2, <2>1, <2>2 DEF Says, Fin
  <2>4. \A k \in u.got : k < s.write
    BY <1>1, <1>3, <2>2, <2>3
  <2>5. u.nxt <= s.write
    <3>1. b.nxt + Syn(m) <= s.write
      BY <1>1, <1>2, <2>2, <2>3
    <3> QED BY <1>1, <1>3, <2>2, <2>4, <3>1, NextBounded
  <2>6. u.una = 1 \/ u.una <= s.nxt
    BY <2>1 DEF Says
  <2> QED BY <1>3, <2>1, <2>4, <2>5, <2>6 DEF Linked
<1> QED BY <1>5, <1>6, <1>7 DEF Hears

LEMMA ReplySays ==
    ASSUME NEW i \in Ids, NEW t, Good(t), t.state # "FREE", Solo(t)
    PROVE  Says(t, AckSeg(i, t))
<1>1. /\ t \in Block /\ t.nxt \in Nat /\ t.write \in Nat /\ 2 <= t.write
  BY DEF Good, Block, Solo
<1> QED BY <1>1 DEF Says, AckSeg, Seg, Syn, Fin

LEMMA HeadSays ==
    ASSUME NEW i \in Ids, NEW t, Good(t), t.state # "FREE", Solo(t), t.una < t.write \/ t.una = t.isn
    PROVE  Says(t, SendQueueHead(i, t))
<1>1. /\ t \in Block /\ t.nxt \in Nat /\ t.write \in Nat /\ t.una \in Nat
      /\ t.isn = 1 /\ 1 <= t.una /\ 2 <= t.write
  BY DEF Good, Block, Solo
<1>2. CASE t.una = t.isn
  BY <1>1, <1>2 DEF Says, SendQueueHead, Seg, Syn, Fin
<1>3. CASE t.una # t.isn /\ t.fin /\ t.una = t.write - 1
  BY <1>1, <1>3 DEF Says, SendQueueHead, Seg, Syn, Fin, FinAt
<1>4. CASE t.una # t.isn /\ ~(t.fin /\ t.una = t.write - 1)
  BY <1>1, <1>4 DEF Says, SendQueueHead, Seg, Syn, Fin
<1> QED BY <1>2, <1>3, <1>4

LEMMA WriteSays ==
    ASSUME NEW i \in Ids, NEW t, Good(t), t.state # "FREE", Solo(t), NEW u, u.nxt = t.nxt,
           u.write = t.write + 1
    PROVE  /\ Says(u, OctetSeg(i, t))
           /\ u.fin => Says(u, FinSeg(i, t))
<1>1. /\ t \in Block /\ t.nxt \in Nat /\ t.write \in Nat /\ 2 <= t.write
  BY DEF Good, Block, Solo
<1> QED BY <1>1 DEF Says, OctetSeg, FinSeg, Seg, Syn, Fin, FinAt

\* A step of the sender that says the segments N
LEMMA SaidOn ==
    ASSUME NEW M, M \subseteq Segment, NEW N, N \subseteq Segment,
           NEW t \in Block, NEW u \in Block, NEW r \in Block,
           Plausible(M, r), Linked(t, M, r),
           t.nxt <= u.nxt, t.write <= u.write, t.fin => u.fin /\ u.write = t.write,
           \A m \in N : Says(u, m)
    PROVE  Plausible(M \cup N, r) /\ Linked(u, M \cup N, r)
<1>1. /\ t.nxt \in Nat /\ u.nxt \in Nat /\ t.write \in Nat /\ u.write \in Nat
      /\ r.una \in Nat /\ r.nxt \in Nat /\ r.got \subseteq Nat
  BY DEF Block
<1>2. ASSUME NEW m \in M PROVE Says(u, m)
  <2>1. /\ m.seq \in Nat /\ m.len \in Nat /\ m.ack \in Nat /\ Syn(m) \in Nat /\ Fin(m) \in Nat
    BY DEF Segment, Syn, Fin
  <2>2. Says(t, m)
    BY DEF Linked
  <2> QED BY <1>1, <2>1, <2>2 DEF Says
<1>3. \A m \in M \cup N : Says(u, m)
  BY <1>2
<1>4. r.seq_fin # 0 => u.fin /\ r.seq_fin = u.write - 1
  BY DEF Linked
<1>5. Plausible(M \cup N, r)
  BY <1>3, <1>4 DEF Plausible, Says
<1>6. Linked(u, M \cup N, r)
  <2>1. \A k \in r.got : k < u.write
    BY <1>1 DEF Linked
  <2>2. r.state \in Joined => r.nxt <= u.write
    BY <1>1 DEF Linked
  <2>3. r.state \notin {"FREE", "CLOSED"} => r.una = 1 \/ r.una <= u.nxt
    BY <1>1 DEF Linked
  <2> QED BY <1>3, <1>4, <2>1, <2>2, <2>3 DEF Linked
<1> QED BY <1>5, <1>6

LEMMA Fewer ==
    ASSUME NEW M, NEW N \in SUBSET M, NEW s, NEW r
    PROVE  /\ Plausible(M, r) => Plausible(N, r)
           /\ Linked(s, M, r) => Linked(s, N, r)
           /\ Hears(s, M, r) => Hears(s, N, r)
           /\ Nothing(M, r) => Nothing(N, r)
BY DEF Plausible, Linked, Hears, Nothing

(***************************************************************************)
(* One connection each                                                     *)
(***************************************************************************)
Ends == {"a", "b1"}
Other(i) == IF i = "a" THEN "b1" ELSE "a"

\* The segments on the way to i that are not resets
To(i, N) == {m \in N : m.to = Host(i) /\ "RST" \notin m.fl}

\* What i says and what its peer hears
Half(i) ==
    /\ Hears(tcb[i], To(Other(i), net), tcb[Other(i)])
    /\ isns[Host(i)] = 0 => tcb[i] = Free /\ Nothing(To(Other(i), net), tcb[Other(i)])

\* The inductive invariant
Agreed ==
    /\ tcb["b2"] = Free
    /\ isns \in [Hosts -> 0 .. 1]
    /\ \A i \in Ends : Half(i)

LEMMA EndsAre ==
    ASSUME NEW i \in Ends
    PROVE  /\ i \in Ids /\ Other(i) \in Ends /\ Other(i) \in Ids /\ Other(i) # i /\ Other(Other(i)) = i
           /\ Host(i) \in Hosts /\ Host(Other(i)) \in Hosts /\ Host(Other(i)) # Host(i)
           /\ Peer(Host(i)) = Host(Other(i))
BY DEF Ends, Other, Ids, Host, Hosts, Peer

\* A step of i, which turns into u
LEMMA OneStep ==
    ASSUME Sane, Agreed, NEW i \in Ends, NEW u \in Block, tcb' = [tcb EXCEPT ![i] = u],
           isns' \in [Hosts -> 0 .. 1], isns'[Host(i)] # 0,
           isns'[Host(Other(i))] = isns[Host(Other(i))],
           To(i, net') \subseteq To(i, net),
           Hears(tcb[Other(i)], To(i, net), u),
           isns[Host(Other(i))] = 0 => Nothing(To(i, net), u),
           Hears(u, To(Other(i), net'), tcb[Other(i)])
    PROVE  Agreed'
<1> DEFINE j == Other(i)
<1>1. /\ i \in Ids /\ j \in Ids /\ j # i /\ Other(j) = i
      /\ Host(i) # Host(j) /\ \A k \in Ends : k = i \/ k = j
  BY EndsAre DEF Ends, Other
<1>2. /\ tcb'[i] = u /\ tcb'[j] = tcb[j] /\ tcb'["b2"] = tcb["b2"]
  BY <1>1 DEF Sane, Ends, Ids
<1> HIDE DEF j
<1>3. Half(i)'
  BY <1>2 DEF Half, j
<1>4. Half(j)'
  <2>1. Half(j)
    BY EndsAre DEF Agreed, j
  <2>2. Hears(tcb[j], To(i, net'), u)
    BY Fewer DEF j
  <2>3. isns[Host(j)] = 0 => tcb[j] = Free /\ Nothing(To(i, net'), u)
    BY <1>1, <2>1, Fewer DEF Half, j
  <2> QED BY <1>1, <1>2, <2>2, <2>3 DEF Half, j
<1> QED BY <1>1, <1>2, <1>3, <1>4 DEF Agreed

\* What i says in a step reaches the segments on the way to its peer only.
LEMMA OnTheWay ==
    ASSUME NEW i \in Ends, NEW S, Sent(S),
           \A m \in S : "RST" \notin m.fl => m.to = Host(Other(i))
    PROVE  /\ To(i, net') \subseteq To(i, net)
           /\ To(Other(i), net') \subseteq To(Other(i), net) \cup {m \in S : "RST" \notin m.fl}
<1>1. Host(i) # Host(Other(i))
  BY EndsAre
<1> QED BY <1>1 DEF Sent, To

\* The step of an end that is there: what it says with S, it may say as w, which is
\* what it becomes unless it goes.
LEMMA StepAgreed ==
    ASSUME Sane, Agreed, NEW i \in Ends, Allocated(i), NEW u, Good(u),
           tcb' = [tcb EXCEPT ![i] = u], isns' = isns,
           NEW S, S \subseteq Segment, Sent(S),
           \A m \in S : "RST" \notin m.fl => m.to = Host(Other(i)),
           Hears(tcb[Other(i)], To(i, net), u),
           isns[Host(Other(i))] = 0 => Nothing(To(i, net), u),
           NEW w \in Block, u.state # "FREE" => w = u,
           tcb[i].nxt <= w.nxt, tcb[i].write <= w.write,
           tcb[i].fin => w.fin /\ w.write = tcb[i].write,
           \A m \in S : "RST" \notin m.fl => Says(w, m)
    PROVE  Agreed'
<1> DEFINE j == Other(i)
           M == To(j, net)
           N == {m \in S : "RST" \notin m.fl}
<1>1. /\ i \in Ids /\ j \in Ids /\ tcb[i] \in Block /\ tcb[j] \in Block /\ u \in Block
      /\ M \subseteq Segment /\ N \subseteq Segment /\ tcb[i].state # "FREE"
  BY EndsAre DEF Sane, Good, To, Allocated
<1>2. Half(i)
  BY DEF Agreed
<1>3. Hears(tcb[i], M, tcb[j])
  BY <1>2 DEF Half
<1>4. Plausible(M, tcb[j]) /\ Linked(tcb[i], M, tcb[j]) /\ Solo(tcb[j])
  BY <1>1, <1>3 DEF Hears
<1>5. \A m \in N : Says(w, m)
  OBVIOUS
<1>6. To(i, net') \subseteq To(i, net) /\ To(j, net') \in SUBSET (M \cup N)
  BY OnTheWay
<1> HIDE DEF M, N, j
<1>7. Plausible(M \cup N, tcb[j]) /\ Linked(w, M \cup N, tcb[j])
  BY <1>1, <1>4, <1>5, SaidOn
<1>8. Hears(u, To(j, net'), tcb[j])
  <2>1. Plausible(To(j, net'), tcb[j]) /\ Linked(w, To(j, net'), tcb[j])
    BY <1>6, <1>7, Fewer
  <2> QED BY <1>4, <2>1 DEF Hears
<1>9. isns[Host(i)] # 0
  <2>1. tcb[i] # Free
    BY <1>1 DEF Free
  <2> QED BY <1>2, <2>1 DEF Half
<1>10. isns \in [Hosts -> 0 .. 1]
  BY DEF Agreed
<1> QED BY <1>1, <1>6, <1>8, <1>9, <1>10, OneStep DEF j

\* A connection that ends
LEMMA EndedHears ==
    ASSUME NEW M, M \subseteq Segment, NEW s \in Block, NEW t, Good(t), t.state # "FREE", Hears(s, M, t),
           NEW u, Good(u), Moves(t, u), Ended(t, u)
    PROVE  Hears(s, M, u)
<1>1. t \in Block
  BY DEF Good
<1>2. CASE u = Free
  BY <1>1, <1>2, FreeHears
<1>3. CASE u.state = "CLOSED" /\ KeepsSend(t, u) /\ KeepsReceive(t, u) /\ t.una <= u.una
  <2>1. t.write <= u.write
    BY <1>1, <1>3 DEF KeepsSend, Block
  <2> QED BY <1>3, <2>1, KeptHears DEF KeepsSend, Joined, Synchronized
<1> QED BY <1>2, <1>3 DEF Ended

LEMMA NothingEnds ==
    ASSUME NEW M, NEW t, Nothing(M, t), NEW u, Ended(t, u)
    PROVE  Nothing(M, u)
BY DEF Nothing, Ended, KeepsReceive, Free

\* What a handler makes of an end
LEMMA DressedHears ==
    ASSUME NEW M, M \subseteq Segment, NEW s \in Block, NEW t, Good(t),
           t.state \notin {"FREE", "CLOSED"}, Hears(s, M, t),
           NEW m0 \in Segment, "RST" \notin m0.fl => m0 \in M,
           NEW m, Part(m0, m), "RST" \in m0.fl => "RST" \in m.fl, m = m0 \/ t.state # "SYNSENT",
           NEW u, Dressed(t, m, u)
    PROVE  Hears(s, M, u) /\ (Nothing(M, t) => Nothing(M, u))
<1>1. Good(u) /\ Moves(t, u) /\ t \in Block /\ u \in Block
  BY DEF Dressed, Good
<1>2. CASE Ended(t, u)
  BY <1>1, <1>2, EndedHears, NothingEnds
<1>3. CASE u = t
  BY <1>3
<1>4. ASSUME t.state # "SYNSENT", u.state # "FREE", Progress(t, m, u)
      PROVE  Hears(s, M, u) /\ (Nothing(M, t) => Nothing(M, u))
  <2>1. /\ t.state \in Joined
        /\ u.fin => u.state \notin {"SYNSENT", "SYNRCVD", "ESTABLISHED", "CLOSEWAIT"}
    <3>1. t.state \in Joined
      BY <1>1, <1>4 DEF Good, Block, States, Joined
    <3>2. t.fin => t.state \notin {"SYNSENT", "SYNRCVD", "ESTABLISHED", "CLOSEWAIT"}
      BY DEF Hears, Solo
    <3>3. u.state = t.state \/ u.state = "CLOSED" \/ <<t.state, u.state>> \in Edges
      BY <1>1, <1>4 DEF Moves
    <3> QED BY <1>4, <3>1, <3>2, <3>3 DEF Progress, KeepsSend, Edges
  <2>2. ~Nothing(M, t)
    BY <2>1 DEF Nothing, Joined, Synchronized
  <2>3. u.isn = t.isn /\ t.una <= u.una /\ t.write <= u.write /\ KeepsSend(t, u)
    BY <1>1, <1>4 DEF Progress, KeepsSend, Block
  <2>4. CASE u.una = t.una /\ KeepsReceive(t, u)
    BY <1>1, <1>4, <2>1, <2>2, <2>3, <2>4, KeptHears
  <2>5. CASE Usual(m) /\ (u.una = t.una \/ ("ACK" \in m.fl /\ u.una = m.ack)) /\ KeepsReceive(t, u)
    <3>1. m0 \in M
      BY <2>5 DEF Usual
    <3>2. u.una = t.una \/ \E g \in M : "ACK" \in g.fl /\ u.una = g.ack
      BY <2>5, <3>1 DEF Part
    <3> QED BY <1>1, <1>4, <2>1, <2>2, <2>3, <2>5, <3>2, KeptHears
  <2>6. CASE Usual(m) /\ (u.una = t.una \/ ("ACK" \in m.fl /\ u.una = m.ack)) /\ Takes(t, m, u)
    <3>1. m0 \in M
      BY <2>6 DEF Usual
    <3> QED BY <1>1, <1>4, <2>1, <2>2, <2>3, <2>6, <3>1, TakenHears
  <2> QED BY <1>4, <2>4, <2>5, <2>6 DEF Progress
<1>5. CASE t.state = "SYNSENT" /\ Greeted(t, m, u)
  <2>1. m = m0 /\ m \in M
    BY <1>5 DEF Greeted
  <2>2. ~Nothing(M, t)
    BY <2>1 DEF Nothing
  <2>3. /\ t.isn = 1 /\ t.una = 1 /\ 2 <= t.write /\ t.got = {} /\ t.seq_fin = 0 /\ ~t.fin
    BY <1>5 DEF Hears, Solo
  <2>4. u.isn = 1 /\ 1 <= u.una /\ 2 <= u.write /\ ~u.fin /\ u.state \in {"SYNRCVD", "ESTABLISHED"}
    BY <1>5, <2>3 DEF Greeted, KeepsSend
  <2>5. PICK b \in Block : /\ b.risn = m.seq /\ b.nxt = m.seq
                           /\ b.got = {} /\ b.seq_fin = 0 /\ Takes(b, m, u)
    BY <1>5, <2>3 DEF Greeted
  <2>6. "SYN" \in m.fl /\ (u.una = 1 \/ ("ACK" \in m.fl /\ u.una = m.ack))
    BY <1>5, <2>3 DEF Greeted
  <2> QED BY <1>1, <2>1, <2>2, <2>4, <2>5, <2>6, GreetedHears
<1>6. u.state = "FREE" => Ended(t, u)
  BY <1>1 DEF Good, Ended
<1> QED BY <1>2, <1>3, <1>4, <1>5, <1>6 DEF Dressed

LEMMA ResultAgreed ==
    ASSUME Sane, Agreed, NEW i \in Ends, Allocated(i), tcb[i].state # "CLOSED",
           NEW m0 \in net, m0.to = Host(i), NEW m, m = m0 \/ tcb[i].state # "SYNSENT",
           m \in Segment, Part(m0, m), "RST" \in m0.fl => "RST" \in m.fl,
           Result(i, m)
    PROVE  Agreed'
<1> DEFINE t == tcb[i]
           j == Other(i)
           M == To(i, net)
<1>1. /\ i \in Ids /\ j \in Ends /\ j \in Ids /\ Other(j) = i /\ Good(t) /\ t \in Block
      /\ tcb[j] \in Block /\ t.state \notin {"FREE", "CLOSED"}
      /\ M \subseteq Segment /\ m0 \in Segment /\ Peer(Host(i)) = Host(j)
  BY EndsAre DEF Sane, Good, Allocated, To
<1>2. PICK u, S : /\ tcb' = [tcb EXCEPT ![i] = u] /\ Sent(S) /\ UNCHANGED <<listening, isns>>
                  /\ Dressed(t, m, u)
                  /\ S \subseteq Replies(i, t, u, m)
  BY DEF Result
<1>3. Good(u) /\ Moves(t, u) /\ u \in Block
  BY <1>2 DEF Dressed, Good
<1>4. /\ Hears(tcb[j], M, t)
      /\ isns[Host(j)] = 0 => Nothing(M, t)
  <2>1. Half(j)
    BY <1>1 DEF Agreed
  <2> QED BY <1>1, <2>1 DEF Half
<1>5. "RST" \notin m0.fl => m0 \in M
  BY DEF To
<1>6. Hears(tcb[j], M, u) /\ (Nothing(M, t) => Nothing(M, u))
  <2> HIDE DEF t, j, M
  <2> QED BY <1>1, <1>2, <1>4, <1>5, DressedHears DEF t
<1>7. Solo(t) /\ Solo(u)
  BY <1>4, <1>6 DEF Hears
<1>8. /\ t.nxt \in Nat /\ t.write \in Nat /\ u.nxt \in Nat
      /\ t.state = "SYNSENT" => t.nxt = 0
  BY <1>1, <1>3, <1>7 DEF Block, Solo
<1>9. u.state # "FREE" => t.nxt <= u.nxt /\ KeepsSend(t, u)
  <2>1. u.state # "FREE" => t.nxt <= u.nxt
    BY <1>3, <1>8 DEF Moves
  <2>2. u.state # "FREE" => KeepsSend(t, u)
    BY <1>2 DEF Dressed, Ended, Progress, Greeted, Free
  <2> QED BY <2>1, <2>2
<1>10. S \subseteq Segment
  BY <1>1, <1>2, <1>3, AckSegTyped, RstTyped DEF Replies
<1>11. /\ Says(t, AckSeg(i, t)) /\ AckSeg(i, t).to = Host(j)
       /\ u.state # "FREE" => /\ Says(u, AckSeg(i, t)) /\ Says(u, AckSeg(i, u))
                             /\ AckSeg(i, u).to = Host(j)
  <2>1. Says(t, AckSeg(i, t)) /\ (u.state # "FREE" => Says(u, AckSeg(i, u)))
    BY <1>1, <1>3, <1>7, ReplySays
  <2>2. AckSeg(i, t).to = Host(j) /\ AckSeg(i, u).to = Host(j)
    BY <1>1 DEF AckSeg, Seg
  <2>3. u.state # "FREE" => Says(u, AckSeg(i, t))
    <3>1. AckSeg(i, t) \in Segment
      BY <1>1, AckSegTyped
    <3>2. AckSeg(i, t).ack \in Nat
      BY <3>1 DEF Segment
    <3> QED BY <1>8, <1>9, <2>1, <3>2 DEF Says, KeepsSend
  <2> QED BY <2>1, <2>2, <2>3
<1>12. \A g \in S : "RST" \notin g.fl => g = AckSeg(i, t) \/ (u.state # "FREE" /\ g = AckSeg(i, u))
  <2>1. \A g \in Rst(m) : "RST" \in g.fl
    BY DEF Rst, Seg
  <2> QED BY <1>2, <2>1 DEF Replies
<1>13. CASE u.state # "FREE"
  <2>1. \A g \in S : "RST" \notin g.fl => g.to = Host(j) /\ Says(u, g)
    BY <1>11, <1>12, <1>13
  <2>2. t.write <= u.write /\ (t.fin => u.fin /\ u.write = t.write)
    BY <1>8, <1>9, <1>13 DEF KeepsSend
  <2> QED BY <1>2, <1>3, <1>4, <1>6, <1>9, <1>10, <1>13, <2>1, <2>2, StepAgreed
<1>14. CASE u.state = "FREE"
  <2>1. \A g \in S : "RST" \notin g.fl => g.to = Host(j) /\ Says(t, g)
    BY <1>11, <1>12, <1>14
  <2>2. t.write <= t.write /\ t.nxt <= t.nxt
    BY <1>8
  <2> QED BY <1>1, <1>2, <1>3, <1>4, <1>6, <1>10, <1>14, <2>1, <2>2, StepAgreed
<1> QED BY <1>13, <1>14

LEMMA CarriedAgreed ==
    ASSUME Sane, Agreed, NEW i \in Ends, Allocated(i),
           NEW u, NEW S, tcb' = [tcb EXCEPT ![i] = u], Sent(S), isns' = isns,
           Good(u), Moves(tcb[i], u), Carries(i, tcb[i], u, S)
    PROVE  Agreed'
<1> DEFINE t == tcb[i]
           j == Other(i)
           M == To(i, net)
<1>1. /\ i \in Ids /\ j \in Ends /\ j \in Ids /\ Other(j) = i /\ Good(t) /\ t \in Block
      /\ tcb[j] \in Block /\ t.state # "FREE"
      /\ M \subseteq Segment /\ Peer(Host(i)) = Host(j) /\ u \in Block
  BY EndsAre DEF Sane, Good, Allocated, To
<1>2. /\ Hears(tcb[j], M, t)
      /\ isns[Host(j)] = 0 => Nothing(M, t)
  <2>1. Half(j)
    BY <1>1 DEF Agreed
  <2> QED BY <1>1, <2>1 DEF Half
<1>3. S \subseteq Segment
  BY <1>1, CarriesTyped
<1>4. Solo(t)
  BY <1>2 DEF Hears
<1>5. t.nxt \in Nat /\ t.write \in Nat /\ t.una \in Nat
  BY <1>1 DEF Block
<1>6. CASE Ended(t, u) /\ S = {}
  <2>1. Hears(tcb[j], M, u) /\ (Nothing(M, t) => Nothing(M, u))
    <3> HIDE DEF t, j, M
    <3> QED BY <1>1, <1>2, <1>6, EndedHears, NothingEnds DEF t
  <2>2. CASE u.state = "FREE"
    <3>1. t.write <= t.write /\ t.nxt <= t.nxt
      BY <1>5
    <3>2. \A g \in S : g.to = Host(j) /\ Says(t, g)
      BY <1>6
    <3> QED BY <1>1, <1>2, <1>3, <2>1, <2>2, <3>1, <3>2, StepAgreed
  <2>3. CASE u.state # "FREE"
    <3>1. KeepsSend(t, u) /\ KeepsReceive(t, u)
      BY <1>6, <2>3 DEF Ended, Free
    <3>2. /\ t.write <= u.write /\ t.nxt <= u.nxt /\ (t.fin => u.fin /\ u.write = t.write)
      BY <1>5, <3>1 DEF KeepsSend, KeepsReceive
    <3>3. \A g \in S : g.to = Host(j) /\ Says(u, g)
      BY <1>6
    <3> QED BY <1>1, <1>2, <1>3, <2>1, <2>3, <3>2, <3>3, StepAgreed
  <2> QED BY <2>2, <2>3
<1>7. ASSUME u.isn = t.isn, u.una = t.una, KeepsReceive(t, u),
             Repeats(i, t, u, S) \/ Writes(i, t, u, S) \/ Finishes(i, t, u, S)
      PROVE  Agreed'
  <2>1. /\ t.write <= u.write /\ (t.fin => u.fin /\ u.write = t.write)
        /\ u.fin => u.state \notin {"SYNSENT", "SYNRCVD", "ESTABLISHED", "CLOSEWAIT"}
        /\ u.state = t.state \/ CanFin(t)
        /\ u.state \in Joined => t.state \in Joined
        /\ u.state # "FREE"
    BY <1>1, <1>4, <1>5, <1>7
       DEF Repeats, Writes, Finishes, Solo, KeepsSend, CanFin, FinState, Joined, Synchronized
  <2>2. Hears(tcb[j], M, u)
    <3>1. t.una <= u.una
      BY <1>5, <1>7
    <3> HIDE DEF t, j, M
    <3> QED BY <1>1, <1>2, <1>7, <2>1, <3>1, KeptHears DEF t
  <2>3. Nothing(M, t) => Nothing(M, u)
    BY <1>7, <2>1 DEF Nothing, KeepsReceive, CanFin
  <2>4. u.nxt = t.nxt /\ t.nxt <= u.nxt
    BY <1>5, <1>7 DEF KeepsReceive
  <2>5. \A g \in S : g.to = Host(j) /\ Says(u, g)
    <3>1. CASE Repeats(i, t, u, S)
      <4>1. t.una < t.write => Says(t, SendQueueHead(i, t)) /\ SendQueueHead(i, t).to = Host(j)
        BY <1>1, <1>4, HeadSays DEF SendQueueHead, Seg
      <4>2. \A g : Says(t, g) => Says(u, g)
        BY <2>4, <3>1 DEF Says, Repeats, KeepsSend
      <4> QED BY <3>1, <4>1, <4>2 DEF Repeats
    <3>2. CASE Writes(i, t, u, S)
      <4>1. Says(u, OctetSeg(i, t)) /\ OctetSeg(i, t).to = Host(j)
        BY <1>1, <1>4, <2>4, <3>2, WriteSays DEF OctetSeg, Seg, Writes
      <4> QED BY <3>2, <4>1 DEF Writes
    <3>3. CASE Finishes(i, t, u, S)
      <4>1. Says(u, FinSeg(i, t)) /\ FinSeg(i, t).to = Host(j)
        BY <1>1, <1>4, <2>4, <3>3, WriteSays DEF FinSeg, Seg, Finishes
      <4> QED BY <3>3, <4>1 DEF Finishes
    <3> QED BY <1>7, <3>1, <3>2, <3>3
  <2> QED BY <1>1, <1>2, <1>3, <2>1, <2>2, <2>3, <2>4, <2>5, StepAgreed
<1> QED BY <1>6, <1>7 DEF Carries

\* Whoever has said nothing begins.
LEMMA BeginsAgreed ==
    ASSUME Sane, Agreed, \A h \in Hosts : MaxOpens[h] <= 1, NEW i \in Ids, Begins(i)
    PROVE  Agreed'
<1> DEFINE j == Other(i)
           M == To(i, net)
<1>1. PICK u \in Block :
          /\ tcb[i] = Free /\ isns[Host(i)] < MaxOpens[Host(i)] /\ (i = "b2" => isns["B"] = 1)
          /\ tcb' = [tcb EXCEPT ![i] = u] /\ isns' = [isns EXCEPT ![Host(i)] = @ + 1]
          /\ Sent({SendQueueHead(i, u)}) /\ Good(u)
          /\ u.isn = tcp_isn(Host(i)) /\ u.una = u.isn /\ u.write = u.isn + 1 /\ ~u.fin
          /\ \/ /\ u.state = "SYNSENT"
                /\ u.risn = 0 /\ u.nxt = 0 /\ u.got = {} /\ u.seq_fin = 0
             \/ /\ u.state = "SYNRCVD" /\ i # "a"
                /\ \E m \in net, b \in Block :
                      /\ m.to = "B" /\ m.fl = {"SYN"}
                      /\ b.risn = m.seq /\ b.nxt = m.seq /\ b.got = {} /\ b.seq_fin = 0
                      /\ Takes(b, m, u)
  BY DEF Begins
<1>0. /\ tcb[i] = Free /\ isns[Host(i)] < MaxOpens[Host(i)] /\ (i = "b2" => isns["B"] = 1)
      /\ tcb' = [tcb EXCEPT ![i] = u] /\ isns' = [isns EXCEPT ![Host(i)] = @ + 1]
      /\ Sent({SendQueueHead(i, u)}) /\ Good(u)
      /\ u.isn = tcp_isn(Host(i)) /\ u.una = u.isn /\ u.write = u.isn + 1 /\ ~u.fin
  BY <1>1
<1>2. Host(i) \in Hosts /\ isns[Host(i)] = 0 /\ isns \in [Hosts -> 0 .. 1]
  <2>1. Host(i) \in Hosts
    BY DEF Host, Hosts
  <2>2. isns[Host(i)] \in 0 .. 1 /\ MaxOpens[Host(i)] \in 0 .. 2 /\ MaxOpens[Host(i)] <= 1
    BY <2>1, ConnAssumption DEF Agreed
  <2>3. isns[Host(i)] = 0
    BY <1>0, <2>2
  <2> QED BY <2>1, <2>3 DEF Agreed
<1>3. i \in Ends
  BY <1>0, <1>2 DEF Ends, Ids, Host
<1>4. /\ j \in Ends /\ j \in Ids /\ Other(j) = i /\ Host(j) \in Hosts /\ Host(j) # Host(i)
      /\ Peer(Host(i)) = Host(j) /\ tcb[j] \in Block /\ M \subseteq Segment
  BY <1>3, EndsAre DEF Sane, To
<1>5. u.isn = 1 /\ u.una = 1 /\ u.write = 2
  BY <1>1, <1>2, ConnAssumption DEF tcp_isn
<1>6. Half(i) /\ Half(j)
  BY <1>3, <1>4 DEF Agreed
<1>7. Nothing(To(j, net), tcb[j]) /\ Solo(tcb[j])
  BY <1>2, <1>6 DEF Half, Hears
<1>8. Hears(tcb[j], M, Free) /\ (isns[Host(j)] = 0 => Nothing(M, Free))
  BY <1>0, <1>4, <1>6 DEF Half
<1>9. Hears(tcb[j], M, u) /\ (isns[Host(j)] = 0 => Nothing(M, u))
  <2>1. CASE u.state = "SYNSENT" /\ u.risn = 0 /\ u.nxt = 0 /\ u.got = {} /\ u.seq_fin = 0
    <3>1. Solo(u)
      BY <1>1, <1>5, <2>1 DEF Solo, Joined, Synchronized
    <3>2. Plausible(M, u)
      BY <1>8, <2>1 DEF Hears, Plausible
    <3>3. tcb[j].state # "FREE" => Linked(tcb[j], M, u)
      BY <1>5, <1>8, <2>1 DEF Hears, Linked, Joined, Synchronized
    <3>4. isns[Host(j)] = 0 => Nothing(M, u)
      BY <1>8, <2>1 DEF Nothing
    <3> QED BY <3>1, <3>2, <3>3, <3>4 DEF Hears
  <2>2. ASSUME u.state = "SYNRCVD", i # "a", NEW m \in net, NEW b \in Block,
               m.to = "B", m.fl = {"SYN"}, b.risn = m.seq, b.nxt = m.seq, b.got = {}, b.seq_fin = 0,
               Takes(b, m, u)
        PROVE  Hears(tcb[j], M, u) /\ (isns[Host(j)] = 0 => Nothing(M, u))
    <3>1. m \in M /\ "SYN" \in m.fl
      BY <2>2 DEF To, Host
    <3>2. isns[Host(j)] # 0
      BY <1>8, <3>1 DEF Nothing
    <3>3. Free \in Block
      BY FreeGood DEF Good
    <3>4. 1 <= u.una /\ 2 <= u.write
      BY <1>5
    <3> HIDE DEF M, j
    <3>5. Hears(tcb[j], M, u)
      BY <1>1, <1>4, <1>5, <1>8, <2>2, <3>1, <3>3, <3>4, GreetedHears
    <3> QED BY <3>2, <3>5
  <2> QED BY <1>1, <2>1, <2>2
<1>10. Solo(u)
  BY <1>9 DEF Hears
<1>11. SendQueueHead(i, u) \in Segment /\ SendQueueHead(i, u).to = Host(j) /\ Says(u, SendQueueHead(i, u))
  <2>1. SendQueueHead(i, u) \in Segment
    BY <1>1, <1>3, HeadTyped DEF Ends, Ids
  <2>2. Says(u, SendQueueHead(i, u))
    BY <1>1, <1>10, HeadSays
  <2>3. SendQueueHead(i, u).to = Host(j)
    BY <1>4 DEF SendQueueHead, Seg
  <2> QED BY <2>1, <2>2, <2>3
<1>12. Hears(u, To(j, net'), tcb[j])
  <2> DEFINE S == {SendQueueHead(i, u)}
             N == {m \in S : "RST" \notin m.fl}
  <2>1. /\ To(j, net') \in SUBSET ({} \cup N) /\ To(i, net') \subseteq To(i, net)
    BY <1>1, <1>3, <1>7, <1>11, OnTheWay DEF Nothing
  <2>2. N \subseteq Segment /\ \A m \in N : Says(u, m)
    BY <1>11
  <2>3. Plausible({}, tcb[j]) /\ Linked(u, {}, tcb[j])
    BY <1>7 DEF Nothing, Solo, Plausible, Linked, Joined, Synchronized
  <2>4. u.nxt <= u.nxt /\ u.write <= u.write
    BY DEF Block
  <2> HIDE DEF N, j
  <2>5. Plausible({} \cup N, tcb[j]) /\ Linked(u, {} \cup N, tcb[j])
    BY <1>4, <2>2, <2>3, <2>4, SaidOn
  <2>6. Plausible(To(j, net'), tcb[j]) /\ Linked(u, To(j, net'), tcb[j])
    BY <2>1, <2>5, Fewer
  <2> QED BY <1>7, <2>6 DEF Hears
<1>13. To(i, net') \subseteq To(i, net)
  <2>1. \A m \in {SendQueueHead(i, u)} : "RST" \notin m.fl => m.to = Host(j)
    BY <1>11
  <2> QED BY <1>1, <1>3, <2>1, OnTheWay
<1>14. isns' \in [Hosts -> 0 .. 1] /\ isns'[Host(i)] # 0 /\ isns'[Host(j)] = isns[Host(j)]
  BY <1>0, <1>2, <1>4
<1> QED BY <1>0, <1>3, <1>9, <1>12, <1>13, <1>14, OneStep

\* A step that moves no end and says nothing but resets
LEMMA QuietAgreed ==
    ASSUME Agreed, tcb' = tcb, isns' = isns,
           \A i \in Ends : To(i, net') \subseteq To(i, net)
    PROVE  Agreed'
<1>1. ASSUME NEW i \in Ends PROVE Half(i)'
  <2>1. Half(i)
    BY DEF Agreed
  <2>2. To(Other(i), net') \in SUBSET To(Other(i), net)
    BY EndsAre
  <2> QED BY <2>1, <2>2, Fewer DEF Half
<1> QED BY <1>1 DEF Agreed

LEMMA RefusesAgreed ==
    ASSUME Agreed, Refuses
    PROVE  Agreed'
<1>1. \A i \in Ends : To(i, net') \subseteq To(i, net)
  BY DEF Refuses, Sent, To
<1> QED BY <1>1, QuietAgreed DEF Refuses

LEMMA CloseAgreed ==
    ASSUME Sane, Agreed, CloseListener
    PROVE  Agreed'
<1> DEFINE i == "b1"
           Q(k) == Allocated(k) /\ tcb[k].queued
<1>1. i \in Ends /\ i \in Ids /\ tcb[i] \in Block /\ Good(tcb[i])
  BY DEF Ends, Ids, Sane
<1>2. \A k \in Ids : Q(k) => k = i
  <2>1. ~Allocated("b2")
    BY DEF Agreed, Allocated, Free
  <2> QED BY <2>1 DEF Sane, Ids
<1>3. isns' = isns
  BY DEF CloseListener
<1>4. CASE Q(i)
  <2> DEFINE t == tcb[i]
             u == Detached(t)
             S == IF CanFin(t) THEN {FinSeg(i, t)} ELSE {}
  <2>1. tcb' = [tcb EXCEPT ![i] = u]
    BY <1>1, <1>2, <1>4 DEF CloseListener, Sane
  <2>2. {FinSeg(k, tcb[k]) : k \in {k \in Ids : Allocated(k) /\ tcb[k].queued /\ CanFin(tcb[k])}} = S
    BY <1>1, <1>2, <1>4
  <2>3. Sent(S)
    BY <2>2, SentIs DEF CloseListener
  <2>4. t.state # "FREE" /\ ~t.asleep
    BY <1>1, <1>4 DEF Allocated, Good
  <2>5. Good(u) /\ Moves(t, u) /\ Carries(i, t, u, S)
    BY <1>1, <2>4, DetachedIs
  <2> HIDE DEF u, S
  <2> QED BY <1>1, <1>3, <1>4, <2>1, <2>3, <2>5, CarriedAgreed
<1>5. CASE ~Q(i)
  <2>1. \A k \in Ids : ~Q(k)
    BY <1>2, <1>5
  <2>2. tcb' = tcb
    BY <2>1 DEF CloseListener, Sane
  <2>3. Sent({})
    BY <2>1, SentIs DEF CloseListener
  <2>4. net' = net
    BY <2>3 DEF Sent
  <2> QED BY <1>3, <2>2, <2>4, QuietAgreed DEF To
<1> QED BY <1>4, <1>5

LEMMA CalledAgreed ==
    ASSUME Sane, Agreed, NEW i \in Ids, Allocated(i), Called(i)
    PROVE  Agreed'
<1>1. i \in Ends
  BY DEF Agreed, Allocated, Free, Ids, Ends
<1> QED BY <1>1, CarriedAgreed DEF Called

LEMMA InputAgreed ==
    ASSUME Sane, Agreed, \A h \in Hosts : MaxOpens[h] <= 1, NEW m \in net, tcp_input(m)
    PROVE  Agreed'
<1>1. CASE Refuses
  BY <1>1, RefusesAgreed
<1>2. CASE \E i \in Ids : Begins(i)
  BY <1>2, BeginsAgreed
<1>3. ASSUME NEW i \in Ids, Allocated(i), tcb[i].state # "CLOSED", Host(i) = m.to,
             \/ Result(i, m)
             \/ tcb[i].state # "SYNSENT" /\ Result(i, Strip(tcb[i], m))
      PROVE  Agreed'
  <2>1. i \in Ends /\ m \in Segment /\ tcb[i] \in Block
    BY <1>3 DEF Agreed, Allocated, Free, Ids, Ends, Sane
  <2>2. CASE Result(i, m)
    <3>1. Part(m, m)
      BY <2>1 DEF Part
    <3> QED BY <1>3, <2>1, <2>2, <3>1, ResultAgreed
  <2>3. CASE tcb[i].state # "SYNSENT" /\ Result(i, Strip(tcb[i], m))
    <3> DEFINE n == Strip(tcb[i], m)
    <3>1. n \in Segment /\ Part(m, n) /\ ("RST" \in m.fl => "RST" \in n.fl)
      BY <2>1, StripIs DEF Part
    <3> HIDE DEF n
    <3>2. Result(i, n)
      BY <2>3 DEF n
    <3> QED BY <1>3, <2>1, <2>3, <3>1, <3>2, ResultAgreed
  <2> QED BY <1>3, <2>2, <2>3
<1> QED BY <1>1, <1>2, <1>3, InputIs

LEMMA InitAgreed == Init => Agreed
<1> SUFFICES ASSUME Init PROVE Agreed
  OBVIOUS
<1>1. \A i \in Ends : tcb[i] = Free /\ tcb[Other(i)] = Free
  BY EndsAre DEF Init
<1>2. Hears(Free, {}, Free) /\ Nothing({}, Free)
  BY DEF Hears, Solo, Plausible, Nothing, Free, Joined, Synchronized
<1>3. \A i \in Ends : To(Other(i), net) = {}
  BY DEF Init, To
<1>4. \A i \in Ends : Half(i)
  BY <1>1, <1>2, <1>3 DEF Half
<1>5. tcb["b2"] = Free /\ isns \in [Hosts -> 0 .. 1]
  BY DEF Init, Ids
<1> QED BY <1>4, <1>5 DEF Agreed

LEMMA StepAgrees ==
    ASSUME \A h \in Hosts : MaxOpens[h] <= 1
    PROVE  Sane /\ Agreed /\ [Next]_vars => Agreed'
<1> SUFFICES ASSUME Sane, Agreed, [Next]_vars PROVE Agreed'
  OBVIOUS
<1>1. ASSUME NEW m \in net, tcp_input(m) PROVE Agreed'
  BY <1>1, InputAgreed
<1>2. CASE Timers
  BY <1>2, RetransmitIs, DeletemeIs, CalledAgreed DEF Timers
<1>3. ASSUME NEW i \in Ids, tcp_error(i) PROVE Agreed'
  BY <1>3, ErrorIs, CalledAgreed
<1>4. CASE Calls
  <2>1. ASSUME NEW i \in Ids,
               \/ tcp_connect(i) \/ tcp_accept(i) \/ tcp_detach(i)
               \/ tcp_shutdown(i) \/ tcp_send(i) \/ tcp_recv(i)
        PROVE  Agreed'
    BY <2>1, ConnectIs, BeginsAgreed, AcceptIs, DetachIs, ShutdownIs, WriteIs, RecvIs, CalledAgreed
  <2>2. CASE tcp_listen
    BY <2>2, QuietAgreed DEF tcp_listen, To
  <2> QED BY <1>4, <2>1, <2>2, CloseAgreed DEF Calls
<1>5. CASE Lose
  BY <1>5, QuietAgreed DEF Lose, To
<1>6. CASE UNCHANGED vars
  BY <1>6, QuietAgreed DEF vars, To
<1> QED BY <1>1, <1>2, <1>3, <1>4, <1>5, <1>6 DEF Next

LEMMA AlwaysAgreed ==
    ASSUME \A h \in Hosts : MaxOpens[h] <= 1
    PROVE  Spec => []Agreed
BY InitAgreed, InitSane, StepMoves, StepAgrees, AlwaysSane, PTL DEF Spec

LEMMA SaneTypes == Sane => TypeOK
<1> SUFFICES ASSUME Sane PROVE TypeOK
  OBVIOUS
<1>1. ASSUME NEW i \in Ids
      PROVE  /\ tcb[i].state \in States
             /\ \A f \in {"sock", "queued", "passive", "dead", "fin", "deltimer", "asleep"} :
                   tcb[i][f] \in BOOLEAN
             /\ \A f \in {"isn", "una", "write", "risn", "nxt", "seq_fin", "nretrans"} :
                   tcb[i][f] \in Nat
             /\ tcb[i].una <= tcb[i].write
             /\ tcb[i].got \subseteq Nat
             /\ tcb[i].state = "FREE" => tcb[i] = Free
  <2>1. Good(tcb[i])
    BY DEF Sane
  <2> DEFINE t == tcb[i]
  <2>2. t \in Block
    BY <2>1 DEF Good
  <2> HIDE DEF t
  <2>3. ASSUME NEW f \in {"sock", "queued", "passive", "dead", "fin", "deltimer", "asleep"}
        PROVE  t[f] \in BOOLEAN
    BY <2>2 DEF Block
  <2>4. ASSUME NEW f \in {"isn", "una", "write", "risn", "nxt", "seq_fin", "nretrans"}
        PROVE  t[f] \in Nat
    BY <2>2 DEF Block
  <2>5. t.state \in States /\ t.got \subseteq Nat
    BY <2>2 DEF Block
  <2> QED BY <2>1, <2>3, <2>4, <2>5 DEF t, Good
<1> QED BY <1>1 DEF Sane, TypeOK

LEMMA SaneQueue == Sane => QueueOwned /\ ReaderWoken
BY DEF Sane, Good, QueueOwned, ReaderWoken

\* Two ends that are paired are those of the one connection there is.
LEMMA PairedAre ==
    ASSUME Agreed, NEW i \in Ids, NEW j \in Ids, Paired(i, j)
    PROVE  i \in Ends /\ j = Other(i) /\ tcb[i].state \in Synchronized /\ tcb[j].state \in Synchronized
BY DEF Agreed, Paired, Ids, Ends, Other, Host, Free, Synchronized

LEMMA AgreedEnds == Sane /\ Agreed => EndsAgree
<1> SUFFICES ASSUME Sane, Agreed, NEW i \in Ids, NEW j \in Ids, Paired(i, j)
             PROVE  tcb[i].una <= tcb[j].nxt /\ tcb[j].nxt <= tcb[i].write
  BY DEF EndsAgree
<1>1. /\ i \in Ends /\ j \in Ends /\ j = Other(i) /\ i = Other(j)
      /\ tcb[i].state \in Synchronized /\ tcb[j].state \in Synchronized
  BY PairedAre, EndsAre
<1>2. /\ Hears(tcb[j], To(i, net), tcb[i]) /\ Hears(tcb[i], To(j, net), tcb[j])
  BY <1>1 DEF Agreed, Half
<1>3. tcb[i] \in Block /\ tcb[j] \in Block
  BY DEF Sane, Good
<1>4. Linked(tcb[j], To(i, net), tcb[i]) /\ Linked(tcb[i], To(j, net), tcb[j]) /\ Solo(tcb[j])
  BY <1>1, <1>2 DEF Hears, Synchronized
<1>5. /\ tcb[i].state \notin {"FREE", "CLOSED"} /\ tcb[j].state \in Joined
  BY <1>1 DEF Synchronized, Joined
<1>6. tcb[j].nxt <= tcb[i].write
  BY <1>4, <1>5 DEF Linked
<1>7. tcb[i].una = 1 \/ tcb[i].una <= tcb[j].nxt
  BY <1>4, <1>5 DEF Linked
<1>8. 2 <= tcb[j].nxt
  BY <1>4, <1>5 DEF Solo
<1>9. tcb[i].una \in Nat /\ tcb[j].nxt \in Nat
  BY <1>3 DEF Block
<1> QED BY <1>6, <1>7, <1>8, <1>9

LEMMA AgreedEof == Sane /\ Agreed => NoEarlyEof
<1> SUFFICES ASSUME Sane, Agreed, NEW i \in Ids, Allocated(i), Finished(tcb[i])
             PROVE  /\ tcb[i].risn + 1 .. tcb[i].seq_fin - 1 \subseteq tcb[i].got
                    /\ \A j \in Ids : Paired(i, j) => tcb[j].fin
  BY DEF NoEarlyEof
<1>1. i \in Ends /\ tcb[i] \in Block
  BY DEF Agreed, Allocated, Free, Ids, Ends, Sane, Good
<1>2. tcb[i].seq_fin \in Nat /\ tcb[i].nxt \in Nat /\ tcb[i].risn \in Nat
  BY <1>1 DEF Block
<1>3. Hears(tcb[Other(i)], To(i, net), tcb[i])
  BY <1>1, EndsAre DEF Agreed, Half
<1>4. \A k \in Nat : tcb[i].risn < k /\ k < tcb[i].nxt => k \in tcb[i].got \/ k = tcb[i].seq_fin
  BY <1>3 DEF Hears, Solo
<1>5. tcb[i].seq_fin # 0 /\ tcb[i].seq_fin < tcb[i].nxt
  BY DEF Finished
<1>6. tcb[i].risn + 1 .. tcb[i].seq_fin - 1 \subseteq tcb[i].got
  BY <1>2, <1>4, <1>5
<1>7. ASSUME NEW j \in Ids, Paired(i, j) PROVE tcb[j].fin
  <2>1. j = Other(i) /\ tcb[j].state # "FREE"
    BY <1>7, PairedAre DEF Synchronized
  <2> QED BY <1>3, <1>5, <2>1 DEF Hears, Linked
<1> QED BY <1>6, <1>7

\* The types of control blocks and segments, for any number of connections
THEOREM ConnTypeCorrect == Spec => []TypeOK
BY SaneTypes, AlwaysSane, PTL

\* A connection waits on the queue of a listener only while that listener is
\* open (so_release takes them all away), for any number of connections.
THEOREM QueueOwnedInvariant == Spec => []QueueOwned
BY SaneQueue, AlwaysSane, PTL

\* A process sleeps in tcp_recv on an established connection only: whatever
\* ends the connection wakes it, for any number of connections.
THEOREM ReaderWokenInvariant == Spec => []ReaderWoken
BY SaneQueue, AlwaysSane, PTL

\* The two ends of a connection that each host opens once agree about what was
\* sent and received, whatever the network loses, repeats and reorders.
THEOREM ConnInvariant ==
    ASSUME \A h \in Hosts : MaxOpens[h] <= 1
    PROVE  Spec => []ConnInv
<1>1. Sane /\ Agreed => ConnInv
  BY SaneTypes, SaneQueue, AgreedEnds DEF ConnInv
<1> QED BY <1>1, AlwaysSane, AlwaysAgreed, PTL

\* tcp_rcvdata takes a FIN into account once everything before it is there, and
\* takes nothing for a FIN that the peer has not sent.
THEOREM NoEarlyEofInvariant ==
    ASSUME \A h \in Hosts : MaxOpens[h] <= 1
    PROVE  Spec => []NoEarlyEof
BY AgreedEof, AlwaysSane, AlwaysAgreed, PTL

(***************************************************************************)
(* The input queue and reading: TcpRecv                                    *)
(***************************************************************************)

(***************************************************************************)
(* Least and greatest elements                                             *)
(***************************************************************************)
LEMMA MinIs ==
    ASSUME NEW S, S \subseteq Nat, S # {}
    PROVE  Min(S) \in S /\ \A y \in S : Min(S) <= y
<1>1. PICK x \in S : \A y \in S : ~(<<y, x>> \in OpToRel(<, Nat))
  BY NatLessThanWellFounded, WFMin
<1>2. \A y \in S : ~(y < x)
  BY <1>1 DEF OpToRel
<1>3. \A y \in S : x <= y
  BY <1>2
<1> QED BY <1>3 DEF Min

LEMMA MaxIs ==
    ASSUME NEW n \in Nat, NEW S, S \subseteq 0 .. n, S # {}
    PROVE  Max(S) \in S /\ \A y \in S : y <= Max(S)
<1> DEFINE T == {n - x : x \in S}
<1>1. T \subseteq Nat /\ T # {}
  <2>1. \A x \in S : n - x \in Nat
    OBVIOUS
  <2> QED BY <2>1
<1>2. Min(T) \in T /\ \A y \in T : Min(T) <= y
  BY <1>1, MinIs
<1>3. PICK x \in S : Min(T) = n - x
  BY <1>2
<1>4. \A y \in S : y <= x
  BY <1>2, <1>3
<1> QED BY <1>4 DEF Max

LEMMA MaxOfTwo ==
    ASSUME NEW x \in Int, NEW y \in Int
    PROVE  Max({x, y}) = IF x >= y THEN x ELSE y
<1>1. \E m \in {x, y} : \A k \in {x, y} : m >= k
  OBVIOUS
<1>2. Max({x, y}) \in {x, y} /\ \A k \in {x, y} : Max({x, y}) >= k
  BY <1>1 DEF Max
<1> QED BY <1>2

LEMMA MinOfTwo ==
    ASSUME NEW x \in Int, NEW y \in Int
    PROVE  Min({x, y}) = IF x <= y THEN x ELSE y
<1>1. \E m \in {x, y} : \A k \in {x, y} : m <= k
  OBVIOUS
<1>2. Min({x, y}) \in {x, y} /\ \A k \in {x, y} : Min({x, y}) <= k
  BY <1>1 DEF Min
<1> QED BY <1>2

(***************************************************************************)
(* The queue                                                               *)
(***************************************************************************)
Segs == [a : 0 .. Total, e : 0 .. Total]

\* In order, no segment is empty and none contains another one.
Queue(s) ==
    /\ s \in Seq(Segs)
    /\ \A k \in 1 .. Len(s) : s[k].a < s[k].e
    /\ \A j, k \in 1 .. Len(s) : j < k => s[j].a < s[k].a /\ s[j].e < s[k].e

LEMMA QueueElement ==
    ASSUME NEW s, Queue(s), NEW k \in 1 .. Len(s)
    PROVE  /\ s[k] \in Segs /\ s[k].a \in 0 .. Total /\ s[k].e \in 0 .. Total
           /\ s[k].a \in Nat /\ s[k].e \in Nat /\ s[k].a < s[k].e /\ s[k].e <= Total
<1>1. s[k] \in Segs /\ s[k].a < s[k].e
  BY DEF Queue
<1>2. s[k].a \in 0 .. Total /\ s[k].e \in 0 .. Total
  BY <1>1 DEF Segs
<1> QED BY <1>1, <1>2, RecvAssumption

LEMMA CoveredIs ==
    ASSUME NEW s, Queue(s), NEW x
    PROVE  x \in Covered(s) <=> x \in Nat /\ \E k \in 1 .. Len(s) : s[k].a <= x /\ x < s[k].e
<1>1. ASSUME NEW k \in 1 .. Len(s)
      PROVE  x \in s[k].a .. s[k].e - 1 <=> x \in Nat /\ s[k].a <= x /\ x < s[k].e
  <2>1. s[k].a \in Nat /\ s[k].e \in Nat
    BY QueueElement
  <2> QED BY <2>1
<1>2. x \in Covered(s) <=> \E k \in 1 .. Len(s) : x \in s[k].a .. s[k].e - 1
  BY DEF Covered
<1> QED BY <1>1, <1>2

\* s with g in the place of its segments l + 1 .. r - 1
Splice(s, g, l, r) == SubSeq(s, 1, l) \o <<g>> \o SubSeq(s, r, Len(s))

\* ... which is t
Spliced(t, s, g, l, r) ==
    /\ t \in Seq(Segs) /\ Len(t) = l + 1 + (Len(s) - r + 1)
    /\ \A k \in 1 .. l : t[k] = s[k]
    /\ t[l + 1] = g
    /\ \A k \in r .. Len(s) : t[l + 2 + (k - r)] = s[k]

LEMMA SpliceIs ==
    ASSUME NEW s \in Seq(Segs), NEW g \in Segs,
           NEW l \in Nat, NEW r \in Nat, 1 <= r, l <= Len(s), r <= Len(s) + 1
    PROVE  Spliced(Splice(s, g, l, r), s, g, l, r)
<1> DEFINE u == SubSeq(s, 1, l)
           v == SubSeq(s, r, Len(s))
           w == u \o <<g>>
           n == Len(s) - r + 1
<1>1. Len(s) \in Nat /\ \A k \in 1 .. Len(s) : s[k] \in Segs
  OBVIOUS
<1>2. u \in Seq(Segs) /\ Len(u) = l /\ \A k \in 1 .. l : u[k] = s[k]
  <2>1. \A k \in 1 .. l : s[k] \in Segs
    BY <1>1
  <2>2. /\ SubSeq(s, 1, l) \in Seq(Segs)
        /\ Len(SubSeq(s, 1, l)) = IF 1 <= l THEN l - 1 + 1 ELSE 0
        /\ \A k \in 1 .. l - 1 + 1 : SubSeq(s, 1, l)[k] = s[1 + k - 1]
    BY <2>1, SubSeqProperties
  <2>3. ASSUME NEW k \in 1 .. l PROVE SubSeq(s, 1, l)[k] = s[k]
    <3>1. k \in 1 .. l - 1 + 1 /\ 1 + k - 1 = k
      OBVIOUS
    <3> QED BY <2>2, <3>1
  <2> QED BY <2>2, <2>3
<1>3. /\ v \in Seq(Segs) /\ Len(v) = n
      /\ \A k \in 1 .. n : v[k] = s[r + k - 1]
  <2>1. \A k \in r .. Len(s) : s[k] \in Segs
    BY <1>1
  <2>2. /\ SubSeq(s, r, Len(s)) \in Seq(Segs)
        /\ Len(SubSeq(s, r, Len(s))) = IF r <= Len(s) THEN Len(s) - r + 1 ELSE 0
        /\ \A k \in 1 .. Len(s) - r + 1 : SubSeq(s, r, Len(s))[k] = s[r + k - 1]
    BY <1>1, <2>1, SubSeqProperties
  <2> QED BY <1>1, <2>2
<1> HIDE DEF u, v
<1>4. /\ w \in Seq(Segs) /\ Len(w) = l + 1
      /\ \A k \in 1 .. l : w[k] = s[k]
      /\ w[l + 1] = g
  <2>1. <<g>> \in Seq(Segs) /\ Len(<<g>>) = 1 /\ <<g>>[1] = g
    OBVIOUS
  <2>2. /\ w \in Seq(Segs) /\ Len(w) = Len(u) + Len(<<g>>)
        /\ \A k \in 1 .. Len(u) + Len(<<g>>) :
              w[k] = IF k <= Len(u) THEN u[k] ELSE <<g>>[k - Len(u)]
    BY <1>2, <2>1, ConcatProperties
  <2>3. w[l + 1] = g
    <3>1. l + 1 \in 1 .. Len(u) + Len(<<g>>) /\ ~(l + 1 <= Len(u)) /\ l + 1 - Len(u) = 1
      BY <1>2, <2>1
    <3> QED BY <2>1, <2>2, <3>1
  <2> QED BY <1>2, <2>1, <2>2, <2>3
<1> HIDE DEF w
<1>5. /\ w \o v \in Seq(Segs) /\ Len(w \o v) = Len(w) + Len(v)
      /\ \A k \in 1 .. Len(w) + Len(v) : (w \o v)[k] = IF k <= Len(w) THEN w[k] ELSE v[k - Len(w)]
  BY <1>3, <1>4, ConcatProperties
<1>6. Splice(s, g, l, r) = w \o v
  BY DEF Splice, u, v, w
<1>7. n \in Nat
  BY <1>1
<1> HIDE DEF n
<1>8. \A k \in 1 .. l + 1 : (w \o v)[k] = w[k]
  BY <1>3, <1>4, <1>5, <1>7
<1>9. \A k \in r .. Len(s) : (w \o v)[l + 2 + (k - r)] = s[k]
  <2>1. ASSUME NEW k \in r .. Len(s) PROVE (w \o v)[l + 2 + (k - r)] = s[k]
    <3> DEFINE i == k - r + 1
               m == l + 2 + (k - r)
    <3>1. i \in 1 .. n /\ r + i - 1 = k /\ m = l + 1 + i
      BY <1>1 DEF n
    <3> HIDE DEF i, m
    <3>2. m \in 1 .. Len(w) + Len(v) /\ ~(m <= Len(w)) /\ m - Len(w) = i
      BY <1>3, <1>4, <1>7, <3>1
    <3>3. (w \o v)[m] = v[i]
      BY <1>5, <3>2
    <3> QED BY <1>3, <3>1, <3>3 DEF m
  <2> QED BY <2>1
<1>10. Spliced(w \o v, s, g, l, r)
  <2>1. w \o v \in Seq(Segs)
    BY <1>5
  <2>2. Len(w \o v) = l + 1 + (Len(s) - r + 1)
    BY <1>3, <1>4, <1>5 DEF n
  <2>3. \A k \in 1 .. l : (w \o v)[k] = s[k]
    <3>1. \A k \in 1 .. l : k \in 1 .. l + 1
      OBVIOUS
    <3> QED BY <1>4, <1>8, <3>1
  <2>4. (w \o v)[l + 1] = g
    <3>1. l + 1 \in 1 .. l + 1
      OBVIOUS
    <3> QED BY <1>4, <1>8, <3>1
  <2> QED BY <1>9, <2>1, <2>2, <2>3, <2>4 DEF Spliced
<1> QED BY <1>6, <1>10

\* Where g fits into s: the segments it replaces lie within it.
Fits(s, g, l, r) ==
    /\ g \in Segs /\ g.a < g.e
    /\ l \in Nat /\ r \in Nat /\ l < r /\ r <= Len(s) + 1
    /\ \A k \in 1 .. l : s[k].a < g.a /\ s[k].e < g.e
    /\ \A k \in r .. Len(s) : g.a < s[k].a /\ g.e < s[k].e
    /\ \A k \in l + 1 .. r - 1 : g.a <= s[k].a /\ s[k].e <= g.e

LEMMA SpliceQueue ==
    ASSUME NEW s, Queue(s), NEW g, NEW l, NEW r, Fits(s, g, l, r)
    PROVE  /\ Queue(Splice(s, g, l, r))
           /\ \A x : x \in Covered(Splice(s, g, l, r)) <=> x \in Covered(s) \/ x \in g.a .. g.e - 1
           /\ l + 1 \in 1 .. Len(Splice(s, g, l, r)) /\ Splice(s, g, l, r)[l + 1] = g
<1> DEFINE t == Splice(s, g, l, r)
           At(k) == l + 2 + (k - r)
<1>1. /\ s \in Seq(Segs) /\ g \in Segs /\ g.a < g.e /\ l \in Nat /\ r \in Nat /\ Len(s) \in Nat
      /\ 1 <= r /\ l <= Len(s) /\ r <= Len(s) + 1 /\ l < r
  BY DEF Fits, Queue
<1>2. g.a \in Nat /\ g.e \in Nat
  <2>1. g.a \in 0 .. Total /\ g.e \in 0 .. Total
    BY <1>1 DEF Segs
  <2> QED BY <2>1, RecvAssumption
<1>3. /\ t \in Seq(Segs) /\ Len(t) = l + 1 + (Len(s) - r + 1)
      /\ \A k \in 1 .. l : t[k] = s[k]
      /\ t[l + 1] = g
      /\ \A k \in r .. Len(s) : t[At(k)] = s[k]
  <2>1. Spliced(Splice(s, g, l, r), s, g, l, r)
    BY <1>1, SpliceIs
  <2> QED BY <2>1 DEF Spliced
<1> HIDE DEF t
<1>4. ASSUME NEW k \in 1 .. Len(t)
      PROVE  k \in 1 .. l \/ k = l + 1 \/ \E i \in r .. Len(s) : k = At(i)
  <2>1. CASE k > l + 1
    <3> DEFINE i == r + (k - l - 2)
    <3>1. i \in r .. Len(s) /\ k = l + 2 + (i - r)
      BY <1>1, <1>3, <2>1
    <3> HIDE DEF i
    <3> QED BY <3>1
  <2> QED BY <1>1, <2>1
<1>5. \A i \in r .. Len(s) : At(i) \in l + 2 .. Len(t) /\ i \in 1 .. Len(s)
  BY <1>1, <1>3
<1>6. \A i \in 1 .. l : i \in 1 .. Len(s) /\ i \in 1 .. Len(t)
  BY <1>1, <1>3
<1>7. Queue(t)
  <2>1. ASSUME NEW k \in 1 .. Len(t) PROVE t[k].a < t[k].e
    <3>1. CASE k \in 1 .. l
      BY <1>3, <1>6, <3>1 DEF Queue
    <3>2. CASE k = l + 1
      BY <1>1, <1>3, <3>2
    <3>3. ASSUME NEW i \in r .. Len(s), k = At(i) PROVE t[k].a < t[k].e
      <4>1. t[k] = s[i] /\ i \in 1 .. Len(s)
        BY <1>3, <1>5, <3>3
      <4> QED BY <4>1 DEF Queue
    <3> QED BY <1>4, <3>1, <3>2, <3>3
  <2>2. ASSUME NEW j \in 1 .. Len(t), NEW k \in 1 .. Len(t), j < k
        PROVE  t[j].a < t[k].a /\ t[j].e < t[k].e
    <3>1. CASE j \in 1 .. l /\ k \in 1 .. l
      BY <1>3, <1>6, <2>2, <3>1 DEF Queue
    <3>2. CASE j \in 1 .. l /\ k = l + 1
      BY <1>3, <3>2 DEF Fits
    <3>3. ASSUME j \in 1 .. l, NEW i \in r .. Len(s), k = At(i)
          PROVE  t[j].a < t[k].a /\ t[j].e < t[k].e
      <4>1. t[k] = s[i] /\ t[j] = s[j] /\ i \in 1 .. Len(s) /\ j \in 1 .. Len(s) /\ j < i
        BY <1>1, <1>3, <1>5, <1>6, <3>3
      <4> QED BY <4>1 DEF Queue
    <3>4. ASSUME j = l + 1, NEW i \in r .. Len(s), k = At(i)
          PROVE  t[j].a < t[k].a /\ t[j].e < t[k].e
      <4>1. t[k] = s[i] /\ t[j] = g
        BY <1>3, <3>4
      <4> QED BY <4>1 DEF Fits
    <3>5. ASSUME NEW h \in r .. Len(s), j = At(h), NEW i \in r .. Len(s), k = At(i)
          PROVE  t[j].a < t[k].a /\ t[j].e < t[k].e
      <4>1. t[k] = s[i] /\ t[j] = s[h] /\ i \in 1 .. Len(s) /\ h \in 1 .. Len(s) /\ h < i
        BY <1>1, <1>3, <1>5, <2>2, <3>5
      <4> QED BY <4>1 DEF Queue
    <3>6. ~(j = l + 1 /\ k \in 1 .. l) /\ ~(j = l + 1 /\ k = l + 1)
      BY <1>1, <2>2
    <3>7. ASSUME NEW i \in r .. Len(s), j = At(i) PROVE ~(k \in 1 .. l) /\ k # l + 1
      BY <1>1, <1>5, <2>2, <3>7
    <3> QED BY <1>4, <3>1, <3>2, <3>3, <3>4, <3>5, <3>6, <3>7
  <2> QED BY <1>3, <2>1, <2>2 DEF Queue
<1>8. l + 1 \in 1 .. Len(t)
  BY <1>1, <1>3
<1>9. ASSUME NEW x, x \in Covered(t) PROVE x \in Covered(s) \/ x \in g.a .. g.e - 1
  <2>1. x \in Nat
    BY <1>7, <1>9, CoveredIs
  <2>2. PICK k \in 1 .. Len(t) : t[k].a <= x /\ x < t[k].e
    BY <1>7, <1>9, CoveredIs
  <2>3. CASE k \in 1 .. l
    BY <1>3, <1>6, <2>1, <2>2, <2>3, CoveredIs
  <2>4. CASE k = l + 1
    BY <1>2, <1>3, <2>1, <2>2, <2>4
  <2>5. ASSUME NEW i \in r .. Len(s), k = At(i) PROVE x \in Covered(s)
    <3>1. i \in 1 .. Len(s) /\ t[k] = s[i]
      BY <1>3, <1>5, <2>5
    <3> QED BY <2>1, <2>2, <3>1, CoveredIs
  <2> QED BY <1>4, <2>3, <2>4, <2>5
<1>10. ASSUME NEW x, x \in g.a .. g.e - 1 PROVE x \in Covered(t)
  <2>1. x \in Nat /\ t[l + 1].a <= x /\ x < t[l + 1].e
    BY <1>2, <1>3, <1>10
  <2> QED BY <1>7, <1>8, <2>1, CoveredIs
<1>11. ASSUME NEW x, x \in Covered(s) PROVE x \in Covered(t)
  <2>1. x \in Nat
    BY <1>11, CoveredIs
  <2>2. PICK k \in 1 .. Len(s) : s[k].a <= x /\ x < s[k].e
    BY <1>11, CoveredIs
  <2>3. CASE k \in 1 .. l
    BY <1>3, <1>6, <1>7, <2>1, <2>2, <2>3, CoveredIs
  <2>4. CASE k \in l + 1 .. r - 1
    <3>1. g.a <= s[k].a /\ s[k].e <= g.e /\ s[k].a \in Nat /\ s[k].e \in Nat
      BY <2>4, QueueElement DEF Fits
    <3>2. x \in g.a .. g.e - 1
      BY <1>2, <2>1, <2>2, <3>1
    <3> QED BY <1>10, <3>2
  <2>5. CASE k \in r .. Len(s)
    <3>1. At(k) \in 1 .. Len(t) /\ t[At(k)] = s[k]
      BY <1>1, <1>3, <1>5, <2>5
    <3> QED BY <1>7, <2>1, <2>2, <3>1, CoveredIs
  <2> QED BY <1>1, <2>3, <2>4, <2>5
<1> QED BY <1>3, <1>7, <1>8, <1>9, <1>10, <1>11 DEF t

\* The segments i .. k of s follow each other without a gap.
Adjoining(s, i, k) == \A j \in i + 1 .. k : s[j].a <= s[j-1].e

LEMMA RunCovered ==
    ASSUME NEW s, Queue(s), NEW i \in 1 .. Len(s), NEW k \in 1 .. Len(s), Adjoining(s, i, k),
           NEW x \in Nat, s[i].a <= x, x < s[k].e, i <= k
    PROVE  x \in Covered(s)
<1> DEFINE S == {j \in i .. k : x < s[j].e}
<1>1. S \subseteq Nat /\ k \in S
  OBVIOUS
<1>2. PICK j \in S : \A y \in S : j <= y
  BY <1>1, MinIs
<1>3. j \in i .. k /\ x < s[j].e /\ j \in 1 .. Len(s)
  BY <1>2
<1>4. s[j].a <= x
  <2>1. CASE j = i
    BY <2>1
  <2>2. CASE j # i
    <3>1. j - 1 \in i .. k /\ j \in i + 1 .. k /\ j - 1 \in 1 .. Len(s)
      BY <1>3, <2>2
    <3>2. j - 1 \notin S
      BY <1>2, <3>1
    <3>3. s[j-1].e <= x
      <4>1. s[j-1].e \in Nat
        BY <3>1, QueueElement
      <4> QED BY <3>1, <3>2, <4>1
    <3>4. s[j].a <= s[j-1].e /\ s[j].a \in Nat /\ s[j-1].e \in Nat
      BY <1>3, <3>1, QueueElement DEF Adjoining
    <3> QED BY <3>3, <3>4
  <2> QED BY <2>1, <2>2
<1> QED BY <1>3, <1>4, CoveredIs

\* The end e of a run is not covered if there is a gap behind it.
LEMMA RunEnds ==
    ASSUME NEW s, Queue(s), NEW k \in 1 .. Len(s),
           k + 1 \in 1 .. Len(s) => s[k].e < s[k+1].a
    PROVE  s[k].e \notin Covered(s)
<1> SUFFICES ASSUME NEW j \in 1 .. Len(s), s[j].a <= s[k].e, s[k].e < s[j].e
             PROVE  FALSE
  BY CoveredIs
<1>0. /\ Len(s) \in Nat /\ s[k].a \in Nat /\ s[k].e \in Nat /\ s[j].a \in Nat /\ s[j].e \in Nat
  BY QueueElement DEF Queue
<1>1. ~(j <= k)
  BY <1>0 DEF Queue
<1>2. k + 1 \in 1 .. Len(s)
  BY <1>0, <1>1
<1>3. s[k+1].a <= s[j].a
  <2>1. CASE j = k + 1
    BY <1>0, <2>1
  <2>2. CASE j # k + 1
    <3>1. k + 1 < j /\ s[k+1].a \in Nat
      BY <1>0, <1>1, <1>2, <2>2, QueueElement
    <3> QED BY <1>0, <1>2, <3>1 DEF Queue
  <2> QED BY <2>1, <2>2
<1>4. s[k+1].a \in Nat
  BY <1>2, QueueElement
<1> QED BY <1>0, <1>2, <1>3, <1>4

\* Where the octets end that follow n
StopsAt(s, g, n, f) ==
    \/ n < g.a /\ f = n
    \/ /\ g.a <= n /\ f \in Nat /\ g.e <= f /\ f <= Total /\ f \notin Covered(s)
       /\ \A x \in Nat : g.a <= x /\ x < f => x \in Covered(s)

LEMMA FollowIs ==
    ASSUME NEW s, Queue(s), NEW p \in 1 .. Len(s), NEW n \in Nat
    PROVE  StopsAt(s, s[p], n, Follow(s, s[p], n))
<1> DEFINE g == s[p]
           run == {k \in p .. Len(s) :
                     /\ s[p].a <= n
                     /\ \A j \in p + 1 .. k : s[j].a <= s[j-1].e}
<1>0. Len(s) \in Nat /\ g.a \in Nat /\ g.e \in Nat
  BY QueueElement DEF Queue
<1>1. \A k \in 1 .. Len(s) : s[k] = g => k = p
  <2>1. ASSUME NEW k \in 1 .. Len(s), s[k] = g, k # p PROVE FALSE
    <3>1. k < p \/ p < k
      BY <2>1
    <3> QED BY <1>0, <2>1, <3>1 DEF Queue
  <2> QED BY <2>1
<1>2. (CHOOSE k \in 1 .. Len(s) : s[k] = g) = p
  BY <1>1
<1>3. Follow(s, g, n) = IF run = {} THEN n ELSE s[Max(run)].e
  BY <1>2 DEF Follow
<1>4. CASE n < g.a
  <2>1. run = {}
    BY <1>0, <1>4
  <2> QED BY <1>3, <1>4, <2>1 DEF StopsAt
<1>5. CASE g.a <= n
  <2>1. p \in run
    BY <1>0, <1>5
  <2>2. run \subseteq 0 .. Len(s)
    OBVIOUS
  <2>3. PICK k \in run : k = Max(run) /\ \A y \in run : y <= k
    BY <1>0, <2>1, <2>2, MaxIs
  <2>4. k \in p .. Len(s) /\ k \in 1 .. Len(s) /\ Adjoining(s, p, k)
    BY <2>3 DEF Adjoining
  <2>5. s[k].e \in Nat /\ s[k].e <= Total /\ g.e <= s[k].e
    BY <2>4, QueueElement DEF Queue
  <2>6. \A x \in Nat : g.a <= x /\ x < s[k].e => x \in Covered(s)
    BY <2>4, RunCovered
  <2>7. k + 1 \in 1 .. Len(s) => s[k].e < s[k+1].a
    <3> SUFFICES ASSUME k + 1 \in 1 .. Len(s), s[k+1].a <= s[k].e PROVE FALSE
      BY <2>5, QueueElement
    <3>1. \A j \in p + 1 .. k + 1 : s[j].a <= s[j-1].e
      BY <2>4 DEF Adjoining
    <3>2. k + 1 \in run
      BY <1>5, <2>4, <3>1
    <3> HIDE DEF run
    <3>3. k + 1 <= k
      BY <2>3, <3>2
    <3> QED BY <2>4, <3>3
  <2>8. s[k].e \notin Covered(s)
    BY <2>4, <2>7, RunEnds
  <2>9. Follow(s, g, n) = s[k].e
    BY <1>3, <2>1, <2>3
  <2> HIDE DEF run
  <2> QED BY <1>5, <2>5, <2>6, <2>8, <2>9 DEF StopsAt
<1> QED BY <1>0, <1>4, <1>5

LEMMA QueueOrder ==
    ASSUME NEW s, Queue(s), NEW j \in 1 .. Len(s), NEW k \in 1 .. Len(s), j <= k
    PROVE  s[j].a <= s[k].a /\ s[j].e <= s[k].e
<1>1. s[j].a \in Nat /\ s[j].e \in Nat /\ s[k].a \in Nat /\ s[k].e \in Nat
  BY QueueElement
<1>2. CASE j = k
  BY <1>1, <1>2
<1>3. CASE j < k
  BY <1>1, <1>3 DEF Queue
<1> QED BY <1>2, <1>3

\* tcp_addseg looks for a place p such that no segment before p reaches beyond g
\* and those from p on begin behind the beginning of g.
Placed(g, p) ==
    /\ p \in Nat /\ 1 <= p /\ p <= Len(q) + 1
    /\ \A k \in 1 .. p - 1 : q[k].e < g.e
    /\ \A k \in p .. Len(q) : g.a < q[k].a

LEMMA PlaceIs ==
    ASSUME Queue(q), NEW g \in Segs
    PROVE  Place(g) = 0 \/ Placed(g, Place(g))
<1> DEFINE holes == {k \in 2 .. Len(q) : /\ q[k-1].e < q[k].a
                                         /\ g.a < q[k].a /\ q[k-1].e < g.e}
<1>1. Len(q) \in Nat /\ (q = <<>> <=> Len(q) = 0)
  BY DEF Queue
<1>2. g.a \in Nat /\ g.e \in Nat
  <2>1. g.a \in 0 .. Total /\ g.e \in 0 .. Total
    BY DEF Segs
  <2> QED BY <2>1, RecvAssumption
<1>3. CASE q = <<>>
  <2>1. Place(g) = 1
    BY <1>3 DEF Place
  <2> QED BY <1>1, <1>3, <2>1 DEF Placed
<1>4. CASE q # <<>> /\ q[Len(q)].e < g.e
  <2>0. ~(q[Len(q)].e >= g.e)
    BY <1>1, <1>2, <1>4, QueueElement
  <2>1. Place(g) = Len(q) + 1
    BY <1>4, <2>0 DEF Place
  <2>2. ASSUME NEW k \in 1 .. Len(q) PROVE q[k].e < g.e
    <3>1. q[k].e <= q[Len(q)].e /\ q[k].e \in Nat /\ q[Len(q)].e \in Nat
      BY <1>1, QueueOrder, QueueElement
    <3> QED BY <1>2, <1>4, <3>1
  <2> QED BY <1>1, <2>1, <2>2 DEF Placed
<1>5. CASE q # <<>> /\ ~(q[Len(q)].e < g.e) /\ g.a < q[1].a
  <2>0. q[Len(q)].e >= g.e
    BY <1>1, <1>2, <1>5, QueueElement
  <2>1. Place(g) = 1
    BY <1>5, <2>0 DEF Place
  <2>2. ASSUME NEW k \in 1 .. Len(q) PROVE g.a < q[k].a
    <3>1. q[1].a <= q[k].a /\ q[k].a \in Nat /\ q[1].a \in Nat
      BY <1>1, QueueOrder, QueueElement
    <3> QED BY <1>2, <1>5, <3>1
  <2> QED BY <1>1, <2>1, <2>2 DEF Placed
<1>6. CASE q # <<>> /\ ~(q[Len(q)].e < g.e) /\ ~(g.a < q[1].a)
  <2>1. Place(g) = IF holes = {} THEN 0 ELSE Max(holes)
    BY <1>6 DEF Place
  <2>2. CASE holes = {}
    BY <2>1, <2>2
  <2>3. CASE holes # {}
    <3>1. holes \subseteq 0 .. Len(q)
      OBVIOUS
    <3>2. Place(g) \in holes
      BY <1>1, <2>1, <2>3, <3>1, MaxIs
    <3> DEFINE p == Place(g)
    <3>3. p \in 2 .. Len(q) /\ g.a < q[p].a /\ q[p-1].e < g.e /\ p - 1 \in 1 .. Len(q)
      BY <1>1, <3>2
    <3> HIDE DEF p, holes
    <3>4. ASSUME NEW k \in 1 .. p - 1 PROVE q[k].e < g.e
      <4>1. q[k].e <= q[p-1].e /\ q[k].e \in Nat /\ q[p-1].e \in Nat
        BY <1>1, <3>3, QueueOrder, QueueElement
      <4> QED BY <1>2, <3>3, <4>1
    <3>5. ASSUME NEW k \in p .. Len(q) PROVE g.a < q[k].a
      <4>1. q[p].a <= q[k].a /\ q[k].a \in Nat /\ q[p].a \in Nat
        BY <1>1, <3>3, QueueOrder, QueueElement
      <4> QED BY <1>2, <3>3, <4>1
    <3>6. Placed(g, p)
      BY <1>1, <3>3, <3>4, <3>5 DEF Placed
    <3> QED BY <3>6 DEF p
  <2> QED BY <2>2, <2>3
<1> QED BY <1>3, <1>4, <1>5, <1>6

LEMMA InsertedIs ==
    ASSUME Queue(q), NEW g \in Segs, g.a < g.e, NEW p, Placed(g, p)
    PROVE  \E l, r \in Nat : Fits(q, g, l, r) /\ Inserted(g, p) = Splice(q, g, l, r)
<1> DEFINE left  == {k \in 1 .. p - 1 : q[k].a < g.a}
           right == {k \in p .. Len(q) : q[k].e > g.e}
<1>1. Len(q) \in Nat /\ p \in Nat /\ 1 <= p /\ p <= Len(q) + 1
  BY DEF Queue, Placed
<1>2. g.a \in Nat /\ g.e \in Nat
  <2>1. g.a \in 0 .. Total /\ g.e \in 0 .. Total
    BY DEF Segs
  <2> QED BY <2>1, RecvAssumption
<1>3. PICK l \in left \cup {0} : l = Max(left \cup {0}) /\ \A y \in left \cup {0} : y <= l
  <2>1. left \cup {0} \subseteq 0 .. p /\ left \cup {0} # {}
    BY <1>1
  <2> QED BY <1>1, <2>1, MaxIs
<1>4. PICK r \in right \cup {Len(q) + 1} :
          r = Min(right \cup {Len(q) + 1}) /\ \A y \in right \cup {Len(q) + 1} : r <= y
  <2>1. right \cup {Len(q) + 1} \subseteq Nat /\ right \cup {Len(q) + 1} # {}
    BY <1>1
  <2> QED BY <2>1, MinIs
<1>5. Inserted(g, p) = Splice(q, g, l, r)
  BY <1>3, <1>4 DEF Inserted, Splice
<1>6. /\ l \in 0 .. p - 1 /\ (l # 0 => q[l].a < g.a)
      /\ r \in p .. Len(q) + 1 /\ (r # Len(q) + 1 => q[r].e > g.e)
      /\ \A k \in 1 .. p - 1 : q[k].a < g.a => k <= l
      /\ \A k \in p .. Len(q) : q[k].e > g.e => r <= k
  BY <1>1, <1>3, <1>4
<1> HIDE DEF left, right
<1>7. ASSUME NEW k \in 1 .. l PROVE q[k].a < g.a /\ q[k].e < g.e
  <2>1. k \in 1 .. Len(q) /\ l \in 1 .. Len(q) /\ k <= l /\ k \in 1 .. p - 1
    BY <1>1, <1>6
  <2>2. q[k].a <= q[l].a /\ q[k].a \in Nat /\ q[l].a \in Nat
    BY <2>1, QueueOrder, QueueElement
  <2> QED BY <1>2, <1>6, <2>1, <2>2 DEF Placed
<1>8. ASSUME NEW k \in r .. Len(q) PROVE g.a < q[k].a /\ g.e < q[k].e
  <2>1. k \in 1 .. Len(q) /\ r \in 1 .. Len(q) /\ r <= k /\ k \in p .. Len(q) /\ r # Len(q) + 1
    BY <1>1, <1>6
  <2>2. q[r].e <= q[k].e /\ q[k].e \in Nat /\ q[r].e \in Nat
    BY <2>1, QueueOrder, QueueElement
  <2> QED BY <1>2, <1>6, <2>1, <2>2 DEF Placed
<1>9. ASSUME NEW k \in l + 1 .. r - 1 PROVE g.a <= q[k].a /\ q[k].e <= g.e
  <2>1. k \in 1 .. Len(q)
    BY <1>1, <1>6
  <2>2. q[k].a \in Nat /\ q[k].e \in Nat
    BY <2>1, QueueElement
  <2>3. CASE k <= p - 1
    <3>1. k \in 1 .. p - 1 /\ ~(k <= l)
      BY <1>6, <2>1, <2>3
    <3> QED BY <1>2, <1>6, <2>2, <3>1 DEF Placed
  <2>4. CASE p <= k
    <3>1. k \in p .. Len(q) /\ ~(r <= k)
      BY <1>6, <2>1, <2>4
    <3> QED BY <1>2, <1>6, <2>2, <3>1 DEF Placed
  <2> QED BY <1>1, <2>1, <2>3, <2>4
<1>10. l \in Nat /\ r \in Nat /\ l < r /\ r <= Len(q) + 1
  BY <1>1, <1>6
<1>11. Fits(q, g, l, r)
  BY <1>7, <1>8, <1>9, <1>10 DEF Fits
<1> QED BY <1>5, <1>10, <1>11

(***************************************************************************)
(* The invariant                                                           *)
(***************************************************************************)
\* rcv_nxt is n: everything before it is there, and it is not.
Front(r, s, n) ==
    /\ n \in Nat /\ r \in Nat /\ n <= Total /\ r <= n
    /\ n \notin Covered(s)
    /\ \A x \in Nat : r <= x /\ x < n => x \in Covered(s)

\* ... and the same once the FIN has been taken in
Complete(r, s, n) ==
    /\ n = Total + 1 /\ r \in Nat /\ r <= Total
    /\ \A x \in Nat : r <= x /\ x < Total => x \in Covered(s)

\* The inductive invariant
RecvInv ==
    /\ Queue(q)
    /\ cur \in Int /\ wnd \in Nat /\ acked \in Nat /\ acked <= nxt
    /\ fin \in BOOLEAN /\ delack \in BOOLEAN
    /\ \/ state = "ESTABLISHED" /\ Front(read, q, nxt) /\ (fin => nxt # Total)
       \/ state = "CLOSEWAIT" /\ Complete(read, q, nxt)
    /\ AckPending /\ WindowReopens

\* One step of the stream
StreamStep == [Stream!Arrive \/ Stream!Read]_<<Arrived, read>>

\* The window never moves back, and is the whole buffer when nothing is queued.
LEMMA WindowIs ==
    ASSUME NEW c \in Int, NEW n \in Nat, wnd \in Nat
    PROVE  /\ tcp_rcvwnd(c, n) \in Int /\ wnd - n <= tcp_rcvwnd(c, n)
           /\ c = 0 => MaxBuf <= tcp_rcvwnd(c, n)
<1> DEFINE space == MaxBuf - c
           x == IF space < Mss /\ space * 4 < MaxBuf THEN 0 ELSE space
<1>1. MaxBuf \in Nat /\ Mss \in Nat /\ MaxBuf # 0
  BY RecvAssumption
<1>2. x \in Int
  BY <1>1
<1>3. tcp_rcvwnd(c, n) = Max({x, wnd - n})
  BY DEF tcp_rcvwnd
<1>4. c = 0 => x = MaxBuf
  BY <1>1
<1> HIDE DEF x
<1>5. Max({x, wnd - n}) = IF x >= wnd - n THEN x ELSE wnd - n
  BY <1>2, MaxOfTwo
<1> QED BY <1>1, <1>2, <1>3, <1>4, <1>5

LEMMA SendAckIs ==
    ASSUME NEW c \in Int, NEW n \in Nat, wnd \in Nat, SendAck(c, n)
    PROVE  /\ wnd' \in Nat /\ wnd <= wnd' /\ acked' = n /\ delack' = FALSE
           /\ c = 0 => n + MaxBuf <= wnd'
<1> DEFINE w == tcp_rcvwnd(c, n)
<1>1. w \in Int /\ wnd - n <= w /\ (c = 0 => MaxBuf <= w)
  BY WindowIs
<1>2. wnd' = n + w /\ acked' = n /\ delack' = FALSE
  BY DEF SendAck
<1> HIDE DEF w
<1>3. MaxBuf \in Nat
  BY RecvAssumption
<1> QED BY <1>1, <1>2, <1>3

LEMMA AddFront ==
    ASSUME Queue(q), Front(read, q, nxt), NEW g \in Segs, g.a < g.e, nxt <= g.e, Place(g) # 0,
           NEW s, s = Inserted(g, Place(g)), NEW n, n = Follow(s, g, nxt)
    PROVE  /\ Queue(s) /\ s # <<>>
           /\ \A x : x \in Covered(s) <=> x \in Covered(q) \/ x \in g.a .. g.e - 1
           /\ Front(read, s, n) /\ nxt <= n
<1>1. g.a \in Nat /\ g.e \in Nat /\ nxt \in Nat /\ read \in Nat /\ read <= nxt /\ nxt <= Total /\ Total \in Nat
  <2>1. g.a \in 0 .. Total /\ g.e \in 0 .. Total
    BY DEF Segs
  <2> QED BY <2>1, RecvAssumption DEF Front
<1>2. Placed(g, Place(g))
  BY PlaceIs
<1>3. PICK l, r \in Nat : Fits(q, g, l, r) /\ Inserted(g, Place(g)) = Splice(q, g, l, r)
  BY <1>2, InsertedIs
<1>4. /\ Queue(s) /\ l + 1 \in 1 .. Len(s) /\ s[l + 1] = g
      /\ \A x : x \in Covered(s) <=> x \in Covered(q) \/ x \in g.a .. g.e - 1
  BY <1>3, SpliceQueue
<1>5. s # <<>>
  BY <1>4
<1>6. StopsAt(s, g, nxt, n)
  BY <1>1, <1>4, FollowIs
<1>7. CASE nxt < g.a /\ n = nxt
  <2>1. nxt \notin Covered(s)
    BY <1>1, <1>4, <1>7 DEF Front
  <2>2. Front(read, s, n)
    BY <1>4, <1>7, <2>1 DEF Front
  <2> QED BY <1>1, <1>4, <1>5, <1>7, <2>2
<1>8. CASE /\ g.a <= nxt /\ n \in Nat /\ g.e <= n /\ n <= Total /\ n \notin Covered(s)
           /\ \A x \in Nat : g.a <= x /\ x < n => x \in Covered(s)
  <2>1. nxt <= n
    BY <1>1, <1>8
  <2>2. ASSUME NEW x \in Nat, read <= x, x < n PROVE x \in Covered(s)
    <3>1. CASE x < nxt
      BY <1>4, <2>2, <3>1 DEF Front
    <3>2. CASE nxt <= x
      BY <1>1, <1>8, <2>2, <3>2
    <3> QED BY <1>1, <3>1, <3>2
  <2>3. Front(read, s, n)
    BY <1>1, <1>8, <2>1, <2>2 DEF Front
  <2> QED BY <1>4, <1>5, <2>1, <2>3
<1> QED BY <1>6, <1>7, <1>8 DEF StopsAt

LEMMA CountedIs ==
    ASSUME Queue(q), cur \in Int, NEW g \in Segs
    PROVE  Counted(g) \in Int
<1>1. g.a \in Int /\ g.e \in Int
  BY RecvAssumption DEF Segs
<1>2. Len(q) \in Nat /\ (q = <<>> <=> Len(q) = 0)
  BY DEF Queue
<1>3. CASE q = <<>>
  BY <1>1, <1>3 DEF Counted
<1>4. CASE q # <<>>
  <2>1. q[1].a \in Nat /\ q[Len(q)].e \in Nat
    BY <1>2, <1>4, QueueElement
  <2> QED BY <1>1, <1>4, <2>1 DEF Counted
<1> QED BY <1>3, <1>4

LEMMA ReceiveStep ==
    ASSUME RecvInv, state = "ESTABLISHED", NEW a \in 0 .. Total, NEW e \in 0 .. Total,
           NEW f \in BOOLEAN, a <= e, Receive(a, e, f)
    PROVE  RecvInv' /\ wnd <= wnd' /\ StreamStep
<1> DEFINE g      == [a |-> a, e |-> e]
           added  == a < e /\ Place(g) > 0
           s      == IF added THEN Inserted(g, Place(g)) ELSE q
           c      == IF added THEN Counted(g) ELSE cur
           n      == IF added THEN Follow(s, g, nxt) ELSE nxt
           isfin  == fin \/ KeepsFin(e, f)
           end    == isfin /\ n = Total
           m      == IF end THEN n + 1 ELSE n
           acknow == end \/ ~added \/ a # nxt \/ n - nxt # e - a
<1>1. /\ Acceptable(a, e, f)
      /\ q' = s /\ cur' = c /\ nxt' = m /\ fin' = isfin
      /\ state' = IF isfin /\ Total < m THEN "CLOSEWAIT" ELSE state
      /\ IF a < e \/ KeepsFin(e, f)
         THEN IF acknow \/ delack THEN SendAck(c, m)
              ELSE delack' = TRUE /\ UNCHANGED <<wnd, acked>>
         ELSE NoAck
      /\ read' = read
  BY DEF Receive
<1>2. /\ Queue(q) /\ cur \in Int /\ wnd \in Nat /\ acked \in Nat /\ acked <= nxt
      /\ fin \in BOOLEAN /\ delack \in BOOLEAN /\ Front(read, q, nxt) /\ (fin => nxt # Total)
      /\ AckPending /\ WindowReopens
  BY DEF RecvInv
<1>3. /\ Total \in Nat /\ a \in Nat /\ e \in Nat /\ a <= Total /\ e <= Total
      /\ nxt \in Nat /\ nxt <= Total /\ read \in Nat /\ read <= nxt
  BY <1>2, RecvAssumption DEF Front
<1>4. g \in Segs /\ g.a = a /\ g.e = e
  BY DEF Segs
<1>5. a < e => nxt <= e
  <2>1. SUFFICES ASSUME a < e PROVE nxt <= e
    OBVIOUS
  <2>2. CASE tcp_rcvwnd(cur, nxt) > 0
    BY <1>1, <1>3, <2>1, <2>2 DEF Acceptable
  <2>3. CASE ~(tcp_rcvwnd(cur, nxt) > 0)
    BY <1>1, <1>3, <2>1, <2>3 DEF Acceptable
  <2> QED BY <2>2, <2>3
<1>6. /\ Queue(s) /\ c \in Int /\ Front(read, s, n) /\ nxt <= n
      /\ added => s # <<>>
      /\ \A x : x \in Covered(s) <=> x \in Covered(q) \/ (added /\ x \in a .. e - 1)
  <2>1. CASE added
    <3>1. s = Inserted(g, Place(g)) /\ c = Counted(g) /\ n = Follow(s, g, nxt) /\ Place(g) # 0
      BY <2>1
    <3> HIDE DEF s, c, n
    <3>2. c \in Int
      BY <1>2, <1>4, <3>1, CountedIs
    <3> HIDE DEF g
    <3>3. /\ Queue(s) /\ s # <<>>
          /\ \A x : x \in Covered(s) <=> x \in Covered(q) \/ x \in g.a .. g.e - 1
          /\ Front(read, s, n) /\ nxt <= n
      BY <1>2, <1>4, <1>5, <2>1, <3>1, AddFront
    <3> QED BY <1>4, <2>1, <3>2, <3>3
  <2>2. CASE ~added
    BY <1>2, <1>3, <2>2
  <2> QED BY <2>1, <2>2
<1>7. ~added => s = q /\ n = nxt
  OBVIOUS
<1>8. isfin \in BOOLEAN /\ added \in BOOLEAN
  BY <1>2 DEF KeepsFin
<1>9. ~(a < e) => ~added
  OBVIOUS
<1> HIDE DEF s, c, n, isfin, added, g
<1>10. n \in Nat /\ n <= Total
  BY <1>6 DEF Front
<1>11. m \in Nat /\ nxt <= m /\ n <= m
  BY <1>3, <1>6, <1>10
<1>12. ~end => m = n /\ m <= Total
  BY <1>10
<1>13. end => m = Total + 1
  BY <1>3
<1> HIDE DEF m
<1>14. /\ wnd' \in Nat /\ wnd <= wnd' /\ acked' \in Nat /\ acked' <= m /\ delack' \in BOOLEAN
       /\ acked' = m \/ delack'
  <2>1. CASE SendAck(c, m)
    <3>1. m \in Nat /\ c \in Int /\ wnd \in Nat
      BY <1>2, <1>6, <1>11
    <3>2. wnd' \in Nat /\ wnd <= wnd' /\ acked' = m /\ delack' = FALSE
      BY <2>1, <3>1, SendAckIs
    <3>3. acked' \in Nat /\ acked' <= m
      BY <3>1, <3>2
    <3>4. delack' \in BOOLEAN
      BY <3>2
    <3> QED BY <3>2, <3>3, <3>4
  <2>2. CASE delack' = TRUE /\ UNCHANGED <<wnd, acked>>
    BY <1>2, <1>3, <1>11, <2>2
  <2>3. CASE NoAck /\ ~(a < e \/ KeepsFin(e, f))
    <3>1. n = nxt /\ ~end
      <4>1. n = nxt /\ isfin = fin
        BY <1>2, <1>7, <1>9, <2>3 DEF isfin, KeepsFin
      <4> QED BY <1>2, <4>1
    <3>2. m = nxt
      BY <1>12, <3>1
    <3>3. UNCHANGED <<wnd, acked, delack>>
      BY <2>3 DEF NoAck
    <3> QED BY <1>2, <3>2, <3>3 DEF AckPending
  <2> QED BY <1>1, <2>1, <2>2, <2>3
<1>15. \/ state' = "ESTABLISHED" /\ Front(read', q', nxt') /\ (fin' => nxt' # Total)
       \/ state' = "CLOSEWAIT" /\ Complete(read', q', nxt')
  <2>1. CASE end
    <3>1. state' = "CLOSEWAIT"
      BY <1>1, <1>3, <1>13, <2>1
    <3>2. Complete(read', q', nxt')
      BY <1>1, <1>3, <1>6, <1>13, <2>1 DEF Complete, Front
    <3> QED BY <3>1, <3>2
  <2>2. CASE ~end
    <3>1. state' = "ESTABLISHED"
      BY <1>1, <1>3, <1>11, <1>12, <2>2
    <3>2. Front(read', q', nxt')
      BY <1>1, <1>6, <1>12, <2>2
    <3>3. fin' => nxt' # Total
      BY <1>1, <1>12, <2>2
    <3> QED BY <3>1, <3>2, <3>3
  <2> QED BY <2>1, <2>2
<1>16. WindowReopens'
  <2>1. SUFFICES ASSUME q' = <<>>, state' # "CLOSEWAIT" PROVE wnd' > nxt'
    BY DEF WindowReopens
  <2>2. q = <<>> /\ n = nxt /\ ~end
    BY <1>1, <1>3, <1>6, <1>7, <1>13, <2>1
  <2>3. wnd > nxt
    BY <1>2, <2>2 DEF WindowReopens
  <2> QED BY <1>1, <1>2, <1>3, <1>12, <1>14, <2>2, <2>3
<1>17. Queue(q') /\ cur' \in Int /\ fin' \in BOOLEAN /\ AckPending'
  BY <1>1, <1>6, <1>8, <1>14 DEF AckPending
<1>18. RecvInv'
  BY <1>1, <1>14, <1>15, <1>16, <1>17 DEF RecvInv, Queue
<1>19. StreamStep
  <2>1. \A x : x \in Arrived' <=> x \in Arrived \/ (added /\ x \in a .. e - 1)
    BY <1>1, <1>6 DEF Arrived
  <2>2. Arrived' = Arrived \/ (a < e /\ Arrived' = Arrived \cup (a .. e - 1))
    <3>1. CASE added
      BY <1>9, <2>1, <3>1
    <3>2. CASE ~added
      BY <2>1, <3>2
    <3> QED BY <3>1, <3>2
  <2>3. CASE Arrived' = Arrived
    BY <1>1, <2>3 DEF StreamStep
  <2>4. CASE Arrived' # Arrived
    BY <1>1, <2>2, <2>4 DEF StreamStep, Stream!Arrive
  <2> QED BY <2>3, <2>4
<1> QED BY <1>14, <1>18, <1>19

\* An acknowledgement of what is there: an answer to an unacceptable segment, or
\* the one that was delayed
LEMMA AnswerStep ==
    ASSUME RecvInv, SendAck(cur, nxt), UNCHANGED <<q, cur, nxt, read, fin, state>>
    PROVE  RecvInv' /\ wnd <= wnd' /\ StreamStep
<1>1. nxt \in Nat
  BY RecvAssumption DEF RecvInv, Front, Complete
<1>2. wnd' \in Nat /\ wnd <= wnd' /\ acked' = nxt /\ delack' = FALSE
  BY <1>1, SendAckIs DEF RecvInv
<1>3. WindowReopens'
  BY <1>1, <1>2 DEF RecvInv, WindowReopens
<1>4. AckPending'
  BY <1>2 DEF AckPending
<1>5. RecvInv'
  <2>2. q' = q /\ cur' = cur /\ nxt' = nxt /\ read' = read /\ fin' = fin /\ state' = state
    OBVIOUS
  <2>0. delack' \in BOOLEAN
    BY <1>2
  <2>1. acked' \in Nat /\ acked' <= nxt'
    BY <1>1, <1>2, <2>2
  <2>3. Queue(q') /\ cur' \in Int /\ fin' \in BOOLEAN
    BY <2>2 DEF RecvInv
  <2>4. \/ state' = "ESTABLISHED" /\ Front(read', q', nxt') /\ (fin' => nxt' # Total)
        \/ state' = "CLOSEWAIT" /\ Complete(read', q', nxt')
    BY <2>2 DEF RecvInv
  <2> QED BY <1>2, <1>3, <1>4, <2>0, <2>1, <2>3, <2>4 DEF RecvInv
<1>6. StreamStep
  BY DEF StreamStep, Arrived, Covered
<1> QED BY <1>2, <1>5, <1>6

\* What is left of s without its first segments
Rest(t, s, i) ==
    /\ Queue(t) /\ Len(t) = Len(s) - i
    /\ \A k \in 1 .. Len(s) - i : t[k] = s[i + k]
    /\ t = <<>> <=> i = Len(s)

LEMMA RestIs ==
    ASSUME NEW s, Queue(s), NEW i \in 0 .. Len(s)
    PROVE  Rest(SubSeq(s, i + 1, Len(s)), s, i)
<1> DEFINE t == SubSeq(s, i + 1, Len(s))
<1>1. Len(s) \in Nat /\ i \in Nat /\ i <= Len(s) /\ \A k \in 1 .. Len(s) : s[k] \in Segs
  BY DEF Queue
<1>2. /\ t \in Seq(Segs) /\ Len(t) = Len(s) - i
      /\ \A k \in 1 .. Len(s) - i : t[k] = s[i + k]
  <2>1. \A k \in i + 1 .. Len(s) : s[k] \in Segs
    BY <1>1
  <2>2. /\ SubSeq(s, i + 1, Len(s)) \in Seq(Segs)
        /\ Len(SubSeq(s, i + 1, Len(s))) = IF i + 1 <= Len(s) THEN Len(s) - (i + 1) + 1 ELSE 0
        /\ \A k \in 1 .. Len(s) - (i + 1) + 1 : SubSeq(s, i + 1, Len(s))[k] = s[i + 1 + k - 1]
    BY <1>1, <2>1, SubSeqProperties
  <2>3. ASSUME NEW k \in 1 .. Len(s) - i PROVE t[k] = s[i + k]
    <3>1. k \in 1 .. Len(s) - (i + 1) + 1 /\ i + 1 + k - 1 = i + k
      BY <1>1
    <3> QED BY <2>2, <3>1
  <2> QED BY <1>1, <2>2, <2>3
<1>3. \A k \in 1 .. Len(t) : t[k].a < t[k].e
  BY <1>1, <1>2 DEF Queue
<1>4. ASSUME NEW j \in 1 .. Len(t), NEW k \in 1 .. Len(t), j < k
      PROVE  t[j].a < t[k].a /\ t[j].e < t[k].e
  <2>1. i + j \in 1 .. Len(s) /\ i + k \in 1 .. Len(s) /\ i + j < i + k /\ t[j] = s[i + j] /\ t[k] = s[i + k]
    BY <1>1, <1>2, <1>4
  <2> QED BY <2>1 DEF Queue
<1>5. Queue(t)
  BY <1>2, <1>3, <1>4 DEF Queue
<1>6. t = <<>> <=> i = Len(s)
  <2>1. t = <<>> <=> Len(t) = 0
    BY <1>2, EmptySeq
  <2> QED BY <1>1, <1>2, <2>1
<1> QED BY <1>2, <1>5, <1>6 DEF Rest

LEMMA ReadStep ==
    ASSUME RecvInv, NEW n \in 1 .. Total, ReadQueue(n)
    PROVE  RecvInv' /\ wnd <= wnd' /\ StreamStep
<1> DEFINE later  == {k \in 1 .. Len(q) : read < q[k].e}
           first  == Min(later)
           run    == {k \in later : \A j \in first + 1 .. k : q[j].a <= q[j-1].e}
           r      == Min({read + n, q[Max(run)].e})
           marked == {k \in run : q[k].e <= r}
           stay   == {k \in 0 .. Len(q) : 1 .. k \subseteq marked}
           gone   == Max(stay)
           s      == SubSeq(q, gone + 1, Len(q))
           c      == CASE gone = 0 -> cur
                       [] gone > 0 /\ s # <<>> -> cur - (s[1].a - q[1].a)
                       [] OTHER -> 0
<1>1. later # {} /\ q[first].a <= read /\ DropSegs(s, c, r)
  BY DEF ReadQueue
<1>2. /\ Queue(q) /\ cur \in Int /\ wnd \in Nat /\ acked \in Nat /\ acked <= nxt
      /\ fin \in BOOLEAN /\ delack \in BOOLEAN /\ AckPending
      /\ Len(q) \in Nat /\ Total \in Nat /\ n \in Nat /\ 1 <= n
  BY RecvAssumption DEF RecvInv, Queue
<1>3. nxt \in Nat /\ read \in Nat /\ read <= nxt /\ read <= Total
  BY <1>2 DEF RecvInv, Front, Complete
<1>4. first \in later /\ \A k \in later : first <= k
  <2>1. later \subseteq Nat
    OBVIOUS
  <2> HIDE DEF later
  <2> QED BY <1>1, <2>1, MinIs
<1> HIDE DEF first
<1>5. first \in run /\ run \subseteq 0 .. Len(q)
  BY <1>2, <1>4
<1>6. PICK k \in run : k = Max(run)
  BY <1>2, <1>5, MaxIs
<1>7. /\ first \in 1 .. Len(q) /\ k \in 1 .. Len(q) /\ first <= k /\ Adjoining(q, first, k)
      /\ read < q[k].e /\ q[k].e \in Nat /\ q[k].e <= Total
  BY <1>2, <1>4, <1>6, QueueElement DEF Adjoining
<1>8. r \in Nat /\ read < r /\ r <= q[k].e /\ r <= Total
  <2>1. r = Min({read + n, q[k].e})
    BY <1>6
  <2> HIDE DEF r
  <2>2. r = IF read + n <= q[k].e THEN read + n ELSE q[k].e
    <3>1. read + n \in Int /\ q[k].e \in Int
      BY <1>2, <1>3, <1>7
    <3>2. Min({read + n, q[k].e}) = IF read + n <= q[k].e THEN read + n ELSE q[k].e
      BY <3>1, MinOfTwo
    <3> QED BY <2>1, <3>2
  <2> QED BY <1>2, <1>3, <1>7, <2>2
<1> HIDE DEF r
<1>9. ASSUME NEW x \in Nat, read <= x, x < r PROVE x \in Covered(q)
  <2>1. q[first].a \in Nat
    BY <1>2, <1>7, QueueElement
  <2>2. q[first].a <= x /\ x < q[k].e
    BY <1>1, <1>3, <1>7, <1>8, <1>9, <2>1
  <2> QED BY <1>2, <1>7, <2>2, RunCovered
<1>10. gone \in 0 .. Len(q) /\ \A j \in 1 .. gone : j \in 1 .. Len(q) /\ q[j].e <= r
  <2>1. 0 \in stay /\ stay \subseteq 0 .. Len(q)
    BY <1>2
  <2>2. gone \in stay
    BY <1>2, <2>1, MaxIs
  <2> HIDE DEF gone
  <2> QED BY <1>2, <2>2
<1> HIDE DEF gone, later, run
<1>11. /\ Queue(s) /\ Len(s) = Len(q) - gone
       /\ \A j \in 1 .. Len(q) - gone : s[j] = q[gone + j]
       /\ s = <<>> <=> gone = Len(q)
  <2>1. Rest(s, q, gone)
    BY <1>2, <1>10, RestIs
  <2> HIDE DEF s
  <2> QED BY <2>1 DEF Rest
<1>12. c \in Int /\ (s = <<>> => c = 0)
  <2>1. q[1].a \in Int
    <3>1. 1 \in 1 .. Len(q)
      BY <1>2, <1>7
    <3> QED BY <1>2, <3>1, QueueElement
  <2>2. s # <<>> => s[1].a \in Int
    <3>1. s # <<>> => 1 \in 1 .. Len(s)
      BY <1>2, <1>10, <1>11
    <3> HIDE DEF s
    <3> QED BY <1>11, <3>1, QueueElement
  <2>3. s = <<>> => gone > 0
    BY <1>2, <1>7, <1>10, <1>11
  <2> HIDE DEF s
  <2>4. CASE gone = 0
    BY <1>2, <2>3, <2>4
  <2>5. CASE gone > 0 /\ s # <<>>
    BY <1>2, <2>1, <2>2, <2>5
  <2>6. CASE gone > 0 /\ s = <<>>
    BY <2>6
  <2> QED BY <1>10, <2>4, <2>5, <2>6
<1> HIDE DEF s, c
<1>13. ASSUME NEW x, x \in Covered(s) PROVE x \in Covered(q)
  <2>1. PICK j \in 1 .. Len(s) : x \in Nat /\ s[j].a <= x /\ x < s[j].e
    BY <1>11, <1>13, CoveredIs
  <2>2. gone + j \in 1 .. Len(q) /\ s[j] = q[gone + j]
    BY <1>2, <1>10, <1>11
  <2> QED BY <1>2, <2>1, <2>2, CoveredIs
<1>14. ASSUME NEW x, x \in Covered(q), r <= x PROVE x \in Covered(s)
  <2>1. PICK j \in 1 .. Len(q) : x \in Nat /\ q[j].a <= x /\ x < q[j].e
    BY <1>2, <1>14, CoveredIs
  <2>2. ~(j <= gone)
    <3>1. q[j].e \in Nat
      BY <1>2, QueueElement
    <3> QED BY <1>8, <1>10, <1>14, <2>1, <3>1
  <2>3. j - gone \in 1 .. Len(s) /\ s[j - gone] = q[j]
    <3>1. j - gone \in 1 .. Len(q) - gone /\ gone + (j - gone) = j
      BY <1>2, <1>10, <2>2
    <3> QED BY <1>11, <3>1
  <2> QED BY <1>11, <2>1, <2>3, CoveredIs
<1>15. /\ q' = s /\ cur' = c /\ read' = r /\ nxt' = nxt /\ fin' = fin /\ state' = state
       /\ SendAck(c, nxt) \/ (NoAck /\ ~(2 * (tcp_rcvwnd(c, nxt) - (wnd - nxt)) >= MaxBuf))
  BY <1>1 DEF DropSegs
<1>16. /\ wnd' \in Nat /\ wnd <= wnd' /\ acked' \in Nat /\ acked' <= nxt /\ delack' \in BOOLEAN
       /\ acked' = nxt \/ delack'
  <2>1. CASE SendAck(c, nxt)
    <3>1. wnd' \in Nat /\ wnd <= wnd' /\ acked' = nxt /\ delack' = FALSE
      BY <1>2, <1>3, <1>12, <2>1, SendAckIs
    <3>2. acked' \in Nat /\ acked' <= nxt
      BY <1>3, <3>1
    <3>3. delack' \in BOOLEAN
      BY <3>1
    <3> QED BY <3>1, <3>2, <3>3
  <2>2. CASE NoAck
    <3>1. wnd' = wnd /\ acked' = acked /\ delack' = delack
      BY <2>2 DEF NoAck
    <3>2. wnd <= wnd
      BY <1>2
    <3> QED BY <1>2, <3>1, <3>2 DEF AckPending
  <2> QED BY <1>15, <2>1, <2>2
<1>17. WindowReopens'
  <2>1. SUFFICES ASSUME s = <<>> PROVE wnd' > nxt
    BY <1>15 DEF WindowReopens
  <2>2. c = 0 /\ MaxBuf \in Nat \ {0}
    BY <1>12, <2>1, RecvAssumption
  <2>3. CASE SendAck(c, nxt)
    <3>1. wnd' \in Nat /\ nxt + MaxBuf <= wnd'
      BY <1>2, <1>3, <1>12, <2>2, <2>3, SendAckIs
    <3> QED BY <1>3, <2>2, <3>1
  <2>4. CASE NoAck /\ ~(2 * (tcp_rcvwnd(c, nxt) - (wnd - nxt)) >= MaxBuf)
    <3> DEFINE w == tcp_rcvwnd(c, nxt)
    <3>1. w \in Int /\ MaxBuf <= w
      BY <1>2, <1>3, <1>12, <2>2, WindowIs
    <3>2. wnd' = wnd /\ ~(2 * (w - (wnd - nxt)) >= MaxBuf)
      BY <2>4 DEF NoAck
    <3> HIDE DEF w
    <3> QED BY <1>2, <1>3, <2>2, <3>1, <3>2
  <2> QED BY <1>15, <2>3, <2>4
<1>18. ASSUME state = "ESTABLISHED", Front(read, q, nxt) PROVE Front(r, s, nxt)
  <2>1. r <= nxt
    <3> SUFFICES ASSUME nxt < r PROVE FALSE
      BY <1>3, <1>8
    <3> QED BY <1>3, <1>9, <1>18 DEF Front
  <2>2. nxt \notin Covered(s)
    BY <1>13, <1>18 DEF Front
  <2>3. ASSUME NEW x \in Nat, r <= x, x < nxt PROVE x \in Covered(s)
    <3>1. read <= x
      BY <1>3, <1>8, <2>3
    <3> QED BY <1>14, <1>18, <2>3, <3>1 DEF Front
  <2> QED BY <1>3, <1>8, <1>18, <2>1, <2>2, <2>3 DEF Front
<1>19. ASSUME Complete(read, q, nxt) PROVE Complete(r, s, nxt)
  <2>1. ASSUME NEW x \in Nat, r <= x, x < Total PROVE x \in Covered(s)
    <3>1. read <= x
      BY <1>3, <1>8, <2>1
    <3> QED BY <1>14, <1>19, <2>1, <3>1 DEF Complete
  <2> QED BY <1>8, <1>19, <2>1 DEF Complete
<1>20. \/ state' = "ESTABLISHED" /\ Front(read', q', nxt') /\ (fin' => nxt' # Total)
       \/ state' = "CLOSEWAIT" /\ Complete(read', q', nxt')
  BY <1>15, <1>18, <1>19 DEF RecvInv
<1>21. Queue(q') /\ cur' \in Int /\ fin' \in BOOLEAN /\ acked' <= nxt' /\ AckPending'
  BY <1>2, <1>11, <1>12, <1>15, <1>16 DEF AckPending
<1>22. RecvInv'
  BY <1>16, <1>17, <1>20, <1>21 DEF RecvInv
<1>23. StreamStep
  <2>1. \A x : x \in Arrived' <=> x \in Arrived
    <3>1. \A x : x \in Arrived' <=> x \in 0 .. r - 1 \/ x \in Covered(s)
      BY <1>15 DEF Arrived, Covered
    <3>2. \A x : x \in Arrived <=> x \in 0 .. read - 1 \/ x \in Covered(q)
      BY DEF Arrived
    <3>3. ASSUME NEW x, x \in 0 .. r - 1 \/ x \in Covered(s)
          PROVE  x \in 0 .. read - 1 \/ x \in Covered(q)
      BY <1>3, <1>8, <1>9, <1>13, <3>3
    <3>4. ASSUME NEW x, x \in 0 .. read - 1 \/ x \in Covered(q)
          PROVE  x \in 0 .. r - 1 \/ x \in Covered(s)
      <4>1. CASE x \in 0 .. read - 1
        BY <1>3, <1>8, <4>1
      <4>2. CASE x \in Covered(q)
        <5>1. x \in Nat
          BY <1>2, <4>2, CoveredIs
        <5> QED BY <1>8, <1>14, <4>2, <5>1
      <4> QED BY <3>4, <4>1, <4>2
    <3> QED BY <3>1, <3>2, <3>3, <3>4
  <2>2. read .. r - 1 \subseteq Arrived
    BY <1>3, <1>8, <1>9 DEF Arrived
  <2> QED BY <1>8, <1>15, <2>1, <2>2 DEF StreamStep, Stream!Read
<1> QED BY <1>16, <1>22, <1>23

LEMMA EmptyQueue ==
    ASSUME q = <<>>
    PROVE  Queue(q) /\ Covered(q) = {}
<1>1. <<>> \in Seq(Segs) /\ Len(<<>>) = 0
  BY EmptySeq
<1> QED BY <1>1 DEF Queue, Covered

LEMMA InitInv == RecvInit => RecvInv
<1> SUFFICES ASSUME RecvInit PROVE RecvInv
  OBVIOUS
<1>1. Queue(q) /\ Covered(q) = {}
  BY EmptyQueue DEF RecvInit
<1>2. Total \in Nat /\ MaxBuf \in Nat /\ MaxBuf > 0
  BY RecvAssumption
<1>3. Front(read, q, nxt)
  BY <1>1, <1>2 DEF RecvInit, Front
<1>4. cur \in Int /\ wnd \in Nat /\ acked \in Nat /\ acked <= nxt
  BY <1>2 DEF RecvInit
<1>5. fin \in BOOLEAN /\ delack \in BOOLEAN /\ fin = FALSE /\ state = "ESTABLISHED"
  BY DEF RecvInit
<1>6. AckPending /\ WindowReopens
  BY <1>2 DEF RecvInit, AckPending, WindowReopens
<1> QED BY <1>1, <1>3, <1>4, <1>5, <1>6 DEF RecvInv

LEMMA StepInv == RecvInv /\ [RecvNext]_rvars => RecvInv' /\ wnd <= wnd' /\ StreamStep
<1> SUFFICES ASSUME RecvInv, [RecvNext]_rvars PROVE RecvInv' /\ wnd <= wnd' /\ StreamStep
  OBVIOUS
<1>1. ASSUME NEW a \in 0 .. Total, NEW e \in 0 .. Total, NEW f \in BOOLEAN, a <= e,
             state = "ESTABLISHED", Receive(a, e, f)
      PROVE  RecvInv' /\ wnd <= wnd' /\ StreamStep
  BY <1>1, ReceiveStep
<1>2. ASSUME NEW a, NEW e, NEW f, Reject(a, e, f)
      PROVE  RecvInv' /\ wnd <= wnd' /\ StreamStep
  BY <1>2, AnswerStep DEF Reject
<1>3. CASE dodelack
  BY <1>3, AnswerStep DEF dodelack
<1>4. ASSUME NEW n \in 1 .. Total, ReadQueue(n)
      PROVE  RecvInv' /\ wnd <= wnd' /\ StreamStep
  BY <1>4, ReadStep
<1>5. CASE UNCHANGED rvars
  <2>1. RecvInv'
    BY <1>5 DEF rvars, RecvInv, Queue, Front, Complete, Covered, AckPending, WindowReopens
  <2>2. wnd <= wnd'
    BY <1>5 DEF rvars, RecvInv
  <2>3. StreamStep
    BY <1>5 DEF rvars, StreamStep, Arrived, Covered
  <2> QED BY <2>1, <2>2, <2>3
<1> QED BY <1>1, <1>2, <1>3, <1>4, <1>5 DEF RecvNext, SegmentArrives

LEMMA AlwaysInv == RecvSpec => []RecvInv
BY InitInv, StepInv, PTL DEF RecvSpec

\* The invariant says what AckInv says.
LEMMA InvAck == RecvInv => AckInv
<1> SUFFICES ASSUME RecvInv PROVE AckInv
  OBVIOUS
<1>1. Queue(q) /\ Total \in Nat /\ Len(q) \in Nat
  BY RecvAssumption DEF RecvInv, Queue
<1>2. \A x : x \in Covered(q) => x \in Nat /\ x < Total
  <2> SUFFICES ASSUME NEW x, x \in Covered(q) PROVE x \in Nat /\ x < Total
    OBVIOUS
  <2>1. PICK k \in 1 .. Len(q) : x \in Nat /\ x < q[k].e
    BY <1>1, CoveredIs
  <2> QED BY <1>1, <2>1, QueueElement
<1>3. read \in Nat /\ read <= Total /\ nxt \in Nat /\ nxt <= Total + 1
  BY <1>1 DEF RecvInv, Front, Complete
<1>4. RecvTypeOK
  <2>1. \A k \in 1 .. Len(q) : q[k] \in [a : 0 .. Total, e : 0 .. Total] /\ q[k].a < q[k].e
    BY <1>1, QueueElement DEF Segs
  <2>2. \A k \in 1 .. Len(q) - 1 : q[k].a < q[k+1].a /\ q[k].e < q[k+1].e
    <3> SUFFICES ASSUME NEW k \in 1 .. Len(q) - 1
                 PROVE  q[k].a < q[k+1].a /\ q[k].e < q[k+1].e
      OBVIOUS
    <3>1. k \in 1 .. Len(q) /\ k + 1 \in 1 .. Len(q) /\ k < k + 1
      BY <1>1
    <3> QED BY <1>1, <3>1 DEF Queue
  <2>3. nxt \in 0 .. Total + 1 /\ read \in 0 .. Total /\ acked \in 0 .. nxt
    BY <1>1, <1>3 DEF RecvInv
  <2>4. {fin, delack} \subseteq BOOLEAN /\ state \in {"ESTABLISHED", "CLOSEWAIT"}
    BY DEF RecvInv
  <2> QED BY <2>1, <2>2, <2>3, <2>4 DEF RecvInv, RecvTypeOK
<1>5. AckExact
  <2> DEFINE missing == (0 .. Total) \ Arrived
  <2>1. CASE state = "ESTABLISHED"
    <3>1. Front(read, q, nxt)
      BY <2>1 DEF RecvInv
    <3>2. nxt \in missing
      BY <1>1, <1>3, <3>1 DEF Front, Arrived
    <3>3. \A x \in Nat : x < nxt => x \in Arrived
      BY <1>1, <1>3, <3>1 DEF Front, Arrived
    <3>4. \A y \in missing : nxt <= y
      BY <1>1, <1>3, <3>3
    <3>5. Min(missing) \in missing /\ \A y \in missing : Min(missing) <= y
      <4>1. missing \subseteq Nat /\ missing # {}
        BY <3>2
      <4> HIDE DEF missing
      <4> QED BY <4>1, MinIs
    <3>6. Min(missing) \in Nat
      BY <3>5
    <3> HIDE DEF missing
    <3>7. Min(missing) = nxt
      BY <1>3, <3>2, <3>4, <3>5, <3>6
    <3> QED BY <2>1, <3>7 DEF AckExact, missing
  <2>2. CASE state = "CLOSEWAIT"
    BY <2>2 DEF RecvInv, Complete, AckExact
  <2> QED BY <2>1, <2>2 DEF RecvInv
<1> QED BY <1>4, <1>5 DEF RecvInv, AckInv

(***************************************************************************)
(* Theorems                                                                *)
(***************************************************************************)
\* tcp_rcvdata acknowledges exactly what is there without a gap, at once or with
\* ack_evt, and a peer that was told to stop is told to go on.
THEOREM AckInvariant == RecvSpec => []AckInv
BY AlwaysInv, InvAck, PTL

\* tcp_rcvwnd never takes back what it has offered.
THEOREM WindowTheorem == RecvSpec => WindowNeverShrinks
<1>1. RecvInv /\ [RecvNext]_rvars => [wnd' >= wnd]_rvars
  <2> SUFFICES ASSUME RecvInv, [RecvNext]_rvars PROVE wnd' >= wnd
    OBVIOUS
  <2>1. RecvInv' /\ wnd <= wnd'
    BY StepInv
  <2> QED BY <2>1 DEF RecvInv
<1> QED BY <1>1, AlwaysInv, PTL DEF RecvSpec, WindowNeverShrinks

\* tcp_addseg, tcp_rcvdata, tcp_recv and tcp_dropsegs implement a stream: what has
\* arrived stays there until it is read, and it is read in order without a gap.
THEOREM StreamRefinement == RecvSpec => StreamSpec
<1>1. RecvInit => Stream!Init
  <2> SUFFICES ASSUME RecvInit PROVE Stream!Init
    OBVIOUS
  <2>1. Covered(q) = {} /\ read = 0
    BY EmptyQueue DEF RecvInit
  <2> QED BY <2>1 DEF Stream!Init, Arrived
<1>2. RecvInv /\ [RecvNext]_rvars => [Stream!Arrive \/ Stream!Read]_<<Arrived, read>>
  BY StepInv DEF StreamStep
<1> QED BY <1>1, <1>2, AlwaysInv, PTL DEF RecvSpec, StreamSpec, Stream!Spec, Stream!vars
=============================================================================
