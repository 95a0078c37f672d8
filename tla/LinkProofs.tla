----------------------------- MODULE LinkProofs -----------------------------
(***************************************************************************)
(* Proofs about the two components between IP and the drivers: the queues  *)
(* and the input of the interfaces (NetIf) and the cache of ARP (Arp), for *)
(* every number of interfaces, hosts, entries, packets and retries.        *)
(***************************************************************************)
EXTENDS NetIf, Arp, TLAPS

(***************************************************************************)
(* NetIf: received packets are never forgotten (NoStall), for every number *)
(* of interfaces, queue length and number of timeouts.                     *)
(*                                                                         *)
(* NoStall is not inductive.  Two facts are missing: an interface that is  *)
(* not running, which if_doinput passes over, has no packets, because      *)
(* if_close flushes its queue; and between the call of addroottimeout at   *)
(* the end of if_doinput and the assignment to tmout a timeout is pending. *)
(***************************************************************************)
ClosedEmpty == \A i \in Ifs : ~up[i] => qlen(rcv[i]) = 0
StorePending == pc = "store" => pending > 0

StallInv == TypeOK /\ NoStall /\ ClosedEmpty /\ StorePending

\* What Append and Tail make of the length of a list
LEMMA ListFacts ==
    ASSUME NEW S, NEW s \in Seq(S)
    PROVE  /\ Len(s) \in Nat
           /\ s = <<>> <=> Len(s) = 0
           /\ \A e \in S : Append(s, e) \in Seq(S) /\ Len(Append(s, e)) = Len(s) + 1
           /\ s # <<>> => Tail(s) \in Seq(S) /\ Len(Tail(s)) = Len(s) - 1
OBVIOUS

\* qlen adds the lengths of the two lists.
LEMMA Qlen ==
    ASSUME NEW q, NEW l0, NEW l1, q.list[0] = l0, q.list[1] = l1
    PROVE  qlen(q) = Len(l0) + Len(l1)
BY Zenon DEF qlen

\* The length of a queue is a number.
LEMMA QueueLen ==
    ASSUME NEW q \in Queues
    PROVE  qlen(q) \in Nat
<1>1. PICK l0 \in Seq(AnyPacket), l1 \in Seq(AnyPacket) : q.list[0] = l0 /\ q.list[1] = l1
  BY DEF Queues
<1>2. qlen(q) = Len(l0) + Len(l1)
  BY <1>1, Qlen
<1> QED
  BY <1>2, ListFacts

\* if_enqueue appends one packet or, if the queue is full, none.
LEMMA EnqueueLen ==
    ASSUME NEW q \in Queues, NEW b \in AnyPacket, NEW pri \in 0 .. 1,
           qlen(q) <= MaxQ
    PROVE  /\ if_enqueue(q, b, pri) \in Queues
           /\ qlen(if_enqueue(q, b, pri)) <= MaxQ
<1>1. MaxQ \in Nat \ {0} /\ qlen(q) \in Nat
  BY NetIfAssumption, QueueLen
<1>2. CASE qlen(q) >= MaxQ
  BY <1>1, <1>2 DEF if_enqueue
<1>3. CASE qlen(q) < MaxQ
  <2> DEFINE r == [q EXCEPT !.list[pri] = Append(@, b)]
  <2>1. if_enqueue(q, b, pri) = r
    BY <1>1, <1>3 DEF if_enqueue
  <2>2. r \in Queues
    <3>1. Append(q.list[pri], b) \in Seq(AnyPacket)
      BY ListFacts DEF Queues
    <3> QED
      BY <3>1 DEF Queues
  <2>3. PICK l0 \in Seq(AnyPacket), l1 \in Seq(AnyPacket) : q.list[0] = l0 /\ q.list[1] = l1
    BY DEF Queues
  <2>4. qlen(r) = qlen(q) + 1
    <3>1. qlen(q) = Len(l0) + Len(l1)
      BY <2>3, Qlen
    <3>2. CASE pri = 0
      <4>1. r.list[0] = Append(l0, b) /\ r.list[1] = l1
        BY <2>3, <3>2 DEF Queues
      <4>2. qlen(r) = Len(Append(l0, b)) + Len(l1)
        BY <4>1, Qlen
      <4> QED
        BY <3>1, <4>2, ListFacts
    <3>3. CASE pri = 1
      <4>1. r.list[0] = l0 /\ r.list[1] = Append(l1, b)
        BY <2>3, <3>3 DEF Queues
      <4>2. qlen(r) = Len(l0) + Len(Append(l1, b))
        BY <4>1, Qlen
      <4> QED
        BY <3>1, <4>2, ListFacts
    <3> QED
      BY <3>2, <3>3
  <2> QED
    BY <1>1, <1>3, <2>1, <2>2, <2>4
<1> QED
  BY <1>1, <1>2, <1>3

\* if_dequeue takes exactly one packet, from whichever list it finds it in.
LEMMA DequeueLen ==
    ASSUME NEW q \in Queues, qlen(q) > 0
    PROVE  /\ if_dequeue(q).q \in Queues
           /\ qlen(if_dequeue(q).q) = qlen(q) - 1
<1> DEFINE skip == q.list[Turn(q)] = <<>>
           que == IF skip THEN 1 - Turn(q) ELSE Turn(q)
           curr == ((IF skip THEN 2 * que ELSE q.curr) + 2 - que) % 4
           r == [list |-> [q.list EXCEPT ![que] = Tail(@)], curr |-> curr]
<1>1. q.curr \in 0 .. 3 /\ q.list \in [0 .. 1 -> Seq(AnyPacket)]
  BY DEF Queues
<1>2. Turn(q) \in 0 .. 1
  BY <1>1 DEF Turn
<1>l. PICK l0 \in Seq(AnyPacket), l1 \in Seq(AnyPacket) : q.list[0] = l0 /\ q.list[1] = l1
  BY <1>1
<1>n. qlen(q) = Len(l0) + Len(l1) /\ Len(l0) \in Nat /\ Len(l1) \in Nat
  <2>1. qlen(q) = Len(l0) + Len(l1)
    BY <1>l, Qlen
  <2>2. Len(l0) \in Nat /\ Len(l1) \in Nat
    BY ListFacts
  <2> QED
    BY <2>1, <2>2
<1>3. que \in 0 .. 1
  BY <1>2
<1>4. q.list[que] # <<>>
  <2>1. CASE skip
    <3>1. Turn(q) = 0 => l0 = <<>> /\ que = 1
      BY <1>l, <2>1
    <3>2. Turn(q) = 1 => l1 = <<>> /\ que = 0
      BY <1>l, <2>1
    <3>3. Len(l0) = 0 => Len(l1) > 0
      BY <1>n
    <3>4. (l0 = <<>> <=> Len(l0) = 0) /\ (l1 = <<>> <=> Len(l1) = 0)
      BY ListFacts
    <3>5. l0 # <<>> \/ l1 # <<>>
      BY <1>n, <3>3, <3>4
    <3>6. \/ que = 0 /\ l0 # <<>>
          \/ que = 1 /\ l1 # <<>>
      BY <1>2, <3>1, <3>2, <3>5
    <3> HIDE DEF que
    <3>7. CASE que = 0 /\ l0 # <<>>
      BY <1>l, <3>7
    <3>8. CASE que = 1 /\ l1 # <<>>
      BY <1>l, <3>8
    <3> QED
      BY <3>6, <3>7, <3>8
  <2>2. CASE ~skip
    BY <2>2
  <2> QED
    BY <2>1, <2>2
<1>5. /\ Tail(q.list[que]) \in Seq(AnyPacket)
      /\ Len(Tail(q.list[que])) = Len(q.list[que]) - 1
  BY <1>1, <1>3, <1>4, ListFacts
<1>6. curr \in 0 .. 3
  BY <1>1, <1>3
<1>7. r \in Queues
  BY <1>1, <1>3, <1>5, <1>6 DEF Queues
<1>8. qlen(r) = qlen(q) - 1
  <2> HIDE DEF que, curr
  <2>1. CASE que = 0
    <3>1. r.list[0] = Tail(l0) /\ r.list[1] = l1 /\ l0 # <<>>
      BY <1>1, <1>4, <1>l, <2>1
    <3>2. qlen(r) = Len(Tail(l0)) + Len(l1)
      BY <3>1, Qlen
    <3> QED
      BY <1>n, <3>1, <3>2, ListFacts
  <2>2. CASE que = 1
    <3>1. r.list[0] = l0 /\ r.list[1] = Tail(l1) /\ l1 # <<>>
      BY <1>1, <1>4, <1>l, <2>2
    <3>2. qlen(r) = Len(l0) + Len(Tail(l1))
      BY <3>1, Qlen
    <3> QED
      BY <1>n, <3>1, <3>2, ListFacts
  <2> QED
    BY <1>3, <2>1, <2>2
<1>9. if_dequeue(q).q = r
  BY DEF if_dequeue
<1> QED
  BY <1>7, <1>8, <1>9

\* if_flushq empties a queue.
LEMMA FlushLen ==
    ASSUME NEW q \in Queues
    PROVE  Flushed(q) \in Queues /\ qlen(Flushed(q)) = 0
<1>1. Empty.list \in [0 .. 1 -> Seq(AnyPacket)]
  BY DEF Empty
<1>2. Empty.list[0] = <<>> /\ Empty.list[1] = <<>>
  BY DEF Empty
<1>3. Flushed(q).list = Empty.list /\ Flushed(q) \in Queues
  BY <1>1 DEF Flushed, Queues
<1>4. qlen(Flushed(q)) = Len(<<>>) + Len(<<>>)
  BY <1>2, <1>3, Qlen
<1> QED
  BY <1>3, <1>4

\* The initial state has the right type.
LEMMA TypeInit == Init => TypeOK
<1> SUFFICES ASSUME Init PROVE TypeOK
  OBVIOUS
<1>1. {NIfs, MaxQ, MaxTmouts} \subseteq Nat \ {0}
  BY NetIfAssumption
<1>2. Empty \in Queues /\ qlen(Empty) = 0
  BY DEF Empty, Queues, qlen
<1>3. /\ rcv \in [Ifs -> Queues] /\ snd \in Queues
      /\ qlen(snd) <= MaxQ /\ \A i \in Ifs : qlen(rcv[i]) <= MaxQ
  BY <1>1, <1>2 DEF Init
<1>4. up \in [Ifs -> BOOLEAN] /\ tmout \in BOOLEAN /\ comeagain \in BOOLEAN /\ added \in BOOLEAN
  BY Zenon DEF Init
<1>5. pending \in 0 .. MaxTmouts /\ at \in 1 .. NIfs + 1 /\ todo \in 0 .. MaxQ
  BY <1>1 DEF Init
<1> QED
  BY <1>3, <1>4, <1>5 DEF Init, TypeOK

\* The inductive invariant holds initially.
LEMMA InitStallInv == Init => StallInv
<1> SUFFICES ASSUME Init PROVE StallInv
  OBVIOUS
<1>1. TypeOK
  BY TypeInit
<1>2. qlen(Empty) = 0
  BY DEF Empty, qlen
<1>3. NoStall /\ ClosedEmpty /\ StorePending
  BY <1>2 DEF Init, NoStall, ClosedEmpty, StorePending
<1> QED
  BY <1>1, <1>3 DEF StallInv

\* Every step preserves the inductive invariant.
LEMMA StallStep == StallInv /\ [Next]_vars => StallInv'
<1> SUFFICES ASSUME StallInv, [Next]_vars PROVE StallInv'
  OBVIOUS
<1> USE DEF StallInv
<1>a. NIfs \in Nat \ {0} /\ MaxQ \in Nat \ {0} /\ MaxTmouts \in Nat \ {0}
  BY NetIfAssumption
<1>b. \A i \in Ifs : rcv[i] \in Queues /\ qlen(rcv[i]) \in 0 .. MaxQ
  BY QueueLen, <1>a DEF TypeOK
<1>c. pending \in 0 .. MaxTmouts /\ at \in 1 .. NIfs + 1 /\ todo \in 0 .. MaxQ
  BY DEF TypeOK
<1>1. ASSUME NEW i \in Ifs, if_input(i) PROVE StallInv'
  <2> DEFINE q == if_enqueue(rcv[i], Frame, 1)
  <2>1. q \in Queues /\ qlen(q) <= MaxQ
    BY <1>b, <1>a, EnqueueLen DEF AnyPacket
  <2>2. rcv' = [rcv EXCEPT ![i] = q] /\ UNCHANGED <<snd, up, pc, at, todo, comeagain, added>>
    BY <1>1 DEF if_input, doinput
  <2>3. pending' \in 1 .. MaxTmouts
    BY <1>1, <1>a, <1>c DEF if_input, CanAdd, NoStall
  <2>4. tmout' \in BOOLEAN
    BY <1>1, Zenon DEF if_input, CanAdd
  <2>5. TypeOK'
    <3>1. rcv' \in [Ifs -> Queues] /\ \A j \in Ifs : qlen(rcv'[j]) <= MaxQ
      BY <2>1, <2>2 DEF TypeOK
    <3> QED
      BY <2>2, <2>3, <2>4, <3>1 DEF TypeOK
  <2>6. ClosedEmpty'
    <3> SUFFICES ASSUME NEW j \in Ifs, ~up[j] PROVE qlen(rcv'[j]) = 0
      BY <2>2 DEF ClosedEmpty
    <3>1. j # i
      BY <1>1 DEF if_input
    <3> QED
      BY <3>1, <2>2 DEF ClosedEmpty, TypeOK
  <2> QED
    BY <2>3, <2>5, <2>6 DEF NoStall, StorePending
<1>2. ASSUME StartInput PROVE StallInv'
  <2>1. /\ UNCHANGED <<rcv, snd, up, added>>
        /\ pending' = pending - 1 /\ pending > 0 /\ tmout' = FALSE /\ comeagain' = FALSE
        /\ pc' = "scan" /\ at' = 1 /\ todo' = MaxQ
    BY <1>2 DEF StartInput
  <2>2. TypeOK'
    <3>1. tmout' \in BOOLEAN /\ comeagain' \in BOOLEAN
      BY <2>1, Zenon
    <3>2. pending' \in 0 .. MaxTmouts /\ at' \in 1 .. NIfs + 1 /\ todo' \in 0 .. MaxQ
      BY <2>1, <1>a, <1>c
    <3> QED
      BY <2>1, <3>1, <3>2 DEF TypeOK
  <2>3. NoStall'
    BY <2>1, <1>a, <1>b DEF NoStall, Ifs
  <2> QED
    BY <2>1, <2>2, <2>3 DEF ClosedEmpty, StorePending
<1>3. ASSUME Deliver PROVE StallInv'
  <2> DEFINE q == if_dequeue(rcv[at]).q
  <2>0. at \in Ifs
    BY <1>3, <1>a, <1>c DEF Deliver, Ifs
  <2>1. /\ rcv' = [rcv EXCEPT ![at] = q] /\ todo' = todo - 1 /\ todo > 0 /\ pc = "scan"
        /\ qlen(rcv[at]) > 0
        /\ UNCHANGED <<snd, up, tmout, pending, pc, at, comeagain, added>>
    BY <1>3 DEF Deliver
  <2>2. q \in Queues /\ qlen(q) = qlen(rcv[at]) - 1
    BY <2>0, <2>1, <1>b, DequeueLen
  <2>3. \A j \in Ifs : rcv'[j] = IF j = at THEN q ELSE rcv[j]
    BY <2>0, <2>1 DEF TypeOK
  <2>4. TypeOK'
    <3>1. rcv' \in [Ifs -> Queues]
      BY <2>1, <2>2 DEF TypeOK
    <3>2. \A j \in Ifs : qlen(rcv'[j]) <= MaxQ
      BY <2>2, <2>3, <1>a, <1>b
    <3>3. todo' \in 0 .. MaxQ
      BY <2>1, <1>a, <1>c
    <3> QED
      BY <2>1, <3>1, <3>2, <3>3 DEF TypeOK
  <2>5. NoStall'
    <3>1. tmout' => pending' > 0
      BY <2>1 DEF NoStall
    <3>2. ASSUME NEW j \in Ifs, qlen(rcv'[j]) > 0
          PROVE  pending' > 0 \/ (pc' = "scan" /\ (at' < j \/ (at' = j /\ todo' >= qlen(rcv'[j]))))
      <4>1. CASE j = at
        BY <3>2, <4>1, <2>0, <2>1, <2>2, <2>3, <1>b, <1>c DEF NoStall
      <4>2. CASE j # at
        BY <3>2, <4>2, <2>0, <2>1, <2>3, <1>b DEF NoStall
      <4> QED
        BY <4>1, <4>2
    <3> QED
      BY <3>1, <3>2 DEF NoStall
  <2>6. ClosedEmpty'
    <3>1. \A j \in Ifs : ~up[j] => j # at
      BY <1>3 DEF Deliver
    <3> QED
      BY <3>1, <2>1, <2>3 DEF ClosedEmpty
  <2> QED
    BY <2>1, <2>4, <2>5, <2>6 DEF StorePending
<1>4. ASSUME NextIf PROVE StallInv'
  <2>0. at \in Ifs
    BY <1>4, <1>a, <1>c DEF NextIf, Ifs
  <2>1. /\ UNCHANGED <<rcv, snd, up, tmout, pending, pc, added>>
        /\ pc = "scan" /\ at' = at + 1 /\ todo' = MaxQ /\ at <= NIfs
        /\ ~up[at] \/ todo = 0 \/ qlen(rcv[at]) = 0
    BY <1>4 DEF NextIf
  <2>2. comeagain' \in BOOLEAN
    BY <1>4, Zenon DEF NextIf
  <2>3. TypeOK'
    BY <2>1, <2>2, <1>a, <1>c DEF TypeOK
  <2>4. qlen(rcv[at]) > 0 => pending > 0
    BY <2>0, <2>1, <1>b, <1>c DEF NoStall, ClosedEmpty
  <2>5. NoStall'
    BY <2>0, <2>1, <2>4, <1>a, <1>b DEF NoStall, Ifs
  <2> QED
    BY <2>1, <2>3, <2>5 DEF ClosedEmpty, StorePending
<1>5. ASSUME EndScan PROVE StallInv'
  <2>1. /\ UNCHANGED <<rcv, snd, up, tmout, at, todo, comeagain>>
        /\ pc = "scan" /\ at > NIfs
        /\ pc' = (IF comeagain THEN "store" ELSE "idle")
        /\ pending' = (IF comeagain /\ CanAdd THEN pending + 1 ELSE pending)
    BY <1>5 DEF EndScan
  <2>2. added' \in BOOLEAN
    BY <1>5, Zenon DEF EndScan, CanAdd
  <2>3. pending' \in 0 .. MaxTmouts /\ pending' >= pending /\ (comeagain => pending' > 0)
    BY <2>1, <1>a, <1>c DEF CanAdd
  <2>4. TypeOK'
    <3>1. pc' \in {"idle", "scan", "store"}
      BY <2>1
    <3> QED
      BY <2>1, <2>2, <2>3, <3>1 DEF TypeOK
  <2>5. \A i \in Ifs : qlen(rcv[i]) > 0 => pending > 0
    BY <2>1, <1>a, <1>c DEF NoStall, Ifs
  <2>6. NoStall'
    BY <2>1, <2>3, <2>5, <1>c DEF NoStall
  <2>7. StorePending'
    BY <2>1, <2>3 DEF StorePending
  <2> QED
    BY <2>1, <2>4, <2>6, <2>7 DEF ClosedEmpty
<1>6. ASSUME StoreTmout PROVE StallInv'
  <2>1. /\ UNCHANGED <<rcv, snd, up, pending, at, todo, comeagain, added>>
        /\ pc = "store" /\ pc' = "idle" /\ tmout' = added
    BY <1>6 DEF StoreTmout
  <2>2. pending > 0
    BY <2>1 DEF StorePending
  <2>3. TypeOK'
    BY <2>1 DEF TypeOK
  <2> QED
    BY <2>1, <2>2, <2>3 DEF NoStall, ClosedEmpty, StorePending
<1>7. ASSUME NEW b \in Packets, NEW pri \in 0 .. 1, output(b, pri) PROVE StallInv'
  <2>1. snd' = if_enqueue(snd, b, pri) /\ UNCHANGED <<rcv, up, tmout, pending, doinput>>
    BY <1>7 DEF output
  <2>2. snd' \in Queues /\ qlen(snd') <= MaxQ
    BY <2>1, EnqueueLen DEF TypeOK, AnyPacket
  <2> QED
    BY <2>1, <2>2 DEF TypeOK, NoStall, ClosedEmpty, StorePending, doinput
<1>8. ASSUME Transmit PROVE StallInv'
  <2>1. /\ snd' = if_dequeue(snd).q /\ qlen(snd) > 0
        /\ UNCHANGED <<rcv, up, tmout, pending, doinput>>
    BY <1>8 DEF Transmit
  <2>2. snd' \in Queues /\ qlen(snd') <= MaxQ
    BY <2>1, <1>a, DequeueLen, QueueLen DEF TypeOK
  <2> QED
    BY <2>1, <2>2 DEF TypeOK, NoStall, ClosedEmpty, StorePending, doinput
<1>9. ASSUME NEW i \in Ifs, if_open(i) PROVE StallInv'
  <2>1. up' = [up EXCEPT ![i] = TRUE] /\ UNCHANGED <<rcv, snd, tmout, pending, doinput>>
    BY <1>9 DEF if_open
  <2>2. up' \in [Ifs -> BOOLEAN] /\ \A j \in Ifs : ~up'[j] => ~up[j]
    BY <2>1, Zenon DEF TypeOK
  <2> QED
    BY <2>1, <2>2 DEF TypeOK, NoStall, ClosedEmpty, StorePending, doinput
<1>10. ASSUME NEW i \in Ifs, if_close(i) PROVE StallInv'
  <2>1. /\ up' = [up EXCEPT ![i] = FALSE] /\ rcv' = [rcv EXCEPT ![i] = Flushed(rcv[i])]
        /\ snd' = (IF i = 1 THEN Flushed(snd) ELSE snd)
        /\ pc = "idle" /\ UNCHANGED <<tmout, pending, doinput>>
    BY <1>10 DEF if_close
  <2>2. snd' \in Queues /\ qlen(snd') <= MaxQ
    BY <2>1, <1>a, FlushLen DEF TypeOK
  <2>3. Flushed(rcv[i]) \in Queues /\ qlen(Flushed(rcv[i])) = 0
    BY <1>b, FlushLen
  <2>4. /\ rcv' \in [Ifs -> Queues]
        /\ \A j \in Ifs : rcv'[j] = IF j = i THEN Flushed(rcv[i]) ELSE rcv[j]
    BY <2>1, <2>3 DEF TypeOK
  <2>5. up' \in [Ifs -> BOOLEAN] /\ \A j \in Ifs : j # i => up'[j] = up[j]
    BY <2>1, Zenon DEF TypeOK
  <2>6. \A j \in Ifs : qlen(rcv'[j]) <= MaxQ
    BY <2>3, <2>4, <1>a, <1>b
  <2>7. TypeOK'
    BY <2>1, <2>2, <2>4, <2>5, <2>6 DEF TypeOK, doinput
  <2>8. NoStall'
    BY <2>1, <2>3, <2>4 DEF NoStall, doinput
  <2>9. ClosedEmpty'
    BY <2>3, <2>4, <2>5 DEF ClosedEmpty
  <2> QED
    BY <2>1, <2>7, <2>8, <2>9 DEF StorePending, doinput
<1>11. ASSUME UNCHANGED vars PROVE StallInv'
  BY <1>11 DEF TypeOK, NoStall, ClosedEmpty, StorePending, vars, doinput
<1> QED
  BY <1>1, <1>2, <1>3, <1>4, <1>5, <1>6, <1>7, <1>8, <1>9, <1>10, <1>11 DEF Next, if_doinput

\* Type correctness of the interface queues and of if_doinput: in particular no
\* queue exceeds maxqlen, whoever enqueues when.
THEOREM NetIfTypeCorrect == Spec => []TypeOK
<1>1. StallInv => TypeOK
  BY DEF StallInv
<1> QED
  BY InitStallInv, StallStep, <1>1, PTL DEF Spec

\* Both together, the way the runs check them.
THEOREM InputInvariant == Spec => []InputInv
<1>1. StallInv => InputInv
  BY DEF StallInv, InputInv
<1> QED
  BY InitStallInv, StallStep, <1>1, PTL DEF Spec

\* Received packets are never forgotten, whenever drivers call if_input
\* between the steps of if_doinput and however few timeouts there are.
THEOREM NoStallInvariant == Spec => []NoStall
<1>1. StallInv => NoStall
  BY DEF StallInv
<1> QED
  BY InitStallInv, StallStep, <1>1, PTL DEF Spec

(***************************************************************************)
(* Arp: the inductive invariant, of entries E, tables A and R,             *)
(* destinations D and fates F                                              *)
(***************************************************************************)
\* An entry on its own: its links and its timer are as its address says, and
\* the packets in its queue are for its host.
Sound(e, D) ==
    /\ e \in Entry
    /\ e.links = (IF e.hw # None THEN 2 ELSE 1)
    /\ e.hw = None => e.timer \in {"retrans", "none"}
    /\ e.hw # None => e.q = <<>> /\ e.timer = (IF e.perm THEN "none" ELSE "expire")
    /\ Len(e.q) <= IF_MAXQ
    /\ \A k \in 1 .. Len(e.q) : e.q[k] \in DOMAIN D /\ D[e.q[k]] = e.pr

Tables(E, A, R) ==
    /\ DOMAIN E \subseteq Slots
    /\ A = DOMAIN E
    /\ R = {x \in DOMAIN E : E[x].hw # None}
    /\ \A x, y \in DOMAIN E : E[x].pr = E[y].pr => x = y

Fated(D, F) ==
    /\ D \in Seq(Addrs) /\ Len(D) <= MaxPackets
    /\ DOMAIN F = DOMAIN D
    /\ \A i \in DOMAIN F : F[i] \in {"queued", "lost"} \cup HwAddrs

Waits(e, i) == \E k \in 1 .. Len(e.q) : e.q[k] = i

Parked(E, F) ==
    \A i \in DOMAIN F : F[i] = "queued" <=> \E x \in DOMAIN E : Waits(E[x], i)

InOrder(D, F) ==
    \A i, j \in DOMAIN F : i < j /\ D[i] = D[j] /\ F[j] \in HwAddrs => F[i] # "queued"

Exact(E, A, R, D, F) ==
    /\ \A x \in DOMAIN E : Sound(E[x], D)
    /\ Tables(E, A, R)
    /\ Fated(D, F)
    /\ Parked(E, F)
    /\ InOrder(D, F)

\* In every reachable state the whole cache is exact.
ArpIInv == Exact(ent, arptab, rarptab, dest, fate) /\ running \in BOOLEAN

LEMMA Consequence == ArpIInv => ArpInv
<1> SUFFICES ASSUME ArpIInv PROVE ArpInv
  OBVIOUS
<1> USE DEF ArpIInv, Exact
<1>1. ArpTypeOK
  BY DEF ArpTypeOK, Tables, Fated, Sound
<1>2. LinksExact
  BY DEF LinksExact, Tables, Sound
<1>3. TimerExact
  BY DEF TimerExact, Sound
<1>4. QueuesExact
  <2>1. ASSUME NEW i \in DOMAIN fate
        PROVE  fate[i] = "queued" <=> \E x \in DOMAIN ent, k \in 1 .. IF_MAXQ :
                   /\ k <= Len(ent[x].q) /\ ent[x].q[k] = i
                   /\ ent[x].pr = dest[i] /\ ent[x].hw = None
    <3>1. ASSUME NEW x \in DOMAIN ent, Waits(ent[x], i)
          PROVE  \E k \in 1 .. IF_MAXQ :
                   /\ k <= Len(ent[x].q) /\ ent[x].q[k] = i
                   /\ ent[x].pr = dest[i] /\ ent[x].hw = None
      <4>1. PICK k \in 1 .. Len(ent[x].q) : ent[x].q[k] = i
        BY <3>1 DEF Waits
      <4>2. Len(ent[x].q) <= IF_MAXQ /\ ent[x].pr = dest[i]
        BY <4>1 DEF Sound
      <4>3. ent[x].q # <<>> /\ Len(ent[x].q) \in Nat
        BY <4>1 DEF Sound, Entry
      <4>4. ent[x].hw = None
        BY <4>3 DEF Sound
      <4>5. k \in 1 .. IF_MAXQ /\ k <= Len(ent[x].q)
        BY <4>1, <4>2, <4>3, ArpAssumption
      <4> QED BY <4>1, <4>2, <4>4, <4>5
    <3>2. ASSUME NEW x \in DOMAIN ent, NEW k \in 1 .. IF_MAXQ,
                 k <= Len(ent[x].q), ent[x].q[k] = i
          PROVE  Waits(ent[x], i)
      BY <3>2, ArpAssumption DEF Waits, Sound, Entry
    <3> QED BY <3>1, <3>2 DEF Parked
  <2> QED BY <2>1 DEF QueuesExact, InOrder
<1> QED BY <1>1, <1>2, <1>3, <1>4 DEF ArpInv, EntriesExact

(***************************************************************************)
(* What a step does to the invariant                                       *)
(***************************************************************************)
\* E with the entry e at x
Upd(E, x, e) == [y \in DOMAIN E \cup {x} |-> IF y = x THEN e ELSE E[y]]

\* What may become of the packets when the entry e for one host has its place:
\* D and F are the packets and fates before, D2 and G after.
Served(e, D, F, D2, G) ==
    /\ DOMAIN D \subseteq DOMAIN D2
    /\ \A i \in DOMAIN D : D2[i] = D[i]
    /\ \A i \in DOMAIN G :
          /\ D2[i] # e.pr => i \in DOMAIN D /\ G[i] = F[i]
          /\ D2[i] = e.pr => (G[i] = "queued" <=> Waits(e, i))
          /\ D2[i] = e.pr /\ e.hw = None /\ G[i] \in HwAddrs => i \in DOMAIN D /\ G[i] = F[i]
          /\ D2[i] = e.pr /\ G[i] = "queued" /\ i \in DOMAIN D => F[i] = "queued"

LEMMA PutExact ==
    ASSUME NEW E, NEW A, NEW R, NEW D, NEW F, Exact(E, A, R, D, F),
           NEW x \in Slots, NEW e, NEW D2, NEW G, NEW S,
           Sound(e, D2), Fated(D2, G), Served(e, D, F, D2, G),
           x \in DOMAIN E => E[x].pr = e.pr,
           \A y \in DOMAIN E : E[y].pr = e.pr => y = x,
           S = (IF e.hw # None THEN R \cup {x} ELSE R \ {x})
    PROVE  Exact(Upd(E, x, e), A \cup {x}, S, D2, G)
<1> DEFINE U == Upd(E, x, e)
<1>1. /\ DOMAIN U = DOMAIN E \cup {x} /\ U[x] = e
      /\ \A y \in DOMAIN E : y # x => U[y] = E[y]
  BY DEF Upd
<1> HIDE DEF U
<1>2. \A y \in DOMAIN U : Sound(U[y], D2)
  <2>1. ASSUME NEW y \in DOMAIN E, y # x PROVE Sound(E[y], D2)
    BY DEF Exact, Sound, Served
  <2> QED BY <1>1, <2>1
<1>3. Tables(U, A \cup {x}, S)
  BY <1>1 DEF Tables, Exact
<1>4. ASSUME NEW i \in DOMAIN G
      PROVE  G[i] = "queued" <=> \E y \in DOMAIN U : Waits(U[y], i)
  <2>1. ASSUME NEW y \in DOMAIN U, Waits(U[y], i) PROVE D2[i] = U[y].pr
    BY <1>2, <2>1 DEF Waits, Sound
  <2>2. ASSUME NEW y \in DOMAIN E, Waits(E[y], i) PROVE i \in DOMAIN D /\ D[i] = E[y].pr
    BY <2>2 DEF Waits, Sound, Exact
  <2>3. CASE D2[i] = e.pr
    <3>1. ASSUME NEW y \in DOMAIN U, Waits(U[y], i) PROVE y = x
      BY <2>1, <3>1, <2>3, <1>1
    <3> QED BY <3>1, <2>3, <1>1 DEF Served
  <2>4. CASE D2[i] # e.pr
    <3>1. i \in DOMAIN D /\ i \in DOMAIN F /\ G[i] = F[i]
      BY <2>4 DEF Served, Exact, Fated
    <3>2. G[i] = "queued" <=> \E y \in DOMAIN E : Waits(E[y], i)
      BY <3>1 DEF Exact, Parked
    <3>3. ASSUME NEW y \in DOMAIN E, Waits(E[y], i) PROVE y # x
      BY <2>2, <3>3, <2>4, <3>1 DEF Served
    <3>4. ASSUME NEW y \in DOMAIN U, Waits(U[y], i) PROVE y # x
      BY <2>1, <3>4, <2>4, <1>1
    <3> QED BY <3>2, <3>3, <3>4, <1>1
  <2> QED BY <2>3, <2>4
<1>5. ASSUME NEW i \in DOMAIN G, NEW j \in DOMAIN G, i < j, D2[i] = D2[j], G[j] \in HwAddrs
      PROVE  G[i] # "queued"
  <2>0. Fated(D, F) /\ InOrder(D, F)
    BY DEF Exact
  <2>1. /\ DOMAIN G = DOMAIN D2 /\ DOMAIN F = DOMAIN D /\ D \in Seq(Addrs) /\ D2 \in Seq(Addrs)
    BY <2>0 DEF Fated
  <2>2. ASSUME j \in DOMAIN D PROVE i \in DOMAIN D /\ D[i] = D2[i] /\ D[j] = D2[j]
    BY <2>1, <2>2, <1>5 DEF Served
  <2>3. CASE D2[i] = e.pr
    <3>1. CASE e.hw = None
      <4>1. j \in DOMAIN D /\ G[j] = F[j]
        BY <3>1, <2>3, <1>5 DEF Served
      <4>2. F[i] # "queued"
        BY <4>1, <2>2, <2>1, <2>0, <1>5 DEF InOrder
      <4> QED BY <4>2, <4>1, <2>2, <2>3 DEF Served
    <3>2. CASE e.hw # None
      <4>1. e.q = <<>>
        BY <3>2 DEF Sound
      <4>2. ~Waits(e, i)
        BY <4>1 DEF Waits
      <4> QED BY <4>2, <2>3 DEF Served
    <3> QED BY <3>1, <3>2
  <2>4. CASE D2[i] # e.pr
    <3>1. j \in DOMAIN D /\ G[j] = F[j] /\ i \in DOMAIN D /\ G[i] = F[i]
      BY <2>4, <1>5 DEF Served
    <3> QED BY <3>1, <2>2, <2>1, <2>0, <1>5 DEF InOrder
  <2> QED BY <2>3, <2>4
<1> QED BY <1>2, <1>3, <1>4, <1>5 DEF Exact, Parked, InOrder, U

\* Packets lost
Gives(D, F, G, L) ==
    /\ DOMAIN G = DOMAIN F
    /\ \A i \in DOMAIN F : G[i] = IF i \in L THEN "lost" ELSE F[i]

LEMMA DropExact ==
    ASSUME NEW E, NEW A, NEW R, NEW D, NEW F, Exact(E, A, R, D, F),
           NEW x \in DOMAIN E, NEW G,
           Gives(D, F, G, {E[x].q[k] : k \in 1 .. Len(E[x].q)})
    PROVE  Exact(Without(E, x), A \ {x}, R \ {x}, D, G)
<1> DEFINE U == Without(E, x)
<1>1. /\ DOMAIN U = DOMAIN E \ {x}
      /\ \A y \in DOMAIN U : U[y] = E[y]
  BY DEF Without
<1> HIDE DEF U
<1>2. \A y \in DOMAIN U : Sound(U[y], D)
  BY <1>1 DEF Exact
<1>3. Tables(U, A \ {x}, R \ {x})
  BY <1>1 DEF Tables, Exact
<1>4. DOMAIN G = DOMAIN F /\ \A i \in DOMAIN F : G[i] = IF Waits(E[x], i) THEN "lost" ELSE F[i]
  BY DEF Gives, Waits
<1>5. Fated(D, G)
  BY <1>4 DEF Fated, Exact
<1>6. ASSUME NEW i \in DOMAIN G
      PROVE  G[i] = "queued" <=> \E y \in DOMAIN U : Waits(U[y], i)
  <2>1. ASSUME NEW y \in DOMAIN E, Waits(E[y], i) PROVE D[i] = E[y].pr
    BY <2>1 DEF Waits, Sound, Exact
  <2>2. ASSUME NEW y \in DOMAIN E, Waits(E[y], i), Waits(E[x], i) PROVE y = x
    BY <2>1, <2>2 DEF Exact, Tables
  <2>3. F[i] = "queued" <=> \E y \in DOMAIN E : Waits(E[y], i)
    BY <1>4 DEF Exact, Parked
  <2> QED BY <1>1, <1>4, <2>2, <2>3
<1>7. InOrder(D, G)
  <2>1. ASSUME NEW i \in DOMAIN G, G[i] \in HwAddrs PROVE G[i] = F[i]
    BY <2>1, <1>4, ArpAssumption
  <2> QED BY <1>4, <2>1 DEF Exact, InOrder
<1>8. Exact(U, A \ {x}, R \ {x}, D, G)
  BY <1>2, <1>3, <1>5, <1>6, <1>7 DEF Exact, Parked
<1> QED BY <1>8 DEF U

\* A packet lost at once
LEMMA LostExact ==
    ASSUME NEW E, NEW A, NEW R, NEW D, NEW F, Exact(E, A, R, D, F), NEW p \in Addrs,
           NEW G, Len(D) + 1 <= MaxPackets,
           DOMAIN G = 1 .. Len(D) + 1,
           \A i \in DOMAIN G : G[i] = IF i \in DOMAIN D THEN F[i] ELSE "lost"
    PROVE  Exact(E, A, R, Append(D, p), G)
<1> DEFINE C == Append(D, p)
<1>1. D \in Seq(Addrs) /\ DOMAIN F = DOMAIN D /\ DOMAIN D = 1 .. Len(D) /\ Len(D) \in Nat
  BY DEF Exact, Fated
<1>2. C \in Seq(Addrs) /\ DOMAIN C = 1 .. Len(D) + 1 /\ Len(C) = Len(D) + 1
  BY <1>1
<1>3. \A i \in DOMAIN D : i \in DOMAIN C /\ C[i] = D[i]
  BY <1>1
<1>4. DOMAIN G = DOMAIN C /\ \A i \in DOMAIN G : G[i] = IF i \in DOMAIN D THEN F[i] ELSE "lost"
  BY <1>2
<1> HIDE DEF C
<1>5. \A y \in DOMAIN E : Sound(E[y], C)
  BY <1>3 DEF Exact, Sound
<1>6. Fated(C, G)
  BY <1>1, <1>2, <1>4 DEF Fated, Exact
<1>7. Parked(E, G)
  <2>1. ASSUME NEW y \in DOMAIN E, NEW i, Waits(E[y], i) PROVE i \in DOMAIN D
    BY <2>1 DEF Waits, Sound, Exact
  <2> QED BY <1>1, <1>4, <2>1 DEF Parked, Exact
<1>8. InOrder(C, G)
  <2>1. ASSUME NEW i \in DOMAIN G, NEW j \in DOMAIN G, i < j, C[i] = C[j], G[j] \in HwAddrs
        PROVE  G[i] # "queued"
    <3>1. j \in DOMAIN D
      BY <2>1, <1>4, ArpAssumption
    <3>2. i \in DOMAIN D
      BY <3>1, <2>1, <1>1, <1>2, <1>4
    <3> QED BY <3>1, <3>2, <1>1, <1>3, <1>4, <2>1 DEF InOrder, Exact
  <2> QED BY <2>1 DEF InOrder
<1> QED BY <1>5, <1>6, <1>7, <1>8 DEF Exact, C

\* Nothing is left
LEMMA FlushExact ==
    ASSUME NEW E, NEW A, NEW R, NEW D, NEW F, Exact(E, A, R, D, F), NEW G, NEW N,
           DOMAIN N = {}, NEW L, Gives(D, F, G, L),
           \A i : i \in L <=> \E x \in DOMAIN E : Waits(E[x], i)
    PROVE  Exact(N, {}, {}, D, G)
<1>1. DOMAIN G = DOMAIN F
      /\ \A i \in DOMAIN F : G[i] = IF \E x \in DOMAIN E : Waits(E[x], i) THEN "lost" ELSE F[i]
  BY DEF Gives
<1>2. Fated(D, G)
  BY <1>1 DEF Fated, Exact
<1>3. \A i \in DOMAIN G : G[i] # "queued"
  BY <1>1 DEF Exact, Parked
<1>4. Parked(N, G) /\ InOrder(D, G)
  BY <1>3 DEF Parked, InOrder
<1>5. Tables(N, {}, {})
  BY DEF Tables
<1> QED BY <1>2, <1>4, <1>5 DEF Exact

(***************************************************************************)
(* What the functions make of a cache                                      *)
(***************************************************************************)
Rec(E, A, R, S, L) == [ent |-> E, arp |-> A, rarp |-> R, sent |-> S, lost |-> L]

Ent(n, p, h, m, t, r, w) ==
    [links |-> n, pr |-> p, hw |-> h, perm |-> m, timer |-> t, retries |-> r, q |-> w]

\* The packets of the queue w, and those packets on their way to h
Held(w) == {w[k] : k \in 1 .. Len(w)}
To(K, h) == {<<i, h>> : i \in K}

\* Changes of a field of an entry
Linked(c, x) == [c EXCEPT !.ent[x].links = @ + 1]
WithQ(c, x, v) == [c EXCEPT !.ent[x].q = v]
WithTimer(c, x, v) == [c EXCEPT !.ent[x].timer = v]
Tried(c, x) == [c EXCEPT !.ent[x].retries = @ + 1]

LEMMA UpdIs ==
    ASSUME NEW E, NEW x, NEW e
    PROVE  DOMAIN Upd(E, x, e) = DOMAIN E \cup {x} /\ Upd(E, x, e)[x] = e
BY DEF Upd

LEMMA UpdAgain ==
    ASSUME NEW E, NEW x, NEW e, NEW d
    PROVE  Upd(Upd(E, x, e), x, d) = Upd(E, x, d)
BY DEF Upd

LEMMA UpdGone ==
    ASSUME NEW E, NEW x, NEW e
    PROVE  Without(Upd(E, x, e), x) = Without(E, x)
BY DEF Upd, Without

LEMMA DerefKeeps ==
    ASSUME NEW E, NEW A, NEW R, NEW S, NEW L, NEW x \in DOMAIN E,
           NEW n \in Nat, NEW p, NEW h, NEW m, NEW t, NEW r, NEW w, n > 1,
           E[x] = Ent(n, p, h, m, t, r, w)
    PROVE  Deref(Rec(E, A, R, S, L), x) = Rec(Upd(E, x, Ent(n - 1, p, h, m, t, r, w)), A, R, S, L)
BY DEF Deref, Rec, Upd, Ent

LEMMA DerefFrees ==
    ASSUME NEW E, NEW A, NEW R, NEW S, NEW L, NEW x \in DOMAIN E,
           NEW p, NEW h, NEW m, NEW t, NEW r, NEW w,
           E[x] = Ent(1, p, h, m, t, r, w)
    PROVE  Deref(Rec(E, A, R, S, L), x) = Rec(Without(E, x), A, R, S, L \cup Held(w))
<1> DEFINE c == Rec(E, A, R, S, L)
<1>1. Waiting(c, x) = Held(w)
  BY DEF Rec, Ent, Waiting, Held
<1>2. c.ent = E /\ c.lost = L /\ ~(c.ent[x].links > 1)
  BY DEF Rec, Ent
<1>3. Deref(c, x) = [c EXCEPT !.ent = Without(E, x), !.lost = L \cup Held(w)]
  BY <1>1, <1>2 DEF Deref
<1> DEFINE F == Without(E, x)
           K == L \cup Held(w)
<1> HIDE DEF F, K
<1>4. [c EXCEPT !.ent = F, !.lost = K] = Rec(F, A, R, S, K)
  <2>1. [c EXCEPT !.ent = F] = Rec(F, A, R, S, L)
    BY DEF Rec
  <2>2. [Rec(F, A, R, S, L) EXCEPT !.lost = K] = Rec(F, A, R, S, K)
    BY DEF Rec
  <2> QED BY <2>1, <2>2
<1> HIDE DEF c
<1> QED BY <1>3, <1>4 DEF F, K, c

\* What Removed makes of x, whose entry has n links
RemovedTo(E, A, R, x, n, p, h, m, t, r, w) ==
    /\ x \in R /\ n > 2 => Removed(Rec(E, A, R, {}, {}), x)
         = Rec(Upd(E, x, Ent(n - 2, p, h, m, t, r, w)), A \ {x}, R \ {x}, {}, {})
    /\ x \in R /\ n = 2 => Removed(Rec(E, A, R, {}, {}), x)
         = Rec(Without(E, x), A \ {x}, R \ {x}, {}, Held(w))
    /\ x \notin R /\ n > 1 => Removed(Rec(E, A, R, {}, {}), x)
         = Rec(Upd(E, x, Ent(n - 1, p, h, m, t, r, w)), A \ {x}, R \ {x}, {}, {})
    /\ x \notin R /\ n = 1 => Removed(Rec(E, A, R, {}, {}), x)
         = Rec(Without(E, x), A \ {x}, R \ {x}, {}, Held(w))

LEMMA RemovedIs ==
    ASSUME NEW E, NEW A, NEW R, NEW x \in DOMAIN E, x \in A,
           NEW n \in Nat, NEW p, NEW h, NEW m, NEW t, NEW r, NEW w,
           E[x] = Ent(n, p, h, m, t, r, w)
    PROVE  RemovedTo(E, A, R, x, n, p, h, m, t, r, w)
<1> DEFINE c == Rec(E, A, R, {}, {})
           e == Ent(n - 1, p, h, m, t, r, w)
           U == Upd(E, x, e)
<1>1. arp_remove(c, x) = Deref(Rec(E, A \ {x}, R, {}, {}), x)
  <2>1. c.arp = A /\ [c EXCEPT !.arp = A \ {x}] = Rec(E, A \ {x}, R, {}, {})
    BY DEF Rec
  <2> QED BY <2>1 DEF arp_remove
<1>2. ASSUME NEW E1, NEW L1
      PROVE  rarp_remove(Rec(E1, A \ {x}, R, {}, L1), x)
               = IF x \in R THEN Deref(Rec(E1, A \ {x}, R \ {x}, {}, L1), x)
                 ELSE Rec(E1, A \ {x}, R \ {x}, {}, L1)
  <2> DEFINE b == Rec(E1, A \ {x}, R, {}, L1)
  <2>1. b.rarp = R /\ [b EXCEPT !.rarp = R \ {x}] = Rec(E1, A \ {x}, R \ {x}, {}, L1)
    BY DEF Rec
  <2>2. x \notin R => R \ {x} = R
    OBVIOUS
  <2> HIDE DEF b
  <2>3. rarp_remove(b, x) = IF x \in R THEN Deref(Rec(E1, A \ {x}, R \ {x}, {}, L1), x) ELSE b
    BY <2>1 DEF rarp_remove
  <2> QED BY <2>2, <2>3 DEF b
<1>3. U[x] = Ent(n - 1, p, h, m, t, r, w) /\ x \in DOMAIN U
      /\ Upd(U, x, Ent(n - 2, p, h, m, t, r, w)) = Upd(E, x, Ent(n - 2, p, h, m, t, r, w))
      /\ Without(U, x) = Without(E, x)
  <2>1. U[x] = e /\ DOMAIN U = DOMAIN E \cup {x} /\ Without(U, x) = Without(E, x)
        /\ \A d : Upd(U, x, d) = Upd(E, x, d)
    <3> HIDE DEF e
    <3> QED BY DEF Upd, Without
  <2> HIDE DEF U
  <2> QED BY <2>1
<1>4. CASE n > 1
  <2>1. arp_remove(c, x) = Rec(U, A \ {x}, R, {}, {})
    BY <1>1, <1>4, DerefKeeps
  <2>2. CASE x \notin R
    <3> HIDE DEF c, U
    <3>1. Removed(c, x) = Rec(U, A \ {x}, R \ {x}, {}, {})
      BY <2>1, <2>2, <1>2 DEF Removed
    <3> QED BY <3>1, <2>2, <1>4 DEF c, U, RemovedTo
  <2>3. CASE x \in R
    <3>1. Removed(c, x) = Deref(Rec(U, A \ {x}, R \ {x}, {}, {}), x)
      BY <2>1, <2>3, <1>2 DEF Removed
    <3> HIDE DEF U
    <3>2. CASE n > 2
      <4>1. n - 1 \in Nat /\ n - 1 > 1 /\ (n - 1) - 1 = n - 2
        BY <3>2
      <4>2. Deref(Rec(U, A \ {x}, R \ {x}, {}, {}), x)
              = Rec(Upd(U, x, Ent((n - 1) - 1, p, h, m, t, r, w)), A \ {x}, R \ {x}, {}, {})
        BY <1>3, <4>1, DerefKeeps
      <4> QED BY <3>1, <3>2, <4>1, <4>2, <1>3, <2>3 DEF RemovedTo
    <3>3. CASE n = 2
      <4>1. U[x] = Ent(1, p, h, m, t, r, w)
        BY <1>3, <3>3
      <4>2. Deref(Rec(U, A \ {x}, R \ {x}, {}, {}), x)
              = Rec(Without(U, x), A \ {x}, R \ {x}, {}, {} \cup Held(w))
        BY <1>3, <4>1, DerefFrees
      <4>3. {} \cup Held(w) = Held(w)
        OBVIOUS
      <4> QED BY <3>1, <3>3, <4>2, <4>3, <1>3, <2>3 DEF RemovedTo
    <3> QED BY <3>2, <3>3, <1>4, <2>3
  <2> QED BY <2>2, <2>3
<1>5. CASE n = 1
  <2>1. arp_remove(c, x) = Rec(Without(E, x), A \ {x}, R, {}, {} \cup Held(w))
    BY <1>1, <1>5, DerefFrees
  <2>2. {} \cup Held(w) = Held(w)
    OBVIOUS
  <2> QED BY <2>1, <2>2, <1>2, <1>5 DEF Removed, RemovedTo
<1> QED BY <1>4, <1>5 DEF RemovedTo

LEMMA LinkIs ==
    ASSUME NEW E, NEW A, NEW R, NEW S, NEW L, NEW x \in DOMAIN E,
           NEW n \in Nat, NEW p, NEW h, NEW m, NEW t, NEW r, NEW w,
           E[x] = Ent(n, p, h, m, t, r, w)
    PROVE  Linked(Rec(E, A, R, S, L), x)
             = Rec(Upd(E, x, Ent(n + 1, p, h, m, t, r, w)), A, R, S, L)
BY DEF Rec, Upd, Ent, Linked

LEMMA QueueIs ==
    ASSUME NEW E, NEW A, NEW R, NEW S, NEW L, NEW x \in DOMAIN E, NEW v,
           NEW n, NEW p, NEW h, NEW m, NEW t, NEW r, NEW w,
           E[x] = Ent(n, p, h, m, t, r, w)
    PROVE  WithQ(Rec(E, A, R, S, L), x, v)
             = Rec(Upd(E, x, Ent(n, p, h, m, t, r, v)), A, R, S, L)
BY DEF Rec, Upd, Ent, WithQ

LEMMA TimerIs ==
    ASSUME NEW E, NEW A, NEW R, NEW S, NEW L, NEW x \in DOMAIN E, NEW v,
           NEW n, NEW p, NEW h, NEW m, NEW t, NEW r, NEW w,
           E[x] = Ent(n, p, h, m, t, r, w)
    PROVE  WithTimer(Rec(E, A, R, S, L), x, v)
             = Rec(Upd(E, x, Ent(n, p, h, m, v, r, w)), A, R, S, L)
BY DEF Rec, Upd, Ent, WithTimer

LEMMA RetriesIs ==
    ASSUME NEW E, NEW A, NEW R, NEW S, NEW L, NEW x \in DOMAIN E,
           NEW n, NEW p, NEW h, NEW m, NEW t, NEW r \in Nat, NEW w,
           E[x] = Ent(n, p, h, m, t, r, w)
    PROVE  Tried(Rec(E, A, R, S, L), x)
             = Rec(Upd(E, x, Ent(n, p, h, m, t, r + 1, w)), A, R, S, L)
BY DEF Rec, Upd, Ent, Tried

\* The entry that arp_lookup creates
Fresh(p) == Ent(2, p, None, FALSE, "none", 0, <<>>)

LEMMA CreatedIs ==
    ASSUME NEW E, NEW A, NEW R, NEW S, NEW L, NEW x, x \notin DOMAIN E, NEW p
    PROVE  Created(Rec(E, A, R, S, L), x, p)
             = Rec(Upd(E, x, Fresh(p)), A \cup {x}, R, S, L)
<1> DEFINE e == Fresh(p)
           U == Upd(E, x, e)
           c == Rec(E, A, R, S, L)
<1>1. Created(c, x, p) = [c EXCEPT !.ent = U, !.arp = A \cup {x}]
  <2>1. c.ent = E /\ c.arp = A
    BY DEF Rec
  <2> HIDE DEF c
  <2> QED BY <2>1 DEF Created, Upd, Ent, Fresh
<1>2. [c EXCEPT !.ent = U] = Rec(U, A, R, S, L)
  <2> HIDE DEF U
  <2> QED BY DEF Rec
<1>3. [Rec(U, A, R, S, L) EXCEPT !.arp = A \cup {x}] = Rec(U, A \cup {x}, R, S, L)
  <2> HIDE DEF U
  <2> QED BY DEF Rec
<1> QED BY <1>1, <1>2, <1>3

LEMMA SentOn ==
    ASSUME NEW E, NEW A, NEW R, NEW S, NEW L, NEW x \in DOMAIN E, NEW i,
           NEW n \in Nat, NEW p, NEW h, NEW m, NEW t, NEW r, NEW w \in Seq(1 .. MaxPackets),
           E[x] = Ent(n, p, h, m, t, r, w), h # None
    PROVE  Sent(Rec(E, A, R, S, L), x, i) = Rec(E, A, R, S \cup To({i}, h), L)
<1> DEFINE c == Rec(E, A, R, S, L)
<1>1. c.ent[x].hw = h /\ c.ent[x].q = w /\ c.sent = S /\ c.lost = L
  BY DEF Rec, Ent
<1> DEFINE v == S \cup To({i}, h)
<1>2. S \cup {<<i, h>>} = v
  BY DEF To
<1>3. Sent(c, x, i) = [c EXCEPT !.sent = v]
  BY <1>1, <1>2 DEF Sent
<1> HIDE DEF v
<1>4. [c EXCEPT !.sent = v] = Rec(E, A, R, v, L)
  BY DEF Rec
<1> QED BY <1>3, <1>4 DEF v

LEMMA SentFull ==
    ASSUME NEW E, NEW A, NEW R, NEW S, NEW L, NEW x \in DOMAIN E, NEW i,
           NEW n \in Nat, NEW p, NEW h, NEW m, NEW t, NEW r, NEW w \in Seq(1 .. MaxPackets),
           E[x] = Ent(n, p, h, m, t, r, w), h = None, Len(w) >= IF_MAXQ
    PROVE  Sent(Rec(E, A, R, S, L), x, i) = Rec(E, A, R, S, L \cup {i})
<1> DEFINE c == Rec(E, A, R, S, L)
<1>1. c.ent[x].hw = h /\ c.ent[x].q = w /\ c.sent = S /\ c.lost = L
  BY DEF Rec, Ent
<1> DEFINE v == L \cup {i}
<1>2. Sent(c, x, i) = [c EXCEPT !.lost = v]
  BY <1>1 DEF Sent
<1> HIDE DEF v
<1>3. [c EXCEPT !.lost = v] = Rec(E, A, R, S, v)
  BY DEF Rec
<1> QED BY <1>2, <1>3 DEF v

LEMMA SentWaits ==
    ASSUME NEW E, NEW A, NEW R, NEW S, NEW L, NEW x \in DOMAIN E, NEW i,
           NEW n \in Nat, NEW p, NEW h, NEW m, NEW t, NEW r, NEW w \in Seq(1 .. MaxPackets),
           E[x] = Ent(n, p, h, m, t, r, w), h = None, Len(w) < IF_MAXQ
    PROVE  Sent(Rec(E, A, R, S, L), x, i) = 
             Rec(Upd(E, x, Ent(n, p, h, m, t, r, Append(w, i))), A, R, S, L)
<1> DEFINE c == Rec(E, A, R, S, L)
<1>1. c.ent[x].hw = h /\ c.ent[x].q = w /\ c.sent = S /\ c.lost = L
  BY DEF Rec, Ent
<1>2. ~(Len(w) >= IF_MAXQ)
  BY ArpAssumption
<1>3. Sent(c, x, i) = WithQ(c, x, Append(w, i))
  BY <1>1, <1>2 DEF Sent, WithQ
<1> DEFINE v == Append(w, i)
<1> HIDE DEF v
<1>4. WithQ(c, x, v) = Rec(Upd(E, x, Ent(n, p, h, m, t, r, v)), A, R, S, L)
  BY QueueIs
<1> QED BY <1>3, <1>4 DEF v

\* What arp_sendreq makes of an entry that is tried again, or of a new one
Requested(E, A, R, x, ok, n, p, h, m, r, w) ==
    /\ r + 1 <= ARP_RETRIES =>
          arp_sendreq(Rec(E, A, R, {}, {}), x, ok)
            = Rec(Upd(E, x, Ent(n, p, h, m, IF ok THEN "retrans" ELSE "none", r + 1, w)),
                  A, R, {}, {})
    /\ r + 1 > ARP_RETRIES =>
          arp_sendreq(Rec(E, A, R, {}, {}), x, ok)
            = Removed(Rec(Upd(E, x, Ent(n, p, h, m, "none", r + 1, w)), A, R, {}, {}), x)

LEMMA RequestIs ==
    ASSUME NEW E, NEW A, NEW R, NEW x \in DOMAIN E, NEW ok \in BOOLEAN,
           NEW n \in Nat, NEW p, NEW h, NEW m, NEW r \in Nat, NEW w,
           E[x] = Ent(n, p, h, m, "none", r, w)
    PROVE  Requested(E, A, R, x, ok, n, p, h, m, r, w)
<1> DEFINE c == Rec(E, A, R, {}, {})
           e == Ent(n, p, h, m, "none", r + 1, w)
           U == Upd(E, x, e)
           d == Rec(U, A, R, {}, {})
<1>1. Tried(c, x) = d
  BY RetriesIs
<1>2. x \in DOMAIN U /\ U[x] = e
  BY DEF Upd
<1>3. d.ent[x].retries = r + 1
  BY <1>2 DEF Rec, Ent
<1>4. arp_sendreq(c, x, ok)
        = IF r + 1 > ARP_RETRIES THEN Removed(d, x)
          ELSE IF ok THEN WithTimer(d, x, "retrans") ELSE d
  <2> HIDE DEF c, d
  <2> QED BY <1>1, <1>3 DEF arp_sendreq, Tried, WithTimer
<1>5. WithTimer(d, x, "retrans")
        = Rec(Upd(U, x, Ent(n, p, h, m, "retrans", r + 1, w)), A, R, {}, {})
  <2> HIDE DEF U
  <2> QED BY <1>2, TimerIs
<1>6. Upd(U, x, Ent(n, p, h, m, "retrans", r + 1, w))
        = Upd(E, x, Ent(n, p, h, m, "retrans", r + 1, w))
  BY UpdAgain
<1>7. CASE r + 1 <= ARP_RETRIES
  <2>1. ~(r + 1 > ARP_RETRIES)
    BY <1>7, ArpAssumption
  <2>2. CASE ok
    BY <2>1, <2>2, <1>4, <1>5, <1>6 DEF Requested
  <2>3. CASE ~ok
    BY <2>1, <2>3, <1>4 DEF Requested
  <2> QED BY <2>2, <2>3
<1>8. CASE r + 1 > ARP_RETRIES
  BY <1>8, <1>4, ArpAssumption DEF Requested
<1> QED BY <1>7, <1>8, ArpAssumption DEF Requested

\* What arp_input makes of an entry that is in no place of rarptab
Term(b) == IF b THEN "none" ELSE "expire"
Moved(c, x, a, b) ==
    LET e == rarp_put([c EXCEPT !.ent[x].hw = a, !.ent[x].perm = b], x)
    IN  Deref(SendQ([e EXCEPT !.ent[x].timer = Term(b)], x), x)

LEMMA MovedIs ==
    ASSUME NEW E, NEW A, NEW R, NEW S, NEW L, NEW x \in DOMAIN E, NEW a, NEW b,
           NEW p, NEW h, NEW m, NEW t, NEW r, NEW w,
           E[x] = Ent(2, p, h, m, t, r, w)
    PROVE  Moved(Rec(E, A, R, S, L), x, a, b)
             = Rec(Upd(E, x, Ent(2, p, a, b, Term(b), r, <<>>)),
                   A, R \cup {x}, S \cup To(Held(w), a), L)
<1> DEFINE c == Rec(E, A, R, S, L)
           v == Term(b)
           Q == R \cup {x}
           K == S \cup To(Held(w), a)
           U1 == Upd(E, x, Ent(2, p, a, b, t, r, w))
           U2 == Upd(U1, x, Ent(3, p, a, b, t, r, w))
           U3 == Upd(U2, x, Ent(3, p, a, b, v, r, w))
           U4 == Upd(U3, x, Ent(3, p, a, b, v, r, <<>>))
           U5 == Upd(U4, x, Ent(2, p, a, b, v, r, <<>>))
<1>1. [c EXCEPT !.ent[x].hw = a, !.ent[x].perm = b] = Rec(U1, A, R, S, L)
  <2>1. [c EXCEPT !.ent[x].hw = a] = Rec(Upd(E, x, Ent(2, p, a, m, t, r, w)), A, R, S, L)
    BY DEF Rec, Upd, Ent
  <2> DEFINE V == Upd(E, x, Ent(2, p, a, m, t, r, w))
  <2>2. x \in DOMAIN V /\ V[x] = Ent(2, p, a, m, t, r, w)
    BY DEF Upd
  <2>3. Upd(V, x, Ent(2, p, a, b, t, r, w)) = U1
    BY DEF Upd
  <2> HIDE DEF V, U1
  <2>4. [Rec(V, A, R, S, L) EXCEPT !.ent[x].perm = b]
          = Rec(Upd(V, x, Ent(2, p, a, b, t, r, w)), A, R, S, L)
    BY <2>2 DEF Rec, Upd, Ent
  <2> QED BY <2>1, <2>3, <2>4 DEF V
<1>2. x \in DOMAIN U1 /\ U1[x] = Ent(2, p, a, b, t, r, w)
  BY DEF Upd
<1>3. x \in DOMAIN U2 /\ U2[x] = Ent(3, p, a, b, t, r, w)
  BY DEF Upd
<1>4. x \in DOMAIN U3 /\ U3[x] = Ent(3, p, a, b, v, r, w)
  BY DEF Upd
<1>5. x \in DOMAIN U4 /\ U4[x] = Ent(3, p, a, b, v, r, <<>>)
  BY DEF Upd
<1>6. U5 = Upd(E, x, Ent(2, p, a, b, v, r, <<>>))
  BY UpdAgain
<1> HIDE DEF U1, U2, U3, U4, U5, v
<1>7. rarp_put(Rec(U1, A, R, S, L), x) = Rec(U2, A, Q, S, L)
  <2>1. Rec(U1, A, R, S, L).rarp = R
    BY DEF Rec
  <2>2. [Rec(U1, A, R, S, L) EXCEPT !.rarp = Q] = Rec(U1, A, Q, S, L)
    <3> HIDE DEF Q
    <3> QED BY DEF Rec
  <2>3. Linked(Rec(U1, A, Q, S, L), x) = Rec(U2, A, Q, S, L)
    <3>1. Linked(Rec(U1, A, Q, S, L), x)
            = Rec(Upd(U1, x, Ent(2 + 1, p, a, b, t, r, w)), A, Q, S, L)
      <4> HIDE DEF Q
      <4> QED BY <1>2, LinkIs
    <3> QED BY <3>1 DEF U2
  <2>4. rarp_put(Rec(U1, A, R, S, L), x) = Linked([Rec(U1, A, R, S, L) EXCEPT !.rarp = Q], x)
    <3> DEFINE d == Rec(U1, A, R, S, L)
    <3> HIDE DEF d
    <3> QED BY <2>1 DEF rarp_put, Linked
  <2> QED BY <2>2, <2>3, <2>4
<1>8. WithTimer(Rec(U2, A, Q, S, L), x, v) = Rec(U3, A, Q, S, L)
  <2> HIDE DEF Q
  <2> QED BY <1>3, TimerIs DEF U3
<1>9. SendQ(Rec(U3, A, Q, S, L), x) = Rec(U4, A, Q, K, L)
  <2> DEFINE d == Rec(U3, A, Q, S, L)
  <2>1. d.ent[x].q = w /\ d.ent[x].hw = a /\ d.sent = S
    BY <1>4 DEF Rec, Ent
  <2>2. {<<w[k], a>> : k \in 1 .. Len(w)} = To(Held(w), a)
    BY DEF To, Held
  <2>3. SendQ(d, x) = [WithQ(d, x, <<>>) EXCEPT !.sent = K]
    <3> HIDE DEF d
    <3> QED BY <2>1, <2>2 DEF SendQ, WithQ
  <2>4. WithQ(d, x, <<>>) = Rec(U4, A, Q, S, L)
    <3> DEFINE y == <<>>
    <3> HIDE DEF y, Q
    <3>1. WithQ(Rec(U3, A, Q, S, L), x, y)
            = Rec(Upd(U3, x, Ent(3, p, a, b, v, r, y)), A, Q, S, L)
      BY <1>4, QueueIs
    <3> QED BY <3>1 DEF y, U4
  <2>5. [Rec(U4, A, Q, S, L) EXCEPT !.sent = K] = Rec(U4, A, Q, K, L)
    <3> HIDE DEF Q, K
    <3> QED BY DEF Rec
  <2> QED BY <2>3, <2>4, <2>5
<1>10. Deref(Rec(U4, A, Q, K, L), x) = Rec(U5, A, Q, K, L)
  <2>1. Deref(Rec(U4, A, Q, K, L), x) = Rec(Upd(U4, x, Ent(3 - 1, p, a, b, v, r, <<>>)), A, Q, K, L)
    <3> HIDE DEF Q, K
    <3> QED BY <1>5, DerefKeeps
  <2> QED BY <2>1 DEF U5
<1>11. Moved(c, x, a, b) = Rec(U5, A, Q, K, L)
  <2> HIDE DEF c, Q, K
  <2> QED BY <1>1, <1>7, <1>8, <1>9, <1>10 DEF Moved, WithTimer, v
<1> QED BY <1>6, <1>11 DEF v

\* Resolved, for a handler that holds one link: the tables' are left.
LEMMA ResolvedIs ==
    ASSUME NEW E, NEW A, NEW R, NEW x \in DOMAIN E, NEW a, NEW b,
           NEW n, NEW p, NEW h, NEW m, NEW t, NEW r, NEW w,
           E[x] = Ent(n, p, h, m, t, r, w),
           x \in R => n = 3, x \notin R => n = 2
    PROVE  Deref(Resolved(Rec(E, A, R, {}, {}), x, a, b), x)
             = Rec(Upd(E, x, Ent(2, p, a, b, Term(b), r, <<>>)),
                   A, R \cup {x}, {} \cup To(Held(w), a), {})
<1> DEFINE c == Rec(E, A, R, {}, {})
           T == R \ {x}
           e == Ent(2, p, a, b, Term(b), r, <<>>)
<1>1. Deref(Resolved(c, x, a, b), x) = Moved(rarp_remove(c, x), x, a, b)
  BY DEF Resolved, Moved, Term
<1>2. c.rarp = R /\ [c EXCEPT !.rarp = T] = Rec(E, A, T, {}, {})
  BY DEF Rec
<1>3. CASE x \in R
  <2> DEFINE U == Upd(E, x, Ent(2, p, h, m, t, r, w))
  <2>1. rarp_remove(c, x) = Deref(Rec(E, A, T, {}, {}), x)
    BY <1>2, <1>3 DEF rarp_remove
  <2>2. n \in Nat /\ n > 1 /\ n - 1 = 2
    BY <1>3
  <2>3. Deref(Rec(E, A, T, {}, {}), x)
          = Rec(Upd(E, x, Ent(n - 1, p, h, m, t, r, w)), A, T, {}, {})
    <3> HIDE DEF T
    <3> QED BY <2>2, DerefKeeps
  <2>4. rarp_remove(c, x) = Rec(U, A, T, {}, {})
    BY <2>1, <2>2, <2>3
  <2>5. x \in DOMAIN U /\ U[x] = Ent(2, p, h, m, t, r, w) /\ Upd(U, x, e) = Upd(E, x, e)
    BY DEF Upd
  <2>6. Moved(Rec(U, A, T, {}, {}), x, a, b)
          = Rec(Upd(U, x, e), A, T \cup {x}, {} \cup To(Held(w), a), {})
    <3> HIDE DEF U, T
    <3> QED BY <2>5, MovedIs
  <2>7. T \cup {x} = R \cup {x}
    OBVIOUS
  <2> QED BY <1>1, <2>4, <2>5, <2>6, <2>7
<1>4. CASE x \notin R
  <2>1. rarp_remove(c, x) = c /\ E[x] = Ent(2, p, h, m, t, r, w)
    BY <1>2, <1>4 DEF rarp_remove
  <2>2. Moved(c, x, a, b)
          = Rec(Upd(E, x, e), A, R \cup {x}, {} \cup To(Held(w), a), {})
    BY <2>1, MovedIs
  <2> QED BY <1>1, <2>1, <2>2
<1> QED BY <1>3, <1>4

\* What if_send makes of a cache with an entry for the host
Sendings(E, A, R, x, i, n, p, h, m, t, r, w) ==
    LET c == Deref(Sent(Linked(Rec(E, A, R, {}, {}), x), x, i), x)
    IN  /\ h # None => c = Rec(Upd(E, x, E[x]), A, R, {} \cup To({i}, h), {})
        /\ h = None /\ Len(w) >= IF_MAXQ => c = Rec(Upd(E, x, E[x]), A, R, {}, {} \cup {i})
        /\ h = None /\ Len(w) < IF_MAXQ =>
              c = Rec(Upd(E, x, Ent(n, p, h, m, t, r, Append(w, i))), A, R, {}, {})

LEMMA SendOldIs ==
    ASSUME NEW E, NEW A, NEW R, NEW x \in DOMAIN E, NEW i,
           NEW n \in Nat \ {0}, NEW p, NEW h, NEW m, NEW t, NEW r, NEW w \in Seq(1 .. MaxPackets),
           E[x] = Ent(n, p, h, m, t, r, w)
    PROVE  Sendings(E, A, R, x, i, n, p, h, m, t, r, w)
<1> DEFINE e == Ent(n + 1, p, h, m, t, r, w)
           U == Upd(E, x, e)
           b == Rec(U, A, R, {}, {})
           q == Append(w, i)
           K == {} \cup To({i}, h)
           L == {} \cup {i}
<1>1. Linked(Rec(E, A, R, {}, {}), x) = b
  BY LinkIs
<1>2. x \in DOMAIN U /\ U[x] = Ent(n + 1, p, h, m, t, r, w) /\ Upd(U, x, E[x]) = Upd(E, x, E[x])
      /\ Upd(U, x, Ent(n, p, h, m, t, r, w)) = Upd(U, x, E[x])
  BY DEF Upd
<1>3. n + 1 \in Nat /\ n + 1 > 1 /\ (n + 1) - 1 = n
  OBVIOUS
<1>4. \A S, M : Deref(Rec(U, A, R, S, M), x) = Rec(Upd(E, x, E[x]), A, R, S, M)
  <2> SUFFICES ASSUME NEW S, NEW M
               PROVE  Deref(Rec(U, A, R, S, M), x) = Rec(Upd(E, x, E[x]), A, R, S, M)
    OBVIOUS
  <2>1. Deref(Rec(U, A, R, S, M), x)
          = Rec(Upd(U, x, Ent((n + 1) - 1, p, h, m, t, r, w)), A, R, S, M)
    <3> HIDE DEF U
    <3> QED BY <1>2, <1>3, DerefKeeps
  <2> QED BY <2>1, <1>2, <1>3
<1> DEFINE N == n + 1
<1> HIDE DEF N
<1>5. /\ h # None => Sent(b, x, i) = Rec(U, A, R, K, {})
      /\ h = None /\ Len(w) >= IF_MAXQ => Sent(b, x, i) = Rec(U, A, R, {}, L)
      /\ h = None /\ Len(w) < IF_MAXQ =>
           Sent(b, x, i) = Rec(Upd(U, x, Ent(n + 1, p, h, m, t, r, q)), A, R, {}, {})
  <2> HIDE DEF U
  <2>1. N \in Nat /\ U[x] = Ent(N, p, h, m, t, r, w)
    BY <1>2, <1>3 DEF N
  <2>2. /\ h # None => Sent(b, x, i) = Rec(U, A, R, K, {})
        /\ h = None /\ Len(w) >= IF_MAXQ => Sent(b, x, i) = Rec(U, A, R, {}, L)
        /\ h = None /\ Len(w) < IF_MAXQ =>
             Sent(b, x, i) = Rec(Upd(U, x, Ent(N, p, h, m, t, r, q)), A, R, {}, {})
    <3>1. h # None => Sent(b, x, i) = Rec(U, A, R, K, {})
      BY <1>2, <2>1, SentOn
    <3>2. h = None /\ Len(w) >= IF_MAXQ => Sent(b, x, i) = Rec(U, A, R, {}, L)
      BY <1>2, <2>1, SentFull
    <3>3. h = None /\ Len(w) < IF_MAXQ =>
             Sent(b, x, i) = Rec(Upd(U, x, Ent(N, p, h, m, t, r, q)), A, R, {}, {})
      BY <1>2, <2>1, SentWaits
    <3> QED BY <3>1, <3>2, <3>3
  <2> QED BY <2>2 DEF N
<1>6. CASE h # None
  BY <1>1, <1>4, <1>5, <1>6 DEF Sendings
<1>7. CASE h = None /\ Len(w) >= IF_MAXQ
  BY <1>1, <1>4, <1>5, <1>7, ArpAssumption DEF Sendings
<1>8. CASE h = None /\ Len(w) < IF_MAXQ
  <2> DEFINE V == Upd(U, x, Ent(n + 1, p, h, m, t, r, q))
  <2>1. x \in DOMAIN V /\ V[x] = Ent(n + 1, p, h, m, t, r, q)
        /\ Upd(V, x, Ent(n, p, h, m, t, r, q)) = Upd(E, x, Ent(n, p, h, m, t, r, q))
    <3> HIDE DEF q
    <3> QED BY DEF Upd
  <2>2. Deref(Rec(V, A, R, {}, {}), x)
          = Rec(Upd(V, x, Ent((n + 1) - 1, p, h, m, t, r, q)), A, R, {}, {})
    <3> HIDE DEF V, q
    <3> QED BY <2>1, <1>3, DerefKeeps
  <2>3. ~(Len(w) >= IF_MAXQ)
    BY <1>8, ArpAssumption
  <2> QED BY <1>1, <1>5, <1>8, <1>3, <2>1, <2>2, <2>3 DEF Sendings
<1> QED BY <1>6, <1>7, <1>8, ArpAssumption DEF Sendings

\* The entry that if_send leaves for a host without one
Asked(p, ok, i) == Ent(1, p, None, FALSE, IF ok THEN "retrans" ELSE "none", 1, <<i>>)

LEMMA SendNewIs ==
    ASSUME NEW E, NEW A, NEW R, NEW x, x \notin DOMAIN E, NEW i, NEW p, NEW ok \in BOOLEAN
    PROVE  Deref(Sent(arp_sendreq(Created(Rec(E, A, R, {}, {}), x, p), x, ok), x, i), x)
             = Rec(Upd(E, x, Asked(p, ok, i)), A \cup {x}, R, {}, {})
<1> DEFINE m == FALSE
           t == IF ok THEN "retrans" ELSE "none"
           v == <<>>
           w == Append(v, i)
           B == A \cup {x}
           U1 == Upd(E, x, Fresh(p))
           U2 == Upd(U1, x, Ent(2, p, None, m, t, 0 + 1, v))
           U3 == Upd(U2, x, Ent(2, p, None, m, t, 0 + 1, w))
           U4 == Upd(U3, x, Ent(2 - 1, p, None, m, t, 0 + 1, w))
<1>1. Created(Rec(E, A, R, {}, {}), x, p) = Rec(U1, B, R, {}, {})
  BY CreatedIs
<1>2. U4 = Upd(E, x, Ent(1, p, None, FALSE, t, 1, <<i>>))
  <2>1. 2 - 1 = 1 /\ 0 + 1 = 1 /\ w = <<i>>
    OBVIOUS
  <2> HIDE DEF t, v, w
  <2> DEFINE e2 == Ent(2, p, None, m, t, 0 + 1, v)
             e3 == Ent(2, p, None, m, t, 0 + 1, w)
             e4 == Ent(2 - 1, p, None, m, t, 0 + 1, w)
  <2>2. e4 = Ent(1, p, None, FALSE, t, 1, <<i>>)
    BY <2>1
  <2> HIDE DEF e2, e3, e4
  <2>3. Upd(Upd(Upd(Upd(E, x, Fresh(p)), x, e2), x, e3), x, e4) = Upd(E, x, e4)
    BY UpdAgain
  <2> QED BY <2>2, <2>3 DEF e2, e3, e4
<1> HIDE DEF B, v, w, t, m
<1>3. x \in DOMAIN U1 /\ U1[x] = Ent(2, p, None, m, "none", 0, v)
  BY DEF Upd, Fresh, m, v
<1>4. x \in DOMAIN U2 /\ U2[x] = Ent(2, p, None, m, t, 0 + 1, v)
  BY DEF Upd
<1>5. x \in DOMAIN U3 /\ U3[x] = Ent(2, p, None, m, t, 0 + 1, w)
  BY DEF Upd
<1>6. 0 + 1 <= ARP_RETRIES /\ 0 \in Nat /\ 2 \in Nat /\ 2 > 1
      /\ Len(v) < IF_MAXQ /\ v \in Seq(1 .. MaxPackets)
  BY ArpAssumption DEF v
<1> HIDE DEF U1
<1>7. arp_sendreq(Rec(U1, B, R, {}, {}), x, ok) = Rec(U2, B, R, {}, {})
  <2>1. arp_sendreq(Rec(U1, B, R, {}, {}), x, ok)
          = Rec(Upd(U1, x, Ent(2, p, None, m, IF ok THEN "retrans" ELSE "none", 0 + 1, v)),
                B, R, {}, {})
    <3> DEFINE n == 2
               r == 0
    <3>1. U1[x] = Ent(n, p, None, m, "none", r, v)
      BY <1>3
    <3> HIDE DEF n, r
    <3>2. n \in Nat /\ r \in Nat /\ r + 1 <= ARP_RETRIES
      BY <1>6 DEF n, r
    <3>3. Requested(U1, B, R, x, ok, n, p, None, m, r, v)
      BY <1>3, <3>1, <3>2, RequestIs
    <3> QED BY <3>2, <3>3 DEF Requested, n, r
  <2> QED BY <2>1 DEF t
<1> HIDE DEF U2
<1>8. Sent(Rec(U2, B, R, {}, {}), x, i) = Rec(U3, B, R, {}, {})
  <2> DEFINE n == 2
             r == 0 + 1
  <2>1. U2[x] = Ent(n, p, None, m, t, r, v) /\ n \in Nat
    BY <1>4
  <2> HIDE DEF n, r
  <2>2. Sent(Rec(U2, B, R, {}, {}), x, i)
          = Rec(Upd(U2, x, Ent(n, p, None, m, t, r, Append(v, i))), B, R, {}, {})
    BY <1>4, <1>6, <2>1, SentWaits
  <2> QED BY <2>2 DEF w, n, r, U3
<1> HIDE DEF U3
<1>9. Deref(Rec(U3, B, R, {}, {}), x) = Rec(U4, B, R, {}, {})
  BY <1>5, <1>6, DerefKeeps
<1> QED BY <1>1, <1>2, <1>7, <1>8, <1>9 DEF B, t, Asked

(***************************************************************************)
(* What Become makes of the fates                                          *)
(***************************************************************************)
Fate(c, f) ==
    [i \in DOMAIN f |->
        CASE i \in c.lost -> "lost"
          [] \E m \in c.sent : m[1] = i -> (CHOOSE m \in c.sent : m[1] = i)[2]
          [] OTHER -> f[i]]

LEMMA FateIs ==
    ASSUME NEW E, NEW A, NEW R, NEW K, NEW h, NEW f
    PROVE  /\ DOMAIN Fate(Rec(E, A, R, {} \cup To(K, h), {}), f) = DOMAIN f
           /\ \A i \in DOMAIN f :
                 Fate(Rec(E, A, R, {} \cup To(K, h), {}), f)[i] = IF i \in K THEN h ELSE f[i]
<1> DEFINE c == Rec(E, A, R, {} \cup To(K, h), {})
<1>1. c.lost = {} /\ c.sent = To(K, h)
  BY DEF Rec
<1>2. ASSUME NEW i PROVE (\E m \in c.sent : m[1] = i) <=> i \in K
  <2>1. ASSUME i \in K PROVE \E m \in c.sent : m[1] = i
    <3>1. <<i, h>> \in c.sent
      BY <1>1, <2>1 DEF To
    <3> QED BY <3>1
  <2>2. ASSUME NEW m \in c.sent, m[1] = i PROVE i \in K
    BY <1>1, <2>2 DEF To
  <2> QED BY <2>1, <2>2
<1>3. ASSUME NEW i \in K PROVE (CHOOSE m \in c.sent : m[1] = i)[2] = h
  <2>1. \A m \in c.sent : m[2] = h
    BY <1>1 DEF To
  <2>2. \E m \in c.sent : m[1] = i
    BY <1>2
  <2> DEFINE z == CHOOSE m \in c.sent : m[1] = i
  <2>3. z \in c.sent
    BY <2>2
  <2> QED BY <2>1, <2>3
<1> HIDE DEF c
<1>4. DOMAIN Fate(c, f) = DOMAIN f
      /\ \A i \in DOMAIN f : Fate(c, f)[i] = IF i \in K THEN h ELSE f[i]
  BY <1>1, <1>2, <1>3 DEF Fate
<1> QED BY <1>4 DEF c

LEMMA LostIs ==
    ASSUME NEW E, NEW A, NEW R, NEW L, NEW f
    PROVE  /\ DOMAIN Fate(Rec(E, A, R, {}, L), f) = DOMAIN f
           /\ \A i \in DOMAIN f :
                 Fate(Rec(E, A, R, {}, L), f)[i] = IF i \in L THEN "lost" ELSE f[i]
<1> DEFINE c == Rec(E, A, R, {}, L)
<1>1. c.lost = L /\ c.sent = {}
  BY DEF Rec
<1> HIDE DEF c
<1>2. DOMAIN Fate(c, f) = DOMAIN f
      /\ \A i \in DOMAIN f : Fate(c, f)[i] = IF i \in L THEN "lost" ELSE f[i]
  BY <1>1 DEF Fate
<1> QED BY <1>2 DEF c

LEMMA BecomeIs ==
    ASSUME NEW E, NEW A, NEW R, NEW S, NEW L, NEW f, Become(Rec(E, A, R, S, L), f)
    PROVE  ent' = E /\ arptab' = A /\ rarptab' = R /\ fate' = Fate(Rec(E, A, R, S, L), f)
BY DEF Become, Rec, Fate

(***************************************************************************)
(* The steps                                                               *)
(***************************************************************************)
LEMMA EntryIs ==
    ASSUME NEW e \in Entry
    PROVE  e = Ent(e.links, e.pr, e.hw, e.perm, e.timer, e.retries, e.q)
BY DEF Entry, Ent

LEMMA CacheIs == Cache = Rec(ent, arptab, rarptab, {}, {})
BY DEF Cache, Rec

LEMMA FoundIs ==
    ASSUME ArpIInv, NEW p
    PROVE  /\ \A x \in Found(Cache, p) :
                 /\ x \in DOMAIN ent /\ x \in Slots /\ x \in arptab /\ ent[x].pr = p
                 /\ \A y \in DOMAIN ent : ent[y].pr = p => y = x
           /\ Found(Cache, p) = {} => \A y \in DOMAIN ent : ent[y].pr # p
<1>1. Found(Cache, p) = {x \in DOMAIN ent : ent[x].pr = p}
  BY DEF Found, Cache, ArpIInv, Exact, Tables
<1> QED BY <1>1 DEF ArpIInv, Exact, Tables

LEMMA WaitingIs ==
    ASSUME ArpIInv, NEW y \in DOMAIN ent, NEW i, Waits(ent[y], i)
    PROVE  i \in DOMAIN dest /\ dest[i] = ent[y].pr
BY DEF ArpIInv, Exact, Sound, Waits

\* An entry has been given a hardware address.
LEMMA SettledStep ==
    ASSUME ArpIInv, UNCHANGED <<running, dest>>,
           NEW x \in Slots, NEW p \in Addrs, NEW a \in HwAddrs, NEW b \in BOOLEAN,
           NEW r \in 0 .. ARP_RETRIES, NEW w,
           Become(Rec(Upd(ent, x, Ent(2, p, a, b, Term(b), r, <<>>)), arptab \cup {x},
                      rarptab \cup {x}, {} \cup To(Held(w), a), {}), fate),
           x \in DOMAIN ent => ent[x].pr = p,
           \A y \in DOMAIN ent : ent[y].pr = p => y = x,
           \A i : i \in Held(w) <=> x \in DOMAIN ent /\ Waits(ent[x], i)
    PROVE  ArpIInv'
<1> DEFINE e == Ent(2, p, a, b, Term(b), r, <<>>)
<1>1. /\ ent' = Upd(ent, x, e) /\ arptab' = arptab \cup {x} /\ rarptab' = rarptab \cup {x}
      /\ DOMAIN fate' = DOMAIN fate
      /\ \A i \in DOMAIN fate : fate'[i] = IF i \in Held(w) THEN a ELSE fate[i]
  BY BecomeIs, FateIs
<1>2. a # None /\ a # "queued" /\ a # "lost"
  BY ArpAssumption
<1>3. e.pr = p /\ e.hw = a /\ e.q = <<>>
  BY DEF Ent
<1>4. e \in Entry
  <2>1. <<>> \in Seq(1 .. MaxPackets) /\ Term(b) \in {"none", "retrans", "expire"}
    BY DEF Term
  <2> QED BY <2>1 DEF Entry, Ent
<1>5. Sound(e, dest)
  <2>1. e.links = 2 /\ e.timer = (IF e.perm THEN "none" ELSE "expire")
    BY DEF Ent, Term
  <2>2. Len(e.q) = 0
    BY <1>3
  <2> HIDE DEF e
  <2> QED BY <1>2, <1>3, <1>4, <2>1, <2>2, ArpAssumption DEF Sound
<1>6. Exact(ent, arptab, rarptab, dest, fate) /\ running \in BOOLEAN
  BY DEF ArpIInv
<1>7. Fated(dest, fate')
  BY <1>1, <1>6 DEF Exact, Fated
<1>8. Served(e, dest, fate, dest, fate')
  <2>1. ASSUME NEW i \in DOMAIN fate, dest[i] # p PROVE i \notin Held(w)
    BY <2>1, WaitingIs
  <2>2. ASSUME NEW i \in DOMAIN fate, fate[i] = "queued", dest[i] = p PROVE i \in Held(w)
    <3>1. PICK y \in DOMAIN ent : Waits(ent[y], i)
      BY <2>2, <1>6 DEF Exact, Parked
    <3> QED BY <3>1, <2>2, WaitingIs
  <2>3. \A i : ~Waits(e, i)
    BY <1>3 DEF Waits
  <2>4. DOMAIN fate = DOMAIN dest
    BY <1>6 DEF Exact, Fated
  <2> HIDE DEF e
  <2>5. ASSUME NEW i \in DOMAIN fate, dest[i] = p PROVE fate'[i] # "queued"
    BY <2>2, <2>5, <1>1, <1>2
  <2> QED BY <1>1, <1>2, <1>3, <2>1, <2>3, <2>4, <2>5 DEF Served
<1> HIDE DEF e
<1>9. Exact(Upd(ent, x, e), arptab \cup {x}, rarptab \cup {x}, dest, fate')
  BY <1>2, <1>3, <1>5, <1>6, <1>7, <1>8, PutExact
<1> QED BY <1>1, <1>6, <1>9 DEF ArpIInv

\* An entry has gone, with the packets that waited.
LEMMA DroppedStep ==
    ASSUME ArpIInv, UNCHANGED <<running, dest>>, NEW x \in DOMAIN ent,
           Become(Rec(Without(ent, x), arptab \ {x}, rarptab \ {x}, {}, Held(ent[x].q)), fate)
    PROVE  ArpIInv'
<1>1. /\ ent' = Without(ent, x) /\ arptab' = arptab \ {x} /\ rarptab' = rarptab \ {x}
      /\ DOMAIN fate' = DOMAIN fate
      /\ \A i \in DOMAIN fate : fate'[i] = IF i \in Held(ent[x].q) THEN "lost" ELSE fate[i]
  BY BecomeIs, LostIs
<1>2. Gives(dest, fate, fate', Held(ent[x].q))
  BY <1>1 DEF Gives
<1>3. Exact(Without(ent, x), arptab \ {x}, rarptab \ {x}, dest, fate')
  BY <1>2, DropExact DEF ArpIInv, Held
<1> QED BY <1>1, <1>3 DEF ArpIInv

\* An entry has been tried again, or its timer has run.
LEMMA ChangedStep ==
    ASSUME ArpIInv, UNCHANGED <<running, dest>>, NEW x \in DOMAIN ent, NEW e \in Entry,
           Become(Rec(Upd(ent, x, e), arptab, rarptab, {}, {}), fate),
           e.links = ent[x].links, e.pr = ent[x].pr, e.hw = ent[x].hw, e.q = ent[x].q,
           e.hw = None => e.timer \in {"retrans", "none"},
           e.hw # None => e.timer = (IF e.perm THEN "none" ELSE "expire")
    PROVE  ArpIInv'
<1>1. /\ ent' = Upd(ent, x, e) /\ arptab' = arptab /\ rarptab' = rarptab
      /\ DOMAIN fate' = DOMAIN fate
      /\ \A i \in DOMAIN fate : fate'[i] = IF i \in {} THEN "lost" ELSE fate[i]
  BY BecomeIs, LostIs
<1>2. \A i \in DOMAIN fate : fate'[i] = fate[i]
  BY <1>1
<1>3. Exact(ent, arptab, rarptab, dest, fate) /\ running \in BOOLEAN
  BY DEF ArpIInv
<1>4. Sound(ent[x], dest) /\ Sound(e, dest)
  BY <1>3 DEF Exact, Sound
<1>5. Fated(dest, fate')
  BY <1>1, <1>2, <1>3 DEF Exact, Fated
<1>6. Served(e, dest, fate, dest, fate')
  <2>1. DOMAIN fate = DOMAIN dest
    BY <1>3 DEF Exact, Fated
  <2>2. ASSUME NEW i \in DOMAIN fate, dest[i] = e.pr
        PROVE  fate[i] = "queued" <=> Waits(e, i)
    <3>1. Waits(e, i) <=> Waits(ent[x], i)
      BY DEF Waits
    <3>2. ASSUME NEW y \in DOMAIN ent, Waits(ent[y], i) PROVE y = x
      BY <2>2, <3>2, <1>3, WaitingIs DEF Exact, Tables
    <3> QED BY <3>1, <3>2, <1>3 DEF Exact, Parked
  <2> QED BY <1>1, <1>2, <2>1, <2>2 DEF Served
<1>7. x \in Slots /\ arptab \cup {x} = arptab
      /\ rarptab = (IF e.hw # None THEN rarptab \cup {x} ELSE rarptab \ {x})
      /\ \A y \in DOMAIN ent : ent[y].pr = e.pr => y = x
  BY <1>3 DEF Exact, Tables
<1>8. Exact(Upd(ent, x, e), arptab \cup {x}, rarptab, dest, fate')
  BY <1>3, <1>4, <1>5, <1>6, <1>7, PutExact
<1> QED BY <1>1, <1>3, <1>7, <1>8 DEF ArpIInv

\* A packet has been passed to if_send.
LEMMA SentStep ==
    ASSUME ArpIInv, NEW p \in Addrs, Len(dest) + 1 <= MaxPackets,
           dest' = Append(dest, p), UNCHANGED running,
           NEW x \in Slots, NEW e, Sound(e, dest'), e.pr = p,
           ent' = Upd(ent, x, e), arptab' = arptab \cup {x},
           rarptab' = (IF e.hw # None THEN rarptab \cup {x} ELSE rarptab \ {x}),
           x \in DOMAIN ent => ent[x].pr = p,
           \A y \in DOMAIN ent : ent[y].pr = p => y = x,
           DOMAIN fate' = 1 .. Len(dest) + 1,
           \A i \in DOMAIN dest :
               /\ fate'[i] = fate[i]
               /\ Waits(e, i) <=> x \in DOMAIN ent /\ Waits(ent[x], i),
           fate'[Len(dest) + 1] \in {"queued", "lost"} \cup HwAddrs,
           fate'[Len(dest) + 1] = "queued" <=> Waits(e, Len(dest) + 1),
           fate'[Len(dest) + 1] \in HwAddrs => e.hw # None
    PROVE  ArpIInv'
<1> DEFINE n == Len(dest) + 1
<1>1. Exact(ent, arptab, rarptab, dest, fate) /\ running \in BOOLEAN
  BY DEF ArpIInv
<1>2. /\ dest \in Seq(Addrs) /\ Len(dest) \in Nat /\ DOMAIN dest = 1 .. Len(dest)
      /\ DOMAIN fate = DOMAIN dest /\ \A i \in DOMAIN fate : fate[i] \in {"queued", "lost"} \cup HwAddrs
  BY <1>1 DEF Exact, Fated
<1>3. /\ dest' \in Seq(Addrs) /\ Len(dest') = n /\ DOMAIN dest' = 1 .. n /\ dest'[n] = p
      /\ \A i \in DOMAIN dest : dest'[i] = dest[i]
  BY <1>2
<1>4. \A i \in 1 .. n : i \in DOMAIN dest \/ i = n
  BY <1>2
<1>5. Fated(dest', fate')
  BY <1>2, <1>3, <1>4 DEF Fated
<1>6. Served(e, dest, fate, dest', fate')
  <2>1. ASSUME NEW i \in DOMAIN dest, dest[i] = p
        PROVE  fate[i] = "queued" <=> Waits(e, i)
    <3>1. ASSUME NEW y \in DOMAIN ent, Waits(ent[y], i) PROVE y = x
      BY <2>1, <3>1, WaitingIs
    <3> QED BY <3>1, <1>1, <1>2 DEF Exact, Parked
  <2>2. n \notin DOMAIN dest /\ n \in DOMAIN fate' /\ DOMAIN dest \subseteq DOMAIN dest'
    BY <1>2, <1>3
  <2>3. ASSUME NEW i \in DOMAIN fate'
        PROVE  /\ dest'[i] # e.pr => i \in DOMAIN dest /\ fate'[i] = fate[i]
               /\ dest'[i] = e.pr => (fate'[i] = "queued" <=> Waits(e, i))
               /\ dest'[i] = e.pr /\ e.hw = None /\ fate'[i] \in HwAddrs
                    => i \in DOMAIN dest /\ fate'[i] = fate[i]
               /\ dest'[i] = e.pr /\ fate'[i] = "queued" /\ i \in DOMAIN dest => fate[i] = "queued"
    <3>1. CASE i \in DOMAIN dest
      BY <3>1, <2>1, <1>3
    <3>2. CASE i = n
      BY <3>2, <2>2, <1>3
    <3> QED BY <3>1, <3>2, <1>4
  <2> QED BY <2>2, <2>3, <1>3 DEF Served
<1>7. Exact(ent', arptab', rarptab', dest', fate')
  BY <1>1, <1>5, <1>6, PutExact
<1> QED BY <1>1, <1>7 DEF ArpIInv

(***************************************************************************)
(* The actions                                                             *)
(***************************************************************************)
\* What the invariant says of one entry
LEMMA OneEntry ==
    ASSUME ArpIInv, NEW x \in DOMAIN ent
    PROVE  /\ ent[x] \in Entry /\ Sound(ent[x], dest)
           /\ ent[x] = Ent(ent[x].links, ent[x].pr, ent[x].hw, ent[x].perm, ent[x].timer,
                           ent[x].retries, ent[x].q)
           /\ ent[x].links \in Nat \ {0}
           /\ ent[x].links = (IF x \in rarptab THEN 2 ELSE 1)
           /\ x \in rarptab <=> ent[x].hw # None
           /\ x \in arptab /\ arptab \cup {x} = arptab
<1>1. ent[x] \in Entry /\ Sound(ent[x], dest)
  BY DEF ArpIInv, Exact, Sound
<1>2. ent[x] = Ent(ent[x].links, ent[x].pr, ent[x].hw, ent[x].perm, ent[x].timer,
                   ent[x].retries, ent[x].q)
  BY <1>1, EntryIs
<1>3. arptab = DOMAIN ent /\ rarptab = {y \in DOMAIN ent : ent[y].hw # None}
  BY DEF ArpIInv, Exact, Tables
<1>4. x \in arptab /\ arptab \cup {x} = arptab /\ (x \in rarptab <=> ent[x].hw # None)
  BY <1>3
<1>5. ent[x].links = (IF x \in rarptab THEN 2 ELSE 1)
  BY <1>1, <1>4 DEF Sound
<1>6. ent[x].links \in Nat \ {0}
  BY <1>5
<1> QED BY <1>1, <1>2, <1>4, <1>5, <1>6

\* The link a handler takes
LEMMA HeldIs ==
    ASSUME ArpIInv, NEW x \in DOMAIN ent
    PROVE  LET U == Upd(ent, x, Ent(ent[x].links + 1, ent[x].pr, ent[x].hw, ent[x].perm,
                                    ent[x].timer, ent[x].retries, ent[x].q))
           IN  [Cache EXCEPT !.ent[x].links = @ + 1] = Rec(U, arptab, rarptab, {}, {})
<1>1. [Cache EXCEPT !.ent[x].links = @ + 1] = Linked(Cache, x)
  BY DEF Linked
<1>2. ent[x] = Ent(ent[x].links, ent[x].pr, ent[x].hw, ent[x].perm, ent[x].timer,
                   ent[x].retries, ent[x].q) /\ ent[x].links \in Nat
  BY OneEntry
<1> QED BY <1>1, <1>2, CacheIs, LinkIs

\* arp_input and SIOCSARP of a host with an entry
LEMMA ResolveOld ==
    ASSUME ArpIInv, UNCHANGED <<running, dest>>, NEW p \in Addrs, NEW x \in Found(Cache, p),
           NEW a \in HwAddrs, NEW b \in BOOLEAN,
           Become(Deref(Resolved([Cache EXCEPT !.ent[x].links = @ + 1], x, a, b), x), fate)
    PROVE  ArpIInv'
<1>1. x \in DOMAIN ent /\ x \in Slots /\ ent[x].pr = p
      /\ \A y \in DOMAIN ent : ent[y].pr = p => y = x
  BY FoundIs
<1> DEFINE e == ent[x]
           r == e.retries
           w == e.q
           n == e.links + 1
           U == Upd(ent, x, Ent(n, p, e.hw, e.perm, e.timer, r, w))
<1>2. [Cache EXCEPT !.ent[x].links = @ + 1] = Rec(U, arptab, rarptab, {}, {})
  BY <1>1, HeldIs
<1>3. x \in DOMAIN U /\ U[x] = Ent(n, p, e.hw, e.perm, e.timer, r, w)
  BY DEF Upd
<1>4. n = (IF x \in rarptab THEN 3 ELSE 2) /\ r \in 0 .. ARP_RETRIES /\ arptab \cup {x} = arptab
  BY <1>1, OneEntry DEF Entry
<1> DEFINE f == Ent(2, p, a, b, Term(b), r, <<>>)
           c == Deref(Resolved(Rec(U, arptab, rarptab, {}, {}), x, a, b), x)
<1>5. c = Rec(Upd(U, x, f), arptab, rarptab \cup {x}, {} \cup To(Held(w), a), {})
  <2> DEFINE h == e.hw
             m == e.perm
             t == e.timer
  <2>1. U[x] = Ent(n, p, h, m, t, r, w)
    BY <1>3
  <2> HIDE DEF U, n, h, m, t, r, w
  <2> QED BY <1>3, <1>4, <2>1, ResolvedIs
<1>6. Upd(U, x, f) = Upd(ent, x, f)
  BY UpdAgain
<1>7. Become(Rec(Upd(ent, x, f), arptab \cup {x}, rarptab \cup {x}, {} \cup To(Held(w), a), {}), fate)
  <2>1. Become(c, fate)
    BY <1>2
  <2> HIDE DEF c, U, f
  <2> QED BY <2>1, <1>4, <1>5, <1>6
<1>8. \A i : i \in Held(w) <=> x \in DOMAIN ent /\ Waits(ent[x], i)
  BY <1>1 DEF Held, Waits
<1> HIDE DEF r, w
<1> QED BY <1>1, <1>4, <1>7, <1>8, SettledStep

\* ... and of one without
LEMMA ResolveNew ==
    ASSUME ArpIInv, UNCHANGED <<running, dest>>, NEW p \in Addrs, Found(Cache, p) = {},
           NEW x \in Slots \ DOMAIN ent, NEW a \in HwAddrs, NEW b \in BOOLEAN,
           Become(Deref(Resolved(Created(Cache, x, p), x, a, b), x), fate)
    PROVE  ArpIInv'
<1> DEFINE U == Upd(ent, x, Fresh(p))
           B == arptab \cup {x}
           f == Ent(2, p, a, b, Term(b), 0, <<>>)
           w == <<>>
           m == FALSE
<1>1. Created(Cache, x, p) = Rec(U, B, rarptab, {}, {})
  BY CacheIs, CreatedIs
<1>2. x \in DOMAIN U /\ U[x] = Ent(2, p, None, m, "none", 0, w)
  BY DEF Upd, Fresh
<1>3. x \notin rarptab
  BY DEF ArpIInv, Exact, Tables
<1>4. Upd(U, x, f) = Upd(ent, x, f)
  BY UpdAgain
<1>5. Deref(Resolved(Rec(U, B, rarptab, {}, {}), x, a, b), x)
        = Rec(Upd(U, x, f), B, rarptab \cup {x}, {} \cup To(Held(w), a), {})
  <2> DEFINE n == 2
  <2>1. n = (IF x \in rarptab THEN 3 ELSE 2) /\ U[x] = Ent(n, p, None, m, "none", 0, w)
    BY <1>2, <1>3
  <2> DEFINE h == None
             t == "none"
             r == 0
  <2>2. U[x] = Ent(n, p, h, m, t, r, w)
    BY <2>1
  <2>3. f = Ent(2, p, a, b, Term(b), r, <<>>)
    OBVIOUS
  <2> HIDE DEF U, B, m, w, n, h, t, r, f
  <2> QED BY <1>2, <2>1, <2>2, <2>3, ResolvedIs
<1>6. Become(Rec(Upd(ent, x, f), B, rarptab \cup {x}, {} \cup To(Held(w), a), {}), fate)
  BY <1>1, <1>4, <1>5
<1>7. \A i : i \in Held(w) <=> x \in DOMAIN ent /\ Waits(ent[x], i)
  BY DEF Held
<1>8. \A y \in DOMAIN ent : ent[y].pr = p => y = x
  BY FoundIs
<1>9. 0 \in 0 .. ARP_RETRIES
  BY ArpAssumption
<1> HIDE DEF w
<1> QED BY <1>6, <1>7, <1>8, <1>9, SettledStep

LEMMA ResolveKeeps ==
    ASSUME ArpIInv, NEW p \in Addrs, NEW hw \in HwAddrs, NEW b \in BOOLEAN,
           arp_input(p, hw, b) \/ SIOCSARP(p, hw, b)
    PROVE  ArpIInv'
<1>1. CASE arp_input(p, hw, b)
  <2>0. UNCHANGED <<running, dest>>
    BY <1>1 DEF arp_input
  <2>1. ASSUME NEW x \in Found(Cache, p),
               Become(Deref(Resolved([Cache EXCEPT !.ent[x].links = @ + 1], x, hw, ent[x].perm), x),
                      fate)
        PROVE  ArpIInv'
    <3>1. ent[x].perm \in BOOLEAN
      BY FoundIs, OneEntry DEF Entry
    <3> QED BY <2>0, <2>1, <3>1, ResolveOld
  <2>2. ASSUME Found(Cache, p) = {}, NEW x \in Slots \ DOMAIN ent,
               Become(Deref(Resolved(Created(Cache, x, p), x, hw, FALSE), x), fate)
        PROVE  ArpIInv'
    BY <2>0, <2>2, ResolveNew
  <2> QED BY <1>1, <2>1, <2>2 DEF arp_input
<1>2. CASE SIOCSARP(p, hw, b)
  <2>0. UNCHANGED <<running, dest>>
    BY <1>2 DEF SIOCSARP
  <2>1. ASSUME NEW x \in Found(Cache, p),
               Become(Deref(Resolved([Cache EXCEPT !.ent[x].links = @ + 1], x, hw, b), x), fate)
        PROVE  ArpIInv'
    BY <2>0, <2>1, ResolveOld
  <2>2. ASSUME Found(Cache, p) = {}, NEW x \in Slots \ DOMAIN ent,
               Become(Deref(Resolved(Created(Cache, x, p), x, hw, b), x), fate)
        PROVE  ArpIInv'
    BY <2>0, <2>2, ResolveNew
  <2> QED BY <1>2, <2>1, <2>2 DEF SIOCSARP
<1> QED BY <1>1, <1>2

\* Removed by a handler that holds no link of its own
LEMMA RemovedStep ==
    ASSUME ArpIInv, UNCHANGED <<running, dest>>, NEW x \in DOMAIN ent, NEW U,
           x \in DOMAIN U, NEW p, NEW h, NEW m, NEW t, NEW r,
           U[x] = Ent(ent[x].links, p, h, m, t, r, ent[x].q), Without(U, x) = Without(ent, x),
           Become(Removed(Rec(U, arptab, rarptab, {}, {}), x), fate)
    PROVE  ArpIInv'
<1> DEFINE n == ent[x].links
           w == ent[x].q
<1>1. n \in Nat /\ x \in arptab /\ (x \in rarptab => n = 2) /\ (x \notin rarptab => n = 1)
  BY OneEntry
<1>2. Removed(Rec(U, arptab, rarptab, {}, {}), x)
        = Rec(Without(U, x), arptab \ {x}, rarptab \ {x}, {}, Held(w))
  <2>1. RemovedTo(U, arptab, rarptab, x, n, p, h, m, t, r, w)
    <3>1. U[x] = Ent(n, p, h, m, t, r, w)
      OBVIOUS
    <3> HIDE DEF n, w
    <3> QED BY <1>1, <3>1, RemovedIs
  <2> QED BY <1>1, <2>1 DEF RemovedTo
<1> QED BY <1>2, DroppedStep

LEMMA DeleteKeeps ==
    ASSUME ArpIInv, NEW p \in Addrs, SIOCDARP(p)
    PROVE  ArpIInv'
<1>0. UNCHANGED <<running, dest>>
  BY DEF SIOCDARP
<1>1. PICK x \in Found(Cache, p) :
          Become(Deref(Removed([Cache EXCEPT !.ent[x].links = @ + 1], x), x), fate)
  BY DEF SIOCDARP
<1>2. x \in DOMAIN ent
  BY FoundIs
<1> DEFINE n == ent[x].links + 1
           q == ent[x].pr
           h == ent[x].hw
           m == ent[x].perm
           t == ent[x].timer
           r == ent[x].retries
           w == ent[x].q
           U == Upd(ent, x, Ent(n, q, h, m, t, r, w))
           V == Upd(U, x, Ent(1, q, h, m, t, r, w))
           A == arptab \ {x}
           R == rarptab \ {x}
<1>3. [Cache EXCEPT !.ent[x].links = @ + 1] = Rec(U, arptab, rarptab, {}, {})
  BY <1>2, HeldIs
<1>4. n \in Nat /\ x \in arptab /\ (x \in rarptab => n > 2 /\ n - 2 = 1)
      /\ (x \notin rarptab => n > 1 /\ n - 1 = 1)
  BY <1>2, OneEntry
<1>5. x \in DOMAIN U /\ U[x] = Ent(n, q, h, m, t, r, w)
  BY DEF Upd
<1>6. x \in DOMAIN V /\ V[x] = Ent(1, q, h, m, t, r, w)
  BY DEF Upd
<1>7. Without(V, x) = Without(ent, x)
  BY UpdGone
<1>8. Removed(Rec(U, arptab, rarptab, {}, {}), x) = Rec(V, A, R, {}, {})
  <2>1. /\ x \in rarptab /\ n > 2 => Removed(Rec(U, arptab, rarptab, {}, {}), x)
              = Rec(Upd(U, x, Ent(n - 2, q, h, m, t, r, w)), A, R, {}, {})
        /\ x \notin rarptab /\ n > 1 => Removed(Rec(U, arptab, rarptab, {}, {}), x)
              = Rec(Upd(U, x, Ent(n - 1, q, h, m, t, r, w)), A, R, {}, {})
    <3> HIDE DEF n, U, q, h, m, t, r, w
    <3>1. RemovedTo(U, arptab, rarptab, x, n, q, h, m, t, r, w)
      BY <1>4, <1>5, RemovedIs
    <3> QED BY <3>1 DEF RemovedTo
  <2> QED BY <2>1, <1>4
<1>9. Deref(Rec(V, A, R, {}, {}), x) = Rec(Without(V, x), A, R, {}, {} \cup Held(w))
  <2> HIDE DEF V, A, R, q, h, m, t, r, w
  <2> QED BY <1>6, DerefFrees
<1>10. {} \cup Held(w) = Held(w)
  OBVIOUS
<1>11. Become(Rec(Without(ent, x), A, R, {}, Held(w)), fate)
  <2> HIDE DEF U, V, A, R, w
  <2> QED BY <1>1, <1>3, <1>7, <1>8, <1>9, <1>10
<1> QED BY <1>0, <1>2, <1>11, DroppedStep

LEMMA TimeoutKeeps ==
    ASSUME ArpIInv, NEW x \in DOMAIN ent, arp_timeout(x)
    PROVE  ArpIInv'
<1>0. UNCHANGED <<running, dest>> /\ ent[x].timer # "none"
  BY DEF arp_timeout
<1> DEFINE c == [Cache EXCEPT !.ent[x].timer = "none"]
           n == ent[x].links
           p == ent[x].pr
           h == ent[x].hw
           m == ent[x].perm
           r == ent[x].retries
           w == ent[x].q
           e == Ent(n, p, h, m, "none", r, w)
           U == Upd(ent, x, e)
<1>1. c = Rec(U, arptab, rarptab, {}, {})
  <2>1. c = WithTimer(Cache, x, "none")
    BY DEF WithTimer
  <2>2. ent[x] = Ent(n, p, h, m, ent[x].timer, r, w)
    BY OneEntry
  <2> QED BY <2>1, <2>2, CacheIs, TimerIs
<1>2. x \in DOMAIN U /\ U[x] = e /\ Without(U, x) = Without(ent, x)
  BY DEF Upd, Without
<1>3. n \in Nat /\ r \in Nat /\ p \in Addrs /\ m \in BOOLEAN /\ h \in HwAddrs \cup {None}
      /\ w \in Seq(1 .. MaxPackets)
  BY OneEntry, ArpAssumption DEF Entry
<1>4. CASE h # None
  <2>1. ~m
    BY <1>0, <1>4, OneEntry DEF Sound
  <2>2. Become(Removed(c, x), fate)
    BY <1>4, <2>1 DEF arp_timeout
  <2>3. Become(Removed(Rec(U, arptab, rarptab, {}, {}), x), fate)
    <3> HIDE DEF c, U
    <3> QED BY <2>2, <1>1
  <2> HIDE DEF U
  <2> QED BY <1>0, <1>2, <2>3, RemovedStep
<1>5. CASE h = None
  <2>1. PICK ok \in BOOLEAN : Become(arp_sendreq(c, x, ok), fate)
    BY <1>5 DEF arp_timeout
  <2> DEFINE d == arp_sendreq(Rec(U, arptab, rarptab, {}, {}), x, ok)
             t == IF ok THEN "retrans" ELSE "none"
             f == Ent(n, p, h, m, t, r + 1, w)
             g == Ent(n, p, h, m, "none", r + 1, w)
  <2>2. Become(d, fate)
    <3> HIDE DEF c, U
    <3> QED BY <2>1, <1>1
  <2>3. /\ r + 1 <= ARP_RETRIES => d = Rec(Upd(U, x, f), arptab, rarptab, {}, {})
        /\ r + 1 > ARP_RETRIES => d = Removed(Rec(Upd(U, x, g), arptab, rarptab, {}, {}), x)
    <3> HIDE DEF U, n, p, h, m, r, w
    <3>1. Requested(U, arptab, rarptab, x, ok, n, p, h, m, r, w)
      BY <1>2, <1>3, RequestIs
    <3> QED BY <3>1 DEF Requested
  <2>4. CASE r + 1 <= ARP_RETRIES
    <3>1. Upd(U, x, f) = Upd(ent, x, f)
      BY DEF Upd
    <3>2. f.links = n /\ f.pr = p /\ f.hw = h /\ f.perm = m /\ f.timer = t /\ f.q = w
      BY DEF Ent
    <3>3. r + 1 \in 0 .. ARP_RETRIES /\ t \in {"none", "retrans", "expire"}
      BY <2>4, <1>3, ArpAssumption
    <3>4. f \in Entry
      <4> HIDE DEF n, p, h, m, r, w, t
      <4> QED BY <1>3, <3>3 DEF Entry, Ent
    <3>5. Become(Rec(Upd(ent, x, f), arptab, rarptab, {}, {}), fate)
      <4> HIDE DEF d, f, U
      <4> QED BY <2>2, <2>3, <2>4, <3>1
    <3> HIDE DEF f
    <3> QED BY <1>0, <1>5, <3>2, <3>4, <3>5, ChangedStep
  <2>5. CASE r + 1 > ARP_RETRIES
    <3> DEFINE V == Upd(U, x, g)
    <3>1. x \in DOMAIN V /\ V[x] = g
      BY DEF Upd
    <3>2. Without(V, x) = Without(ent, x)
      BY <1>2, UpdGone
    <3>3. Become(Removed(Rec(V, arptab, rarptab, {}, {}), x), fate)
      <4> HIDE DEF d, V
      <4> QED BY <2>2, <2>3, <2>5 DEF V
    <3> HIDE DEF V
    <3> QED BY <1>0, <3>1, <3>2, <3>3, RemovedStep
  <2> QED BY <2>4, <2>5, <1>3, ArpAssumption
<1> QED BY <1>4, <1>5

LEMMA DownKeeps ==
    ASSUME ArpIInv, GoesDown
    PROVE  ArpIInv'
<1> DEFINE c == arp_flush(Cache)
           lost == UNION {Held(ent[x].q) : x \in DOMAIN ent}
<1>1. /\ Cache.ent = ent /\ Cache.arp = arptab /\ Cache.rarp = rarptab
      /\ Cache.sent = {} /\ Cache.lost = {}
  BY DEF Cache
<1>2. \A x \in DOMAIN ent :
         ~(ent[x].links > (IF x \in arptab THEN 1 ELSE 0) + (IF x \in rarptab THEN 1 ELSE 0))
  BY OneEntry
<1>3. c.arp = {} /\ c.rarp = {} /\ c.sent = {} /\ DOMAIN c.ent = {} /\ c.lost = lost
  <2> DEFINE tables(x) == (IF x \in arptab THEN 1 ELSE 0) + (IF x \in rarptab THEN 1 ELSE 0)
             kept == {x \in DOMAIN ent : ent[x].links > tables(x)}
             E == [x \in kept |-> [ent[x] EXCEPT !.links = @ - tables(x)]]
             L == UNION {Waiting(Cache, x) : x \in DOMAIN ent \ kept}
  <2>1. kept = {}
    BY <1>2
  <2>2. c = [Cache EXCEPT !.arp = {}, !.rarp = {}, !.ent = E, !.lost = L]
    BY <1>1 DEF arp_flush
  <2>3. DOMAIN E = kept
    OBVIOUS
  <2>4. L = lost
    <3>1. \A x : Waiting(Cache, x) = Held(ent[x].q)
      BY <1>1 DEF Waiting, Held
    <3> HIDE DEF kept
    <3> QED BY <2>1, <3>1
  <2> HIDE DEF E, L, c
  <2>5. c.arp = {} /\ c.rarp = {} /\ c.sent = Cache.sent /\ c.ent = E /\ c.lost = L
    BY <2>2 DEF Cache
  <2> QED BY <1>1, <2>1, <2>3, <2>4, <2>5
<1>4. Become(c, fate) /\ running' = FALSE /\ dest' = dest
  BY DEF GoesDown
<1> HIDE DEF c, lost
<1>5. ent' = c.ent /\ arptab' = {} /\ rarptab' = {} /\ fate' = Fate(c, fate)
  BY <1>3, <1>4 DEF Become, Fate
<1>6. Gives(dest, fate, fate', lost)
  BY <1>3, <1>5 DEF Gives, Fate
<1>7. \A i : i \in lost <=> \E x \in DOMAIN ent : Waits(ent[x], i)
  BY DEF lost, Held, Waits
<1>8. Exact(c.ent, {}, {}, dest, fate')
  BY <1>3, <1>6, <1>7, FlushExact DEF ArpIInv
<1> QED BY <1>4, <1>5, <1>8 DEF ArpIInv

LEMMA UpKeeps ==
    ASSUME ArpIInv, GoesUp
    PROVE  ArpIInv'
BY DEF ArpIInv, GoesUp

\* The packet that if_send is given, before the handler is done
Offered == [i \in 1 .. Len(dest) + 1 |-> IF i < Len(dest) + 1 THEN fate[i] ELSE "queued"]

LEMMA OfferedIs ==
    ASSUME ArpIInv, NEW p \in Addrs, NEW D, D = Append(dest, p)
    PROVE  /\ dest \in Seq(Addrs) /\ Len(dest) \in Nat /\ DOMAIN dest = 1 .. Len(dest)
           /\ DOMAIN fate = DOMAIN dest
           /\ DOMAIN Offered = 1 .. Len(dest) + 1
           /\ \A i \in DOMAIN dest : Offered[i] = fate[i] /\ i # Len(dest) + 1
           /\ Len(dest) + 1 \in DOMAIN Offered /\ Offered[Len(dest) + 1] = "queued"
           /\ \A i \in DOMAIN Offered : i \in DOMAIN dest \/ i = Len(dest) + 1
           /\ DOMAIN D = 1 .. Len(dest) + 1 /\ D[Len(dest) + 1] = p
           /\ \A i \in DOMAIN dest : i \in DOMAIN D /\ D[i] = dest[i]
<1>1. dest \in Seq(Addrs) /\ DOMAIN fate = DOMAIN dest
  BY DEF ArpIInv, Exact, Fated
<1>2. Len(dest) \in Nat /\ DOMAIN dest = 1 .. Len(dest)
  BY <1>1
<1>3. DOMAIN D = 1 .. Len(dest) + 1 /\ D[Len(dest) + 1] = p /\ \A i \in DOMAIN dest : D[i] = dest[i]
  BY <1>1
<1> QED BY <1>1, <1>2, <1>3 DEF Offered

\* if_send while the interface is down
LEMMA SendLost ==
    ASSUME ArpIInv, NEW p \in Addrs, Len(dest) + 1 <= MaxPackets,
           dest' = Append(dest, p), UNCHANGED running,
           Become([Cache EXCEPT !.lost = {Len(dest) + 1}], Offered)
    PROVE  ArpIInv'
<1> DEFINE n == Len(dest) + 1
           L == {n}
<1>1. [Cache EXCEPT !.lost = L] = Rec(ent, arptab, rarptab, {}, L)
  <2> HIDE DEF L
  <2> DEFINE S == {}
  <2> HIDE DEF S
  <2>1. \A M : [Rec(ent, arptab, rarptab, S, M) EXCEPT !.lost = L] = Rec(ent, arptab, rarptab, S, L)
    BY DEF Rec
  <2> QED BY <2>1, CacheIs DEF S
<1>2. Become(Rec(ent, arptab, rarptab, {}, L), Offered)
  BY <1>1
<1>3. /\ ent' = ent /\ arptab' = arptab /\ rarptab' = rarptab
      /\ DOMAIN fate' = DOMAIN Offered
      /\ \A i \in DOMAIN Offered : fate'[i] = IF i \in L THEN "lost" ELSE Offered[i]
  <2> HIDE DEF L
  <2> QED BY <1>2, BecomeIs, LostIs
<1>4. DOMAIN fate' = 1 .. n /\ \A i \in DOMAIN fate' : fate'[i] = IF i \in DOMAIN dest THEN fate[i] ELSE "lost"
  BY <1>3, OfferedIs
<1>5. Exact(ent, arptab, rarptab, Append(dest, p), fate')
  BY <1>4, LostExact DEF ArpIInv
<1> QED BY <1>3, <1>5 DEF ArpIInv

LEMMA AppendWaits ==
    ASSUME NEW w \in Seq(1 .. MaxPackets), NEW n, NEW e, NEW f, e.q = w, f.q = Append(w, n)
    PROVE  \A i : Waits(f, i) <=> Waits(e, i) \/ i = n
<1> DEFINE v == Append(w, n)
<1>1. /\ Len(v) = Len(w) + 1 /\ Len(w) \in Nat /\ v[Len(w) + 1] = n
      /\ \A j \in 1 .. Len(w) : v[j] = w[j]
  OBVIOUS
<1> HIDE DEF v
<1>2. \A j \in 1 .. Len(v) : j \in 1 .. Len(w) \/ j = Len(w) + 1
  BY <1>1
<1>3. Len(w) + 1 \in 1 .. Len(v) /\ \A j \in 1 .. Len(w) : j \in 1 .. Len(v)
  BY <1>1
<1>4. f.q = v
  BY DEF v
<1> QED BY <1>1, <1>2, <1>3, <1>4 DEF Waits

\* if_send to a host with an entry
LEMMA SendOld ==
    ASSUME ArpIInv, NEW p \in Addrs, Len(dest) + 1 <= MaxPackets,
           dest' = Append(dest, p), UNCHANGED running, NEW x \in Found(Cache, p),
           Become(Deref(Sent([Cache EXCEPT !.ent[x].links = @ + 1], x, Len(dest) + 1), x), Offered)
    PROVE  ArpIInv'
<1> DEFINE n == Len(dest) + 1
           k == ent[x].links
           h == ent[x].hw
           m == ent[x].perm
           t == ent[x].timer
           r == ent[x].retries
           w == ent[x].q
           c == Deref(Sent(Linked(Rec(ent, arptab, rarptab, {}, {}), x), x, n), x)
           e == Ent(k, p, h, m, t, r, Append(w, n))
           D == dest'
<1>1. x \in DOMAIN ent /\ x \in Slots /\ ent[x].pr = p
      /\ \A y \in DOMAIN ent : ent[y].pr = p => y = x
  BY FoundIs
<1>2. Become(c, Offered)
  BY CacheIs DEF Linked
<1>3. /\ ent[x] = Ent(k, p, h, m, t, r, w) /\ k \in Nat \ {0} /\ w \in Seq(1 .. MaxPackets)
      /\ Sound(ent[x], dest) /\ arptab \cup {x} = arptab
      /\ rarptab = (IF h # None THEN rarptab \cup {x} ELSE rarptab \ {x})
  <2>1. w \in Seq(1 .. MaxPackets)
    BY <1>1, OneEntry DEF Entry
  <2>4. x \in rarptab <=> h # None
    BY <1>1, OneEntry
  <2>5. rarptab = (IF h # None THEN rarptab \cup {x} ELSE rarptab \ {x})
    BY <2>4
  <2> QED BY <1>1, <2>1, <2>5, OneEntry
<1>4. /\ h # None => c = Rec(Upd(ent, x, ent[x]), arptab, rarptab, {} \cup To({n}, h), {})
      /\ h = None /\ Len(w) >= IF_MAXQ => c = Rec(Upd(ent, x, ent[x]), arptab, rarptab, {}, {} \cup {n})
      /\ h = None /\ Len(w) < IF_MAXQ => c = Rec(Upd(ent, x, e), arptab, rarptab, {}, {})
  <2> HIDE DEF k, h, m, t, r, w, n
  <2>1. Sendings(ent, arptab, rarptab, x, n, k, p, h, m, t, r, w)
    BY <1>1, <1>3, SendOldIs
  <2> QED BY <2>1 DEF Sendings
<1>5. /\ dest \in Seq(Addrs) /\ Len(dest) \in Nat /\ DOMAIN dest = 1 .. Len(dest)
      /\ DOMAIN Offered = 1 .. n
      /\ \A i \in DOMAIN dest : Offered[i] = fate[i] /\ i # n
      /\ n \in DOMAIN Offered /\ Offered[n] = "queued"
      /\ D[n] = p /\ n \in DOMAIN D
      /\ \A i \in DOMAIN dest : i \in DOMAIN Offered /\ i \in DOMAIN D /\ D[i] = dest[i]
  BY OfferedIs
<1>6. Sound(ent[x], D)
  BY <1>3, <1>5 DEF Sound
<1>7. ~Waits(ent[x], n)
  BY <1>3, <1>5 DEF Sound, Waits
<1>8. CASE h # None
  <2>1. Become(Rec(Upd(ent, x, ent[x]), arptab, rarptab, {} \cup To({n}, h), {}), Offered)
    BY <1>2, <1>4, <1>8
  <2>2. /\ ent' = Upd(ent, x, ent[x]) /\ arptab' = arptab /\ rarptab' = rarptab
        /\ DOMAIN fate' = DOMAIN Offered
        /\ \A i \in DOMAIN Offered : fate'[i] = IF i \in {n} THEN h ELSE Offered[i]
    <3> HIDE DEF n, h
    <3> QED BY <2>1, BecomeIs, FateIs
  <2>3. fate'[n] = h /\ \A i \in DOMAIN dest : fate'[i] = fate[i]
    BY <1>5, <2>2
  <2>4. h \in HwAddrs /\ h # "queued"
    BY <1>1, <1>8, OneEntry, ArpAssumption DEF Entry
  <2>5. /\ Sound(ent[x], dest') /\ DOMAIN fate' = 1 .. Len(dest) + 1
        /\ \A i \in DOMAIN dest :
              fate'[i] = fate[i] /\ (Waits(ent[x], i) <=> x \in DOMAIN ent /\ Waits(ent[x], i))
        /\ fate'[Len(dest) + 1] \in {"queued", "lost"} \cup HwAddrs
        /\ fate'[Len(dest) + 1] = "queued" <=> Waits(ent[x], Len(dest) + 1)
        /\ fate'[Len(dest) + 1] \in HwAddrs => ent[x].hw # None
        /\ arptab' = arptab \cup {x}
        /\ rarptab' = (IF ent[x].hw # None THEN rarptab \cup {x} ELSE rarptab \ {x})
    <3> HIDE DEF k, m, t, r, w, c, e
    <3> QED BY <1>1, <1>3, <1>5, <1>6, <1>7, <1>8, <2>2, <2>3, <2>4
  <2> HIDE DEF n, k, h, m, t, r, w, D, c, e
  <2>6. PICK f : f = ent[x]
    OBVIOUS
  <2>7. /\ Sound(f, dest') /\ f.pr = p /\ ent' = Upd(ent, x, f)
        /\ rarptab' = (IF f.hw # None THEN rarptab \cup {x} ELSE rarptab \ {x})
        /\ \A i \in DOMAIN dest :
              fate'[i] = fate[i] /\ (Waits(f, i) <=> x \in DOMAIN ent /\ Waits(ent[x], i))
        /\ fate'[Len(dest) + 1] = "queued" <=> Waits(f, Len(dest) + 1)
        /\ fate'[Len(dest) + 1] \in HwAddrs => f.hw # None
    BY <1>1, <2>2, <2>5, <2>6
  <2> QED BY <1>1, <2>5, <2>7, SentStep
<1>9. CASE h = None /\ Len(w) >= IF_MAXQ
  <2>1. Become(Rec(Upd(ent, x, ent[x]), arptab, rarptab, {}, {} \cup {n}), Offered)
    BY <1>2, <1>4, <1>9
  <2>2. /\ ent' = Upd(ent, x, ent[x]) /\ arptab' = arptab /\ rarptab' = rarptab
        /\ DOMAIN fate' = DOMAIN Offered
        /\ \A i \in DOMAIN Offered : fate'[i] = IF i \in {} \cup {n} THEN "lost" ELSE Offered[i]
    <3> HIDE DEF n
    <3> QED BY <2>1, BecomeIs, LostIs
  <2>3. fate'[n] = "lost" /\ \A i \in DOMAIN dest : fate'[i] = fate[i]
    BY <1>5, <2>2
  <2>4. "lost" \notin HwAddrs
    BY ArpAssumption
  <2>5. /\ Sound(ent[x], dest') /\ DOMAIN fate' = 1 .. Len(dest) + 1
        /\ \A i \in DOMAIN dest :
              fate'[i] = fate[i] /\ (Waits(ent[x], i) <=> x \in DOMAIN ent /\ Waits(ent[x], i))
        /\ fate'[Len(dest) + 1] \in {"queued", "lost"} \cup HwAddrs
        /\ fate'[Len(dest) + 1] = "queued" <=> Waits(ent[x], Len(dest) + 1)
        /\ fate'[Len(dest) + 1] \in HwAddrs => ent[x].hw # None
        /\ arptab' = arptab \cup {x}
        /\ rarptab' = (IF ent[x].hw # None THEN rarptab \cup {x} ELSE rarptab \ {x})
    <3> HIDE DEF k, m, t, r, w, c, e
    <3> QED BY <1>1, <1>3, <1>5, <1>6, <1>7, <2>2, <2>3, <2>4
  <2> HIDE DEF n, k, h, m, t, r, w, D, c, e
  <2>6. PICK f : f = ent[x]
    OBVIOUS
  <2>7. /\ Sound(f, dest') /\ f.pr = p /\ ent' = Upd(ent, x, f)
        /\ rarptab' = (IF f.hw # None THEN rarptab \cup {x} ELSE rarptab \ {x})
        /\ \A i \in DOMAIN dest :
              fate'[i] = fate[i] /\ (Waits(f, i) <=> x \in DOMAIN ent /\ Waits(ent[x], i))
        /\ fate'[Len(dest) + 1] = "queued" <=> Waits(f, Len(dest) + 1)
        /\ fate'[Len(dest) + 1] \in HwAddrs => f.hw # None
    BY <1>1, <2>2, <2>5, <2>6
  <2> QED BY <1>1, <2>5, <2>7, SentStep
<1>10. CASE h = None /\ Len(w) < IF_MAXQ
  <2>1. Become(Rec(Upd(ent, x, e), arptab, rarptab, {}, {}), Offered)
    BY <1>2, <1>4, <1>10
  <2>2. /\ ent' = Upd(ent, x, e) /\ arptab' = arptab /\ rarptab' = rarptab
        /\ DOMAIN fate' = DOMAIN Offered
        /\ \A i \in DOMAIN Offered : fate'[i] = IF i \in {} THEN "lost" ELSE Offered[i]
    <3> HIDE DEF e
    <3> QED BY <2>1, BecomeIs, LostIs
  <2>3. fate'[n] = "queued" /\ \A i \in DOMAIN dest : fate'[i] = fate[i]
    BY <1>5, <2>2
  <2>4. /\ e.links = k /\ e.pr = p /\ e.hw = h /\ e.perm = m /\ e.timer = t /\ e.retries = r
        /\ e.q = Append(w, n)
    BY DEF Ent
  <2>5. n \in 1 .. MaxPackets /\ Append(w, n) \in Seq(1 .. MaxPackets)
        /\ Len(Append(w, n)) = Len(w) + 1 /\ Len(w) \in Nat
        /\ Append(w, n)[Len(w) + 1] = n
        /\ \A j \in 1 .. Len(w) : Append(w, n)[j] = w[j]
    BY <1>3, <1>5, ArpAssumption
  <2>6. e \in Entry
    <3>1. k \in Nat /\ p \in Addrs /\ h \in HwAddrs \cup {None} /\ m \in BOOLEAN
          /\ t \in {"none", "retrans", "expire"} /\ r \in 0 .. ARP_RETRIES
      BY <1>1, OneEntry DEF Entry
    <3> HIDE DEF k, h, m, t, r, w, n
    <3> QED BY <2>5, <3>1 DEF Entry, Ent
  <2>7. \A i : Waits(e, i) <=> Waits(ent[x], i) \/ i = n
    <3> HIDE DEF n, e
    <3> QED BY <1>3, <2>4, AppendWaits
  <2>8. Sound(e, D)
    <3>1. \A j \in 1 .. Len(w) + 1 : Append(w, n)[j] \in DOMAIN D /\ D[Append(w, n)[j]] = p
      <4>1. \A j \in 1 .. Len(w) : w[j] \in DOMAIN D /\ D[w[j]] = p
        BY <1>1, <1>6 DEF Sound
      <4>2. \A j \in 1 .. Len(w) + 1 : j \in 1 .. Len(w) \/ j = Len(w) + 1
        <5> DEFINE l == Len(w)
        <5>1. l \in Nat
          BY <2>5
        <5> HIDE DEF l
        <5>2. \A j \in 1 .. l + 1 : j \in 1 .. l \/ j = l + 1
          BY <5>1
        <5> QED BY <5>2 DEF l
      <4> QED BY <4>1, <4>2, <2>5, <1>5
    <3>2. Len(w) + 1 <= IF_MAXQ
      BY <1>10, <2>5, ArpAssumption
    <3>3. k = 1 /\ t \in {"retrans", "none"}
      BY <1>3, <1>10 DEF Sound
    <3> HIDE DEF e, D, n, k, h, m, t, r, w
    <3> QED BY <1>10, <2>4, <2>5, <2>6, <3>1, <3>2, <3>3 DEF Sound
  <2>9. rarptab = (IF e.hw # None THEN rarptab \cup {x} ELSE rarptab \ {x})
    BY <1>3, <2>4
  <2>10. "queued" \notin HwAddrs
    BY ArpAssumption
  <2>11. \A i \in DOMAIN dest : fate'[i] = fate[i] /\ (Waits(e, i) <=> Waits(ent[x], i))
    BY <1>5, <2>3, <2>7
  <2>12. Waits(e, n)
    BY <2>7
  <2> HIDE DEF k, h, m, t, r, w, D, c, e
  <2> QED BY <1>1, <1>3, <1>5, <2>2, <2>3, <2>4, <2>8, <2>9, <2>10, <2>11, <2>12, SentStep DEF D
<1>11. Len(w) >= IF_MAXQ \/ Len(w) < IF_MAXQ
  <2>1. Len(w) \in Nat
    BY <1>3
  <2> QED BY <2>1, ArpAssumption
<1> QED BY <1>8, <1>9, <1>10, <1>11

\* ... and to one without
LEMMA SendNew ==
    ASSUME ArpIInv, NEW p \in Addrs, Len(dest) + 1 <= MaxPackets,
           dest' = Append(dest, p), UNCHANGED running, Found(Cache, p) = {},
           NEW x \in Slots \ DOMAIN ent, NEW ok \in BOOLEAN,
           Become(Deref(Sent(arp_sendreq(Created(Cache, x, p), x, ok), x, Len(dest) + 1), x),
                  Offered)
    PROVE  ArpIInv'
<1> DEFINE n == Len(dest) + 1
           t == IF ok THEN "retrans" ELSE "none"
           e == Asked(p, ok, n)
<1>1. Become(Rec(Upd(ent, x, e), arptab \cup {x}, rarptab, {}, {}), Offered)
  <2> DEFINE c == Deref(Sent(arp_sendreq(Created(Cache, x, p), x, ok), x, n), x)
  <2>1. c = Rec(Upd(ent, x, e), arptab \cup {x}, rarptab, {}, {})
    <3> HIDE DEF n
    <3> QED BY CacheIs, SendNewIs
  <2>2. Become(c, Offered)
    OBVIOUS
  <2> HIDE DEF c
  <2> QED BY <2>1, <2>2
<1>2. /\ dest \in Seq(Addrs) /\ Len(dest) \in Nat /\ DOMAIN dest = 1 .. Len(dest)
      /\ DOMAIN Offered = 1 .. n
      /\ \A i \in DOMAIN dest : Offered[i] = fate[i] /\ i # n
      /\ n \in DOMAIN Offered /\ Offered[n] = "queued"
      /\ dest'[n] = p /\ n \in DOMAIN dest'
      /\ \A i \in DOMAIN dest : i \in DOMAIN Offered
  BY OfferedIs
<1>3. /\ ent' = Upd(ent, x, e) /\ arptab' = arptab \cup {x} /\ rarptab' = rarptab
      /\ DOMAIN fate' = DOMAIN Offered
      /\ \A i \in DOMAIN Offered : fate'[i] = IF i \in {} THEN "lost" ELSE Offered[i]
  <2> HIDE DEF e
  <2> QED BY <1>1, BecomeIs, LostIs
<1>4. fate'[n] = "queued" /\ \A i \in DOMAIN dest : fate'[i] = fate[i]
  BY <1>2, <1>3
<1>5. /\ e.links = 1 /\ e.pr = p /\ e.hw = None /\ e.perm = FALSE /\ e.timer = t
      /\ e.retries = 1 /\ e.q = <<n>>
  BY DEF Ent, Asked
<1>6. n \in 1 .. MaxPackets /\ <<n>> \in Seq(1 .. MaxPackets) /\ Len(<<n>>) = 1 /\ <<n>>[1] = n
      /\ 1 \in 0 .. ARP_RETRIES /\ 1 <= IF_MAXQ
  BY <1>2, ArpAssumption
<1>7. e \in Entry
  <2>1. t \in {"none", "retrans", "expire"}
    OBVIOUS
  <2>2. e = Ent(1, p, None, FALSE, t, 1, <<n>>)
    BY DEF Asked
  <2> HIDE DEF t, n, e
  <2> QED BY <1>6, <2>1, <2>2 DEF Entry, Ent
<1>8. \A i : Waits(e, i) <=> i = n
  <2> HIDE DEF e, n
  <2> QED BY <1>5, <1>6 DEF Waits
<1>9. Sound(e, dest')
  <2>1. \A k \in 1 .. Len(e.q) : e.q[k] \in DOMAIN dest' /\ dest'[e.q[k]] = e.pr
    <3> HIDE DEF e, n
    <3> QED BY <1>2, <1>5, <1>6
  <2>2. t \in {"retrans", "none"}
    OBVIOUS
  <2> HIDE DEF e, n, t
  <2> QED BY <1>5, <1>6, <1>7, <2>1, <2>2 DEF Sound
<1>10. x \notin rarptab /\ rarptab = (IF e.hw # None THEN rarptab \cup {x} ELSE rarptab \ {x})
  <2>1. x \notin rarptab
    BY DEF ArpIInv, Exact, Tables
  <2> QED BY <2>1, <1>5
<1>11. \A y \in DOMAIN ent : ent[y].pr = p => y = x
  BY FoundIs
<1>12. /\ DOMAIN fate' = 1 .. Len(dest) + 1
       /\ \A i \in DOMAIN dest :
             fate'[i] = fate[i] /\ (Waits(e, i) <=> x \in DOMAIN ent /\ Waits(ent[x], i))
       /\ fate'[Len(dest) + 1] \in {"queued", "lost"} \cup HwAddrs
       /\ fate'[Len(dest) + 1] = "queued" <=> Waits(e, Len(dest) + 1)
       /\ fate'[Len(dest) + 1] \in HwAddrs => e.hw # None
  <2>1. "queued" \notin HwAddrs
    BY ArpAssumption
  <2> HIDE DEF e
  <2> QED BY <1>2, <1>3, <1>4, <1>8, <2>1
<1> HIDE DEF e, t, n
<1> QED BY <1>3, <1>5, <1>9, <1>10, <1>11, <1>12, SentStep

LEMMA SendKeeps ==
    ASSUME ArpIInv, NEW p \in Addrs, if_send(p)
    PROVE  ArpIInv'
<1>1. Len(dest) + 1 <= MaxPackets /\ dest' = Append(dest, p) /\ UNCHANGED running
  BY DEF if_send
<1>2. CASE Become([Cache EXCEPT !.lost = {Len(dest) + 1}], Offered)
  BY <1>1, <1>2, SendLost
<1>3. ASSUME NEW x \in Found(Cache, p),
             Become(Deref(Sent([Cache EXCEPT !.ent[x].links = @ + 1], x, Len(dest) + 1), x), Offered)
      PROVE  ArpIInv'
  BY <1>1, <1>3, SendOld
<1>4. ASSUME Found(Cache, p) = {}, NEW x \in Slots \ DOMAIN ent, NEW ok \in BOOLEAN,
             Become(Deref(Sent(arp_sendreq(Created(Cache, x, p), x, ok), x, Len(dest) + 1), x),
                    Offered)
      PROVE  ArpIInv'
  BY <1>1, <1>4, SendNew
<1> QED BY <1>2, <1>3, <1>4 DEF if_send, Offered

-----------------------------------------------------------------------------
(***************************************************************************)
(* The theorem                                                             *)
(***************************************************************************)
LEMMA ArpInitial == ArpInit => ArpIInv
BY ArpAssumption DEF ArpInit, ArpIInv, Exact, Tables, Fated, Parked, InOrder

LEMMA ArpStep == ArpIInv /\ [ArpNext]_avars => ArpIInv'
<1> SUFFICES ASSUME ArpIInv, [ArpNext]_avars PROVE ArpIInv'
  OBVIOUS
<1>1. ASSUME NEW p \in Addrs, if_send(p) PROVE ArpIInv'
  BY <1>1, SendKeeps
<1>2. ASSUME NEW p \in Addrs, SIOCDARP(p) PROVE ArpIInv'
  BY <1>2, DeleteKeeps
<1>3. ASSUME NEW x \in DOMAIN ent, arp_timeout(x) PROVE ArpIInv'
  BY <1>3, TimeoutKeeps
<1>4. ASSUME NEW p \in Addrs, NEW hw \in HwAddrs, NEW b \in BOOLEAN,
             arp_input(p, hw, b) \/ SIOCSARP(p, hw, b)
      PROVE  ArpIInv'
  BY <1>4, ResolveKeeps
<1>5. CASE GoesDown
  BY <1>5, DownKeeps
<1>6. CASE GoesUp
  BY <1>6, UpKeeps
<1>7. CASE UNCHANGED avars
  BY <1>7 DEF avars, ArpIInv
<1> QED BY <1>1, <1>2, <1>3, <1>4, <1>5, <1>6, <1>7 DEF ArpNext

\* Tables, links, timers and queues tell the same story between two handlers:
\* however packets, requests and replies, ioctls, time-outs and if_close are
\* interleaved, arp_deref frees no entry that a table still has and leaks none,
\* and every packet that waits is in the queue of its host's unresolved entry,
\* with none of its followers gone before it.
THEOREM ArpInvariant == ArpSpec => []ArpInv
<1>1. ArpSpec => []ArpIInv
  BY ArpInitial, ArpStep, PTL DEF ArpSpec
<1> QED BY <1>1, Consequence, PTL
=============================================================================
