------------------------------- MODULE NetIf -------------------------------
(***************************************************************************)
(* Packets between the network drivers and the kernel (kernel/if.c and     *)
(* kernel/ifinput.c): the queues of an interface, written and read at      *)
(* interrupt level too, and the root timeout that makes the kernel look at *)
(* the received packets.                                                   *)
(*                                                                         *)
(* A queue has two lists, one for each priority, that if_dequeue serves in *)
(* turn.  Every queue operation masks interrupts and is one step.          *)
(* if_doinput does not: a driver may call if_input between any two of its  *)
(* steps.                                                                  *)
(***************************************************************************)
EXTENDS Integers, Sequences

CONSTANTS
    NIfs,       \* interfaces, in the order of allinterfaces
    Packets,    \* packets to be sent
    Frame,      \* a received packet
    MaxQ,       \* maxqlen
    MaxTmouts   \* static timeouts left for if_doinput

ASSUME NetIfAssumption == {NIfs, MaxQ, MaxTmouts} \subseteq Nat \ {0}

VARIABLES
    rcv,      \* nif->rcv of every interface
    snd,      \* nif->snd of the first interface
    up,       \* IFF_UP and IFF_RUNNING
    tmout,    \* TRUE: tmout is not NULL
    pending,  \* timeouts with function if_doinput in tlist
    pc,       \* where if_doinput is
    at,       \* nif of if_doinput
    todo,
    comeagain,
    added     \* TRUE: what addroottimeout returned to if_doinput is not NULL

doinput == <<pc, at, todo, comeagain, added>>
vars == <<rcv, snd, up, tmout, pending, doinput>>

Ifs == 1 .. NIfs

(***************************************************************************)
(* Queues: curr, of which only the last two bits count, says whose turn it *)
(* is; list 0 has one turn, then list 1 two.                               *)
(***************************************************************************)
Empty == [list |-> [pri \in 0 .. 1 |-> <<>>], curr |-> 0]
qlen(q) == Len(q.list[0]) + Len(q.list[1])
Elements(s) == {s[k] : k \in 1 .. Len(s)}
Queued(q) == Elements(q.list[0]) \cup Elements(q.list[1])

\* A full queue drops the packet.
if_enqueue(q, b, pri) ==
    IF qlen(q) >= MaxQ THEN q ELSE [q EXCEPT !.list[pri] = Append(@, b)]

Turn(q) == q.curr \div 2

if_dequeue_Strict(q) ==
    LET que == IF q.list[0] # <<>> THEN 0 ELSE 1
    IN  [buf |-> Head(q.list[que]), q |-> [q EXCEPT !.list[que] = Tail(@)]]

\* The list whose turn it is, or the other one, which then begins its turn
if_dequeue(q) ==
    LET skip == q.list[Turn(q)] = <<>>
        que  == IF skip THEN 1 - Turn(q) ELSE Turn(q)
    IN  [buf |-> Head(q.list[que]),
         q   |-> [list |-> [q.list EXCEPT ![que] = Tail(@)],
                  curr |-> ((IF skip THEN 2 * que ELSE q.curr) + 2 - que) % 4]]

(***************************************************************************)
(* Reception                                                               *)
(***************************************************************************)
\* addroottimeout(delay, if_doinput, 1) returns NULL if no timeout is left.
CanAdd == pending < MaxTmouts

\* if_input, called by a driver that has received a packet
if_input(i) ==
    /\ up[i]
    /\ rcv' = [rcv EXCEPT ![i] = if_enqueue(@, Frame, 1)]
    /\ pending' = IF ~tmout /\ CanAdd THEN pending + 1 ELSE pending
    /\ tmout' = (tmout \/ CanAdd)
    /\ UNCHANGED <<snd, up, doinput>>

StartInput_KeepsTmout ==
    /\ pc = "idle" /\ pending > 0
    /\ pending' = pending - 1
    /\ pc' = "scan" /\ at' = 1 /\ todo' = MaxQ /\ comeagain' = FALSE
    /\ UNCHANGED <<rcv, snd, up, tmout, added>>

\* checkalarms calls if_doinput.
StartInput ==
    /\ pc = "idle" /\ pending > 0
    /\ pending' = pending - 1 /\ tmout' = FALSE
    /\ pc' = "scan" /\ at' = 1 /\ todo' = MaxQ /\ comeagain' = FALSE
    /\ UNCHANGED <<rcv, snd, up, added>>

\* A packet is passed to ip_input, arp_input or rarp_input.
Deliver ==
    /\ pc = "scan" /\ at <= NIfs /\ up[at] /\ todo > 0 /\ qlen(rcv[at]) > 0
    /\ rcv' = [rcv EXCEPT ![at] = if_dequeue(@).q]
    /\ todo' = todo - 1
    /\ UNCHANGED <<snd, up, tmout, pending, pc, at, comeagain, added>>

\* maxqlen packets in a row: there may be more.
NextIf ==
    /\ pc = "scan" /\ at <= NIfs
    /\ ~up[at] \/ todo = 0 \/ qlen(rcv[at]) = 0
    /\ comeagain' = (comeagain \/ (up[at] /\ todo = 0))
    /\ at' = at + 1 /\ todo' = MaxQ
    /\ UNCHANGED <<rcv, snd, up, tmout, pending, pc, added>>

EndScan ==
    /\ pc = "scan" /\ at > NIfs
    /\ pc' = IF comeagain THEN "store" ELSE "idle"
    /\ added' = (comeagain /\ CanAdd)
    /\ pending' = IF comeagain /\ CanAdd THEN pending + 1 ELSE pending
    /\ UNCHANGED <<rcv, snd, up, tmout, at, todo, comeagain>>

\* tmout is overwritten, whatever if_input has put there in the meantime.
StoreTmout ==
    /\ pc = "store"
    /\ tmout' = added /\ pc' = "idle"
    /\ UNCHANGED <<rcv, snd, up, pending, at, todo, comeagain, added>>

(***************************************************************************)
(* Transmission, opening and closing                                       *)
(***************************************************************************)
\* nif->output with the hardware busy
output(b, pri) ==
    /\ up[1] /\ b \notin Queued(snd)
    /\ snd' = if_enqueue(snd, b, pri)
    /\ UNCHANGED <<rcv, up, tmout, pending, doinput>>

\* The hardware is ready for the next packet.
Transmit ==
    /\ qlen(snd) > 0
    /\ snd' = if_dequeue(snd).q
    /\ UNCHANGED <<rcv, up, tmout, pending, doinput>>

if_open(i) ==
    /\ pc = "idle" /\ ~up[i]
    /\ up' = [up EXCEPT ![i] = TRUE]
    /\ UNCHANGED <<rcv, snd, tmout, pending, doinput>>

\* if_flushq leaves curr alone.
Flushed(q) == [q EXCEPT !.list = Empty.list]

\* The driver is closed and the queues are flushed.
if_close(i) ==
    /\ pc = "idle" /\ up[i]
    /\ up' = [up EXCEPT ![i] = FALSE]
    /\ rcv' = [rcv EXCEPT ![i] = Flushed(@)]
    /\ snd' = IF i = 1 THEN Flushed(snd) ELSE snd
    /\ UNCHANGED <<tmout, pending, doinput>>

Init ==
    /\ rcv = [i \in Ifs |-> Empty] /\ snd = Empty
    /\ up = [i \in Ifs |-> FALSE]
    /\ tmout = FALSE /\ pending = 0
    /\ pc = "idle" /\ at = 1 /\ todo = MaxQ /\ comeagain = FALSE /\ added = FALSE

if_doinput == StartInput \/ Deliver \/ NextIf \/ EndScan \/ StoreTmout

Next ==
    \/ \E i \in Ifs : if_input(i)
    \/ if_doinput
    \/ \E b \in Packets, pri \in 0 .. 1 : output(b, pri)
    \/ Transmit
    \/ \E i \in Ifs : if_open(i) \/ if_close(i)

Spec == Init /\ [][Next]_vars

\* The hardware transmits what it is given.
FairSpec == Spec /\ WF_vars(Transmit)

-----------------------------------------------------------------------------
(***************************************************************************)
(* Properties                                                              *)
(***************************************************************************)
AnyPacket == Packets \cup {Frame}
Queues == [list : [0 .. 1 -> Seq(AnyPacket)], curr : 0 .. 3]

\* The types: no queue exceeds maxqlen (if_enqueue), and there are never more
\* timeouts than addroottimeout has entries for.
TypeOK ==
    /\ rcv \in [Ifs -> Queues] /\ snd \in Queues
    /\ qlen(snd) <= MaxQ /\ \A i \in Ifs : qlen(rcv[i]) <= MaxQ
    /\ up \in [Ifs -> BOOLEAN] /\ tmout \in BOOLEAN /\ pending \in 0 .. MaxTmouts
    /\ pc \in {"idle", "scan", "store"} /\ at \in 1 .. NIfs + 1 /\ todo \in 0 .. MaxQ
    /\ comeagain \in BOOLEAN /\ added \in BOOLEAN

\* Received packets are never forgotten: as long as one waits on an interface
\* that runs, a timeout is pending or if_doinput has not come to the interface
\* yet; and tmout, which keeps drivers from asking for another timeout, is
\* only set when there is one.
NoStall ==
    /\ tmout => pending > 0
    /\ \A i \in Ifs :
          qlen(rcv[i]) > 0 => \/ pending > 0
                              \/ pc = "scan" /\ (at < i \/ (at = i /\ todo >= qlen(rcv[i])))

\* What holds between any step of the kernel and any interrupt: the queues keep
\* within their bounds, and none is forgotten.
InputInv == TypeOK /\ NoStall

\* Neither priority starves the other: every packet to be sent leaves.
OutputServed == \A b \in Packets : b \in Queued(snd) ~> b \notin Queued(snd)
=============================================================================
