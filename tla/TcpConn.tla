------------------------------ MODULE TcpConn ------------------------------
(***************************************************************************)
(* Opening and closing TCP connections: the input state machine of         *)
(* kernel/tcpin.c, the socket operations of kernel/tcp.c, the helpers of   *)
(* kernel/tcputil.c and the queue of incomplete connections of             *)
(* kernel/ipcutil.c, on two hosts that run this stack.                     *)
(*                                                                         *)
(* Host "A" connects (tcb "a"); host "B" has a listening socket that forks *)
(* off a tcb per connection ("b1", "b2").  The network loses, duplicates   *)
(* and reorders segments.                                                  *)
(*                                                                         *)
(* Windows, congestion control and the pacing of the output machine are    *)
(* the business of TcpOut and TcpRecv.  Here every segment is sent when it *)
(* is queued, the receive window is always Window octets, ACKs are not     *)
(* delayed, and the retransmission timer may expire whenever something is  *)
(* unacknowledged; it gives up after MaxRetry expirations.                 *)
(***************************************************************************)
EXTENDS Integers, FiniteSets

Hosts == {"A", "B"}
Ids == {"a", "b1", "b2"}

CONSTANTS
    MaxData,   \* octets each side may write
    MaxNet,    \* bound: segments in the network; more are lost
    MaxRetry,  \* TCP_MAXRETRY
    Step,      \* distance of two initial sequence numbers (999 in tcp_isn)
    Window,    \* the receive window
    MaxOpens   \* bound: connections each host opens

ASSUME ConnAssumption ==
    /\ {MaxData, MaxNet, MaxRetry} \subseteq Nat
    /\ MaxOpens \in [Hosts -> 0 .. 2]
    /\ Step \in Nat \ {0} /\ Window \in Nat \ {0}

Host(i) == IF i = "a" THEN "A" ELSE "B"
Peer(h) == IF h = "A" THEN "B" ELSE "A"

VARIABLES
    tcb,        \* the control blocks, with what their in_data and socket hold
    listening,  \* the listening socket of B: "no", "yes", "closed"
    isns,       \* initial sequence numbers each host has drawn
    net         \* segments in the network

vars == <<tcb, listening, isns, net>>

\* A control block that is not allocated.
Free == [state |-> "FREE", sock |-> FALSE, queued |-> FALSE, passive |-> FALSE,
         dead |-> FALSE, isn |-> 0, una |-> 0, write |-> 0, fin |-> FALSE,
         risn |-> 0, nxt |-> 0, got |-> {}, seq_fin |-> 0,
         deltimer |-> FALSE, nretrans |-> 0, asleep |-> FALSE]

Allocated(i) == tcb[i].state # "FREE"

Synchronized == {"ESTABLISHED", "FINWAIT1", "FINWAIT2", "CLOSEWAIT",
                 "LASTACK", "CLOSING", "TIMEWAIT"}

(***************************************************************************)
(* Segments                                                                *)
(***************************************************************************)
Seg(h, seq, fl, ack, len) ==
    [to |-> Peer(h), seq |-> seq, fl |-> fl, ack |-> ack, len |-> len]

\* tcp_seglen, tcp_datalen
SegLen(m) == m.len + Cardinality(m.fl \cap {"SYN", "FIN"})

\* tcp_output without data, SYN or FIN; tcp_sndack
AckSeg(i, t) == Seg(Host(i), t.write, {"ACK"}, t.nxt, 0)

\* tcp_sndrst: the answer to m, none if m is a reset itself
Rst(m) ==
    IF "RST" \in m.fl THEN {}
    ELSE IF "ACK" \in m.fl
         THEN {Seg(m.to, m.ack, {"RST"}, m.seq + SegLen(m), 0)}
         ELSE {Seg(m.to, 0, {"RST", "ACK"}, m.seq + SegLen(m), 0)}

\* The network takes the segments it has room for.
Send(s) == net' = IF Cardinality(net \cup s) <= MaxNet THEN net \cup s ELSE net

(***************************************************************************)
(* Helpers: kernel/tcputil.c                                               *)
(***************************************************************************)
\* tcb_reset, then CLOSED: timers and queues go, whoever sleeps is woken.
Reset(t) == [t EXCEPT !.state = "CLOSED", !.deltimer = FALSE, !.una = t.write,
                      !.asleep = FALSE]

\* tcb_delete: the tcb goes if it has no socket.
Deleted(t) == IF t.sock THEN [t EXCEPT !.state = "CLOSED"] ELSE Free

Wait_NotFinwait2(t) == [t EXCEPT !.deltimer = t.state # "FINWAIT2"]

\* tcb_wait in FINWAIT2 and TIMEWAIT starts the deletion timer.
Wait(t) == [t EXCEPT !.deltimer = TRUE]

tcp_isn(h) == 1 + isns[h] * Step

\* tcp_valid: the segment with a SYN below the window and a FIN beyond it
\* stripped, and whether anything of it is acceptable.
Strip(t, m) ==
    LET last == m.seq + SegLen(m) - (IF SegLen(m) > 0 THEN 1 ELSE 0)
        old  == "SYN" \in m.fl /\ m.seq < t.nxt
        far  == "FIN" \in m.fl /\ last >= t.nxt + Window
    IN  [m EXCEPT !.seq = IF old THEN @ + 1 ELSE @,
                  !.fl = @ \ ((IF old THEN {"SYN"} ELSE {})
                              \cup (IF far THEN {"FIN"} ELSE {}))]

Valid(t, m) ==
    LET last == m.seq + SegLen(m) - (IF SegLen(m) > 0 THEN 1 ELSE 0)
    IN  t.nxt <= last /\ m.seq < t.nxt + Window

(***************************************************************************)
(* Helpers of the input state machine: kernel/tcpin.c                      *)
(***************************************************************************)
\* tcp_ack: an acknowledgement of something not yet acknowledged counts.
Ack(t, m) ==
    IF "ACK" \in m.fl /\ t.una < m.ack /\ m.ack <= t.write
    THEN [t EXCEPT !.una = m.ack, !.nretrans = 0] ELSE t

\* ... of something never sent is answered.
AckReply(i, t, m) ==
    IF "ACK" \in m.fl /\ m.ack > t.write
    THEN IF t.state = "SYNRCVD" THEN Rst(m) ELSE {AckSeg(i, t)}
    ELSE {}

NextMissing(n, got) == CHOOSE k \in n .. n + Cardinality(got) :
                            k \notin got /\ \A j \in n .. k - 1 : j \in got

RcvData_EarlyFin(t, m) ==
    LET syn == IF "SYN" \in m.fl THEN 1 ELSE 0
        got == t.got \cup (m.seq + syn .. m.seq + syn + m.len - 1)
        fin == IF "FIN" \in m.fl THEN m.seq + syn + m.len ELSE t.seq_fin
        nxt == NextMissing(t.nxt + syn, got)
    IN  [t EXCEPT !.got = got, !.seq_fin = fin,
                  !.nxt = IF fin # 0 /\ fin >= nxt THEN fin + 1 ELSE nxt,
                  !.asleep = @ /\ nxt = t.nxt]

RcvData_OffByOne(t, m) ==
    LET syn == IF "SYN" \in m.fl THEN 1 ELSE 0
        got == t.got \cup (m.seq + syn .. m.seq + syn + m.len)
        fin == IF "FIN" \in m.fl THEN m.seq + syn + m.len ELSE t.seq_fin
        nxt == NextMissing(t.nxt + syn, got)
    IN  [t EXCEPT !.got = got, !.seq_fin = fin,
                  !.nxt = IF fin # 0 /\ fin = nxt THEN nxt + 1 ELSE nxt,
                  !.asleep = @ /\ nxt = t.nxt]

\* tcp_rcvdata: SYN, data (possibly out of order) and FIN are taken into
\* account; a FIN once everything before it is there.  A reader is woken
\* when there is something to read.
RcvData(t, m) ==
    LET syn == IF "SYN" \in m.fl THEN 1 ELSE 0
        got == t.got \cup (m.seq + syn .. m.seq + syn + m.len - 1)
        fin == IF "FIN" \in m.fl THEN m.seq + syn + m.len ELSE t.seq_fin
        nxt == NextMissing(t.nxt + syn, got)
    IN  [t EXCEPT !.got = got, !.seq_fin = fin,
                  !.nxt = IF fin # 0 /\ fin = nxt THEN nxt + 1 ELSE nxt,
                  !.asleep = @ /\ nxt = t.nxt]

\* Data and FIN are acknowledged.
RcvReply(i, t, m) ==
    IF m.len > 0 \/ "FIN" \in m.fl THEN {AckSeg(i, RcvData(t, m))} ELSE {}

\* tcp_finished: the peer's FIN has been taken into account.
Finished(t) == t.seq_fin # 0 /\ t.seq_fin < t.nxt

\* The own FIN has been acknowledged.
FinAcked(t) == t.una >= t.write

\* The head of the send queue: SYN, FIN or one octet, with the current ACK
SendQueueHead(i, t) ==
    IF t.una = t.isn
    THEN Seg(Host(i), t.isn, IF t.passive THEN {"SYN", "ACK"} ELSE {"SYN"},
             IF t.passive THEN t.nxt ELSE 0, 0)
    ELSE IF t.fin /\ t.una = t.write - 1
         THEN Seg(Host(i), t.una, {"FIN", "ACK"}, t.nxt, 0)
         ELSE Seg(Host(i), t.una, {"ACK"}, t.nxt, 1)

\* tcp_output with FIN
SendFin(t) == [t EXCEPT !.fin = TRUE, !.write = @ + 1]
FinSeg(i, t) == Seg(Host(i), t.write, {"FIN", "ACK"}, t.nxt, 0)

Set(i, t) == tcb' = [tcb EXCEPT ![i] = t]

\* Set the control block and send s.
Do(i, t, s) == Set(i, t) /\ Send(s) /\ UNCHANGED <<listening, isns>>
Drop == UNCHANGED vars

(***************************************************************************)
(* The input state machine: kernel/tcpin.c.  The handlers get the segment  *)
(* as tcp_valid leaves it.                                                 *)
(***************************************************************************)
\* The tcb in_data_lookup finds: a live connection before the listening
\* socket, and that before a dead connection (the oldest).
Live(h) == {i \in Ids : Host(i) = h /\ Allocated(i) /\ ~tcb[i].dead}
Dead(h) == {i \in Ids : Host(i) = h /\ Allocated(i) /\ tcb[i].dead}
Listens(h) == h = "B" /\ listening = "yes"

Lookup(h) == IF Live(h) # {} THEN Live(h)
             ELSE IF Listens(h) THEN {"listener"}
             ELSE {i \in Dead(h) : \A j \in Dead(h) : tcb[i].isn <= tcb[j].isn}

\* No tcb, or a closed one: tcp_input, tcbs_closed
tcbs_closed(m) ==
    /\ \A i \in Lookup(m.to) : i # "listener" /\ tcb[i].state = "CLOSED"
    /\ Send(Rst(m))
    /\ UNCHANGED <<tcb, listening, isns>>

\* check_syn: m repeats the SYN of a dead connection.
check_syn(m) == \E i \in Dead("B") : tcb[i].risn = m.seq

\* A new tcb and socket are forked off and queued on the listening socket.
\* If the queue is full (here: a connection is there that is not yet
\* accepted), everything is undone and a reset is sent.
Backlogged == \E i \in Ids : Allocated(i) /\ tcb[i].queued

tcbs_listen(m) ==
    /\ Lookup(m.to) = {"listener"}
    /\ \/ /\ "RST" \in m.fl \/ "SYN" \notin m.fl
          /\ Drop
       \/ /\ "RST" \notin m.fl /\ {"SYN", "ACK"} \subseteq m.fl
          /\ Send(Rst(m)) /\ UNCHANGED <<tcb, listening, isns>>
       \/ /\ m.fl = {"SYN"} /\ check_syn(m)
          /\ Drop
       \/ /\ m.fl = {"SYN"} /\ ~check_syn(m) /\ Backlogged
          /\ Send(Rst(m)) /\ UNCHANGED <<tcb, listening, isns>>
       \/ /\ m.fl = {"SYN"} /\ ~check_syn(m) /\ ~Backlogged
          /\ isns["B"] < MaxOpens["B"]
          /\ LET i == IF isns["B"] = 0 THEN "b1" ELSE "b2"
                 n == tcp_isn("B")
                 t == RcvData([Free EXCEPT
                        !.state = "SYNRCVD", !.sock = TRUE, !.queued = TRUE,
                        !.passive = TRUE, !.isn = n, !.una = n, !.write = n + 1,
                        !.risn = m.seq, !.nxt = m.seq], m)
             IN  /\ Set(i, t)
                 /\ Send({SendQueueHead(i, t)})
          /\ isns' = [isns EXCEPT !["B"] = @ + 1]
          /\ UNCHANGED listening

tcbs_synsent(i, m) ==
    LET t   == tcb[i]
        bad == "ACK" \in m.fl /\ (m.ack <= t.isn \/ m.ack > t.write)
        u   == RcvData(Ack([t EXCEPT !.risn = m.seq, !.nxt = m.seq], m), m)
    IN  CASE bad -> Do(i, t, Rst(m))
          [] ~bad /\ "RST" \in m.fl ->
                IF "ACK" \in m.fl THEN Do(i, Reset(t), {}) ELSE Drop
          [] ~bad /\ "RST" \notin m.fl /\ "SYN" \notin m.fl -> Drop
          [] OTHER ->
                Do(i, [u EXCEPT !.state = IF u.una > u.isn THEN "ESTABLISHED"
                                                           ELSE "SYNRCVD"],
                   {AckSeg(i, u)})

tcbs_synrcvd(i, m) ==
    LET t == tcb[i]
        u == RcvData(Ack(t, m), m)
    IN  CASE m.fl \cap {"RST", "SYN"} # {} ->
                Do(i, IF t.passive THEN Free ELSE Reset(t), Rst(m))
          [] m.fl \cap {"RST", "SYN", "ACK"} = {} -> Drop
          [] OTHER ->
                Do(i, [u EXCEPT !.state = IF Finished(u) THEN "CLOSEWAIT"
                                                         ELSE "ESTABLISHED"],
                   AckReply(i, t, m) \cup RcvReply(i, Ack(t, m), m))

tcbs_established(i, m) ==
    LET t == tcb[i]
        u == RcvData(Ack(t, m), m)
    IN  CASE m.fl \cap {"RST", "SYN"} # {} -> Do(i, Reset(t), Rst(m))
          [] m.fl \cap {"RST", "SYN", "ACK"} = {} -> Drop
          [] OTHER ->
                Do(i, IF Finished(u)
                      THEN [u EXCEPT !.state = "CLOSEWAIT", !.asleep = FALSE] ELSE u,
                   AckReply(i, t, m) \cup RcvReply(i, Ack(t, m), m))

\* What ends a connection that has sent its FIN: a reset, a SYN, or data for
\* a connection without a socket.
Fatal(t, m) == m.fl \cap {"RST", "SYN"} # {} \/ (~t.sock /\ m.len > 0)

tcbs_finwait1(i, m) ==
    LET t == tcb[i]
        u == RcvData(Ack(t, m), m)
    IN  CASE Fatal(t, m) -> Do(i, Deleted(Reset(t)), Rst(m))
          [] ~Fatal(t, m) /\ "ACK" \notin m.fl -> Drop
          [] OTHER ->
                Do(i, CASE Finished(u) /\ ~FinAcked(u) -> [u EXCEPT !.state = "CLOSING"]
                        [] Finished(u) /\ FinAcked(u) ->
                              Wait([u EXCEPT !.state = "TIMEWAIT", !.dead = TRUE])
                        [] ~Finished(u) /\ FinAcked(u) ->
                              Wait([u EXCEPT !.state = "FINWAIT2"])
                        [] OTHER -> u,
                   AckReply(i, t, m) \cup RcvReply(i, Ack(t, m), m))

tcbs_finwait2(i, m) ==
    LET t == tcb[i]
        u == RcvData(Ack(t, m), m)
    IN  CASE Fatal(t, m) -> Do(i, Deleted(Reset(t)), Rst(m))
          [] ~Fatal(t, m) /\ "ACK" \notin m.fl -> Drop
          [] OTHER ->
                Do(i, IF Finished(u)
                      THEN Wait([u EXCEPT !.state = "TIMEWAIT", !.dead = TRUE]) ELSE u,
                   AckReply(i, t, m) \cup RcvReply(i, Ack(t, m), m))

tcbs_closewait(i, m) ==
    LET t == tcb[i]
    IN  IF m.fl \cap {"RST", "SYN"} # {}
        THEN Do(i, Deleted(Reset(t)), Rst(m))
        ELSE Do(i, Ack(t, m), AckReply(i, t, m))

tcbs_lastack(i, m) ==
    LET t == tcb[i]
        u == Ack(t, m)
    IN  IF Fatal(t, m)
        THEN Do(i, Deleted(Reset(t)), Rst(m))
        ELSE Do(i, IF FinAcked(u) THEN Deleted([u EXCEPT !.dead = TRUE]) ELSE u,
                AckReply(i, t, m))

tcbs_closing(i, m) ==
    LET t == tcb[i]
        u == Ack(t, m)
    IN  IF Fatal(t, m)
        THEN Do(i, Deleted(Reset(t)), Rst(m))
        ELSE Do(i, IF FinAcked(u)
                   THEN Wait([u EXCEPT !.state = "TIMEWAIT", !.dead = TRUE]) ELSE u,
                AckReply(i, t, m))

tcbs_timewait(i, m) ==
    LET t == tcb[i]
    IN  IF Fatal(t, m)
        THEN Do(i, Deleted(t), Rst(m))
        ELSE Do(i, Wait(RcvData(Ack(t, m), m)),
                AckReply(i, t, m) \cup RcvReply(i, Ack(t, m), m))

\* tcp_input with a tcb that is past SYNSENT: what is not acceptable is
\* answered by an ACK, unless it is a reset.
NotAcceptable(i, m) ==
    /\ ~Valid(tcb[i], m)
    /\ Do(i, tcb[i], IF "RST" \in m.fl THEN {} ELSE {AckSeg(i, tcb[i])})

Handle_Swapped(i, m) ==
    LET st == tcb[i].state
    IN  \/ st = "SYNRCVD"     /\ tcbs_synrcvd(i, m)
        \/ st = "ESTABLISHED" /\ tcbs_established(i, m)
        \/ st = "FINWAIT1"    /\ tcbs_finwait1(i, m)
        \/ st = "FINWAIT2"    /\ tcbs_finwait2(i, m)
        \/ st = "CLOSEWAIT"   /\ tcbs_closewait(i, m)
        \/ st = "LASTACK"     /\ tcbs_closing(i, m)
        \/ st = "CLOSING"     /\ tcbs_lastack(i, m)
        \/ st = "TIMEWAIT"    /\ tcbs_timewait(i, m)

\* tcb_state: the handler of the state
Handle(i, m) ==
    LET st == tcb[i].state
    IN  \/ st = "SYNRCVD"     /\ tcbs_synrcvd(i, m)
        \/ st = "ESTABLISHED" /\ tcbs_established(i, m)
        \/ st = "FINWAIT1"    /\ tcbs_finwait1(i, m)
        \/ st = "FINWAIT2"    /\ tcbs_finwait2(i, m)
        \/ st = "CLOSEWAIT"   /\ tcbs_closewait(i, m)
        \/ st = "LASTACK"     /\ tcbs_lastack(i, m)
        \/ st = "CLOSING"     /\ tcbs_closing(i, m)
        \/ st = "TIMEWAIT"    /\ tcbs_timewait(i, m)

tcp_input(m) ==
    \/ tcbs_closed(m)
    \/ tcbs_listen(m)
    \/ \E i \in Lookup(m.to) \cap Ids :
          \/ tcb[i].state = "SYNSENT" /\ tcbs_synsent(i, m)
          \/ /\ tcb[i].state \in Synchronized \cup {"SYNRCVD"}
             /\ \/ NotAcceptable(i, m)
                \/ Valid(tcb[i], m) /\ Handle(i, Strip(tcb[i], m))

(***************************************************************************)
(* Timers and ICMP errors                                                  *)
(***************************************************************************)
\* Something is queued that is not acknowledged: the output machine is not
\* idle and its timer is armed.
Unacked(i) == Allocated(i) /\ tcb[i].state # "CLOSED" /\ tcb[i].una < tcb[i].write

Retransmit_NeverGivesUp(i) ==
    /\ Unacked(i)
    /\ Do(i, tcb[i], {SendQueueHead(i, tcb[i])})

\* tcp_retrans
Retransmit(i) ==
    /\ Unacked(i)
    /\ IF tcb[i].nretrans + 1 > MaxRetry
       THEN Do(i, Deleted(Reset(tcb[i])), {})
       ELSE Do(i, [tcb[i] EXCEPT !.nretrans = @ + 1], {SendQueueHead(i, tcb[i])})

\* deleteme, the function of delete_evt
deleteme(i) ==
    /\ Allocated(i) /\ tcb[i].deltimer
    /\ Do(i, Deleted([tcb[i] EXCEPT !.deltimer = FALSE]), {})

\* tcp_error: a hard ICMP error aborts the connection.
tcp_error(i) ==
    /\ Allocated(i) /\ tcb[i].state # "CLOSED"
    /\ Do(i, Deleted(Reset(tcb[i])), {})

(***************************************************************************)
(* Socket operations: kernel/tcp.c.  A process that sleeps in tcp_recv     *)
(* makes no other call, and no other process uses its socket.              *)
(***************************************************************************)
\* The socket is the application's: it is not waiting to be accepted.
Owned(i) == Allocated(i) /\ tcb[i].sock /\ ~tcb[i].queued /\ ~tcb[i].asleep

\* socket, connect (B connects only if it does not listen)
tcp_connect(i) ==
    /\ tcb[i] = Free
    /\ i = "a" \/ (i = "b1" /\ listening = "no" /\ isns["B"] = 0)
    /\ isns[Host(i)] < MaxOpens[Host(i)]
    /\ LET n == tcp_isn(Host(i))
           t == [Free EXCEPT !.state = "SYNSENT", !.sock = TRUE,
                             !.isn = n, !.una = n, !.write = n + 1]
       IN  Set(i, t) /\ Send({SendQueueHead(i, t)})
    /\ isns' = [isns EXCEPT ![Host(i)] = @ + 1]
    /\ UNCHANGED listening

tcp_listen ==
    /\ listening = "no" /\ isns["B"] = 0
    /\ listening' = "yes"
    /\ UNCHANGED <<tcb, isns, net>>

\* tcp_accept takes the first queued connection that is not in SYNRCVD.
tcp_accept(i) ==
    /\ listening = "yes"
    /\ Allocated(i) /\ tcb[i].queued /\ tcb[i].state # "SYNRCVD"
    /\ Do(i, [tcb[i] EXCEPT !.queued = FALSE], {})

\* tcp_detach: what becomes of the tcb, and what it sends
Detached(t) ==
    CASE t.state \in {"CLOSED", "SYNSENT"} -> Free
      [] t.state \in {"SYNRCVD", "ESTABLISHED"} ->
            [SendFin(t) EXCEPT !.state = "FINWAIT1", !.sock = FALSE, !.queued = FALSE]
      [] t.state = "CLOSEWAIT" ->
            [SendFin(t) EXCEPT !.state = "LASTACK", !.sock = FALSE, !.queued = FALSE]
      [] OTHER -> [t EXCEPT !.sock = FALSE, !.queued = FALSE]

CanFin(t) == t.state \in {"SYNRCVD", "ESTABLISHED", "CLOSEWAIT"}

tcp_detach(i) ==
    /\ Owned(i)
    /\ Do(i, Detached(tcb[i]), IF CanFin(tcb[i]) THEN {FinSeg(i, tcb[i])} ELSE {})

\* so_release of the listening socket: the sockets that wait to be accepted
\* are freed (tcp_abort).
CloseListener ==
    /\ listening = "yes"
    /\ listening' = "closed"
    /\ tcb' = [i \in Ids |-> IF Allocated(i) /\ tcb[i].queued
                             THEN Detached(tcb[i]) ELSE tcb[i]]
    /\ Send({FinSeg(i, tcb[i]) : i \in {i \in Ids : /\ Allocated(i) /\ tcb[i].queued
                                                    /\ CanFin(tcb[i])}})
    /\ UNCHANGED isns

\* tcp_shutdown with how = 1
tcp_shutdown(i) ==
    /\ Owned(i) /\ CanFin(tcb[i])
    /\ Do(i, [SendFin(tcb[i]) EXCEPT !.state = IF @ = "CLOSEWAIT" THEN "LASTACK"
                                                                 ELSE "FINWAIT1"],
          {FinSeg(i, tcb[i])})

\* tcp_send of one octet
tcp_send(i) ==
    /\ Owned(i) /\ tcb[i].state \in {"ESTABLISHED", "CLOSEWAIT"}
    /\ tcb[i].write <= tcb[i].isn + MaxData
    /\ Do(i, [tcb[i] EXCEPT !.write = @ + 1],
          {Seg(Host(i), tcb[i].write, {"ACK"}, tcb[i].nxt, 1)})

\* tcp_recv when everything that has arrived is read: it sleeps only while
\* ESTABLISHED, in every other state it returns end of file.
tcp_recv(i) ==
    /\ Owned(i) /\ tcb[i].state = "ESTABLISHED"
    /\ Do(i, [tcb[i] EXCEPT !.asleep = TRUE], {})

Lose == \E m \in net : net' = net \ {m} /\ UNCHANGED <<tcb, listening, isns>>

Init ==
    /\ tcb = [i \in Ids |-> Free]
    /\ listening = "no"
    /\ isns = [h \in Hosts |-> 0]
    /\ net = {}

Timers == \E i \in Ids : Retransmit(i) \/ deleteme(i)

Calls ==
    \/ \E i \in Ids : \/ tcp_connect(i) \/ tcp_accept(i) \/ tcp_detach(i)
                      \/ tcp_shutdown(i) \/ tcp_send(i) \/ tcp_recv(i)
    \/ tcp_listen \/ CloseListener

Next ==
    \/ \E m \in net : tcp_input(m)
    \/ Timers
    \/ \E i \in Ids : tcp_error(i)
    \/ Calls
    \/ Lose

Spec == Init /\ [][Next]_vars

\* The event queue runs every timer (see Timer).  Nothing is assumed of the
\* network, the peer and the applications.
FairSpec == Spec /\ \A i \in Ids : WF_vars(Retransmit(i)) /\ WF_vars(deleteme(i))

-----------------------------------------------------------------------------
(***************************************************************************)
(* Properties                                                              *)
(***************************************************************************)
States == {"FREE", "CLOSED", "SYNSENT", "SYNRCVD"} \cup Synchronized

\* The types; nothing is acknowledged that was not sent, and a control block that
\* tcb_delete has freed is not written to any more.
TypeOK ==
    /\ \A i \in Ids :
          /\ tcb[i].state \in States
          /\ \A f \in {"sock", "queued", "passive", "dead", "fin", "deltimer", "asleep"} :
                tcb[i][f] \in BOOLEAN
          /\ \A f \in {"isn", "una", "write", "risn", "nxt", "seq_fin", "nretrans"} :
                tcb[i][f] \in Nat
          /\ tcb[i].una <= tcb[i].write
          /\ tcb[i].got \subseteq Nat
          /\ tcb[i].state = "FREE" => tcb[i] = Free
    /\ listening \in {"no", "yes", "closed"}
    /\ isns \in [Hosts -> 0 .. 2]
    /\ Cardinality(net) <= MaxNet

\* i and j are the two ends of one connection.
Paired(i, j) ==
    /\ Host(i) # Host(j)
    /\ tcb[i].state \in Synchronized /\ tcb[j].state \in Synchronized
    /\ tcb[i].risn = tcb[j].isn /\ tcb[j].risn = tcb[i].isn

\* The two ends of a connection agree: what one takes to be acknowledged the
\* other has received, and what one has received the other has sent,
\* whatever was lost, repeated or reordered and however the ends were opened.
EndsAgree ==
    \A i, j \in Ids : Paired(i, j) =>
        tcb[i].una <= tcb[j].nxt /\ tcb[j].nxt <= tcb[i].write

\* End of file is not reported early: once the peer's FIN has been taken into
\* account (CLOSEWAIT and the states behind it), every octet before the FIN
\* has arrived, and the peer, if it is still there, has really sent its FIN.
NoEarlyEof ==
    \A i \in Ids : Allocated(i) /\ Finished(tcb[i]) =>
        /\ tcb[i].risn + 1 .. tcb[i].seq_fin - 1 \subseteq tcb[i].got
        /\ \A j \in Ids : Paired(i, j) => tcb[j].fin

\* Only the sockets of live listeners have connections on their queue: closing
\* the listening socket leaves none behind that nobody could accept.
QueueOwned ==
    \A i \in Ids : tcb[i].queued => listening = "yes" /\ tcb[i].sock /\ tcb[i].passive

\* A process that sleeps in tcp_recv sleeps on an established connection: if
\* the connection is reset, times out or the peer closes it, the process is
\* woken in the same step.
ReaderWoken == \A i \in Ids : tcb[i].asleep => tcb[i].state = "ESTABLISHED"

\* What holds of every control block, of each pair of ends, of the queue of the
\* listener and of processes that sleep: nobody waits for the wrong thing.
ConnInv == TypeOK /\ EndsAgree /\ QueueOwned /\ ReaderWoken

\* The transitions of the connection state.  Besides opening and closing
\* there are: abort (to CLOSED or FREE) from everywhere, and nothing leads
\* out of CLOSED but freeing the tcb.
Edges ==
    {<<"FREE", "SYNSENT">>, <<"FREE", "SYNRCVD">>,
     <<"SYNSENT", "SYNRCVD">>, <<"SYNSENT", "ESTABLISHED">>,
     <<"SYNRCVD", "ESTABLISHED">>, <<"SYNRCVD", "CLOSEWAIT">>, <<"SYNRCVD", "FINWAIT1">>,
     <<"ESTABLISHED", "CLOSEWAIT">>, <<"ESTABLISHED", "FINWAIT1">>,
     <<"CLOSEWAIT", "LASTACK">>,
     <<"FINWAIT1", "FINWAIT2">>, <<"FINWAIT1", "CLOSING">>, <<"FINWAIT1", "TIMEWAIT">>,
     <<"FINWAIT2", "TIMEWAIT">>, <<"CLOSING", "TIMEWAIT">>}

\* A connection moves along the edges of the TCP state diagram only, a
\* socket-less tcb never regains a socket, and the receive side never takes
\* back what it has acknowledged.
Diagram ==
    [][ \A i \in Ids :
          LET s == tcb[i].state
              n == tcb'[i].state
          IN  /\ s = n \/ n \in {"CLOSED", "FREE"} \/ <<s, n>> \in Edges
              /\ s # "FREE" /\ n # "FREE" => /\ tcb'[i].sock => tcb[i].sock
                                             /\ s # "SYNSENT" => tcb[i].nxt <= tcb'[i].nxt
      ]_vars

\* Every control block without a socket is freed in the end, whatever the
\* network and the peer do after tcp_detach.
OrphansGo == \A i \in Ids : (Allocated(i) /\ ~tcb[i].sock) ~> ~Allocated(i)

\* No connect waits for ever: tcp_retrans gives up a handshake nobody answers.
ConnectEnds == \A i \in Ids : tcb[i].state \in {"SYNSENT", "SYNRCVD"}
                                ~> tcb[i].state \notin {"SYNSENT", "SYNRCVD"}

=============================================================================
