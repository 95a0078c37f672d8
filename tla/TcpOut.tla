------------------------------ MODULE TcpOut ------------------------------
(***************************************************************************)
(* The output side of a TCP connection: the output state machine IDLE /    *)
(* XMIT / RETRANS / PERSIST of kernel/tcpout.c, the queue of segments, the *)
(* retransmission and persist timer, tcp_ack and tcp_sndwnd of             *)
(* kernel/tcpin.c and the waiting writer of kernel/tcp.c.                  *)
(*                                                                         *)
(* The peer is a receiver that never takes back a window.  What a step     *)
(* sends reaches it at once, in part or not at all; its answers are        *)
(* delayed, lost, repeated and reordered.  Octets are numbered from 0.     *)
(*                                                                         *)
(* Abstracted: round trip times and the values of time-outs (a timer that  *)
(* is armed may expire); the congestion window is any of Cwnds whenever    *)
(* something is sent (it is never less than one segment); urgent data.     *)
(***************************************************************************)
EXTENDS Integers, Sequences, FiniteSets, FiniteSetsExt

CONSTANTS
    MaxData,    \* octets the process writes
    Mss,        \* octets of a full-sized segment
    Window,     \* the peer's receive buffer
    Cwnds,      \* congestion windows
    MaxQueue,   \* snd.maxdatalen
    MaxRetry,   \* TCP_MAXRETRY
    MaxSilent,  \* probes without an answer in TCP_CONN_TMOUT
    MaxNet,     \* bound: answers under way; more are lost
    CanReorder, \* answers may carry old data of the peer: tcp_sndwnd ignores them
    HalfClosed  \* the peer has closed its direction (CLOSEWAIT)

ASSUME OutAssumption ==
    /\ {MaxData, MaxQueue, MaxRetry, MaxSilent, MaxNet} \subseteq Nat
    /\ {Mss, Window} \subseteq Nat \ {0}
    /\ \A c \in Cwnds : c \in Nat /\ c >= Mss
    /\ {CanReorder, HalfClosed} \subseteq BOOLEAN

VARIABLES
    s,      \* the control block, its send queue and the writer
    peer,   \* the receiver: octets received and octets read
    acks,   \* answers under way
    fatal   \* an assertion of tcp_sndseg or tcp_retrans has failed

vars == <<s, peer, acks, fatal>>

(***************************************************************************)
(* The send queue                                                          *)
(***************************************************************************)
\* seq, seq + tcp_seglen, FIN, and whether Nagle takes it for not full-sized
Segment(a, e, fin, room) == [a |-> a, e |-> e, fin |-> fin, room |-> room]

LastOf(q) == q[Len(q)]
DataLen(g) == g.e - g.a - (IF g.fin THEN 1 ELSE 0)
QueueLen(q) == IF q = <<>> THEN 0
               ELSE LastOf(q).e - q[1].a - (IF LastOf(q).fin THEN 1 ELSE 0)

Connected(t) == t.state \in {"ESTABLISHED", "CLOSEWAIT"}

\* tcp_canwrite
CanWrite(t) ==
    LET space == MaxQueue - QueueLen(t.q)
    IN  IF \/ ~Connected(t)
           \/ space < Mss /\ 2 * Mss <= MaxQueue THEN 0 ELSE Max({space, 0})

\* The segment is sent: [from, to)
Emit(t, from, to) == [t EXCEPT !.out = @ \cup {<<from, to>>}]

(***************************************************************************)
(* Helper routines of the output state machine                             *)
(***************************************************************************)
\* tcp_sndhead: segments that fit into the window are sent, and a part of the
\* next one if that is more than half of the largest window seen.  With ~ok
\* there is no memory for the first of them; if nothing is outstanding it is
\* taken for sent all the same.
SndHead(t, c, ok) ==
    LET last   == LastOf(t.q)
        nagle  == last.room /\ (t.una < t.nxt \/ Len(t.q) > 1)
        r      == IF nagle THEN Min({last.a - t.wndack, c}) ELSE c
        wndnxt == t.wndack + Min({t.wnd, r})
        todo   == {k \in 1 .. Len(t.q) : t.nxt < t.q[k].e}
        base   == Max({t.q[k].e : k \in {j \in todo : t.q[j].e <= wndnxt}} \cup {t.nxt})
        rest   == {k \in todo : base < t.q[k].e}
        part   == rest # {} /\ base < wndnxt /\ 2 * (wndnxt - base) > t.wndmax
        bad    == part /\ t.q[Min(rest)].a >= wndnxt
        to     == IF part /\ ~bad THEN wndnxt ELSE base
        lost   == t.q[Min(todo)].e
        Stamped(k) == IF k \in todo /\ t.q[k].a < to
                      THEN [t.q[k] EXCEPT !.room = TRUE] ELSE t.q[k]
    IN  CASE todo = {} \/ (to = t.nxt /\ ~bad) -> t
          [] todo # {} /\ to > t.nxt /\ ok ->
                [Emit(t, t.nxt, to) EXCEPT !.nxt = to, !.max = Max({t.max, to}), !.fatal = @ \/ bad,
                     !.q = [k \in 1 .. Len(t.q) |-> Stamped(k)]]
          [] todo # {} /\ to > t.nxt /\ ~ok ->
                IF t.una = t.nxt
                THEN [t EXCEPT !.nxt = lost, !.max = Max({t.max, lost}), !.nomem = TRUE,
                               !.q[Min(todo)].room = TRUE]
                ELSE t
          [] OTHER -> [t EXCEPT !.fatal = TRUE]

\* canretrans
CanRetrans(t) ==
    t.wnd > 0 /\ t.q # <<>> /\ t.una < t.nxt /\ t.q[1].a < t.nxt

\* tcp_dropdata: the segments in front of the first one that is not acknowledged
\* go, the writer is woken
DropData(t) ==
    LET kept == {k \in 1 .. Len(t.q) : t.q[k].e > t.una}
        q == IF kept = {} THEN <<>> ELSE SubSeq(t.q, Min(kept), Len(t.q))
        u == [t EXCEPT !.q = q, !.nretrans = 0]
    IN  IF q = t.q THEN t ELSE [u EXCEPT !.asleep = @ /\ CanWrite(u) = 0]

\* tcb_reset and CLOSED
Closed(t) == [t EXCEPT !.state = "CLOSED", !.ostate = "IDLE", !.timer = FALSE,
                       !.q = <<>>, !.asleep = FALSE]

\* tcp_sndseg of the first segment, between snd_una and snd_nxt, followed by
\* n octets of the second one if the first was sent to its end
Resend(t, n) ==
    LET g     == t.q[1]
        h     == t.q[2]
        extra == Min({DataLen(h), n})
        more  == /\ t.q[1].e <= t.nxt /\ Len(t.q) > 1
                 /\ extra > 0 /\ ~h.fin /\ h.a + extra <= t.wndack + t.wnd
        from  == Max({t.una, g.a})
    IN  IF t.nxt <= g.a THEN [t EXCEPT !.fatal = TRUE]
        ELSE IF more
             THEN [Emit(t, from, h.a + extra) EXCEPT !.max = Max({@, h.a + extra})]
             ELSE Emit(t, from, Min({t.nxt, g.e}))

Retrans_NoRearm(t, ok) ==
    IF t.nretrans + 1 > MaxRetry THEN Closed(t)
    ELSE IF ok THEN Resend([t EXCEPT !.nretrans = @ + 1], t.nretrans + 1)
               ELSE [t EXCEPT !.nretrans = @ + 1]

\* tcp_retrans: the timer is armed again unless the connection is given up
Retrans(t, ok) ==
    LET u == [t EXCEPT !.nretrans = @ + 1, !.timer = TRUE]
    IN  CASE u.nretrans > MaxRetry -> Closed(t)
          [] u.nretrans <= MaxRetry /\ t.q = <<>> ->
                [t EXCEPT !.nretrans = @ + 1, !.ostate = "IDLE", !.fatal = TRUE]
          [] OTHER -> IF ok THEN Resend(u, u.nretrans) ELSE u

\* tcp_probe: an octet the peer will not accept; it answers if it is alive
Probe(t) ==
    IF t.silent + 1 > MaxSilent THEN Closed(t)
    ELSE [t EXCEPT !.silent = @ + 1, !.timer = TRUE, !.out = @ \cup {<<0, 0>>}]

(***************************************************************************)
(* The output state machine                                                *)
(***************************************************************************)
XmitOrPersist(t) ==
    [t EXCEPT !.ostate = IF CanRetrans(t) THEN "XMIT" ELSE "PERSIST", !.timer = TRUE]

tcbos_idle(t, ev, c, ok) ==
    IF ev = "SEND" /\ t.nxt < t.write THEN XmitOrPersist(SndHead(t, c, ok)) ELSE t

tcbos_xmit(t, ev, c, ok) ==
    LET h == IF ev \in {"SEND", "WNDOPEN"} /\ t.nxt < t.write THEN SndHead(t, c, ok) ELSE t
        d == DropData(t)
    IN  CASE ev = "SEND" -> h
          [] ev \in {"WNDOPEN", "WNDCLOSE"} ->
                IF CanRetrans(h) THEN h ELSE [h EXCEPT !.ostate = "PERSIST"]
          [] ev = "ACKRCVD" ->
                IF d.una >= d.write THEN [d EXCEPT !.ostate = "IDLE", !.timer = FALSE] ELSE d
          [] ev = "TIMEOUT" -> Retrans([t EXCEPT !.ostate = "RETRANS"], ok)
          [] OTHER -> t

\* A duplicate acknowledgement resends when there have been enough of them;
\* here any may.
tcbos_retrans(t, ev, c, ok) ==
    LET d == DropData(t)
    IN  CASE ev = "TIMEOUT" -> Retrans(t, ok)
          [] ev = "WNDCLOSE" ->
                IF CanRetrans(t) THEN t ELSE [t EXCEPT !.ostate = "PERSIST"]
          [] ev = "DUPACK" ->
                IF ok /\ CanRetrans(t) /\ t.q[1].e <= t.nxt THEN Resend(t, t.nretrans) ELSE t
          [] ev = "ACKRCVD" ->
                IF d.una >= d.write THEN [d EXCEPT !.ostate = "IDLE", !.timer = FALSE]
                ELSE IF d.una >= d.nxt
                     THEN [(IF d.nxt < d.write THEN SndHead(d, c, ok) ELSE d)
                             EXCEPT !.ostate = "XMIT"]
                     ELSE d
          [] OTHER -> t

tcbos_persist(t, ev, c, ok) ==
    LET h == SndHead([t EXCEPT !.wndmax = t.wnd], c, ok)
        o == IF t.nxt < t.write THEN SndHead(t, c, ok) ELSE t
        d == DropData(t)
    IN  CASE ev = "TIMEOUT" ->
                IF t.wnd = 0 THEN Probe(t)
                ELSE IF CanRetrans(h) THEN XmitOrPersist(h) ELSE Probe(h)
          [] ev = "ACKRCVD" ->
                IF d.una >= d.write THEN [d EXCEPT !.ostate = "IDLE", !.timer = FALSE] ELSE d
          [] ev = "WNDOPEN" -> IF CanRetrans(o) THEN XmitOrPersist(o) ELSE o
          [] OTHER -> t

\* TCB_OSTATE
Event(t, ev, c, ok) ==
    CASE t.ostate = "IDLE"    -> tcbos_idle(t, ev, c, ok)
      [] t.ostate = "XMIT"    -> tcbos_xmit(t, ev, c, ok)
      [] t.ostate = "RETRANS" -> tcbos_retrans(t, ev, c, ok)
      [] t.ostate = "PERSIST" -> tcbos_persist(t, ev, c, ok)

(***************************************************************************)
(* tcp_output: data and FIN are queued, in the last segment if nothing of  *)
(* it has been sent and it has room.                                       *)
(***************************************************************************)
Enqueued(t, n, fin) ==
    LET comb == t.q # <<>> /\ t.max <= LastOf(t.q).a /\ LastOf(t.q).room
        r    == IF comb THEN Min({n, Mss - DataLen(LastOf(t.q))}) ELSE 0
        f    == IF fin THEN 1 ELSE 0
        left == n - r
        old  == IF ~comb THEN t.q
                ELSE LET g == LastOf(t.q)
                         x == fin /\ left = 0
                     IN  [t.q EXCEPT ![Len(t.q)] =
                            Segment(g.a, g.e + r + (IF x THEN 1 ELSE 0), x,
                                    ~x /\ DataLen(g) + r < Mss)]
        new  == IF left > 0 \/ (fin /\ ~comb)
                THEN <<Segment(t.write + r, t.write + n + f, fin, ~fin /\ left < Mss)>>
                ELSE <<>>
    IN  [t EXCEPT !.q = old \o new, !.write = @ + n + f]

Output(t, n, fin, c, ok) == Event(Enqueued(t, n, fin), "SEND", c, ok)

(***************************************************************************)
(* kernel/tcpin.c: acknowledgements and the send window                    *)
(***************************************************************************)
Updates_NewAckOnly(t, m) == t.state # "LASTACK" /\ ~m.old /\ m.ack > t.wndack

\* tcp_ack's update_sndwnd: the handlers of LASTACK and CLOSING pass 0.
Updates(t, m) == t.state # "LASTACK" /\ ~m.old /\ m.ack >= t.wndack

\* tcp_sndwnd
SndWnd(t, m) ==
    LET owlast == t.wndack + t.wnd
        wlast  == m.ack + m.wnd
    IN  [t EXCEPT !.nxt = IF wlast < owlast /\ wlast < @ THEN wlast ELSE @,
                  !.wnd = m.wnd, !.wndack = m.ack, !.wndmax = Max({@, m.wnd})]

SndWndEvent(t, m) ==
    IF t.wndack + t.wnd <= m.ack + m.wnd /\ m.wnd > 0 THEN "WNDOPEN" ELSE "WNDCLOSE"

\* tcp_ack
Acked(t, m, c, ok) ==
    LET u == IF Updates(t, m) THEN SndWnd(t, m) ELSE t
        v == CASE t.una < m.ack /\ m.ack <= t.max ->
                     Event([u EXCEPT !.una = m.ack], "ACKRCVD", c, ok)
               [] t.una = m.ack /\ t.wnd = m.wnd -> Event(u, "DUPACK", c, ok)
               [] OTHER -> u
    IN  IF Updates(t, m) THEN Event(v, SndWndEvent(t, m), c, ok) ELSE v

(***************************************************************************)
(* The peer                                                                *)
(***************************************************************************)
Answer(p, old) == [ack |-> p.nxt, wnd |-> p.read + Window - p.nxt, old |-> old]

\* What the peer may have received of the segments just sent
Receptions(out, p) ==
    {p.nxt} \cup {x \in p.nxt + 1 .. p.read + Window :
                     \E r \in out : r[1] <= p.nxt /\ x <= r[2]}

\* The answer is on its way, unless MaxNet others are (if all goes well they
\* give way).
Reply(p, base, good) ==
    \E old \in {FALSE} \cup (IF CanReorder /\ ~good THEN {TRUE} ELSE {}) :
        LET all == base \cup {Answer(p, old)}
        IN  acks' = IF Cardinality(all) <= MaxNet THEN all
                    ELSE IF good THEN {Answer(p, old)} ELSE base

\* The step is done: what it sent reaches the peer, which answers, or is
\* lost in part; if all goes well (good) nothing is lost or late.
Done(t, base, good) ==
    /\ s' = [t EXCEPT !.out = {}, !.fatal = FALSE]
    /\ fatal' = (fatal \/ t.fatal)
    /\ \E n \in IF good THEN {Max(Receptions(t.out, peer))} ELSE Receptions(t.out, peer) :
          peer' = [peer EXCEPT !.nxt = n]
    /\ \/ t.out # {} /\ Reply(peer', base, good)
       \/ (t.out = {} \/ ~good) /\ acks' = base

\* A congestion window, and whether tcp_sndseg finds memory for a segment
Luck == Cwnds \X BOOLEAN

(***************************************************************************)
(* Actions                                                                 *)
(***************************************************************************)
\* tcp_send
Write(n) ==
    /\ Connected(s) /\ ~s.asleep
    /\ n <= CanWrite(s) /\ s.write + n <= MaxData
    /\ \E ch \in Luck : Done(Output(s, n, FALSE, ch[1], ch[2]), acks, FALSE)

\* tcp_send with the buffer full
Block ==
    /\ Connected(s) /\ ~s.asleep /\ CanWrite(s) = 0
    /\ s' = [s EXCEPT !.asleep = TRUE]
    /\ UNCHANGED <<peer, acks, fatal>>

\* tcp_shutdown, tcp_detach
Close ==
    /\ Connected(s) /\ ~s.asleep
    /\ \E ch \in Luck :
          Done(Output([s EXCEPT !.state = IF HalfClosed THEN "LASTACK" ELSE "FINWAIT1"],
                      0, TRUE, ch[1], ch[2]), acks, FALSE)

\* wakeme
Timeout(good) ==
    /\ s.timer
    /\ \E ch \in Luck :
          /\ good => ch[2]
          /\ Done(Event([s EXCEPT !.timer = FALSE], "TIMEOUT", ch[1], ch[2]), acks, good)

\* tcp_input with an answer of the peer, which may be repeated
Receive(m) ==
    /\ s.state # "CLOSED"
    /\ \E ch \in Luck, base \in {acks, acks \ {m}} :
          Done(Acked([s EXCEPT !.silent = 0], m, ch[1], ch[2]), base, FALSE)

\* The peer reads and says that its window has opened.
PeerReads ==
    /\ peer.read < peer.nxt
    /\ \E k \in peer.read + 1 .. peer.nxt : peer' = [peer EXCEPT !.read = k]
    /\ acks' = acks \/ Reply(peer', acks, FALSE)
    /\ UNCHANGED <<s, fatal>>

Lose ==
    /\ \E m \in acks : acks' = acks \ {m}
    /\ UNCHANGED <<s, peer, fatal>>

Init ==
    /\ s = [state |-> IF HalfClosed THEN "CLOSEWAIT" ELSE "ESTABLISHED", ostate |-> "IDLE",
            timer |-> FALSE, q |-> <<>>, una |-> 0, nxt |-> 0, max |-> 0, write |-> 0,
            wnd |-> Window, wndack |-> 0, wndmax |-> Window, nretrans |-> 0, silent |-> 0,
            asleep |-> FALSE, out |-> {}, nomem |-> FALSE, fatal |-> FALSE]
    /\ peer = [nxt |-> 0, read |-> 0]
    /\ acks = {}
    /\ fatal = FALSE

Next ==
    \/ \E n \in 1 .. Mss : Write(n)
    \/ Block
    \/ Close
    \/ Timeout(FALSE)
    \/ \E m \in acks : Receive(m)
    \/ PeerReads
    \/ Lose

Spec == Init /\ [][Next]_vars

AllAnswers == [ack : 0 .. MaxData + 1, wnd : 0 .. Window, old : BOOLEAN]
Consumed == \E m \in acks : ~m.old /\ Receive(m) /\ m \notin acks'

\* The timer runs; the peer reads; and neither does the network lose for ever
\* nor is memory short for ever: of what is sent again and again something is
\* received and answered, and some answers arrive in time.  (All three are
\* strong fairness; where TLC would have to search for a successor to find out
\* whether the action is enabled, the enabling condition is spelled out.)
GoesOn ==
    /\ []<>(s.timer) => []<><<Timeout(TRUE)>>_vars
    /\ SF_vars(PeerReads)
    /\ []<>((\E m \in acks : ~m.old) /\ s.state # "CLOSED") => []<><<Consumed>>_vars

FairSpec == Spec /\ GoesOn

-----------------------------------------------------------------------------
(***************************************************************************)
(* Properties                                                              *)
(***************************************************************************)
\* The types, and the order of the sequence variables that tcp_ack, tcp_sndhead
\* and tcp_retrans move: nothing is acknowledged or about to be sent that was
\* not sent or written before, and the peer has received only what was sent.
TypeOK ==
    /\ s.state \in {"ESTABLISHED", "CLOSEWAIT", "FINWAIT1", "LASTACK", "CLOSED"}
    /\ s.ostate \in {"IDLE", "XMIT", "RETRANS", "PERSIST"}
    /\ {s.timer, s.asleep, s.nomem, fatal} \subseteq BOOLEAN
    /\ \A f \in {"una", "nxt", "max", "write"} : s[f] \in 0 .. MaxData + 1
    /\ s.una <= s.max /\ s.nxt <= s.max /\ s.max <= s.write
    /\ s.wnd \in 0 .. Window /\ s.wndmax \in 0 .. Window /\ s.wndack <= s.una
    /\ s.nretrans \in 0 .. MaxRetry /\ s.silent \in 0 .. MaxSilent
    /\ peer.read <= peer.nxt /\ peer.nxt <= s.max
    /\ acks \subseteq AllAnswers
    /\ s.out = {}

\* The queue holds exactly what is not acknowledged, in order and without a
\* gap, so that whatever is lost can be sent again.
QueueCovers ==
    s.state # "CLOSED" =>
        /\ s.q = <<>> <=> s.una = s.write
        /\ s.q # <<>> => /\ s.q[1].a <= s.una /\ s.una < s.q[1].e
                         /\ LastOf(s.q).e = s.write
        /\ \A k \in 1 .. Len(s.q) - 1 : s.q[k].e = s.q[k + 1].a
        /\ \A k \in 1 .. Len(s.q) : s.q[k].a < s.q[k].e /\ DataLen(s.q[k]) <= Mss

\* While something is unacknowledged a timer is armed, and none otherwise:
\* nothing but the timer gets a connection going again whose segments or
\* window updates were lost.
NeverForgotten ==
    /\ s.timer <=> s.ostate # "IDLE"
    /\ s.state # "CLOSED" => (s.ostate = "IDLE" <=> s.una = s.write)

\* A writer that sleeps in tcp_send sleeps because the buffer is full.
WriterWoken == s.asleep => Connected(s) /\ CanWrite(s) = 0

\* tcp_sndhead sends what falls "into the receivers window": nothing the peer
\* has not offered room for is ever taken for sent, unless a segment of which a
\* part fits was taken for sent as a whole because there was no memory for it.
SentInWindow == ~s.nomem => s.max <= peer.read + Window

\* The queue, the sequence variables and the peer's window are consistent: what
\* is not acknowledged is there to be sent again, once, within the window and by
\* a timer; and a writer sleeps only while it has to.
SendInv == TypeOK /\ QueueCovers /\ SentInWindow /\ NeverForgotten /\ WriterWoken

\* The assertions of tcp_sndseg ("seg outside wnd") and tcp_retrans ("queue
\* is empty ?!") hold.
NoFatal == ~fatal

\* Everything written is acknowledged in the end, or the connection is given
\* up, however often the window closes and whatever window update is lost.
Delivered == s.una < s.write ~> (s.una = s.write \/ s.state = "CLOSED")
=============================================================================
