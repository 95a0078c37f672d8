------------------------------ MODULE TcpRecv ------------------------------
(***************************************************************************)
(* The receiving side of a TCP connection: the queue of segments that      *)
(* arrive in any order and overlap (tcp_addseg and tcp_rcvdata of          *)
(* kernel/tcpin.c), delayed acknowledgements, the window the peer is       *)
(* offered (tcp_rcvwnd of kernel/tcpout.c) and reading (tcp_recv and       *)
(* tcp_dropsegs of kernel/tcp.c).                                          *)
(*                                                                         *)
(* The peer sends the octets 0 .. Total - 1 and a FIN.  It cuts the stream *)
(* into segments as it likes, and cuts it differently when it sends again. *)
(* Urgent data is not modelled.                                            *)
(***************************************************************************)
EXTENDS Integers, Sequences, FiniteSetsExt

CONSTANTS
    Total,   \* octets of the peer's stream
    MaxBuf,  \* rcv.maxdatalen
    Mss      \* rcv_mss

ASSUME RecvAssumption == Total \in Nat /\ {MaxBuf, Mss} \subseteq Nat \ {0}

VARIABLES
    q,       \* rcv.qfirst: segments [a, e)
    cur,     \* rcv.curdatalen
    nxt,     \* rcv_nxt
    wnd,     \* rcv_wnd, the right edge of the window offered
    read,    \* seq_read
    fin,     \* TCBF_FIN: seq_fin is known (it is Total)
    state,   \* ESTABLISHED or CLOSEWAIT
    delack,  \* TCBF_DELACK: ack_evt is armed
    acked    \* the acknowledgement number last sent

rvars == <<q, cur, nxt, wnd, read, fin, state, delack, acked>>

Covered(s) == UNION {s[k].a .. s[k].e - 1 : k \in 1 .. Len(s)}
(***************************************************************************)
(* The window                                                              *)
(***************************************************************************)
tcp_rcvwnd_Shrinks(c, n) ==
    LET space == MaxBuf - c
    IN  IF space < Mss /\ space * 4 < MaxBuf THEN 0 ELSE space

\* The window with curdatalen c and rcv_nxt n: never less than offered
tcp_rcvwnd(c, n) ==
    LET space == MaxBuf - c
    IN  Max({IF space < Mss /\ space * 4 < MaxBuf THEN 0 ELSE space, wnd - n})

\* An acknowledgement is sent: tcp_output, tcp_sndack
SendAck(c, n) == wnd' = n + tcp_rcvwnd(c, n) /\ acked' = n /\ delack' = FALSE
NoAck == UNCHANGED <<wnd, acked, delack>>

(***************************************************************************)
(* tcp_addseg                                                              *)
(***************************************************************************)
\* Where segment g goes in: the place before which it is inserted, 0 if it is
\* a duplicate.
Place(g) ==
    LET holes == {k \in 2 .. Len(q) : /\ q[k-1].e < q[k].a
                                      /\ g.a < q[k].a /\ q[k-1].e < g.e}
    IN  CASE q = <<>> -> 1
          [] q # <<>> /\ q[Len(q)].e < g.e -> Len(q) + 1
          [] q # <<>> /\ q[Len(q)].e >= g.e /\ g.a < q[1].a -> 1
          [] OTHER -> IF holes = {} THEN 0 ELSE Max(holes)

Inserted_DropsOverlap(g, p) ==
    LET left  == {k \in 1 .. p - 1 : q[k].e < g.a}
        right == {k \in p .. Len(q) : q[k].e > g.e}
    IN  SubSeq(q, 1, Max(left \cup {0})) \o <<g>>
          \o SubSeq(q, Min(right \cup {Len(q) + 1}), Len(q))

\* The segments next to it that it contains are removed.
Inserted(g, p) ==
    LET left  == {k \in 1 .. p - 1 : q[k].a < g.a}
        right == {k \in p .. Len(q) : q[k].e > g.e}
    IN  SubSeq(q, 1, Max(left \cup {0})) \o <<g>>
          \o SubSeq(q, Min(right \cup {Len(q) + 1}), Len(q))

\* curdatalen afterwards
Counted(g) ==
    CASE q = <<>> -> g.e - g.a
      [] q # <<>> /\ q[Len(q)].e < g.e -> cur + g.e - q[Len(q)].e
      [] q # <<>> /\ q[Len(q)].e >= g.e /\ g.a < q[1].a -> cur + q[1].a - g.a
      [] OTHER -> cur

\* The end of the octets in s that follow n without a gap, looking from the
\* new segment on
Follow(s, g, n) ==
    LET p   == CHOOSE k \in 1 .. Len(s) : s[k] = g
        run == {k \in p .. Len(s) :
                  /\ s[p].a <= n
                  /\ \A j \in p + 1 .. k : s[j].a <= s[j-1].e}
    IN  IF run = {} THEN n ELSE s[Max(run)].e

(***************************************************************************)
(* tcp_input, tcp_rcvdata                                                  *)
(***************************************************************************)
\* tcp_valid, and the FIN it leaves in the segment
Acceptable(a, e, f) ==
    LET len  == e - a + (IF f THEN 1 ELSE 0)
        last == IF len > 0 THEN a + len - 1 ELSE a
        w    == tcp_rcvwnd(cur, nxt)
    IN  IF w > 0 THEN nxt <= last /\ a < nxt + w ELSE len = 0 /\ a = nxt
KeepsFin(e, f) == f /\ e < nxt + tcp_rcvwnd(cur, nxt)

Receive_DelaysTwice(a, e, f) ==
    LET g == [a |-> a, e |-> e]
        p == Place(g)
        n == Follow(Inserted(g, p), g, nxt)
    IN  /\ Acceptable(a, e, f) /\ ~f /\ a < e /\ p > 0
        /\ q' = Inserted(g, p) /\ cur' = Counted(g) /\ nxt' = n
        /\ delack' = (a = nxt /\ ~delack)
        /\ UNCHANGED <<wnd, acked, read, fin, state>>

\* A segment with the octets a .. e - 1, and FIN if f
Receive(a, e, f) ==
    LET g      == [a |-> a, e |-> e]
        p      == Place(g)
        added  == a < e /\ p > 0
        s      == IF added THEN Inserted(g, p) ELSE q
        c      == IF added THEN Counted(g) ELSE cur
        n      == IF added THEN Follow(s, g, nxt) ELSE nxt
        isfin  == fin \/ KeepsFin(e, f)
        end    == isfin /\ n = Total
        m      == IF end THEN n + 1 ELSE n
        acknow == end \/ ~added \/ a # nxt \/ n - nxt # e - a
    IN  /\ Acceptable(a, e, f)
        /\ q' = s /\ cur' = c /\ nxt' = m /\ fin' = isfin
        /\ state' = IF isfin /\ Total < m THEN "CLOSEWAIT" ELSE state
        /\ IF a < e \/ KeepsFin(e, f)
           THEN IF acknow \/ delack THEN SendAck(c, m)
                ELSE delack' = TRUE /\ UNCHANGED <<wnd, acked>>
           ELSE NoAck
        /\ UNCHANGED read

\* Unacceptable segments are answered.
Reject(a, e, f) ==
    /\ ~Acceptable(a, e, f)
    /\ SendAck(cur, nxt)
    /\ UNCHANGED <<q, cur, nxt, read, fin, state>>

\* tcp_input in ESTABLISHED; in CLOSEWAIT data is ignored
SegmentArrives ==
    \E a \in 0 .. Total, e \in 0 .. Total, f \in BOOLEAN :
        /\ a <= e /\ (f => e = Total)
        /\ \/ state = "ESTABLISHED" /\ Receive(a, e, f)
           \/ Reject(a, e, f)

\* dodelack, the function of ack_evt
dodelack ==
    /\ delack
    /\ SendAck(cur, nxt)
    /\ UNCHANGED <<q, cur, nxt, read, fin, state>>

(***************************************************************************)
(* tcp_recv, tcp_dropsegs                                                  *)
(***************************************************************************)
\* A window update is sent if the window opens by two segments or half of
\* the buffer.
DropSegs(s, c, r) ==
    LET opens == tcp_rcvwnd(c, nxt) - (wnd - nxt)
    IN  /\ q' = s /\ cur' = c /\ read' = r
        /\ IF opens >= 2 * Mss \/ 2 * opens >= MaxBuf THEN SendAck(c, nxt) ELSE NoAck
        /\ UNCHANGED <<nxt, fin, state>>

\* Up to n octets are read; the segments that are read to their end are
\* dropped from the front of the queue.
ReadQueue(n) ==
    LET later  == {k \in 1 .. Len(q) : read < q[k].e}
        first  == Min(later)
        run    == {k \in later : \A j \in first + 1 .. k : q[j].a <= q[j-1].e}
        r      == Min({read + n, q[Max(run)].e})
        marked == {k \in run : q[k].e <= r}
        gone   == Max({k \in 0 .. Len(q) : 1 .. k \subseteq marked})
        s      == SubSeq(q, gone + 1, Len(q))
    IN  /\ later # {} /\ q[first].a <= read
        /\ DropSegs(s, CASE gone = 0 -> cur
                         [] gone > 0 /\ s # <<>> -> cur - (s[1].a - q[1].a)
                         [] OTHER -> 0, r)

RecvInit ==
    /\ q = <<>> /\ cur = 0 /\ nxt = 0 /\ wnd = MaxBuf /\ read = 0
    /\ fin = FALSE /\ state = "ESTABLISHED" /\ delack = FALSE /\ acked = 0

RecvNext == SegmentArrives \/ dodelack \/ \E n \in 1 .. Total : ReadQueue(n)

RecvSpec == RecvInit /\ [][RecvNext]_rvars

-----------------------------------------------------------------------------
(***************************************************************************)
(* Properties                                                              *)
(***************************************************************************)
\* The types; tcp_addseg keeps the segments in order and none contains another.
RecvTypeOK ==
    /\ \A k \in 1 .. Len(q) : q[k] \in [a : 0 .. Total, e : 0 .. Total] /\ q[k].a < q[k].e
    /\ \A k \in 1 .. Len(q) - 1 : q[k].a < q[k+1].a /\ q[k].e < q[k+1].e
    /\ cur \in Int /\ nxt \in 0 .. Total + 1 /\ wnd \in Nat /\ read \in 0 .. Total
    /\ {fin, delack} \subseteq BOOLEAN /\ state \in {"ESTABLISHED", "CLOSEWAIT"}
    /\ acked \in 0 .. nxt

\* The octets that are there: read, or still in the queue
Arrived == 0 .. read - 1 \cup Covered(q)

\* Exactly what is there without a gap is acknowledged: nothing the peer would
\* have to send again, and the FIN only after the last octet.
AckExact ==
    LET missing == Min((0 .. Total) \ Arrived)
    IN  nxt = IF state = "CLOSEWAIT" THEN Total + 1 ELSE missing

\* An acknowledgement that is not sent at once is pending.
AckPending == acked = nxt \/ delack

\* Once the process has read everything the peer is offered room again: a
\* peer that was told to stop is told to go on.
WindowReopens == q = <<>> => wnd > nxt \/ state = "CLOSEWAIT"

\* What the peer is told: what is there is acknowledged, no more and no less, at
\* once or with the timer that runs, and there is room when all has been read.
AckInv == RecvTypeOK /\ AckExact /\ AckPending /\ WindowReopens

\* The offered window is never taken back.
WindowNeverShrinks == [][wnd' >= wnd]_rvars

\* The detailed queue implements the stream.
Stream == INSTANCE ByteStream WITH arrived <- Arrived
StreamSpec == Stream!Spec

=============================================================================
