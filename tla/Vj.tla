---------------------------------- MODULE Vj ----------------------------------
(***************************************************************************)
(* Van Jacobson header compression over a serial line, drivers/slip/       *)
(* slcompr.c, with the choice of a frame's kind of drivers/slip/slip.c.    *)
(*                                                                         *)
(* One end compresses, the other one restores.  Both keep a copy of the    *)
(* last header of each conversation, in slots; a frame has the differences *)
(* to the copy, and often no slot number either.  The line loses frames,   *)
(* with and without notice.                                                *)
(*                                                                         *)
(* A header is its conversation and the fields that the code tells apart;  *)
(* rest is all that must not change in a conversation (type of service,    *)
(* time to live, options).  PSH is set when there is data.                 *)
(***************************************************************************)
EXTENDS Integers, Sequences, FiniteSets

CONSTANTS
    MAX_STATES,  \* slots
    W8, W32,     \* how many values a byte and a long have
    ShortInt,    \* an int has 16 bits
    Traffics,    \* what is sent: conversations, changes of the fields, how much
    None

W16 == W8 * W8

ASSUME VjAssumption ==
    /\ MAX_STATES \in Nat /\ MAX_STATES > 2 /\ MAX_STATES < 256
    /\ W8 \in Nat /\ W8 > 1
    /\ W32 \in Nat /\ W32 >= 2 * W16
    /\ ShortInt \in BOOLEAN
    /\ None \notin Nat
    /\ \A t \in Traffics :
          /\ t.seqs \subseteq Nat /\ t.acks \subseteq Nat /\ t.ids \subseteq Nat
          /\ t.wins \subseteq 0 .. W16 - 1 /\ t.urps \subseteq 0 .. W16 - 1 /\ t.lens \subseteq Nat
          /\ t.max \in Nat /\ t.loss \in Nat

VARIABLES
    traffic,  \* what is sent in this behaviour
    sent,     \* how many headers, where it is bounded
    lost,     \* how many frames
    tx,       \* sender: the slots st, their order lru, and last_xmit
    rx,       \* receiver: the slots st, last_recv, SLF_TOSS, SLF_COMPRESS
    id,       \* the identification used last
    line,     \* the frame on the line, if there is one
    dirty,    \* slots that missed a frame since their last whole header
    astray,   \* a slot number was missed since the last one that came
    out       \* what the last frame came out as

vars == <<traffic, sent, lost, tx, rx, id, line, dirty, astray, out>>

Slots == 0 .. MAX_STATES - 1

NoHeader == [conn |-> None, id |-> 0, seq |-> 0, ack |-> 0, win |-> 0, urg |-> FALSE,
             urp |-> 0, psh |-> FALSE, len |-> 0, rest |-> 0]

Nothing == [trusted |-> FALSE, again |-> FALSE, same |-> TRUE]

\* slc_init at both ends
slc_init ==
    /\ tx = [st |-> [i \in Slots |-> NoHeader],
             lru |-> [k \in 1 .. MAX_STATES |-> MAX_STATES - k], xmit |-> 255]
    /\ \E on \in BOOLEAN :
         rx = [st |-> [i \in Slots |-> NoHeader], last |-> 255, toss |-> TRUE, on |-> on]

Init ==
    /\ slc_init
    /\ traffic \in Traffics
    /\ sent = 0 /\ lost = 0 /\ id = 0
    /\ line = {}
    /\ dirty = {} /\ astray = FALSE /\ out = Nothing

(***************************************************************************)
(* The code of a number: one byte, or a zero and two bytes.                *)
(***************************************************************************)
ENCODE(n) == IF n >= W8 \/ n = 0 THEN <<0, n \div W8, n % W8>> ELSE <<n>>

\* The number at the front of the bytes, and what is behind it
Number(cp) == IF cp[1] = 0 THEN cp[2] * W8 + cp[3] ELSE cp[1]
Behind(cp) == SubSeq(cp, IF cp[1] = 0 THEN 4 ELSE 2, Len(cp))

\* As part of a sum of longs, (cp[1] << 8) | cp[2] is extended from an int.
DECODEL_Short(f, cp) ==
    LET n == Number(cp)
    IN  (f + (IF 2 * n >= W16 THEN n - W16 ELSE n)) % W32

DECODEL(f, cp) ==
    LET n == Number(cp)
    IN  (f + (IF ShortInt /\ 2 * n >= W16 THEN n - W16 ELSE n)) % W32

(***************************************************************************)
(* Compression                                                             *)
(***************************************************************************)
SPECIAL_I == {"S", "W", "U"}
SPECIAL_D == {"S", "A", "W", "U"}

\* The slot of a conversation, or the one that was not used for longest
Slot(conn) ==
    IF \E i \in Slots : tx.st[i].conn = conn THEN CHOOSE i \in Slots : tx.st[i].conn = conn
    ELSE tx.lru[MAX_STATES]

\* Slot i goes to the front of the list, and those that were before it follow.
ToFront(lru, i) ==
    LET at == CHOOSE k \in DOMAIN lru : lru[k] = i
    IN  [k \in DOMAIN lru |-> IF k = 1 THEN i ELSE IF k <= at THEN lru[k - 1] ELSE lru[k]]

\* The fields of h that are not what they were in o
Changes(o, h) ==
    {f \in SPECIAL_D :
        \/ f = "U" /\ h.urg
        \/ f = "W" /\ h.win # o.win
        \/ f = "A" /\ h.ack # o.ack
        \/ f = "S" /\ h.seq # o.seq}

\* h follows o in a way that a compressed frame can say.
Compressible_Repeats(o, h) ==
    /\ h.conn = o.conn /\ h.rest = o.rest
    /\ h.urg \/ h.urp = o.urp
    /\ (h.ack - o.ack) % W32 < W16
    /\ (h.seq - o.seq) % W32 < W16
    /\ Changes(o, h) \notin {SPECIAL_I, SPECIAL_D}

Compressible(o, h) ==
    /\ h.conn = o.conn /\ h.rest = o.rest
    /\ h.urg \/ h.urp = o.urp
    /\ (h.ack - o.ack) % W32 < W16
    /\ (h.seq - o.seq) % W32 < W16
    /\ Changes(o, h) = {} => h.len # o.len /\ o.len = 0
    /\ Changes(o, h) \notin {SPECIAL_I, SPECIAL_D}

\* The bits of the frame: two common changes have a code of their own.
Bits(o, h) ==
    LET ch == Changes(o, h)
        dS == (h.seq - o.seq) % W32
        dA == (h.ack - o.ack) % W32
    IN  IF ch = {"S", "A"} /\ dS = dA /\ dS = o.len THEN SPECIAL_I
        ELSE IF ch = {"S"} /\ dS = o.len THEN SPECIAL_D
        ELSE ch

\* The bytes behind the bits
new_seq(o, h) ==
    LET bits == Bits(o, h)
        If(f, n) == IF f \in bits /\ bits \notin {SPECIAL_I, SPECIAL_D} THEN ENCODE(n) ELSE <<>>
        dI == (h.id - o.id) % W16
    IN  If("U", h.urp) \o (If("W", (h.win - o.win) % W16) \o (If("A", (h.ack - o.ack) % W32)
          \o (If("S", (h.seq - o.seq) % W32) \o (IF dI = 1 THEN <<>> ELSE ENCODE(dI)))))

\* The frame for a header; what is whole in an uncompressed frame (of), where
\* it belongs and whether it repeats the last one are kept for the properties.
Frame(h, compress_cid) ==
    LET i == Slot(h.conn)
        o == tx.st[i]
        c == Compressible(o, h)
    IN  [type  |-> IF c THEN "COMPRESSED" ELSE "UNCOMPRESSED",
         cid   |-> IF c /\ compress_cid /\ tx.xmit = i THEN None ELSE i,
         bits  |-> IF c THEN Bits(o, h) \cup (IF (h.id - o.id) % W16 = 1 THEN {} ELSE {"I"}) ELSE {},
         bytes |-> IF c THEN new_seq(o, h) ELSE <<>>,
         psh   |-> h.psh,
         len   |-> h.len,
         of    |-> h,
         slot  |-> i,
         again |-> [h EXCEPT !.id = o.id] = o /\ ~h.urg]

\* The header that a conversation has next: its fields change as the traffic
\* says, from those of its last header if the sender still has it.  Datagrams of
\* others, and segments that are not compressed, use identifications too.
Header(conn, ds, da, di, win, urp, len) ==
    LET i == Slot(conn)
        o == IF tx.st[i].conn = conn THEN tx.st[i] ELSE [NoHeader EXCEPT !.conn = conn]
    IN  [o EXCEPT !.id = (id + di) % W16, !.seq = (@ + ds) % W32, !.ack = (@ + da) % W32, !.win = win,
                  !.urg = urp > 0, !.urp = urp, !.psh = len > 0, !.len = len]

\* slip_send compresses the next datagram of the queue.
slc_compress(h) ==
    /\ line = {}
    /\ sent < traffic.max \/ traffic.max = 0
    /\ LET f == Frame(h, traffic.cid)
       IN  /\ line' = {f}
           /\ tx' = [st   |-> [tx.st EXCEPT ![f.slot] = h],
                     lru  |-> ToFront(tx.lru, f.slot),
                     xmit |-> IF f.cid = None THEN tx.xmit ELSE f.slot]
    /\ id' = h.id
    /\ sent' = IF traffic.max = 0 THEN 0 ELSE sent + 1
    /\ out' = Nothing
    /\ UNCHANGED <<traffic, lost, rx, dirty, astray>>

(***************************************************************************)
(* Restoring                                                               *)
(***************************************************************************)
\* The fields that the frame says have changed, from the bytes in turn
Restored_NoLen(o, f) ==
    LET Plain == f.bits \ {"I"} \notin {SPECIAL_I, SPECIAL_D}
        Has(b) == Plain /\ b \in f.bits
        cpW == IF Has("U") THEN Behind(f.bytes) ELSE f.bytes
        cpA == IF Has("W") THEN Behind(cpW) ELSE cpW
        cpS == IF Has("A") THEN Behind(cpA) ELSE cpA
        cpI == IF Has("S") THEN Behind(cpS) ELSE cpS
    IN  [o EXCEPT
          !.psh = f.psh,
          !.urg = IF Plain THEN "U" \in f.bits ELSE @,
          !.urp = IF Has("U") THEN Number(f.bytes) ELSE @,
          !.win = IF Has("W") THEN (@ + Number(cpW)) % W16 ELSE @,
          !.ack = IF Has("A") THEN DECODEL(@, cpA)
                  ELSE IF f.bits \ {"I"} = SPECIAL_I THEN (@ + o.len) % W32 ELSE @,
          !.seq = IF Has("S") THEN DECODEL(@, cpS)
                  ELSE IF ~Plain THEN (@ + o.len) % W32 ELSE @,
          !.id  = (@ + (IF "I" \in f.bits THEN Number(cpI) ELSE 1)) % W16]

Restored(o, f) ==
    LET Plain == f.bits \ {"I"} \notin {SPECIAL_I, SPECIAL_D}
        Has(b) == Plain /\ b \in f.bits
        cpW == IF Has("U") THEN Behind(f.bytes) ELSE f.bytes
        cpA == IF Has("W") THEN Behind(cpW) ELSE cpW
        cpS == IF Has("A") THEN Behind(cpA) ELSE cpA
        cpI == IF Has("S") THEN Behind(cpS) ELSE cpS
    IN  [o EXCEPT
          !.psh = f.psh,
          !.urg = IF Plain THEN "U" \in f.bits ELSE @,
          !.urp = IF Has("U") THEN Number(f.bytes) ELSE @,
          !.win = IF Has("W") THEN (@ + Number(cpW)) % W16 ELSE @,
          !.ack = IF Has("A") THEN DECODEL(@, cpA)
                  ELSE IF f.bits \ {"I"} = SPECIAL_I THEN (@ + o.len) % W32 ELSE @,
          !.seq = IF Has("S") THEN DECODEL(@, cpS)
                  ELSE IF ~Plain THEN (@ + o.len) % W32 ELSE @,
          !.id  = (@ + (IF "I" \in f.bits THEN Number(cpI) ELSE 1)) % W16,
          !.len = f.len]

\* What the receiver has from the frame: nothing, if the frame names no slot
\* and there was an error since one was named.
Tossed(f) == f.cid = None /\ rx.toss

slc_uncompress(f) ==
    LET i == IF f.cid = None THEN rx.last ELSE f.cid
        h == IF f.type = "UNCOMPRESSED" THEN f.of ELSE Restored(rx.st[i], f)
    IN  IF Tossed(f)
        THEN UNCHANGED rx
        ELSE rx' = [st |-> [rx.st EXCEPT ![i] = h], last |-> i, toss |-> FALSE, on |-> TRUE]

\* A compressed frame is of no use before compression has been turned on, by
\* the user or by the first uncompressed frame.
Useless(f) == ~rx.on /\ f.type = "COMPRESSED"

\* The frame f arrives.
uncompress(f) ==
    /\ line' = {}
    /\ LET ok == ~Useless(f) /\ ~Tossed(f)
           fits == f.cid # None \/ ~astray
       IN  /\ IF Useless(f) THEN UNCHANGED rx ELSE slc_uncompress(f)
           /\ dirty' = IF ok /\ f.type = "UNCOMPRESSED" THEN dirty \ {f.slot}
                       ELSE IF ok /\ fits THEN dirty
                       ELSE dirty \cup {f.slot} \cup (IF ok THEN {rx.last} ELSE {})
           /\ astray' = (~(ok /\ f.cid # None) /\ (astray \/ ~ok))
           /\ out' = [trusted |-> ok /\ (f.type = "UNCOMPRESSED" \/ (f.slot \notin dirty /\ fits)),
                      again   |-> f.again,
                      same    |-> ok /\ rx'.st[rx'.last] = f.of]
    /\ UNCHANGED <<traffic, sent, lost, tx, id>>

\* The frame does not arrive, and nobody notices: it is too short or too long,
\* or of no known type.
Lose(f) ==
    /\ lost < traffic.loss
    /\ lost' = lost + 1
    /\ line' = {}
    /\ dirty' = dirty \cup {f.slot}
    /\ astray' = (astray \/ f.cid # None)
    /\ out' = Nothing
    /\ UNCHANGED <<traffic, sent, tx, rx, id>>

\* The frame arrives damaged in a way that slc_uncompress notices, perhaps after
\* it has changed a slot.
Damage(f, i, h) ==
    /\ lost < traffic.loss
    /\ lost' = lost + 1
    /\ line' = {}
    /\ rx' = [rx EXCEPT !.st[i] = h, !.last = i, !.toss = TRUE]
    /\ dirty' = dirty \cup {f.slot, i}
    /\ astray' = TRUE
    /\ out' = Nothing
    /\ UNCHANGED <<traffic, sent, tx, id>>

Next ==
    \/ \E conn \in traffic.conns, ds \in traffic.seqs, da \in traffic.acks, di \in traffic.ids :
         \E win \in traffic.wins, urp \in traffic.urps, len \in traffic.lens :
            slc_compress(Header(conn, ds, da, di, win, urp, len))
    \/ \E f \in line : uncompress(f) \/ Lose(f)
    \/ \E f \in line, i \in Slots :
         \E h \in {rx.st[i], [rx.st[i] EXCEPT !.seq = (@ + 1) % W32]} : Damage(f, i, h)

Spec == Init /\ [][Next]_vars

(***************************************************************************)
(* Properties                                                              *)
(***************************************************************************)
\* What comes out is what went in, unless a frame of the same slot was lost
\* since the last whole header, or the frame names no slot and one that did was
\* lost: every way to code a change is undone by the receiver.
Transparent == out.trusted => out.same

\* Both ends have the same copy of a header in every slot that missed nothing,
\* so one lost frame never spoils the conversations of other slots for good.
InStep ==
    line = {} =>
        /\ \A i \in Slots \ dirty : rx.st[i] = tx.st[i]
        /\ ~astray => rx.last = tx.xmit

\* A segment that TCP sends again arrives as it is, whatever was lost before:
\* that is how the two ends come together again.  Not so an urgent one, whose
\* URG counts as a change each time.
AgainArrives == (out.again /\ line = {}) => out.same
=============================================================================
