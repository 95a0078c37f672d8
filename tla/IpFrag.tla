------------------------------- MODULE IpFrag -------------------------------
(***************************************************************************)
(* Fragmentation and reassembly of IP datagrams (kernel/ip.c).             *)
(*                                                                         *)
(* A datagram is cut by the sender and may be cut again by a router that   *)
(* runs the same code.  The network loses, repeats and reorders what is    *)
(* sent.  The receiver collects fragments in IPFRAG_HEADS slots, one for   *)
(* each identification, until curlen, the bytes it has, and totlen, the    *)
(* bytes it needs, agree, or until a timer gives the slot back.            *)
(*                                                                         *)
(* Lengths and offsets are in units of eight bytes, the granularity of     *)
(* fragoff.  A fragment is [d, off, len, mf]: len units of datagram d from *)
(* off on; mf says that more follow.                                       *)
(***************************************************************************)
EXTENDS Naturals, Sequences, FiniteSets

CONSTANTS
    Dgrams,      \* datagrams that may be sent
    Key,         \* id and saddr of each of them
    Size,        \* the length of each of them
    DF,          \* the ones that must not be fragmented
    Fraglens,    \* units that fit into a packet of the networks on the way
    IP_FRAGOFF,  \* the largest offset a header can hold
    IPFRAG_HEADS,  \* entries of allfrags
    MaxNet,      \* fragments that are on the way at once
    Nothing

ASSUME FragAssumption ==
    /\ Size \in [Dgrams -> Nat \ {0}]
    /\ DOMAIN Key = Dgrams
    /\ Fraglens \subseteq Nat \ {0}
    /\ {IPFRAG_HEADS, IP_FRAGOFF} \subseteq Nat

VARIABLES
    sent,   \* datagrams that were handed to ip_frag by the sender
    net,    \* fragments on the way; one that stays here may come again
    slots,  \* buf, key (id and saddr), curlen and totlen of every slot
    armed,  \* slots whose timer is running
    ev      \* what the last step of the receiver delivered or lost

fvars == <<sent, net, slots, armed, ev>>

Slots == 1 .. IPFRAG_HEADS

Fragment == [d : Dgrams, off : Nat, len : Nat \ {0}, mf : BOOLEAN]

\* A free slot has no buf; its other fields are not read before they are set.
Free == [buf |-> {}, key |-> Nothing, curlen |-> 0, totlen |-> 0]

Quiet == [kind |-> "quiet", buf |-> {}]

FragInit ==
    /\ sent = {} /\ net = {}
    /\ slots = [s \in Slots |-> Free]
    /\ armed = {}
    /\ ev = Quiet

(***************************************************************************)
(* Sending                                                                 *)
(***************************************************************************)
Whole(d) == [d |-> d, off |-> 0, len |-> Size[d], mf |-> FALSE]

\* The last fragment keeps the IP_MF of what is cut.
Pieces(f, n) ==
    LET cnt == (f.len + n - 1) \div n
    IN  [i \in 1 .. cnt |->
           [d   |-> f.d,
            off |-> f.off + (i - 1) * n,
            len |-> IF i = cnt THEN f.len - (i - 1) * n ELSE n,
            mf  |-> i # cnt \/ f.mf]]

\* The fragments that leave: none if f must not be cut or is too long, and
\* the first k if no buffer is left for the next one or if_send fails.
ip_frag(f, n, k) ==
    LET cut == Pieces(f, n)
    IN  IF f.len > n /\ (f.d \in DF \/ f.off + f.len > IP_FRAGOFF) THEN {}
        ELSE {cut[i] : i \in {j \in DOMAIN cut : j <= k}}

SendFragments(d, n, k) ==
    /\ d \notin sent
    /\ sent' = sent \cup {d}
    /\ net' = net \cup ip_frag(Whole(d), n, k)
    /\ Cardinality(net') <= MaxNet
    /\ ev' = Quiet
    /\ UNCHANGED <<slots, armed>>

\* A router cuts what is too long for the next network.
Forward(f, n, k) ==
    /\ f.len > n
    /\ net' = (net \ {f}) \cup ip_frag(f, n, k)
    /\ Cardinality(net') <= MaxNet
    /\ ev' = Quiet
    /\ UNCHANGED <<sent, slots, armed>>

LoseFragment(f) ==
    /\ net' = net \ {f}
    /\ ev' = Quiet
    /\ UNCHANGED <<sent, slots, armed>>

(***************************************************************************)
(* Reassembly                                                              *)
(*                                                                         *)
(* The list of a slot is sorted and has no two fragments of one offset, so *)
(* it is a set: the order is that of the offsets.                          *)
(***************************************************************************)
End(f) == f.off + f.len

frag_insert_LastLate(fr, f) ==
    IF \E g \in fr.buf : g.off = f.off THEN fr
    ELSE [fr EXCEPT
            !.buf    = @ \cup {f},
            !.curlen = @ + f.len,
            !.totlen = IF f.mf \/ fr.buf = {} \/ \E g \in fr.buf : g.off > f.off
                       THEN @ ELSE End(f)]

\* Of two fragments that begin at one offset the second is dropped, whatever
\* their lengths are.  Only the last one of the list may say where the
\* datagram ends.
frag_insert(fr, f) ==
    IF \E g \in fr.buf : g.off = f.off THEN fr
    ELSE [fr EXCEPT
            !.buf    = @ \cup {f},
            !.curlen = @ + f.len,
            !.totlen = IF f.mf \/ \E g \in fr.buf : g.off > f.off THEN @ ELSE End(f)]

Overlap(f, g) == f.off < End(g) /\ g.off < End(f)

Contiguous_Any(buf) == TRUE

\* The first fragment begins at 0 and each other one where the one before it
\* ends.
Contiguous(buf) ==
    /\ \A g \in buf : g.off = 0 \/ \E h \in buf : End(h) = g.off
    /\ \A g, h \in buf : g # h => ~Overlap(g, h)

\* What becomes of slot s, that now is fr.  mem says whether there is memory
\* for the whole datagram.  That memory is not given back if the list turns
\* out to be malformed.
frag_pullup(s, fr, mem) ==
    IF fr.totlen = 0 \/ fr.totlen # fr.curlen
    THEN slots' = [slots EXCEPT ![s] = fr] /\ ev' = Quiet /\ UNCHANGED armed
    ELSE /\ slots' = [slots EXCEPT ![s] = Free]
         /\ armed' = armed \ {s}
         /\ ev' = IF ~mem THEN Quiet
                  ELSE [kind |-> IF Contiguous(fr.buf) THEN "delivered" ELSE "malformed",
                        buf  |-> fr.buf]

InUse == {s \in Slots : slots[s].buf # {}}

frag_open_NoTimer(s, f) ==
    /\ slots' = [slots EXCEPT ![s] = frag_insert([Free EXCEPT !.key = Key[f.d]], f)]
    /\ ev' = Quiet
    /\ UNCHANGED armed

\* A slot for a datagram of which nothing has come yet
frag_open(s, f) ==
    /\ slots' = [slots EXCEPT ![s] = frag_insert([Free EXCEPT !.key = Key[f.d]], f)]
    /\ armed' = armed \cup {s}
    /\ ev' = Quiet

IsFragment(f) == f.off # 0 \/ f.mf

ip_defrag(f, mem) ==
    LET mine == {s \in InUse : slots[s].key = Key[f.d]}
    IN  \/ /\ ~IsFragment(f)
           /\ ev' = [kind |-> "delivered", buf |-> {f}]
           /\ UNCHANGED <<slots, armed>>
        \/ /\ IsFragment(f)
           /\ \E s \in mine : frag_pullup(s, frag_insert(slots[s], f), mem)
        \/ /\ IsFragment(f) /\ mine = {}
           /\ \E s \in Slots \ InUse : (\A t \in Slots \ InUse : t <= s) /\ frag_open(s, f)
        \/ /\ IsFragment(f) /\ mine = {} /\ InUse = Slots
           /\ ev' = Quiet
           /\ UNCHANGED <<slots, armed>>

\* ip_input of the receiver; again says that the network has another copy.
ReceiveFragment(f, again, mem) ==
    /\ net' = IF again THEN net ELSE net \ {f}
    /\ ip_defrag(f, mem)
    /\ UNCHANGED sent

\* icmp_send takes the first buffer.  It is sent back only if it has offset 0.
\* If it then waits in a queue of the interface (queued), link3, by which the
\* rest of the list is found, is no longer the list's.
frag_timeout(s, queued) ==
    LET buf == slots[s].buf
    IN  /\ s \in armed
        /\ slots' = [slots EXCEPT ![s] = Free]
        /\ armed' = armed \ {s}
        /\ ev' = IF queued /\ \E f, g \in buf : f.off = 0 /\ g # f
                 THEN [kind |-> "lost", buf |-> buf] ELSE Quiet
        /\ UNCHANGED <<sent, net>>

FragNext ==
    \/ \E d \in Dgrams : \E n \in Fraglens, k \in 0 .. Size[d] : SendFragments(d, n, k)
    \/ \E f \in net : \E n \in Fraglens, k \in 0 .. f.len : Forward(f, n, k)
    \/ \E f \in net : LoseFragment(f)
    \/ \E f \in net, again, mem \in BOOLEAN : ReceiveFragment(f, again, mem)
    \/ \E s \in Slots, queued \in BOOLEAN : frag_timeout(s, queued)

FragSpec == FragInit /\ [][FragNext]_fvars

\* The event queue fires every timer that runs.
TimersFire ==
    \A s \in Slots :
        []<>(s \notin armed) \/ []<><<\E queued \in BOOLEAN : frag_timeout(s, queued)>>_fvars

(***************************************************************************)
(* Properties                                                              *)
(***************************************************************************)
\* The slots are what their fragments say: one slot for an identification, no
\* two fragments of one offset, totlen the end of a datagram of which the last
\* fragment is there, and known once the last fragment of the list ends a
\* datagram; and a timer runs for a slot if and only if it is in use.
SlotsExact ==
    /\ armed = InUse
    /\ \A s, t \in InUse : slots[s].key = slots[t].key => s = t
    /\ \A s \in InUse :
         LET fr == slots[s]
         IN  /\ \A f \in fr.buf : Key[f.d] = fr.key /\ IsFragment(f)
             /\ \A f, g \in fr.buf : f.off = g.off => f = g
             /\ fr.totlen # 0 => \E f \in fr.buf : ~f.mf /\ fr.totlen = End(f)
             /\ \A f \in fr.buf :
                   f.mf \/ (\E g \in fr.buf : g.off > f.off) \/ fr.totlen = End(f)

\* No datagram is complete and still waits: frag_pullup sees it with the
\* fragment that completes it, in whatever order they come.
NoCompleteStuck ==
    \A s \in InUse :
        LET buf == slots[s].buf
        IN  ~(Contiguous(buf) /\ \E f \in buf : ~f.mf /\ \A g \in buf : g.off <= f.off)

\* Buffers are lost in two ways only.  The one for the whole datagram is lost
\* if the list is malformed, which takes fragments that overlap or come from
\* two datagrams; the rest of a list may be lost in frag_timeout, if its first
\* fragment was there.
LossExplained ==
    /\ ev.kind = "malformed" =>
         \E f, g \in ev.buf : f.d # g.d \/ (f # g /\ Overlap(f, g))
    /\ ev.kind = "lost" => \E f \in ev.buf : f.off = 0

\* A slot in use is what has arrived of one identification, still incomplete,
\* and its timer will end it; what is not delivered is given back or lost in a
\* way that is known.
SlotInv == SlotsExact /\ NoCompleteStuck /\ LossExplained

\* Slots do not fill up for good.
SlotsFreed == \A s \in Slots : (s \in InUse) ~> (s \notin InUse)

\* The datagrams that the units of a contiguous list come from
Units(buf) ==
    [i \in UNION {f.off + 1 .. End(f) : f \in buf} |->
        (CHOOSE f \in buf : i \in f.off + 1 .. End(f)).d]

Service == INSTANCE IpService WITH
    None <- Nothing,
    got <- IF ev.kind = "delivered" THEN Units(ev.buf) ELSE Nothing

\* Reassembly does what IP promises.
IpPromise == Service!Spec
=============================================================================
