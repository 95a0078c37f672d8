-------------------------------- MODULE Arp --------------------------------
(***************************************************************************)
(* Address resolution on an Ethernet interface: the ARP cache of           *)
(* kernel/arp.c with its reference counts, retransmissions and expiry, and *)
(* the packets that wait in an entry until the address is known (if_send   *)
(* of kernel/if.c).                                                        *)
(*                                                                         *)
(* An entry is in arptab, where it is found by protocol address, and, once *)
(* its hardware address is known, in rarptab.  Every table and every       *)
(* function working on the entry counts as a link; with the last one the   *)
(* entry, its queue and its timer go.  The handlers run in the kernel one  *)
(* after the other, so that each is one step.                              *)
(***************************************************************************)
EXTENDS Integers, Sequences

CONSTANTS
    Addrs,        \* protocol addresses of other hosts on the network
    HwAddrs,      \* hardware addresses
    None,         \* no hardware address yet
    Slots,        \* memory for entries
    ARP_RETRIES,
    IF_MAXQ,      \* packets that wait in an entry, at most
    MaxPackets    \* packets sent through the interface, at most

ASSUME ArpAssumption ==
    /\ {None, "queued", "lost"} \cap HwAddrs = {}
    /\ {ARP_RETRIES, IF_MAXQ, MaxPackets} \subseteq Nat \ {0}

VARIABLES
    ent,      \* the allocated entries
    arptab,   \* the hash tables
    rarptab,
    running,  \* IFF_UP and IFF_RUNNING
    dest,     \* destinations of the packets passed to if_send so far
    fate      \* what has become of them

avars == <<ent, arptab, rarptab, running, dest, fate>>

Entry == [links : Nat, pr : Addrs, hw : HwAddrs \cup {None}, perm : BOOLEAN,
          timer : {"none", "retrans", "expire"}, retries : 0 .. ARP_RETRIES,
          q : Seq(1 .. MaxPackets)]

\* The tables and entries as one value: what a handler works on
Cache == [ent |-> ent, arp |-> arptab, rarp |-> rarptab, sent |-> {}, lost |-> {}]

Waiting(c, x) == {c.ent[x].q[k] : k \in 1 .. Len(c.ent[x].q)}
Without(f, x) == [y \in DOMAIN f \ {x} |-> f[y]]

(***************************************************************************)
(* Reference counts and tables                                             *)
(***************************************************************************)
\* arp_deref, arp_free: the packets that wait are lost.
Deref(c, x) ==
    IF c.ent[x].links > 1 THEN [c EXCEPT !.ent[x].links = @ - 1]
    ELSE [c EXCEPT !.ent = Without(@, x),
                   !.lost = @ \cup Waiting(c, x)]

arp_remove(c, x) ==
    IF x \in c.arp THEN Deref([c EXCEPT !.arp = @ \ {x}], x) ELSE c

rarp_remove_NoDeref(c, x) == [c EXCEPT !.rarp = @ \ {x}]

\* The memory of an entry that arp_remove has freed is only compared with the
\* addresses of the entries in the table.
rarp_remove(c, x) ==
    IF x \in c.rarp THEN Deref([c EXCEPT !.rarp = @ \ {x}], x) ELSE c

rarp_put(c, x) == [c EXCEPT !.rarp = @ \cup {x}, !.ent[x].links = @ + 1]

\* Removed from both tables
Removed(c, x) == rarp_remove(arp_remove(c, x), x)

\* The entry for address p in arptab: at most one, see LinksExact
Found(c, p) == {x \in c.arp : c.ent[x].pr = p}

\* arp_lookup creates an entry: one link for the table, one for the caller.
Created(c, x, p) ==
    [c EXCEPT !.ent = [y \in DOMAIN @ \cup {x} |->
                          IF y = x THEN [links |-> 2, pr |-> p, hw |-> None, perm |-> FALSE,
                                         timer |-> "none", retries |-> 0, q |-> <<>>]
                          ELSE @[y]],
              !.arp = @ \cup {x}]

(***************************************************************************)
(* Requests                                                                *)
(***************************************************************************)
arp_sendreq_Resets(c, x, ok) ==
    LET d == [c EXCEPT !.ent[x].retries = (@ % ARP_RETRIES) + 1]
    IN  IF ok THEN [d EXCEPT !.ent[x].timer = "retrans"] ELSE d

\* ok: there is memory for the request; otherwise the timer is not armed.
arp_sendreq(c, x, ok) ==
    LET d == [c EXCEPT !.ent[x].retries = @ + 1]
    IN  IF d.ent[x].retries > ARP_RETRIES THEN Removed(d, x)
        ELSE IF ok THEN [d EXCEPT !.ent[x].timer = "retrans"] ELSE d

(***************************************************************************)
(* A hardware address becomes known                                        *)
(***************************************************************************)
\* arp_sendq
SendQ(c, x) ==
    LET queue == c.ent[x].q
    IN  [c EXCEPT !.ent[x].q = <<>>,
                  !.sent = @ \cup {<<queue[k], c.ent[x].hw>> : k \in 1 .. Len(queue)}]

\* arp_input and SIOCSARP: the entry moves to its new place in rarptab, is
\* given a new timer unless it is permanent, and its packets leave.
Resolved(c, x, hw, perm) ==
    LET d == rarp_remove(c, x)
        e == rarp_put([d EXCEPT !.ent[x].hw = hw, !.ent[x].perm = perm], x)
    IN  SendQ([e EXCEPT !.ent[x].timer = IF perm THEN "none" ELSE "expire"], x)

(***************************************************************************)
(* Actions                                                                 *)
(***************************************************************************)
\* Handler done: c is the new cache, and the packets have their fates.
Become(c, f) ==
    /\ ent' = c.ent /\ arptab' = c.arp /\ rarptab' = c.rarp
    /\ fate' = [i \in DOMAIN f |->
                  CASE i \in c.lost -> "lost"
                    [] \E m \in c.sent : m[1] = i -> (CHOOSE m \in c.sent : m[1] = i)[2]
                    [] OTHER -> f[i]]

\* A packet that if_send sends or queues
Sent(c, x, n) ==
    IF c.ent[x].hw # None THEN [c EXCEPT !.sent = @ \cup {<<n, c.ent[x].hw>>}]
    ELSE IF Len(c.ent[x].q) >= IF_MAXQ THEN [c EXCEPT !.lost = @ \cup {n}]
    ELSE [c EXCEPT !.ent[x].q = Append(@, n)]

\* if_send to the address p
if_send(p) ==
    LET n == Len(dest) + 1
        f == [i \in 1 .. n |-> IF i < n THEN fate[i] ELSE "queued"]
    IN  /\ n <= MaxPackets
        /\ dest' = Append(dest, p)
        /\ UNCHANGED running
        /\ \/ ~running /\ Become([Cache EXCEPT !.lost = {n}], f)
           \/ running /\ \E x \in Found(Cache, p) :
                       LET c == [Cache EXCEPT !.ent[x].links = @ + 1]
                       IN  Become(Deref(Sent(c, x, n), x), f)
           \/ running /\ Found(Cache, p) = {}
                 /\ \E x \in Slots \ DOMAIN ent, ok \in BOOLEAN :
                       LET c == arp_sendreq(Created(Cache, x, p), x, ok)
                       IN  Become(Deref(Sent(c, x, n), x), f)

\* The event of entry x is due.
arp_timeout(x) ==
    /\ ent[x].timer # "none"
    /\ LET c == [Cache EXCEPT !.ent[x].timer = "none"]
       IN  IF ent[x].hw # None
           THEN Become(IF ent[x].perm THEN c ELSE Removed(c, x), fate)
           ELSE \E ok \in BOOLEAN : Become(arp_sendreq(c, x, ok), fate)
    /\ UNCHANGED <<running, dest>>

\* arp_input: a request or reply of host p with hardware address hw.  It
\* brings the entry up to date; one that asks for our address creates it.
arp_input(p, hw, forme) ==
    /\ running
    /\ \/ \E x \in Found(Cache, p) :
             LET c == [Cache EXCEPT !.ent[x].links = @ + 1]
             IN  Become(Deref(Resolved(c, x, hw, ent[x].perm), x), fate)
       \/ forme /\ Found(Cache, p) = {} /\ \E x \in Slots \ DOMAIN ent :
             Become(Deref(Resolved(Created(Cache, x, p), x, hw, FALSE), x), fate)
    /\ UNCHANGED <<running, dest>>

\* arp_ioctl: SIOCSARP finds the interface by the route, which is there while
\* the interface is running.
SIOCSARP(p, hw, perm) ==
    /\ running
    /\ \/ \E x \in Found(Cache, p) :
             LET c == [Cache EXCEPT !.ent[x].links = @ + 1]
             IN  Become(Deref(Resolved(c, x, hw, perm), x), fate)
       \/ Found(Cache, p) = {} /\ \E x \in Slots \ DOMAIN ent :
             Become(Deref(Resolved(Created(Cache, x, p), x, hw, perm), x), fate)
    /\ UNCHANGED <<running, dest>>

SIOCDARP(p) ==
    /\ \E x \in Found(Cache, p) :
          LET c == [Cache EXCEPT !.ent[x].links = @ + 1]
          IN  Become(Deref(Removed(c, x), x), fate)
    /\ UNCHANGED <<running, dest>>

\* Every entry loses the links of the tables.
arp_flush(c) ==
    LET tables(x) == (IF x \in c.arp THEN 1 ELSE 0) + (IF x \in c.rarp THEN 1 ELSE 0)
        kept == {x \in DOMAIN c.ent : c.ent[x].links > tables(x)}
    IN  [c EXCEPT !.arp = {}, !.rarp = {},
                  !.ent = [x \in kept |-> [c.ent[x] EXCEPT !.links = @ - tables(x)]],
                  !.lost = UNION {Waiting(c, x) : x \in DOMAIN c.ent \ kept}]

\* if_close
GoesDown ==
    /\ running /\ running' = FALSE
    /\ Become(arp_flush(Cache), fate)
    /\ UNCHANGED dest

\* if_open
GoesUp ==
    /\ ~running /\ running' = TRUE
    /\ UNCHANGED <<ent, arptab, rarptab, dest, fate>>

ArpInit ==
    /\ ent = <<>> /\ arptab = {} /\ rarptab = {} /\ running = TRUE
    /\ dest = <<>> /\ fate = <<>>

ArpNext ==
    \/ \E p \in Addrs : if_send(p) \/ SIOCDARP(p)
    \/ \E x \in DOMAIN ent : arp_timeout(x)
    \/ \E p \in Addrs, hw \in HwAddrs, b \in BOOLEAN : arp_input(p, hw, b) \/ SIOCSARP(p, hw, b)
    \/ GoesDown
    \/ GoesUp

ArpSpec == ArpInit /\ [][ArpNext]_avars

\* The event queue runs every timer (see Timer); nothing is assumed of the
\* other hosts.
TimersFire == \A x \in Slots : WF_avars(x \in DOMAIN ent /\ arp_timeout(x))

ArpFairSpec == ArpSpec /\ TimersFire

-----------------------------------------------------------------------------
(***************************************************************************)
(* Properties                                                              *)
(***************************************************************************)
\* The types: in particular arp_sendreq tries no entry more often than
\* ARP_RETRIES, and every packet passed to if_send has exactly one fate.
ArpTypeOK ==
    /\ DOMAIN ent \subseteq Slots /\ \A x \in DOMAIN ent : ent[x] \in Entry
    /\ running \in BOOLEAN /\ dest \in Seq(Addrs) /\ Len(dest) <= MaxPackets
    /\ DOMAIN fate = DOMAIN dest
    /\ \A i \in DOMAIN fate : fate[i] \in {"queued", "lost"} \cup HwAddrs

\* Between two handlers the links of an entry are the tables it is in, and
\* every entry is in arptab: none is freed while a table refers to it, none is
\* leaked, and no address has two.
LinksExact ==
    /\ arptab = DOMAIN ent
    /\ rarptab = {x \in DOMAIN ent : ent[x].hw # None}
    /\ \A x \in DOMAIN ent : ent[x].links = (IF x \in rarptab THEN 2 ELSE 1)
    /\ \A x, y \in DOMAIN ent : ent[x].pr = ent[y].pr => x = y

\* A packet that waits is in the queue of its destination's entry, which is not
\* resolved, and none overtakes another one for the same host.
QueuesExact ==
    /\ \A i \in DOMAIN fate :
          fate[i] = "queued" <=> \E x \in DOMAIN ent, k \in 1 .. IF_MAXQ :
              /\ k <= Len(ent[x].q) /\ ent[x].q[k] = i
              /\ ent[x].pr = dest[i] /\ ent[x].hw = None
    /\ \A i, j \in DOMAIN fate :
          i < j /\ dest[i] = dest[j] /\ fate[j] \in HwAddrs => fate[i] # "queued"

\* An entry learnt from the network expires, a permanent one does not, and an
\* unresolved one is being retried, unless there was no memory for a request.
TimerExact ==
    \A x \in DOMAIN ent :
        ent[x].timer \in CASE ent[x].hw = None -> {"retrans", "none"}
                           [] ent[x].hw # None /\ ent[x].perm -> {"none"}
                           [] OTHER -> {"expire"}

\* What holds of the entries between two handlers
EntriesExact == LinksExact /\ TimerExact

\* Entries, tables, timers and queues tell the same story between two handlers,
\* however packets, answers, ioctls, time-outs and closing are interleaved.
ArpInv == ArpTypeOK /\ EntriesExact /\ QueuesExact

\* A packet does not wait for ever: after ARP_RETRIES requests ("4 retries
\* before giving up") it is given up, if no answer has come.  The exception:
\* an entry for which there was no memory for a request is not tried again.
Stuck(i) == \E x \in DOMAIN ent : ent[x].pr = dest[i] /\ ent[x].hw = None /\ ent[x].timer = "none"

PacketsLeave ==
    \A i \in 1 .. MaxPackets :
        (i \in DOMAIN fate /\ fate[i] = "queued")
            ~> (i \in DOMAIN fate /\ (fate[i] # "queued" \/ Stuck(i)))
=============================================================================
