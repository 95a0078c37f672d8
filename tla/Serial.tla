-------------------------------- MODULE Serial --------------------------------
(***************************************************************************)
(* A serial line with SLIP or PPP (drivers/slip) and the process that      *)
(* moves bytes between the ring buffers and the device (ovl/main.c), in    *)
(* one direction: packets are framed at one end and unframed at the other. *)
(*                                                                         *)
(* The output, send and receive functions of the drivers and their ioctls  *)
(* run in the kernel and are not interrupted.  do_work is an ordinary      *)
(* process: another process may call the driver between any two of its     *)
(* steps.  The line keeps the order of bytes; noise changes one or loses   *)
(* it, and modems put XON and XOFF between them.                           *)
(***************************************************************************)
EXTENDS Slip, Ppp, FiniteSets

CONSTANTS
    Packets,    \* what is sent over each kind of line: protocol and bytes
    MaxPackets, \* how many of them, over each kind
    OptionSets, \* PPPO_ADDR_COMP and PPPO_PROT_COMP, and
    Xmaps,      \* transmit maps that pppd may ask for
    SL_VMIN,    \* room at the device that is worth a write
    LineSize,   \* bytes that the device takes before it has to wait
    MaxCalls,   \* calls of pppd
    MaxNoise    \* bytes that are disturbed or come in between

ASSUME SerialAssumption ==
    /\ \A p \in Packets["slip"] : p.proto = "ip" /\ p.info \in Seq(Byte) /\ Len(p.info) \in 3 .. Mtu
    /\ \A p \in Packets["ppp"] : p.proto \in {"ip", "lcp"} /\ p.info \in Seq(Byte) /\ Len(p.info) \in 1 .. Room - 7
    /\ SL_OBUFSIZE \in Nat /\ SL_OBUFSIZE > 4
    /\ SL_IBUFSIZE \in Nat /\ SL_IBUFSIZE > 1
    /\ {} \in OptionSets /\ OptionSets \subseteq SUBSET {"addr", "prot"}
    /\ Rmap \subseteq 0 .. 31 /\ Xmaps \subseteq SUBSET Byte
    /\ {SL_VMIN, LineSize, Mtu, Room, MaxCalls, MaxNoise} \subseteq Nat
    /\ LineSize > 0

VARIABLES
    disc,     \* which driver the line belongs to
    given,    \* packets given to the driver
    q,        \* nif->snd
    snd,      \* what is left of the frame that is being sent, or None
    opts,     \* PPPO_ADDR_COMP and PPPO_PROT_COMP of the sender
    xmap,     \* its transmit map
    o,        \* output ring: buf, head, tail
    sending,  \* SL_SENDING
    nwrite,   \* room at the device when it was looked at last
    pc,       \* where do_work is
    line,     \* bytes between the two ends
    i,        \* input ring: buf, head, tail
    nread,    \* bytes at the device when it was looked at last
    rcv,      \* the frame that is being received: bytes, escape, drop, has it a buffer
    out,      \* packets that were received, for IP or for /dev/ppp
    calls,    \* calls of pppd so far
    noise,    \* bytes that were disturbed
    extra     \* bytes that came in between

sender == <<given, q, snd, opts, xmap, o, sending, nwrite, pc>>
receiver == <<i, nread, rcv, out>>
vars == <<disc, sender, line, receiver, calls, noise, extra>>

\* serial_open, slip_link and ppp_link
Init ==
    /\ disc \in {"slip", "ppp"}
    /\ given = <<>> /\ q = <<>> /\ snd = None
    /\ opts = {} /\ xmap = 0 .. 31 \cup {PPP_ESC, FLAG}
    /\ o = Ring(SL_OBUFSIZE) /\ sending = FALSE /\ nwrite = 0 /\ pc = "idle"
    /\ line = <<>>
    /\ i = Ring(SL_IBUFSIZE) /\ nread = 0
    /\ rcv = [cp |-> <<>>, esc |-> FALSE, drop |-> FALSE, buf |-> FALSE]
    /\ out = <<>>
    /\ calls = 0 /\ noise = 0 /\ extra = 0

Call ==
    /\ disc = "ppp" /\ calls < MaxCalls
    /\ calls' = calls + 1

(***************************************************************************)
(* Sending                                                                 *)
(***************************************************************************)
SlipFrames == [p \in Packets["slip"] |-> p.info]
PppFrames == [os \in OptionSets |-> [p \in Packets["ppp"] |-> ppp_build_frame(p, os)]]

\* sl->send; queue is nif->snd when it is called.
Send(queue) ==
    LET s0 == [q |-> queue, snd |-> snd, o |-> o]
        s  == IF disc = "slip" THEN slip_send(s0, SlipFrames) ELSE ppp_send(s0, PppFrames[opts], xmap)
    IN  q' = s.q /\ snd' = s.snd /\ o' = s.o

\* slip_output, ppp_output or a write to /dev/ppp.  While SL_SENDING is set
\* do_work will ask for the packet.
Output(p) ==
    /\ Len(given) < MaxPackets[disc]
    /\ given' = Append(given, p)
    /\ IF sending THEN q' = Append(q, p) /\ UNCHANGED <<snd, o>> ELSE Send(Append(q, p))
    /\ sending' = TRUE
    /\ UNCHANGED <<disc, opts, xmap, nwrite, pc, line, receiver, calls, noise, extra>>

PPPIOCSFLAGS(os) ==
    /\ Call
    /\ opts' = os
    /\ UNCHANGED <<disc, given, q, snd, xmap, o, sending, nwrite, pc, line, receiver, noise, extra>>

\* A map that would turn a byte into another one that is escaped, or into ESC or
\* FLAG, is refused.
PPPIOCSXMAP(m) ==
    /\ Call
    /\ \A c \in m : Trans(c) \notin m
    /\ Trans(FLAG) \notin m /\ Trans(PPP_ESC) \notin m
    /\ xmap' = (m \ (32 .. 63)) \cup {PPP_ESC, FLAG}
    /\ UNCHANGED <<disc, given, q, snd, opts, o, sending, nwrite, pc, line, receiver, noise, extra>>

(***************************************************************************)
(* do_work, sending: a step for each place where another process may run.  *)
(***************************************************************************)
\* n bytes of a ring from a place on
From(buf, k, n) == [j \in 1 .. n |-> buf[k + j - 1]]

\* The device has room: bytes up to the end of the ring, then from its start
Write ==
    /\ pc = "idle" /\ sending
    /\ LET nr   == LineSize - Len(line)
           go   == (nr # 0 /\ nr <= nwrite) \/ nr >= SL_VMIN \/ nr >= OUsed(o)
           wrap == o.tail > o.head
           n1   == IF wrap THEN Least(nr, SL_OBUFSIZE - o.tail) ELSE 0
           off  == (o.tail + n1) % SL_OBUFSIZE
           n2   == IF (wrap => n1 > 0) /\ off < o.head THEN Least(nr - n1, o.head - off) ELSE 0
       IN  IF go
           THEN /\ line' = line \o From(o.buf, o.tail, n1) \o From(o.buf, off, n2)
                /\ o' = [o EXCEPT !.tail = (off + n2) % SL_OBUFSIZE]
                /\ nwrite' = nr - n1 - n2
                /\ pc' = "wrote"
           ELSE nwrite' = nr /\ UNCHANGED <<line, o, pc>>
    /\ UNCHANGED <<disc, given, q, snd, opts, xmap, sending, receiver, calls, noise, extra>>

\* A quarter of the ring is free: more is asked for.
Check ==
    /\ pc = "wrote"
    /\ IF 4 * OFree(o) >= SL_OBUFSIZE
       THEN pc' = "more" /\ sending' = (sending /\ o.head # o.tail)
       ELSE pc' = "idle" /\ UNCHANGED sending
    /\ UNCHANGED <<disc, given, q, snd, opts, xmap, o, nwrite, line, receiver, calls, noise, extra>>

write_dev ==
    /\ pc = "more"
    /\ Send(q)
    /\ pc' = "asked"
    /\ UNCHANGED <<disc, given, opts, xmap, sending, nwrite, line, receiver, calls, noise, extra>>

Again_Never ==
    /\ pc = "asked"
    /\ pc' = "idle"
    /\ UNCHANGED <<disc, given, q, snd, opts, xmap, o, sending, nwrite, line, receiver, calls, noise, extra>>

Again ==
    /\ pc = "asked"
    /\ pc' = "idle"
    /\ sending' = (sending \/ o.head # o.tail)
    /\ UNCHANGED <<disc, given, q, snd, opts, xmap, o, nwrite, line, receiver, calls, noise, extra>>

(***************************************************************************)
(* Receiving                                                               *)
(***************************************************************************)
\* do_work, receiving: nothing is read while more is still coming.
Read(mem) ==
    /\ LET nr   == Len(line)
           wrap == i.head >= i.tail
           sp1  == SL_IBUFSIZE - i.head - (IF i.tail = 0 THEN 1 ELSE 0)
           n1   == IF wrap THEN Least(nr, sp1) ELSE 0
           off  == (i.head + n1) % SL_IBUFSIZE
           n2   == IF (wrap /\ sp1 > 0 => n1 > 0) /\ off + 1 < i.tail
                   THEN Least(nr - n1, i.tail - off - 1) ELSE 0
           n    == IF nr # 0 /\ nr <= nread THEN n1 + n2 ELSE 0
           ring == Fill(i, SubSeq(line, 1, n))
           r    == IF disc = "slip" THEN slip_recv(ring, rcv, <<>>, mem) ELSE ppp_recv(ring, rcv, <<>>, mem)
       IN  /\ line' = SubSeq(line, n + 1, nr)
           /\ nread' = nr - n
           /\ i' = r.i /\ rcv' = r.rcv /\ out' = out \o r.done
    /\ UNCHANGED <<disc, sender, calls, noise, extra>>

(***************************************************************************)
(* The line                                                                *)
(***************************************************************************)
Disturb(k, c) ==
    /\ noise + extra < MaxNoise
    /\ noise' = noise + 1
    /\ line' = [line EXCEPT ![k] = c]
    /\ UNCHANGED <<disc, sender, receiver, calls, extra>>

Swallow(k) ==
    /\ noise + extra < MaxNoise
    /\ noise' = noise + 1
    /\ line' = SubSeq(line, 1, k - 1) \o SubSeq(line, k + 1, Len(line))
    /\ UNCHANGED <<disc, sender, receiver, calls, extra>>

\* A character of the receive map comes between the others.
Insert(k, c) ==
    /\ disc = "ppp" /\ Len(line) < LineSize
    /\ noise + extra < MaxNoise
    /\ extra' = extra + 1
    /\ line' = SubSeq(line, 1, k) \o <<c>> \o SubSeq(line, k + 1, Len(line))
    /\ UNCHANGED <<disc, sender, receiver, calls, noise>>

Noises == IF disc = "slip" THEN {END, ESC, 120} ELSE {FLAG, PPP_ESC, 120}

Next ==
    \/ \E p \in Packets[disc] : Output(p)
    \/ \E os \in OptionSets : PPPIOCSFLAGS(os)
    \/ \E m \in Xmaps : PPPIOCSXMAP(m)
    \/ Write
    \/ Check
    \/ write_dev
    \/ Again
    \/ \E mem \in 0 .. 1 : Read(mem)
    \/ \E k \in DOMAIN line : \E c \in Noises : Disturb(k, c)
    \/ \E k \in DOMAIN line : Swallow(k)
    \/ \E k \in 0 .. Len(line) : \E c \in Rmap : Insert(k, c)

Spec == Init /\ [][Next]_vars

\* The states in which Write, or Read with memory, changes something
CanWrite == pc = "idle" /\ sending /\ (Len(line) < LineSize \/ OUsed(o) = 0 \/ nwrite # 0)
CanRead == line # <<>> \/ IUsed(i) > 0 \/ nread # 0

\* do_work is called again and again, and memory is not short for ever: weak
\* fairness of its steps.  (Where the condition is spelled out it is what
\* ENABLED says.)
WorkGoesOn ==
    /\ WF_vars(Check) /\ WF_vars(Again)
    /\ []<>~CanWrite \/ []<><<Write>>_vars
    /\ []<>(pc # "more")
    /\ []<>~CanRead \/ []<><<Read(1)>>_vars

FairSpec == Spec /\ WorkGoesOn

(***************************************************************************)
(* Properties                                                              *)
(***************************************************************************)
\* Without noise the packets come out as they went in, in order, wherever the
\* rings wrap round, whatever bytes are in them, and however pppd changes the
\* options and the transmit map in the middle of a frame.
Framed == noise = 0 => /\ Len(out) <= Len(given)
                       /\ \A k \in DOMAIN out : out[k] = given[k]

Quiet == q = <<>> /\ snd = None /\ OUsed(o) = 0 /\ line = <<>> /\ IUsed(i) = 0

Count(s, p) == Cardinality({k \in DOMAIN s : s[k] = p})

\* The packets that did not come out, each as often as it is missing
Missing == {m \in Packets[disc] \X (1 .. Len(given)) : Count(out, m[1]) < m[2] /\ m[2] <= Count(given, m[1])}

\* A disturbed byte spoils one packet at most: the packets before and behind it
\* have a flag of their own between them.
OneSpoiled == Quiet => Cardinality(Missing) <= noise

\* What comes out of a PPP line was given to it: the check sequence keeps back
\* every frame that was damaged, cut in two or run into another one.
Intact == disc = "ppp" => \A k \in DOMAIN out : Count(out, out[k]) <= Count(given, out[k])

\* The harm that noise does stays within one packet (OneSpoiled), and on a PPP
\* line no damaged packet reaches anybody (Intact).
NoiseContained == OneSpoiled /\ Intact

\* What the rings and the framing promise together: without noise nothing is
\* changed, with it the harm is contained.
LineInv == Framed /\ NoiseContained

\* Every packet leaves, whenever it is given to the driver: SL_SENDING is never
\* clear while there is something to send.
AllLeave == []<>Quiet
=============================================================================
