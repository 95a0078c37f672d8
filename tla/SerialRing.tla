------------------------------ MODULE SerialRing ------------------------------
(***************************************************************************)
(* The ring buffers between a serial driver and its device                 *)
(* (drivers/slip/serial.h) and the loop that puts packets into the output  *)
(* ring.  slip_send and ppp_send are the same loop with different ways to  *)
(* mark the ends of a frame and to write a byte:                           *)
(*     flag   the byte before and behind a frame                           *)
(*     frame  the bytes of a packet, when it is taken from the queue       *)
(*     esc    the byte before one of the bytes                             *)
(*     escape that cannot stand for themselves, and                        *)
(*     as     what stands for them                                         *)
(***************************************************************************)
EXTENDS Integers, Sequences

CONSTANTS SL_OBUFSIZE, SL_IBUFSIZE, None

Byte == 0 .. 255

Ring(n) == [buf |-> [k \in 0 .. n - 1 |-> None], head |-> 0, tail |-> 0]

Least(a, b) == IF a <= b THEN a ELSE b
OUsed(ring) == (ring.head - ring.tail) % SL_OBUFSIZE
OFree(ring) == SL_OBUFSIZE - 1 - OUsed(ring)
IUsed(ring) == (ring.head - ring.tail) % SL_IBUFSIZE

RECURSIVE SL_PUTC(_, _)
SL_PUTC(ring, cs) ==
    IF cs = <<>> THEN ring
    ELSE SL_PUTC([ring EXCEPT !.buf[ring.head] = Head(cs), !.head = (@ + 1) % SL_OBUFSIZE], Tail(cs))

RECURSIVE PutAll(_, _, _)
PutAll(ring, cs, way) ==
    IF cs = <<>> THEN ring
    ELSE LET c == Head(cs)
         IN  PutAll(SL_PUTC(ring, IF c \in way.escape THEN <<way.esc, way.as[c]>> ELSE <<c>>), Tail(cs), way)

\* As many bytes as there is space for, at two places each, and again with the
\* space that is left then
RECURSIVE PutBytes(_, _, _, _)
PutBytes(ring, cs, space, way) ==
    IF cs = <<>> \/ space <= 0 THEN [o |-> ring, cs |-> cs, space |-> space]
    ELSE LET n  == Least(space, Len(cs))
             r2 == PutAll(ring, SubSeq(cs, 1, n), way)
         IN  PutBytes(r2, SubSeq(cs, n + 1, Len(cs)), OFree(r2) \div 2, way)

\* The loop over packets; s has nif->snd, what is left of the packet that is
\* being sent, and the ring.
RECURSIVE PutPackets(_, _, _)
PutPackets(s, space, way) ==
    IF space <= 0 \/ (s.snd = None /\ s.q = <<>>) THEN s
    ELSE LET new == s.snd = None
             p   == IF new
                    THEN PutBytes(SL_PUTC(s.o, <<way.flag>>), way.frame[Head(s.q)], space - 1, way)
                    ELSE PutBytes(s.o, s.snd, space, way)
             qq  == IF new THEN Tail(s.q) ELSE s.q
         IN  IF p.space > 0
             THEN PutPackets([q |-> qq, snd |-> None, o |-> SL_PUTC(p.o, <<way.flag>>)], p.space - 1, way)
             ELSE [q |-> qq, snd |-> p.cs, o |-> p.o]

\* The bytes go to the input ring from its head on.
Fill(ring, bytes) ==
    [ring EXCEPT !.buf = [k \in DOMAIN @ |->
                            LET d == (k - ring.head) % SL_IBUFSIZE
                            IN  IF d < Len(bytes) THEN bytes[d + 1] ELSE @[k]],
                 !.head = (@ + Len(bytes)) % SL_IBUFSIZE]
=============================================================================
