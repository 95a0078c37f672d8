--------------------------------- MODULE Slip ---------------------------------
(***************************************************************************)
(* The framing of the SLIP driver (drivers/slip/slip.c) as functions on    *)
(* the ring buffers.                                                       *)
(***************************************************************************)
EXTENDS SerialRing

CONSTANT Mtu    \* nif->mtu

ESC == 219
END == 192
ESC_ESC == 221
ESC_END == 220

\* Two bytes have codes of their own.
slip_way(frames) ==
    [flag |-> END, frame |-> frames, esc |-> ESC, escape |-> {ESC, END},
     as |-> [c \in {ESC, END} |-> IF c = ESC THEN ESC_ESC ELSE ESC_END]]

\* s has the queue of frames, the frame that is being sent and the ring.
slip_send(s, frames) == PutPackets(s, OFree(s.o) \div 2, slip_way(frames))

\* A byte that is not END, with or without an ESC before it
SlipByte(r, c) ==
    LET b  == IF r.esc /\ c = ESC_ESC THEN ESC ELSE IF r.esc /\ c = ESC_END THEN END ELSE c
        cp == Append(r.cp, b)
    IN  IF c = ESC THEN [r EXCEPT !.esc = TRUE]
        ELSE IF Len(cp) > Mtu THEN [r EXCEPT !.cp = <<>>, !.esc = FALSE, !.drop = TRUE]
        ELSE [r EXCEPT !.cp = cp, !.esc = FALSE]

\* With memory for mem new packets.  r is the frame that is being received,
\* done are the packets that were given to if_input.
RECURSIVE slip_recv(_, _, _, _)
slip_recv(ring, r, done, mem) ==
    IF IUsed(ring) = 0 \/ (~r.buf /\ mem = 0) THEN [i |-> ring, rcv |-> r, done |-> done]
    ELSE IF ~r.buf THEN slip_recv(ring, [r EXCEPT !.buf = TRUE, !.cp = <<>>], done, mem - 1)
    ELSE LET c     == ring.buf[ring.tail]
             next  == [ring EXCEPT !.tail = (@ + 1) % SL_IBUFSIZE]
             clear == [r EXCEPT !.cp = <<>>, !.esc = FALSE, !.drop = FALSE]
         IN  IF c # END THEN slip_recv(next, SlipByte(r, c), done, mem)
             ELSE IF r.drop \/ Len(r.cp) < 3 THEN slip_recv(next, clear, done, mem)
             ELSE slip_recv(next, [clear EXCEPT !.buf = FALSE],
                            Append(done, [proto |-> "ip", info |-> r.cp]), mem)
=============================================================================
