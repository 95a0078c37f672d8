---------------------------------- MODULE Ppp ----------------------------------
(***************************************************************************)
(* The framing of the PPP driver (drivers/slip/ppp.c) as functions on the  *)
(* ring buffers: frames with a header whose fields may be left out, and a  *)
(* check sequence; bytes are escaped as the transmit map says, and control *)
(* characters of the receive map are ignored.                              *)
(***************************************************************************)
EXTENDS SerialRing

CONSTANTS
    Room,    \* bytes that a receive buffer has for a frame
    Rmap     \* control characters that the line may add

FLAG == 126
PPP_ESC == 125
ADDR == 255
CTRL == 3

\* The two bytes of a protocol number
Proto(p) == IF p = "ip" THEN <<0, 33>> ELSE <<192, 33>>

\* c ^ TRANS, the bit with value 32
Trans(c) == IF (c \div 32) % 2 = 1 THEN c - 32 ELSE c + 32

(***************************************************************************)
(* The check sequence                                                      *)
(***************************************************************************)
\* The tables are concatenations: TLC evaluates those once.
XorNibble ==
    LET bit(a, b, k) == IF (a \div k) % 2 = (b \div k) % 2 THEN 0 ELSE k
        xor(a, b)    == bit(a, b, 1) + bit(a, b, 2) + bit(a, b, 4) + bit(a, b, 8)
    IN  <<>> \o [n \in 1 .. 256 |-> xor((n - 1) \div 16, (n - 1) % 16)]

XorAt(a, b, k) == k * XorNibble[16 * ((a \div k) % 16) + ((b \div k) % 16) + 1]
Xor(a, b) == XorAt(a, b, 1) + XorAt(a, b, 16) + XorAt(a, b, 256) + XorAt(a, b, 4096)

\* The remainders of all bytes for the polynomial 8408 (hexadecimal)
Shift(v) == IF v % 2 = 1 THEN Xor(v \div 2, 33800) ELSE v \div 2
Shift4(v) == Shift(Shift(Shift(Shift(v))))
fcstab == <<>> \o [n \in 1 .. 256 |-> Shift4(Shift4(n - 1))]

FCS_INIT == 65535
FCS_GOOD == 61624

ppp_fcs(cs) ==
    LET next(f, c) == Xor(f \div 256, fcstab[Xor(f % 256, c) + 1])
        fcs[k \in 0 .. Len(cs)] == IF k = 0 THEN FCS_INIT ELSE next(fcs[k - 1], cs[k])
    IN  fcs[Len(cs)]

(***************************************************************************)
(* Sending                                                                 *)
(***************************************************************************)
\* ppp_send_frame stored the protocol; opts has PPPO_ADDR_COMP and PPPO_PROT_COMP.
ppp_build_frame(p, opts) ==
    LET proto == Proto(p.proto)
        head  == (IF "addr" \in opts THEN <<>> ELSE <<ADDR, CTRL>>)
                   \o (IF "prot" \in opts /\ proto[1] = 0 THEN Tail(proto) ELSE proto)
        fcs   == 65535 - ppp_fcs(head \o p.info)
    IN  head \o p.info \o <<fcs % 256, fcs \div 256>>

Transposed == [c \in Byte |-> Trans(c)]

ppp_send(s, frames, xmap) ==
    PutPackets(s, OFree(s.o) \div 2,
               [flag |-> FLAG, frame |-> frames, esc |-> PPP_ESC, escape |-> xmap, as |-> Transposed])

(***************************************************************************)
(* Receiving                                                               *)
(***************************************************************************)
\* The packet of a frame; None if the frame is damaged or too short.
ppp_recv_frame_NoFcs(cp) ==
    LET addr == IF cp[1] = ADDR /\ cp[2] = CTRL THEN 2 ELSE 0
        hi   == IF cp[addr + 1] % 2 = 1 THEN 0 ELSE cp[addr + 1]
        n    == addr + (IF cp[addr + 1] % 2 = 1 THEN 1 ELSE 2)
    IN  IF Len(cp) < 3 \/ Len(cp) < n + 3 THEN None
        ELSE [proto |-> IF <<hi, cp[n]>> = Proto("ip") THEN "ip" ELSE "lcp",
              info |-> SubSeq(cp, n + 1, Len(cp) - 2)]

ppp_recv_frame(cp) ==
    LET addr == IF cp[1] = ADDR /\ cp[2] = CTRL THEN 2 ELSE 0
        hi   == IF cp[addr + 1] % 2 = 1 THEN 0 ELSE cp[addr + 1]
        n    == addr + (IF cp[addr + 1] % 2 = 1 THEN 1 ELSE 2)
    IN  IF Len(cp) < 3 \/ ppp_fcs(cp) # FCS_GOOD \/ Len(cp) < n + 3 THEN None
        ELSE [proto |-> IF <<hi, cp[n]>> = Proto("ip") THEN "ip" ELSE "lcp",
              info |-> SubSeq(cp, n + 1, Len(cp) - 2)]

\* A byte that is neither ESC nor FLAG
PppByte(r, c) ==
    LET cp == Append(r.cp, IF r.esc THEN Trans(c) ELSE c)
    IN  IF c \in Rmap THEN r    \* an escape before it stays
        ELSE IF Len(cp) = Room THEN [r EXCEPT !.cp = <<>>, !.esc = FALSE, !.drop = TRUE]
        ELSE [r EXCEPT !.cp = cp, !.esc = FALSE]

\* With memory for mem new frames; done are the packets of good frames.
RECURSIVE ppp_recv(_, _, _, _)
ppp_recv(ring, r, done, mem) ==
    IF IUsed(ring) = 0 \/ (~r.buf /\ mem = 0) THEN [i |-> ring, rcv |-> r, done |-> done]
    ELSE IF ~r.buf THEN ppp_recv(ring, [r EXCEPT !.buf = TRUE, !.cp = <<>>], done, mem - 1)
    ELSE LET c     == ring.buf[ring.tail]
             next  == [ring EXCEPT !.tail = (@ + 1) % SL_IBUFSIZE]
             clear == [r EXCEPT !.cp = <<>>, !.esc = FALSE, !.drop = FALSE]
         IN  IF c = PPP_ESC THEN ppp_recv(next, [r EXCEPT !.esc = TRUE], done, mem)
             ELSE IF c # FLAG THEN ppp_recv(next, PppByte(r, c), done, mem)
             ELSE IF r.esc \/ Len(r.cp) < 3 \/ r.drop THEN ppp_recv(next, clear, done, mem)
             ELSE LET p == ppp_recv_frame(r.cp)
                  IN  ppp_recv(next, [clear EXCEPT !.buf = FALSE],
                               IF p = None THEN done ELSE Append(done, p), mem)
=============================================================================
