----------------------------- MODULE ByteStream -----------------------------
(***************************************************************************)
(* What the receiving side of a TCP connection promises the process: the   *)
(* octets of the stream arrive in any order and pieces, none is lost once  *)
(* it has arrived, and they are read in order, without a gap and without a *)
(* repetition.                                                             *)
(***************************************************************************)
EXTENDS Integers

CONSTANT Total   \* octets of the stream, numbered from 0

VARIABLES
    arrived,     \* octets that have arrived
    read         \* the next octet to read

vars == <<arrived, read>>

Init == arrived = {} /\ read = 0

\* A piece of the stream arrives, or as much of it as is new.
Arrive ==
    /\ arrived' # arrived
    /\ read' = read
    /\ \E a \in 0 .. Total, e \in 0 .. Total :
          a < e /\ arrived' = arrived \cup (a .. e - 1)

\* The process reads what follows without a gap.
Read ==
    /\ read < read' /\ read' <= Total
    /\ read .. read' - 1 \subseteq arrived
    /\ arrived' = arrived

Spec == Init /\ [][Arrive \/ Read]_vars
=============================================================================
