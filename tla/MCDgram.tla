------------------------------ MODULE MCDgram ------------------------------
(* Instances of Dgram for TLC. *)
EXTENDS Dgram
=============================================================================
