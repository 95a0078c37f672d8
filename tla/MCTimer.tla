------------------------------ MODULE MCTimer ------------------------------
(* Instances of Timer for TLC. *)
EXTENDS Timer

FewDelays == {0, 1, 3}
=============================================================================
