----------------------------- MODULE MCTcpOut -----------------------------
(* Instances of TcpOut for TLC. *)
EXTENDS TcpOut

\* One segment, or more than the peer's window
MCCwnds == {Mss, 4 * Mss}
=============================================================================
