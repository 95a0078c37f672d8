------------------------------ MODULE MCTcpIn ------------------------------
(***************************************************************************)
(* What TCP does with segments that arrive, side by side: the states of a  *)
(* connection (TcpConn) and the queue of its data (TcpRecv), which TcpConn *)
(* reduces to the octets that are there.  half says which of them runs.    *)
(***************************************************************************)
EXTENDS MCTcpConn, TcpRecv

VARIABLE half

MCInit == half \in {"connection", "data"} /\ Init /\ RecvInit

MCNext ==
    /\ \/ half = "connection" /\ Next /\ UNCHANGED rvars
       \/ half = "data" /\ RecvNext /\ UNCHANGED vars
    /\ UNCHANGED half

MCSpec == MCInit /\ [][MCNext]_<<vars, rvars, half>>
=============================================================================
