----------------------------- MODULE MCTcpConn -----------------------------
(* Instances of TcpConn for TLC. *)
EXTENDS TcpConn

\* One connection, opened by A or by both
OneEach == [h \in Hosts |-> 1]

\* A connects a second time, or forks off two connections.
TwoOne == [h \in Hosts |-> IF h = "A" THEN 2 ELSE 1]
=============================================================================
