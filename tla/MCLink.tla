------------------------------- MODULE MCLink -------------------------------
(***************************************************************************)
(* What lies between IP and the network drivers: the queues and the input  *)
(* of the interfaces (NetIf) and the ARP cache of one of them (Arp).  They *)
(* share no state, and half says which of them runs.                       *)
(***************************************************************************)
EXTENDS NetIf, Arp

VARIABLE half

MCInit == half \in {"queues", "arp"} /\ Init /\ ArpInit

MCNext ==
    /\ \/ half = "queues" /\ Next /\ UNCHANGED avars
       \/ half = "arp" /\ ArpNext /\ UNCHANGED vars
    /\ UNCHANGED half

MCSpec == MCInit /\ [][MCNext]_<<vars, avars, half>> /\ WF_vars(Transmit) /\ TimersFire
=============================================================================
