-------------------------------- MODULE MCIp --------------------------------
(***************************************************************************)
(* The two halves of IP, routing (IpRoute) and reassembly (IpFrag), side   *)
(* by side: they share no state, and half says which of them runs.         *)
(*                                                                         *)
(* Routing: a host on net1 and two routers between net1 and net2, whose    *)
(* default routes lead to each other.                                      *)
(*                                                                         *)
(* Reassembly: four datagrams, the first two of one identification (the id *)
(* has gone round), the others of other hosts.                             *)
(***************************************************************************)
EXTENDS IpRoute, IpFrag, TLC

CONSTANTS h, r1, r2, net1, net2, net3
CONSTANTS d1, d2, d3, d4

VARIABLE half

(***************************************************************************)
(* Routing                                                                 *)
(***************************************************************************)
MCIfs == (h :> {net1}) @@ (r1 :> {net1, net2}) @@ (r2 :> {net1, net2})

\* The table of n after if_open and SIOCADDRT for its networks and a default
BootedTo(n, nif, gway) ==
    [k \in {HostKey(<<i, n>>) : i \in MCIfs[n]} \cup {NetKey(Lo)} |-> OwnRoute]
      @@ [k \in {NetKey(i) : i \in MCIfs[n]} |-> Route(k.dst[1], None, {"UP"})]
      @@ (Default :> Route(nif, gway, {"UP"}))

MCBoot == (h :> BootedTo(h, net1, <<net1, r1>>))
            @@ (r1 :> BootedTo(r1, net2, <<net2, r2>>))
            @@ (r2 :> BootedTo(r2, net1, <<net1, r1>>))

MCDsts == {<<net2, r2>>, <<net2, All>>, <<net3, h>>}
MCAddDsts == {<<net2, r2>>, <<net3, All>>}
MCGates == {<<net1, r1>>, <<net1, r2>>}

ASSUME BootAssumption

(***************************************************************************)
(* Reassembly                                                              *)
(***************************************************************************)
MCDgrams == {d1, d2, d3, d4}
MCSize == (d1 :> 4) @@ (d2 :> 2) @@ (d3 :> 2) @@ (d4 :> 2)
MCKey == (d1 :> 1) @@ (d2 :> 1) @@ (d3 :> 2) @@ (d4 :> 3)

(***************************************************************************)
(* Side by side                                                            *)
(***************************************************************************)
MCInit == half \in {"reassembly", "routing"} /\ Init /\ FragInit

MCNext ==
    /\ \/ half = "reassembly" /\ FragNext /\ UNCHANGED vars
       \/ half = "routing" /\ Next /\ UNCHANGED fvars
    /\ UNCHANGED half

MCSpec ==
    /\ MCInit /\ [][MCNext]_<<vars, fvars, half>>
    /\ InputGoesOn
    /\ TimersFire
=============================================================================
