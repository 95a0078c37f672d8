------------------------------ MODULE MCClients ------------------------------
(***************************************************************************)
(* Two libraries of client programs side by side, the memory pool of       *)
(* GlueSTiK (GsMem) and the resolver (Resolver): they share no state, and  *)
(* half says which of them runs.                                           *)
(***************************************************************************)
EXTENDS GsMem, Resolver

VARIABLE half

MCRecords ==
    {<<"HOST_NOT_FOUND", "HOST_NOT_FOUND", "HOST_NOT_FOUND">>,
     <<"HOST_NOT_FOUND", "NOERROR", "HOST_NOT_FOUND">>,
     <<"NO_DATA", "HOST_NOT_FOUND", "NOERROR">>,
     <<"TRY_AGAIN", "NOERROR", "NO_DATA">>}

\* Some applications keep the socket of the resolver open.
MCBegin == {{}, {"STAYOPEN"}}

MCInit ==
    /\ Init /\ ResolverInit
    /\ \/ half = "pool" /\ options = {} /\ records = CHOOSE r \in Records : TRUE
       \/ half = "resolver"

MCNext ==
    /\ \/ half = "pool" /\ Next /\ UNCHANGED rvars
       \/ half = "resolver" /\ ResolverNext /\ UNCHANGED vars
    /\ UNCHANGED half

MCSpec == MCInit /\ [][MCNext]_<<vars, rvars, half>> /\ Fairness
=============================================================================
