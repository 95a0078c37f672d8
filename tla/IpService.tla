----------------------------- MODULE IpService -----------------------------
(***************************************************************************)
(* What IP promises to the protocols above it: a datagram may be lost,     *)
(* come twice and come late, but what comes is as long as one that was     *)
(* sent and has every byte at its place.  Bytes of several datagrams may   *)
(* be spliced, if these were sent under one identification (the 16 bit id  *)
(* and the source address): the checksum of the protocol above has to tell.*)
(***************************************************************************)
EXTENDS Naturals, Sequences

CONSTANTS
    Dgrams,  \* datagrams that may be sent
    Key,     \* their identifications
    Size,    \* their lengths, in units of eight bytes
    None     \* nothing has come

VARIABLES
    sent,    \* datagrams sent so far
    got      \* datagrams, one for every unit that came, or None

\* What may come: the last unit says where the datagram ends.
Splices(S) ==
    UNION {{s \in [1 .. Size[last] -> S] :
              /\ s[Size[last]] = last
              /\ \A i \in 1 .. Size[last] :
                    Key[s[i]] = Key[last] /\ i <= Size[s[i]]} : last \in S}

Init == sent = {} /\ got = None

Send == /\ \E d \in Dgrams : sent' = sent \cup {d}
        /\ got' = None

Deliver == /\ got' \in {None} \cup Splices(sent)
           /\ UNCHANGED sent

Spec == Init /\ [][Send \/ Deliver]_<<sent, got>>
=============================================================================
