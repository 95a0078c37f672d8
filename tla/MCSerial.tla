------------------------------ MODULE MCSerial ------------------------------
(* Instances of Serial for TLC.                                            *)
EXTENDS Serial

MCPackets ==
    [slip |-> {[proto |-> "ip", info |-> <<END, ESC, ESC, 120>>],
               [proto |-> "ip", info |-> <<ESC_END, 120, ESC_ESC>>]},
     ppp  |-> {[proto |-> "ip", info |-> <<FLAG, 17>>],
               [proto |-> "lcp", info |-> <<94, PPP_ESC>>]}]

MCMaxPackets == [slip |-> 3, ppp |-> 2]

\* The first one is refused.
MCXmaps == {{17, 94}, {17, 200}}
=============================================================================
