-------------------------------- MODULE MCVj --------------------------------
(***************************************************************************)
(* Instances of Vj for TLC.  One kind of traffic changes every field of    *)
(* one conversation on a good line; on bad lines there are more            *)
(* conversations than slots, or urgent segments.                           *)
(***************************************************************************)
EXTENDS Vj

MCTraffics ==
    {[conns |-> {"a"}, seqs |-> {0, 1, 3, W32 - 1}, acks |-> {0, 1, 3}, ids |-> {1, 2},
      wins |-> {0, 1}, urps |-> {0, 1}, lens |-> {0, 1}, cid |-> TRUE, max |-> 0, loss |-> 0]}
    \cup
    [conns : {{"a", "b", "c", "d"}}, seqs : {{0, 1}}, acks : {{0}}, ids : {{1}},
     wins : {{0}}, urps : {{0}}, lens : {{1}}, cid : {TRUE}, max : {5}, loss : {1}]
    \cup
    {[conns |-> {"a", "b"}, seqs |-> {0, 1}, acks |-> {0}, ids |-> {1},
      wins |-> {0}, urps |-> {0, 1}, lens |-> {1}, cid |-> TRUE, max |-> 4, loss |-> 1]}
=============================================================================
