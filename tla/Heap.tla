-------------------------------- MODULE Heap --------------------------------
(***************************************************************************)
(* What KRmalloc, KRfree and KRrealloc promise to the clients of GlueSTiK: *)
(* blocks lie in the pool and apart from each other, a block stays as it   *)
(* is until its owner gives it back or asks for another size, and nothing  *)
(* is promised about where a block comes from.                             *)
(***************************************************************************)
EXTENDS Integers

CONSTANT PoolSize   \* units of the pool

VARIABLE live       \* the lengths of the blocks clients hold, by their addresses

Pool == 0 .. PoolSize

Units(p, n) == p .. p + n - 1

\* The n units at p are in the pool and meet none of the blocks in b.
Room(b, p, n) ==
    /\ p + n <= PoolSize
    /\ \A o \in DOMAIN b : Units(p, n) \cap Units(o, b[o]) = {}

\* The blocks b with one of n units at p besides
With(b, p, n) == [o \in DOMAIN b \cup {p} |-> IF o = p THEN n ELSE b[o]]

Without(b, p) == [o \in DOMAIN b \ {p} |-> b[o]]

Init == live = [p \in {} |-> 0]

\* A new block, anywhere
Malloc ==
    \E p \in DOMAIN live' \ DOMAIN live :
        /\ p \in Pool /\ live'[p] \in Pool \ {0}
        /\ Room(live, p, live'[p])
        /\ live' = With(live, p, live'[p])

Free == \E p \in DOMAIN live : live' = Without(live, p)

\* The block may grow or shrink where it is, or move.
Realloc ==
    \E p \in DOMAIN live, r \in Pool, n \in Pool \ {0} :
        /\ live' = With(Without(live, p), r, n)
        /\ Room(Without(live, p), r, n)

Next == Malloc \/ Free \/ Realloc

Spec == Init /\ [][Next]_live
=============================================================================
