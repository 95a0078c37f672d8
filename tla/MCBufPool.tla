----------------------------- MODULE MCBufPool -----------------------------
(***************************************************************************)
(* A pool of at most two blocks of 8 units in three size classes: 8, 4, 2. *)
(***************************************************************************)
EXTENDS BufPool

MCBufSize == [b \in 0 .. NSplit |-> BlockSize \div (2 ^ b)]
MCBases == {0, BlockSize}
=============================================================================
