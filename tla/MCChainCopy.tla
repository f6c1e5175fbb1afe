----------------------------- MODULE MCChainCopy -----------------------------
(* The copy has the middle of the chain, from the same chain or a fork. *)
EXTENDS ChainCopy

Chain == <<1, 1, 1, 1, 1>>
SameOrFork == {<<1, 1, 1, 1, 1>>, <<1, 2, 1, 1, 1>>}
Middle == 2 .. 3
Wishes == {1 .. 4, 0 .. 1, 0 .. 0, 3 .. 4}
=============================================================================
