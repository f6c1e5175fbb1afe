--------------------------- MODULE MCBlockBuilder ---------------------------
(* Chains that part from each other at the second and at the fourth block. *)
EXTENDS BlockBuilder

Chains == {<<0, 0, 0, 0, 0, 0>>, <<0, 1, 1, 1, 1, 1>>, <<0, 0, 0, 2, 2, 2>>}
NotThird == {0, 1, 2, 4, 5}
=============================================================================
