---------------------------- MODULE MCOrderedMap ----------------------------
(* Tasks with no, one and two products. *)
EXTENDS OrderedMap

FewProducts == [t \in Task |-> CASE t = 2 -> 2 [] t = 3 -> 0 [] OTHER -> 1]
=============================================================================
