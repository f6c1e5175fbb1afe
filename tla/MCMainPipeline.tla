--------------------------- MODULE MCMainPipeline ---------------------------
(* Blocks without data, without tasks, and with one and two tasks. *)
EXTENDS MainPipeline

Tasks == [b \in First .. (Last + 1) |-> CASE b = 1 -> 2 [] b = 2 -> 0 [] b > Last -> 0 [] OTHER -> 1]
WithoutSecond == {b \in First .. Last : b # 2}
=============================================================================
