----------------------------- MODULE StoredChain -----------------------------
(***************************************************************************)
(* What a stored copy of a chain promises its readers: the rows of an      *)
(* interval of slot numbers, one row each, every row the parent of the     *)
(* next.  The interval grows at its upper end and loses slots at either    *)
(* end; a slot within it is never replaced, and readers never see it       *)
(* without its row.                                                        *)
(***************************************************************************)
EXTENDS Integers, Sequences, Functions, FiniteSetsExt

CONSTANT Parent(_)      \* the slot before a slot

VARIABLE view           \* the rows of every slot of the range

Interval(D) == D = {} \/ D = Min(D) .. Max(D)

IsChain(v) ==
    /\ Interval(DOMAIN v)
    /\ \A n \in DOMAIN v : Len(v[n]) = 1
    /\ \A n \in DOMAIN v : n + 1 \in DOMAIN v => v[n][1] = Parent(v[n + 1][1])

Init == view = [n \in {} |-> <<>>]

Grows ==
    /\ IsChain(view')
    /\ DOMAIN view \subseteq DOMAIN view'
    /\ Restrict(view', DOMAIN view) = view
    /\ DOMAIN view # {} => Min(DOMAIN view') = Min(DOMAIN view)

LosesHead ==
    \E n \in DOMAIN view : view' = Restrict(view, {m \in DOMAIN view : m > n})

LosesTail ==
    \E n \in DOMAIN view : view' = Restrict(view, {m \in DOMAIN view : m < n})

Next == Grows \/ LosesHead \/ LosesTail

Spec == Init /\ [][Next]_view
=============================================================================
