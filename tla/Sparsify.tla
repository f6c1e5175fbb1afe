------------------------------ MODULE Sparsify ------------------------------
(***************************************************************************)
(* common/sparsify: a list of numbered items is thinned out so that its    *)
(* length stays logarithmic: the farther from the last item, the wider the *)
(* gaps.  The block builder thins its headers after every block, the       *)
(* checkpoint controller its saved checkpoints.                            *)
(***************************************************************************)
EXTENDS Integers, Sequences, FiniteSetsExt

\* Mutant: the gaps do not get wider.
FartherSame(distance) == distance

Farther(distance) == 2 * distance

\* Mutant: the distance is measured to the neighbour that is removed.
ReachesNeighbour(nums, p, distance) ==
    Min({p - 1} \cup {q \in 1 .. (p - 2) : nums[p] - nums[q + 1] <= distance})

\* The item that is kept before item p: the first one within the distance.
Reaches(nums, p, distance) ==
    Min({p - 1} \cup {q \in 1 .. (p - 2) : nums[p] - nums[q] <= distance})

\* The indexes that are kept, in order.
RECURSIVE KeptFrom(_, _, _)
KeptFrom(nums, p, distance) ==
    IF p <= 2 THEN [i \in 1 .. p |-> i]
    ELSE Append(KeptFrom(nums, Reaches(nums, p, distance), Farther(distance)), p)

\* RemoveByIndex with the indexes Remove has collected.
Thinned(list, nums) ==
    LET kept == KeptFrom(nums, Len(nums), 1)
    IN  [i \in DOMAIN kept |-> list[kept[i]]]
=============================================================================
