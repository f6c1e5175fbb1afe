------------------------------ MODULE ChainCopy ------------------------------
(***************************************************************************)
(* Copy and Repair (chain/chain/operation.go) between two chains at rest:  *)
(* Copy fills a range of the copy from the source, on both sides of what   *)
(* is there at the same time; Repair copies again what CheckMissing finds. *)
(***************************************************************************)
EXTENDS SlotDimension

CONSTANTS
    SrcChain,       \* the source chain, its highest slot
    OldChains,      \* what the copy may have been filled from
    OldRange,       \* the range of the copy at the start
    Intervals,      \* what may be asked for
    Missing         \* rows of the copy that may be missing at the start

VARIABLES
    op,             \* "idle", "copy", "overwrite", "repair"
    asked,          \* the interval of the call
    todo,           \* Repair: missing ranges still to be copied
    result,         \* what the call has returned, or "running"
    wasLinked,      \* history: the copy was linked when the call began
    wasMissing      \* history: the slots of the range that had no row then

vars == <<dVars, op, asked, todo, result, wasLinked, wasMissing>>
oVars == <<op, asked, todo, result, wasLinked, wasMissing>>
history == <<wasLinked, wasMissing>>

SrcRange == 0 .. (Len(SrcChain) - 1)
SlotAt(n) == SubSeq(SrcChain, 1, n + 1)

NoRow == {n \in range : rows[n] = <<>>}

Runs(T) == {RunOf(T, n) : n \in T}

Init ==
    /\ \E old \in OldChains, gone \in SUBSET Missing :
          rows = [n \in Num |-> IF n \in OldRange \ gone THEN <<SubSeq(old, 1, n + 1)>> ELSE <<>>]
    /\ range = OldRange /\ current = Unread
    /\ save = [s \in Saver |-> NoSave] /\ deleting = NoDelete /\ failures = 0 /\ crashes = 0
    /\ op = "idle" /\ asked = {} /\ todo = {} /\ result = "nil"
    /\ wasLinked = RangeLinked /\ wasMissing = NoRow

Remember == wasLinked' = RangeLinked /\ wasMissing' = NoRow


-----------------------------------------------------------------------------
\* Which saver copies which run: doCopy starts one for each.
Copies(T) ==
    \E f \in [Runs(T) -> Saver] :
       /\ \A x, y \in Runs(T) : f[x] = f[y] => x = y
       /\ save' \in [Saver -> {NoSave} \cup UNION {SaveStarts(r) : r \in Runs(T)}]
       /\ \A s \in Saver : LET mine == {r \in Runs(T) : f[r] = s} IN
             save'[s] \in IF mine = {} THEN {NoSave} ELSE UNION {SaveStarts(r) : r \in mine}

\* Mutant: what is there is copied again although it must not be overwritten.
TargetAll(interval, overwrite) == SrcRange \cap interval

\* The part of the source that a Copy of the interval is to write.
Target(interval, overwrite) ==
    IF overwrite THEN SrcRange \cap interval ELSE (SrcRange \cap interval) \ Current

Copy(interval, overwrite) ==
    /\ op = "idle"
    /\ asked' = interval /\ Remember /\ UNCHANGED todo
    /\ IF SrcRange \cap interval = {} \/ Far(SrcRange \cap interval, Current)
       THEN /\ result' = IF SrcRange \cap interval = {} THEN "nil" ELSE "discontinuous"
            /\ UNCHANGED <<op, save>>
       ELSE /\ op' = IF overwrite THEN "overwrite" ELSE "copy"
            /\ result' = "running"
            /\ Copies(Target(interval, overwrite))
    /\ UNCHANGED <<rows, range, current, deleting, failures, crashes>>

Active == {s \in Saver : save[s].at # "idle"}

Save ==
    /\ \E s \in Active :
          SaveSteps(s) \/ (save[s].next \in save[s].interval /\ SaveReceives(s, SlotAt(save[s].next)))
    /\ UNCHANGED oVars

\* g.Wait: every Save is over; the first error cancels the others.
CopyOver ==
    /\ op \in {"copy", "overwrite"}
    /\ \/ \A s \in Active : SaveOver(s) /\ save[s].err = "nil"
       \/ \E s \in Active : save[s].err # "nil"
    /\ result' \in IF \A s \in Active : save[s].err = "nil" THEN {"nil"}
                   ELSE {save[s].err : s \in {t \in Active : save[t].err # "nil"}}
    /\ op' = "idle" /\ save' = [s \in Saver |-> NoSave]
    /\ UNCHANGED <<rows, range, current, deleting, failures, crashes, asked, todo, history>>

-----------------------------------------------------------------------------
\* Mutant: all of the range is copied again.
FoundMissingAll(interval) == Runs(Current \cap interval)

\* CheckMissing: the runs of slots without a row.
FoundMissing(interval) == Runs({n \in Current \cap interval : rows[n] = <<>>})

Repair(interval) ==
    /\ op = "idle" /\ op' = "repair"
    /\ asked' = interval /\ todo' = FoundMissing(interval) /\ result' = "running"
    /\ Remember /\ UNCHANGED dVars

\* Copy(repairRange, overwrite): it is within both ranges.
RepairNext ==
    /\ op = "repair" /\ Active = {} /\ todo # {}
    /\ \E r \in todo : todo' = todo \ {r} /\ Copies(r)
    /\ UNCHANGED <<rows, range, current, deleting, failures, crashes, op, asked, result, history>>

RepairStep ==
    /\ op = "repair" /\ Active # {}
    /\ \A s \in Active : SaveOver(s)
    /\ save' = [s \in Saver |-> NoSave]
    /\ IF \E s \in Active : save[s].err # "nil"
       THEN op' = "idle" /\ result' = "error"
       ELSE UNCHANGED <<op, result>>
    /\ UNCHANGED <<rows, range, current, deleting, failures, crashes, asked, todo, history>>

RepairOver ==
    /\ op = "repair" /\ Active = {} /\ todo = {}
    /\ op' = "idle" /\ result' = "nil"
    /\ UNCHANGED <<dVars, asked, todo, history>>

Crash ==
    /\ DCrash /\ op' = "down" /\ result' = "error"
    /\ UNCHANGED <<asked, todo, history>>

Restart ==
    /\ op = "down" /\ DimensionInit /\ op' = "idle"
    /\ UNCHANGED <<asked, todo, result, history>>

Next ==
    \/ \E i \in Intervals, o \in BOOLEAN : Copy(i, o)
    \/ \E i \in Intervals : Repair(i)
    \/ Save \/ CopyOver \/ RepairNext \/ RepairStep \/ RepairOver \/ Crash \/ Restart

Spec == Init /\ [][Next]_vars

-----------------------------------------------------------------------------
Holes == {n \in range : Len(rows[n]) # 1}

\* A Copy that does not overwrite makes no hole in the range, although two
\* calls of Save extend it at the same time and either may fail.
CopyMakesNoHole == op = "copy" => Holes \subseteq wasMissing

Returns(calls) == op \in calls /\ op' = "idle" /\ result' = "nil"

\* A call that returns nil has stored, in the range, every slot it was asked
\* for that the source has (Copy) or the range has (Repair).
SuccessIsComplete ==
    [][/\ Returns({"copy"}) => asked \cap SrcRange \subseteq range
       /\ Returns({"overwrite"}) => asked \cap SrcRange \subseteq range \ Holes
       /\ Returns({"repair"}) => asked \cap Holes = {}
      ]_vars

\* Repair writes nothing but slots that were missing.
RepairKeepsTheRest ==
    [][op = "repair" => \A n \in Num : rows'[n] # rows[n] => n \in wasMissing]_vars

\* Copy's comment: "If the link is not continuous after copying, it will
\* return ErrLink."
CopiedIsLinked == [][Returns({"copy"}) /\ wasLinked => RangeLinked]_vars
=============================================================================
