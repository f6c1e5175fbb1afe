---------------------------- MODULE SlotDimension ----------------------------
(***************************************************************************)
(* A stored copy of a chain (chain/chain/dimension_simple.go over          *)
(* chain/clickhouse): rows of slots, and the range of slots that readers   *)
(* may rely on.  Save streams slots into the rows and extends the range    *)
(* behind them, Delete shrinks the range before it touches the rows, Init  *)
(* cleans up after a crash.                                                *)
(*                                                                         *)
(* A slot is the path of choices from the first block to it: its hash is   *)
(* the path, its parent hash the path without the last choice.  A range    *)
(* is the set of its numbers.  A slot counts as inserted once all of its   *)
(* tables are; every batch is one slot, and batches finish in any order.   *)
(***************************************************************************)
EXTENDS Integers, Sequences, FiniteSets, FiniteSetsExt

CONSTANTS
    MaxNum,         \* bound: the highest slot number
    Branch,         \* choices for the next block
    Saver,          \* calls of Save that may be active
    MaxFail,        \* bound: calls to the database or the node that fail
    MaxCrash,       \* bound: crashes
    MayLoseAnswer   \* whether a range update that has reported failure may have been stored

Num == 0 .. MaxNum

VARIABLES
    rows,           \* stored: the rows of each slot number
    range,          \* stored: the last row of the range table
    current,        \* RangeStore.current, kept for good after an update, else Unread
    save,           \* the state of each Save
    deleting,       \* the state of Delete
    failures, crashes

dVars == <<rows, range, current, save, deleting, failures, crashes>>

-----------------------------------------------------------------------------
(* Ranges and links.                                                       *)

FirstRun(S) == {n \in S : Min(S) .. n \subseteq S}
LastRun(S) == {n \in S : n .. Max(S) \subseteq S}
RunOf(S, m) == {n \in S : (m .. n) \cup (n .. m) \subseteq S}
Far(A, B) == A # {} /\ B # {} /\ (Max(A) + 1 < Min(B) \/ Max(B) + 1 < Min(A))
Cover(A, B) == Min(A \cup B) .. Max(A \cup B)

Number(b) == Len(b) - 1
Parent(b) == SubSeq(b, 1, Len(b) - 1)
NoSlot == <<>>
LinkMismatch(left, b) == left # NoSlot /\ left # Parent(b)

-----------------------------------------------------------------------------
Unread == {-1}

\* RangeStore.Get: what was read from the table is valid for a second only.
Current == IF current = Unread THEN range ELSE current

NoSave == [at |-> "idle", interval |-> {}, cur |-> {}, seed |-> 0, left |-> NoSlot, next |-> 0,
           loaded |-> {}, inserted |-> {}, completed |-> {}, err |-> "nil"]
NoDelete == [at |-> "idle", target |-> {}, ok |-> TRUE]

DInit ==
    /\ rows = [n \in Num |-> <<>>] /\ range = {} /\ current = Unread
    /\ save = [s \in Saver |-> NoSave] /\ deleting = NoDelete
    /\ failures = 0 /\ crashes = 0

Fails == failures < MaxFail /\ failures' = failures + 1

\* RangeStore.Update: the stored range first, then the cached one.
SetRange(new) == range' = new /\ current' = new /\ UNCHANGED failures
SetRangeFails(new) ==
    /\ Fails /\ UNCHANGED current
    /\ range' \in IF MayLoseAnswer THEN {range, new} ELSE {range}

Without(S) == [n \in Num |-> IF n \in S THEN <<>> ELSE rows[n]]

-----------------------------------------------------------------------------
(* Save.                                                                   *)

\* Mutant: the slot before the interval is not looked at.
LeftPointNever(interval) == {NoSlot}

\* The header of the slot before the interval, when the range has it.
LeftPoint(interval) ==
    LET p == Min(interval) - 1 IN
    IF p \in Current THEN {rows[p][i] : i \in DOMAIN rows[p]} ELSE {NoSlot}

NewSave(interval, left) ==
    [NoSave EXCEPT !.at = "clean", !.interval = interval, !.cur = Current, !.left = left,
                   !.seed = Min(IF Current = {} THEN interval ELSE Current), !.next = Min(interval),
                   !.err = IF Far(Current, interval) THEN "discontinuous" ELSE "nil"]

\* What Save starts with; it fails at once when the header cannot be loaded.
SaveStarts(interval) ==
    IF LeftPoint(interval) = {} THEN {[NewSave(interval, NoSlot) EXCEPT !.err = "error"]}
    ELSE {NewSave(interval, left) : left \in LeftPoint(interval)}

Goes(s, new) == save' = [save EXCEPT ![s] = new]
SaveFails(s, err) == save' = [save EXCEPT ![s].err = IF @ = "nil" THEN err ELSE @]

\* Mutant: rows that are in the way stay.
CleanedNever(interval) == rows

Cleaned(interval) == Without(interval)

SaveCleans(s) ==
    /\ save[s].at = "clean" /\ save[s].err = "nil"
    /\ \/ rows' = Cleaned(save[s].interval) /\ Goes(s, [save[s] EXCEPT !.at = "stream"])
          /\ UNCHANGED failures
       \/ /\ \E S \in SUBSET save[s].interval : rows' = Without(S)
          /\ Fails /\ SaveFails(s, "error")
    /\ UNCHANGED <<range, current, deleting, crashes>>

\* The next slot arrives and is checked, or the node fails.
SaveReceives(s, b) ==
    /\ save[s].at = "stream" /\ save[s].err = "nil" /\ save[s].next \in save[s].interval
    /\ \/ /\ b = NoSlot
          /\ SaveFails(s, "error") /\ UNCHANGED failures
       \/ /\ b # NoSlot
          /\ IF LinkMismatch(save[s].left, b) THEN SaveFails(s, "link")
             ELSE Goes(s, [save[s] EXCEPT !.left = b, !.next = @ + 1, !.loaded = @ \cup {b}])
          /\ UNCHANGED failures
       \/ Fails /\ SaveFails(s, "error")
    /\ UNCHANGED <<rows, range, current, deleting, crashes>>

SaveInserts(s, b) ==
    /\ b \in save[s].loaded
    /\ \/ /\ rows' = [rows EXCEPT ![Number(b)] = Append(@, b)]
          /\ Goes(s, [save[s] EXCEPT !.loaded = @ \ {b}, !.inserted = @ \cup {Number(b)}])
          /\ UNCHANGED failures
       \/ Fails /\ SaveFails(s, "error") /\ UNCHANGED rows
    /\ UNCHANGED <<range, current, deleting, crashes>>

\* Mutant: what another Save has added meanwhile is lost.
NewRangeAlone(after) == after

\* Update(afterRange.Cover) under the lock of the range store.
NewRange(after) == Cover(after, Current)

\* The range updater: what is complete from the seed on, as far as it goes.
SaveReports(s, n) ==
    LET done == save[s].completed \cup {n}
        after == RunOf(done \cup save[s].cur, save[s].seed)
        new == NewRange(after)
        reported == [save[s] EXCEPT !.completed = done, !.inserted = @ \ {n}]
    IN
    /\ n \in save[s].inserted
    /\ IF save[s].seed \notin done \cup save[s].cur
       THEN \* FindContains has found nothing and returns [0,INF], which Update refuses
            /\ Goes(s, [reported EXCEPT !.err = IF @ = "nil" THEN "infinite" ELSE @])
            /\ UNCHANGED <<range, current, failures>>
       ELSE IF after = save[s].cur THEN Goes(s, reported) /\ UNCHANGED <<range, current, failures>>
       ELSE \/ SetRange(new) /\ Goes(s, [reported EXCEPT !.cur = new])
            \/ SetRangeFails(new) /\ SaveFails(s, "error")
    /\ UNCHANGED <<rows, deleting, crashes>>

SaveSteps(s) ==
    \/ SaveCleans(s)
    \/ \E b \in save[s].loaded : SaveInserts(s, b)
    \/ \E n \in save[s].inserted : SaveReports(s, n)

SaveOver(s) ==
    \/ save[s].err # "nil"
    \/ save[s].at = "stream" /\ save[s].next \notin save[s].interval
       /\ save[s].loaded = {} /\ save[s].inserted = {}

-----------------------------------------------------------------------------
(* Delete: the range first, then the rows.                                 *)

DeleteBegins(target) == deleting' = [at |-> "range", target |-> target, ok |-> TRUE]

DeleteRange ==
    LET new == FirstRun(Current \ deleting.target) IN
    /\ deleting.at = "range"
    /\ \/ SetRange(new) /\ deleting' = [deleting EXCEPT !.at = "rows"]
       \/ SetRangeFails(new) /\ deleting' = [deleting EXCEPT !.at = "over", !.ok = FALSE]
    /\ UNCHANGED <<rows, save, crashes>>

DeleteRows ==
    /\ deleting.at = "rows"
    /\ \/ rows' = Without(deleting.target) /\ deleting' = [deleting EXCEPT !.at = "over"]
          /\ UNCHANGED failures
       \/ /\ \E S \in SUBSET deleting.target : rows' = Without(S)
          /\ Fails /\ deleting' = [deleting EXCEPT !.at = "over", !.ok = FALSE]
    /\ UNCHANGED <<range, current, save, crashes>>

-----------------------------------------------------------------------------
(* A crash loses everything but rows and range; Init runs after it.        *)

DCrash ==
    /\ crashes < MaxCrash /\ crashes' = crashes + 1
    /\ save' = [s \in Saver |-> NoSave] /\ deleting' = NoDelete
    /\ current' = Unread
    /\ UNCHANGED <<rows, range, failures>>

Residue == IF Current = {} THEN Num ELSE (Max(Current) + 1) .. MaxNum

DimensionInit ==
    /\ rows' = Without(Residue)
    /\ UNCHANGED <<range, current, save, deleting, failures, crashes>>

-----------------------------------------------------------------------------
\* Every slot of the range is stored exactly once, whichever call fails and
\* whenever the process crashes: the reason Delete shrinks the range first and
\* Save cleans up first.  It assumes that a range update which reports failure
\* was not stored (MayLoseAnswer = FALSE).
RangeComplete == \A n \in range \cup Current : Len(rows[n]) = 1

\* The slots of the range form one chain.
RangeLinked ==
    \A n \in range : n + 1 \in range => \A i \in DOMAIN rows[n], j \in DOMAIN rows[n + 1] :
                                           rows[n][i] = Parent(rows[n + 1][j])

\* Delete's comment: "the data within the range may be incomplete, which is
\* unacceptable", here when the answer to a range update is lost.
NeverIncomplete == \A n \in range : rows[n] # <<>>
=============================================================================
