------------------------------ MODULE ChainSync ------------------------------
(***************************************************************************)
(* Sync (chain/chain/operation.go) copies the newest slots of a source     *)
(* chain, which grows and is reorganised meanwhile, to a stored copy, cuts *)
(* the old head off, and looks for the fork point when a link does not     *)
(* fit.  Only Sync changes the copy.                                       *)
(***************************************************************************)
EXTENDS SlotDimension

CONSTANTS
    SrcFirst,       \* the first slot of the source
    FirstLen,       \* slots of the source chain at the start
    DstTargetLen, DstLeftAlign,
    MaxReorg        \* bound: reorganisations of the source

ASSUME SyncAssumption ==
    /\ MaxNum \in Nat /\ SrcFirst \in Nat /\ FirstLen \in 0 .. (MaxNum + 1)
    /\ DstTargetLen \in Nat /\ DstLeftAlign \in Nat \ {0}
    /\ Saver # {} /\ Branch # {}

VARIABLES
    src,            \* the source chain: its highest slot
    sync,           \* "round", "save", "cut", "trace", "clean", "panic", "down"
    position,       \* where the fork point is looked for
    reorgs,
    panicked        \* history: a fork was found below a range from 0

vars == <<dVars, src, sync, position, reorgs, panicked>>
sVars == <<src, reorgs>>

S == CHOOSE s \in Saver : TRUE

SlotAt(n) == IF n >= SrcFirst /\ n < Len(src) THEN SubSeq(src, 1, n + 1) ELSE NoSlot
SrcRange == SrcFirst .. (Len(src) - 1)

Init ==
    /\ DInit
    /\ src \in [1 .. FirstLen -> {CHOOSE b \in Branch : TRUE}]
    /\ sync = "round" /\ position = 0 /\ reorgs = 0 /\ panicked = FALSE

-----------------------------------------------------------------------------
(* The source, external: the last slot of all is final.                    *)

Grow ==
    /\ Len(src) <= MaxNum
    /\ \E b \in Branch : src' = Append(src, b)
    /\ UNCHANGED <<dVars, sync, position, reorgs, panicked>>

\* The slots after the first keep are replaced by at least one other.
Reorg ==
    /\ reorgs < MaxReorg /\ reorgs' = reorgs + 1
    /\ Len(src) <= MaxNum
    /\ \E keep \in 1 .. (Len(src) - 1), b \in Branch :
          /\ b # src[keep + 1]
          /\ src' = Append(SubSeq(src, 1, keep), b)
    /\ UNCHANGED <<dVars, sync, position, panicked>>

-----------------------------------------------------------------------------
(* One round.                                                              *)

SyncRange == IF Current = {} THEN SrcRange ELSE LastRun(SrcRange \ Current)

Round ==
    /\ sync = "round"
    /\ SrcRange # {} /\ ~Far(Current, SrcRange)
    /\ Current # {} => Max(SrcRange) > Max(Current)
    /\ \E new \in SaveStarts(SyncRange) : save' = [save EXCEPT ![S] = new]
    /\ sync' = "save"
    /\ UNCHANGED <<rows, range, current, deleting, failures, crashes, sVars, position, panicked>>

Save ==
    /\ sync = "save"
    /\ SaveSteps(S) \/ SaveReceives(S, SlotAt(save[S].next))
    /\ UNCHANGED <<sVars, sync, position, panicked>>

\* Mutant: one slot too few is kept.
CutLeftOneMore(hi) == ((hi + 2 - DstTargetLen) \div DstLeftAlign) * DstLeftAlign

CutLeft(hi) == ((hi + 1 - DstTargetLen) \div DstLeftAlign) * DstLeftAlign

\* The copy has succeeded: the head is cut when it has become too long.
\* (The range of a destination that was empty counts as empty here.)
SaveSucceeds ==
    LET lo == save[S].seed
        hi == Max(save[S].interval)
        hadRange == lo < Min(save[S].interval)
    IN
    /\ sync = "save" /\ SaveOver(S) /\ save[S].err = "nil"
    /\ save' = [save EXCEPT ![S] = NoSave]
    /\ IF DstTargetLen > 0 /\ hadRange /\ hi - lo + 1 > DstTargetLen /\ CutLeft(hi) > 0
       THEN sync' = "cut" /\ DeleteBegins(0 .. (CutLeft(hi) - 1))
       ELSE sync' = "round" /\ UNCHANGED deleting
    /\ UNCHANGED <<rows, range, current, failures, crashes, sVars, position, panicked>>

SaveFailed ==
    /\ sync = "save" /\ save[S].err # "nil"
    /\ save' = [save EXCEPT ![S] = NoSave]
    /\ IF save[S].err # "link" THEN sync' = "round" /\ UNCHANGED <<position, panicked>>
       ELSE IF Min(save[S].interval) = 0 THEN sync' = "panic" /\ panicked' = TRUE /\ UNCHANGED position
       ELSE sync' = "trace" /\ position' = Min(save[S].interval) - 1 /\ UNCHANGED panicked
    /\ UNCHANGED <<rows, range, current, deleting, failures, crashes, sVars>>

-----------------------------------------------------------------------------
(* traceForkPoint, one number at a time, and the deletion from there.      *)


ForkStart(p) == p

\* Where the fork starts, given both slots at p, or NotYet.
NotYet == -1
ForkPoint(p, db, sb) ==
    IF db = NoSlot \/ sb = NoSlot THEN ForkStart(p)
    ELSE IF sb = db THEN p + 1
    ELSE IF p = 0 \/ Parent(sb) = Parent(db) THEN ForkStart(p)
    ELSE NotYet

Headers(p) == IF rows[p] = <<>> THEN {NoSlot} ELSE {rows[p][i] : i \in DOMAIN rows[p]}

Trace ==
    /\ sync = "trace"
    /\ \/ \E db \in Headers(position) :
             LET fork == ForkPoint(position, db, SlotAt(position)) IN
             /\ IF fork = NotYet
                THEN position' = position - 1 /\ UNCHANGED <<sync, deleting>>
                ELSE sync' = "clean" /\ DeleteBegins(fork .. MaxNum) /\ UNCHANGED position
             /\ UNCHANGED failures
       \/ Fails /\ sync' = "round" /\ UNCHANGED <<position, deleting>>
    /\ UNCHANGED <<rows, range, current, save, crashes, sVars, panicked>>

Delete ==
    /\ sync \in {"cut", "clean"}
    /\ DeleteRange \/ DeleteRows
    /\ UNCHANGED <<sVars, sync, position, panicked>>

DeleteOver ==
    /\ sync \in {"cut", "clean"} /\ deleting.at = "over"
    /\ sync' = "round" /\ deleting' = NoDelete
    /\ UNCHANGED <<rows, range, current, save, failures, crashes, sVars, position, panicked>>

-----------------------------------------------------------------------------
Crash ==
    /\ sync \notin {"panic", "down"} /\ DCrash /\ sync' = "down"
    /\ UNCHANGED <<sVars, position, panicked>>

\* The process ends with a panic.
Panic ==
    /\ sync = "panic" /\ sync' = "down"
    /\ save' = [s \in Saver |-> NoSave] /\ deleting' = NoDelete /\ current' = Unread
    /\ UNCHANGED <<rows, range, failures, crashes, sVars, position, panicked>>

Restart ==
    /\ sync = "down" /\ DimensionInit /\ sync' = "round"
    /\ UNCHANGED <<sVars, position, panicked>>

Steps ==
    Round \/ Save \/ SaveSucceeds \/ SaveFailed \/ Trace \/ Delete \/ DeleteOver \/ Panic \/ Restart

Next == Grow \/ Reorg \/ Steps \/ Crash

\* The first slot of a Save is inserted, or its batch is reported: no order in
\* which the workers finish repeats itself for ever.
FirstInserted ==
    /\ sync = "save"
    /\ \E b \in save[S].loaded : Number(b) = save[S].seed /\ SaveInserts(S, b)
    /\ UNCHANGED <<sVars, sync, position, panicked>>
FirstReported ==
    /\ sync = "save" /\ SaveReports(S, save[S].seed)
    /\ UNCHANGED <<sVars, sync, position, panicked>>

\* The source goes on, and so does Sync; calls fail only finitely often.
Spec == Init /\ [][Next]_vars /\ WF_vars(Grow) /\ WF_vars(Steps)
             /\ SF_vars(FirstInserted) /\ SF_vars(FirstReported)

-----------------------------------------------------------------------------
\* What the range promises changes only as StoredChain says, through failing
\* calls, crashes and reorganisations: Save streams slots it has compared with
\* the one before and extends the range behind them, Delete takes slots out of
\* the range before it touches their rows.  It assumes that a range update
\* which reports failure was not stored (MayLoseAnswer = FALSE).
Promise == INSTANCE StoredChain WITH view <- [n \in range |-> rows[n]]

ImplementsStoredChain == Promise!Spec

\* Cutting the head off leaves at least DstTargetLen slots.
TargetLenKept ==
    [][sync = "cut" /\ range' # range => Cardinality(range') >= DstTargetLen]_vars


\* RangeStore.Update takes an infinite range for an error of its caller.
NoInfiniteRange == \A s \in Saver : save[s].err # "infinite"

\* The panic in Sync: no fork is found while a range from 0 is copied.
ForkNeverAtZero == ~panicked
=============================================================================
