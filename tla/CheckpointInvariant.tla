------------------------- MODULE CheckpointInvariant -------------------------
(***************************************************************************)
(* The inductive invariant behind the crash recovery of the checkpoint     *)
(* controller, in named parts.  It holds when the save of CleanCheckpoint  *)
(* does not fail.                                                          *)
(***************************************************************************)
EXTENDS CheckpointController

\* The last saved checkpoint and the last checkpoint.
SavedCk == checkpoints[savedCheckpoints]
LastCk == checkpoints[Len(checkpoints)]
StoreCk == store.checkpoints[Len(store.checkpoints)]

\* The checkpoints of a list go up, and each has the blocks of the earlier ones.
OneFork(cks) ==
    \A i, j \in DOMAIN cks : i < j =>
        /\ cks[i].num < cks[j].num
        /\ cks[i].blocks = BlocksUpTo(cks[j].blocks, cks[i].num)

\* A list of checkpoints that a run can build on; none has blocks after its own.
GoodList(cks) ==
    /\ OneFork(cks)
    /\ \A i \in DOMAIN cks : cks[i].blocks = BlocksUpTo(cks[i].blocks, cks[i].num)

\* There are at least as many checkpoints as saved ones; while one is being
\* saved there is one more.
CountsFit ==
    /\ savedCheckpoints <= Len(checkpoints)
    /\ op # "idle" => savedCheckpoints < Len(checkpoints) /\ Live /\ ~stopped

\* A list that was written is never ahead of the saved checkpoints, and has
\* their blocks.
Behind(cks) ==
    cks # <<>> =>
        /\ savedCheckpoints > 0
        /\ cks[Len(cks)].num <= SavedCk.num
        /\ cks[Len(cks)].blocks = BlocksUpTo(SavedCk.blocks, cks[Len(cks)].num)

\* What the store holds, and what SaveError may write to it again.
WrittenGood == GoodList(store.checkpoints) /\ GoodList(chainState.checkpoints)
StoreBehind == Behind(store.checkpoints) /\ Behind(chainState.checkpoints)

Empty(r, m) == \A v \in Fork : r[m][v] = 0

\* Up to the last saved checkpoint everything is written and nothing cached.
SavedIsWritten ==
    savedCheckpoints > 0 => \A s \in Stores :
        /\ Exact(s, rows[s], SavedCk.blocks, SavedCk.num)
        /\ \A m \in 0..SavedCk.num : Empty(cached[s], m)

\* The data stores whose commit is behind when `op` is the next call.
Committed ==
    Stores \cap (CASE op = "entity" -> {"timeSeries"}
                   [] op = "webhook" -> {"timeSeries", "entity"}
                   [] op \in {"usage", "save"} -> {"timeSeries", "entity", "webhook"}
                   [] OTHER -> {})

CommittedIsWritten ==
    \A s \in Committed : \A m \in 0..Cur.num : Empty(cached[s], m)

\* The checkpoints lie behind the blocks of the run, made of them.
RunExtends ==
    phase \in {"starting", "running", "failing"} =>
        /\ cursor <= fetched
        /\ \A i \in DOMAIN checkpoints :
              checkpoints[i].num < cursor /\ checkpoints[i].blocks = BlocksUpTo(lin, checkpoints[i].num)

\* Nothing of block m is left in data store s from an earlier run.
Fresh(s, m) == s # "webhook" => Empty(rows[s], m)

\* What a reset has cleaned is clean.
ResetIsClean ==
    phase = "starting" =>
        /\ cursor = LatestNum(checkpoints) + 1 /\ fetched = cursor
        /\ \A m \in Block : ins[m] = {}
        /\ \A s \in resetDone : \A m \in cursor..MaxBlock : Fresh(s, m) /\ Empty(cached[s], m)

\* Ahead of the checkpoints of a run that accepts checkpoints there is exactly
\* what its tasks have written.
AheadIsOwn ==
    Live /\ ~stopped =>
        /\ cursor = LatestNum(checkpoints) + 1
        /\ \A m \in fetched..MaxBlock : ins[m] = {}
        /\ \A s \in Stores : \A m \in cursor..MaxBlock :
              /\ Fresh(s, m)
              /\ \A v \in Fork : cached[s][m][v] = IF s \in ins[m] /\ v = lin[m] THEN 1 ELSE 0

\* The inductive invariant of crash recovery: all of the above.
IInv ==
    /\ DataOK
    /\ GoodList(checkpoints) /\ WrittenGood
    /\ CountsFit
    /\ StoreBehind
    /\ SavedIsWritten
    /\ NoRowLostOrDoubled
    /\ CommittedIsWritten
    /\ RunExtends
    /\ ResetIsClean
    /\ AheadIsOwn

\* A step of the form A preserves the invariant.
Keeps(A) == IInv /\ A => IInv'
=============================================================================
