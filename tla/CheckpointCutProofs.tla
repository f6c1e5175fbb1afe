----------------------- MODULE CheckpointCutProofs -----------------------
(***************************************************************************)
(* The inductive invariant is kept by the steps that drop checkpoints and  *)
(* by the commits of a save.                                               *)
(***************************************************************************)
EXTENDS CheckpointLemmas

\* A leaf that names no backend is proved by Zenon; those that need arithmetic
\* or extensionality name the SMT solver.
USE ZenonT(30) DEF storeVars, runVars

(***************************************************************************)
(* Steps that cut the list of checkpoints: CleanCheckpoint and the rollback*)
(* of a failed save.                                                       *)
(***************************************************************************)

\* The first k checkpoints of a good list lie below and on the fork of each
\* later one.
LEMMA Earlier ==
    ASSUME IInv, NEW i \in 1..Len(checkpoints), NEW j \in 1..Len(checkpoints), i <= j
    PROVE  /\ checkpoints[i].num \in Block /\ checkpoints[j].num \in Block
           /\ checkpoints[i].num <= checkpoints[j].num
           /\ checkpoints[i].blocks = BlocksUpTo(checkpoints[j].blocks, checkpoints[i].num)
<1>1. checkpoints[i].num \in Block /\ checkpoints[j].num \in Block
  BY CkNums
<1>2. CASE i = j
  BY SMTT(30), <1>1, <1>2, CkNums DEF IInv, GoodList, Block
<1>3. CASE i < j
  BY SMTT(30), <1>1, <1>3, CkNums DEF IInv, GoodList, OneFork, Block
<1> QED  BY SMTT(30), <1>1, <1>2, <1>3, CkTypes

LEMMA CutLists ==
    ASSUME IInv, NEW k \in 0..Len(checkpoints), checkpoints' = SubSeq(checkpoints, 1, k)
    PROVE  /\ checkpoints' \in Seq(Checkpoint) /\ Len(checkpoints') = k
           /\ \A i \in 1..k : checkpoints'[i] = checkpoints[i]
           /\ DOMAIN checkpoints' = 1..k
           /\ GoodList(checkpoints)'
           /\ checkpoints' # <<>> <=> k > 0
<1>1. checkpoints \in Seq(Checkpoint) /\ GoodList(checkpoints)
  BY DEF IInv, DataOK
<1>2. /\ checkpoints' \in Seq(Checkpoint) /\ Len(checkpoints') = k
      /\ \A i \in 1..k : checkpoints'[i] = checkpoints[i]
      /\ GoodList(checkpoints')
  BY <1>1, Prefix
<1> QED  BY <1>2, SeqLen, SeqEmpty

\* The parts of the invariant about the run, when the list is cut and the
\* controller has stopped.
LEMMA CutRun ==
    ASSUME IInv, NEW k \in 0..Len(checkpoints), checkpoints' = SubSeq(checkpoints, 1, k),
           Live, stopped' = TRUE, phase' = "failing", op' = "idle",
           savedCheckpoints' = IF k < savedCheckpoints THEN k ELSE savedCheckpoints,
           UNCHANGED walkVars
    PROVE  CountsFit' /\ CommittedIsWritten' /\ RunExtends' /\ ResetIsClean' /\ AheadIsOwn'
<1>1. CountsFit'
  <2>1. Len(checkpoints') = k /\ savedCheckpoints \in Nat /\ k \in Nat
    BY SMTT(30), CutLists, CkTypes
  <2> QED  BY SMTT(30), <2>1 DEF CountsFit
<1>2. RunExtends'
  <2>1. /\ Len(checkpoints) \in Nat /\ DOMAIN checkpoints = 1..Len(checkpoints)
        /\ DOMAIN checkpoints' = 1..k /\ \A i \in 1..k : checkpoints'[i] = checkpoints[i]
    BY CutLists, CkTypes, CkNums
  <2>2. \A i \in 1..k : i \in DOMAIN checkpoints
    BY SMTT(30), <2>1
  <2> QED  BY <2>1, <2>2 DEF IInv, RunExtends, Live, walkVars
<1>3. ResetIsClean' /\ AheadIsOwn'
  BY DEF ResetIsClean, AheadIsOwn
<1> QED  BY <1>1, <1>2, <1>3, SameCommitted

\* What is known of an earlier saved checkpoint.
LEMMA SavedEarlier ==
    ASSUME IInv, NEW j \in 1..savedCheckpoints, NEW s \in Stores
    PROVE  /\ Exact(s, rows[s], checkpoints[j].blocks, checkpoints[j].num)
           /\ \A m \in 0..checkpoints[j].num : Empty(cached[s], m)
<1>1. /\ savedCheckpoints \in Nat /\ Len(checkpoints) \in Nat /\ savedCheckpoints > 0
      /\ j \in 1..Len(checkpoints) /\ savedCheckpoints \in 1..Len(checkpoints) /\ j <= savedCheckpoints
  BY SMTT(30), CkTypes
<1>2. /\ checkpoints[j].num \in Block /\ SavedCk.num \in Block
      /\ checkpoints[j].num <= SavedCk.num
      /\ checkpoints[j].blocks = BlocksUpTo(SavedCk.blocks, checkpoints[j].num)
  BY <1>1, Earlier DEF SavedCk
<1>3. Exact(s, rows[s], SavedCk.blocks, SavedCk.num) /\ \A m \in 0..SavedCk.num : Empty(cached[s], m)
  BY <1>1 DEF IInv, SavedIsWritten
<1>4. \A m \in 0..checkpoints[j].num : m \in 0..SavedCk.num
  BY SMTT(30), <1>2 DEF Block
<1> QED  BY <1>2, <1>3, <1>4, ExactBelow

LEMMA CleanStep ==
    "clean" \notin Failures => \A v \in Fork : \A ge \in Block : Keeps(CleanCheckpoint(v, ge))
<1> SUFFICES ASSUME "clean" \notin Failures, NEW v \in Fork, NEW ge \in Block,
                    IInv, CleanCheckpoint(v, ge)
             PROVE  IInv'
  BY DEF Keeps
<1>1. PICK k \in 0..Len(checkpoints) : CleanSucceeds(k) \/ CleanFails(k)
  BY DEF CleanCheckpoint
<1>2. /\ CleanMemory(k) /\ store' = CleanStore(k) /\ NoFailure
      /\ chainState' = IF CleanSaves(k) THEN CleanStore(k) ELSE chainState
      /\ Live /\ op = "idle" /\ stopped' = TRUE /\ FailsWith("internal")
      /\ UNCHANGED <<chainVars, dataVars, walkVars, op, crashes>>
  BY <1>1 DEF CleanCheckpoint, CleanSucceeds, CleanFails, Fails
<1>3. /\ checkpoints' = SubSeq(checkpoints, 1, k)
      /\ savedCheckpoints' = IF k < savedCheckpoints THEN k ELSE savedCheckpoints
  BY <1>2 DEF CleanMemory
<1>4. /\ Len(checkpoints) \in Nat /\ savedCheckpoints \in 0..Len(checkpoints)
      /\ savedCheckpoints' \in 0..Len(checkpoints) /\ savedCheckpoints' <= k
      /\ savedCheckpoints' <= savedCheckpoints /\ k \in Nat
  BY SMTT(30), <1>1, <1>3, CkTypes DEF IInv, CountsFit
<1>5. CountsFit' /\ CommittedIsWritten' /\ RunExtends' /\ ResetIsClean' /\ AheadIsOwn'
  BY <1>1, <1>2, <1>3, CutRun DEF FailsWith
<1>6. /\ \/ k = 0 /\ store'.checkpoints = <<>>
         \/ k < savedCheckpoints /\ store'.checkpoints = checkpoints'
         \/ ~(k < savedCheckpoints) /\ store' = store
      /\ \/ k = 0 /\ chainState'.checkpoints = <<>>
         \/ k < savedCheckpoints /\ chainState'.checkpoints = checkpoints'
         \/ ~(k < savedCheckpoints) /\ chainState' = chainState
  BY SMTT(30), <1>2, <1>3 DEF CleanStore, CleanSaves, NothingSaved, Saved
<1>7. GoodList(checkpoints)' /\ WrittenGood'
  <2>1. GoodList(<<>>)
    BY SMTT(30) DEF GoodList, OneFork
  <2>2. GoodList(checkpoints') /\ GoodList(store.checkpoints) /\ GoodList(chainState.checkpoints)
    BY <1>1, <1>3, CutLists DEF IInv, WrittenGood
  <2>3. GoodList(store'.checkpoints) /\ GoodList(chainState'.checkpoints)
    BY <1>6, <2>1, <2>2
  <2> QED  BY <2>2, <2>3 DEF WrittenGood
<1>8. DataOK'
  <2>1. /\ checkpoints' \in Seq(Checkpoint) /\ <<>> \in Seq(Checkpoint)
        /\ store.checkpoints \in Seq(Checkpoint) /\ chainState.checkpoints \in Seq(Checkpoint)
    BY <1>1, <1>3, CutLists, SeqEmpty DEF IInv, DataOK
  <2>2. store'.checkpoints \in Seq(Checkpoint) /\ chainState'.checkpoints \in Seq(Checkpoint)
    BY <1>6, <2>1
  <2>3. savedCheckpoints' \in Nat
    BY SMTT(30), <1>4
  <2> QED  BY <1>2, <2>1, <2>2, <2>3 DEF IInv, DataOK, FailsWith, NoFailure, chainVars, dataVars, walkVars
<1>9. \A i \in 1..k : checkpoints'[i] = checkpoints[i] /\ i \in 1..Len(checkpoints)
  BY SMTT(30), <1>1, <1>3, <1>4, CutLists
<1>10. StoreBehind'
  <2> SUFFICES ASSUME NEW old, NEW new, Behind(old), new # <<>>,
                      \/ k = 0 /\ new = <<>>
                      \/ k < savedCheckpoints /\ new = checkpoints'
                      \/ ~(k < savedCheckpoints) /\ new = old
               PROVE  /\ savedCheckpoints' > 0
                      /\ new[Len(new)].num <= SavedCk'.num
                      /\ new[Len(new)].blocks = BlocksUpTo(SavedCk'.blocks, new[Len(new)].num)
    <3>1. Behind(store.checkpoints) /\ Behind(chainState.checkpoints)
      BY DEF IInv, StoreBehind
    <3> HIDE DEF storeVars, runVars
    <3> QED  BY <1>6, <3>1 DEF StoreBehind, Behind
  <2>1. CASE k < savedCheckpoints /\ new = checkpoints'
    <3>1. savedCheckpoints' = k /\ Len(checkpoints') = k /\ k > 0
      BY SMTT(30), <2>1, <1>1, <1>3, <1>4, CutLists
    <3>2. k \in 1..Len(checkpoints) /\ k \in 1..k
      BY SMTT(30), <1>1, <1>4, <3>1
    <3>3. new[Len(new)] = checkpoints[k] /\ SavedCk' = checkpoints[k]
      BY <2>1, <3>1, <3>2, <1>9 DEF SavedCk
    <3> QED  BY SMTT(30), <3>1, <3>2, <3>3, Earlier DEF Block
  <2>2. CASE ~(k < savedCheckpoints) /\ new = old
    <3>1. savedCheckpoints' = savedCheckpoints /\ savedCheckpoints > 0
      BY <2>2, <1>3 DEF Behind
    <3>2. SavedCk' = SavedCk
      BY SMTT(30), <3>1, <1>4, <1>9, <2>2 DEF SavedCk
    <3> QED  BY <2>2, <3>1, <3>2 DEF Behind
  <2> QED  BY <2>1, <2>2
<1>11. SavedIsWritten'
  <2> SUFFICES ASSUME savedCheckpoints' > 0, NEW s \in Stores
               PROVE  /\ Exact(s, rows[s], SavedCk'.blocks, SavedCk'.num)
                      /\ \A m \in 0..SavedCk'.num : Empty(cached[s], m)
    BY <1>2 DEF SavedIsWritten, dataVars
  <2>1. savedCheckpoints' \in 1..savedCheckpoints /\ SavedCk' = checkpoints[savedCheckpoints']
    BY SMTT(30), <1>4, <1>9 DEF SavedCk
  <2> QED  BY <2>1, SavedEarlier
<1>12. NoRowLostOrDoubled'
  <2> SUFFICES ASSUME checkpoints' # <<>>, NEW s \in Stores
               PROVE  LET last == checkpoints'[Len(checkpoints')]
                      IN  Exact(s, Merge(s, rows[s], cached[s]), last.blocks, last.num)
    BY <1>2 DEF NoRowLostOrDoubled, dataVars
  <2>1. k > 0 /\ Len(checkpoints') = k /\ checkpoints'[k] = checkpoints[k]
    BY SMTT(30), <1>1, <1>3, <1>4, <1>9, CutLists
  <2>2. k \in 1..Len(checkpoints) /\ Len(checkpoints) \in 1..Len(checkpoints) /\ k <= Len(checkpoints)
    BY SMTT(30), <2>1, <1>1, <1>4
  <2>3. /\ checkpoints[k].num \in Block /\ LastCk.num \in Block /\ checkpoints[k].num <= LastCk.num
        /\ checkpoints[k].blocks = BlocksUpTo(LastCk.blocks, checkpoints[k].num)
    BY <2>2, Earlier DEF LastCk
  <2>4. Exact(s, Merge(s, rows[s], cached[s]), LastCk.blocks, LastCk.num)
    BY SMTT(30), <2>2, CkTypes DEF IInv, NoRowLostOrDoubled, LastCk
  <2> QED  BY <2>1, <2>3, <2>4, ExactBelow
<1> QED  BY <1>5, <1>7, <1>8, <1>10, <1>11, <1>12 DEF IInv

\* The rollback of a failed save: back to the saved checkpoints, whatever the
\* failed call has written of the blocks after them.
LEMMA RollbackStep ==
    ASSUME IInv, op # "idle", op' = "idle", Rollback(checkpoints, savedCheckpoints),
           NEW e \in {"user", "driver"}, FailsWith(e),
           UNCHANGED <<savedCheckpoints, storeVars, chainVars, walkVars, crashes>>,
           failures' \in 0..MaxFail, rows' \in Rows, cached' \in Rows,
           \A s \in Stores, m \in Block : savedCheckpoints > 0 /\ m <= SavedCk.num =>
              rows'[s][m] = rows[s][m] /\ cached'[s][m] = cached[s][m]
    PROVE  IInv'
<1> DEFINE k == savedCheckpoints
<1>1. /\ checkpoints' = SubSeq(checkpoints, 1, k) /\ stopped' = TRUE /\ phase' = "failing"
      /\ Live
  BY DEF Rollback, FailsWith, IInv, CountsFit
<1>2. k \in 0..Len(checkpoints) /\ Len(checkpoints) \in Nat
  BY CkTypes
<1>3. /\ checkpoints' \in Seq(Checkpoint) /\ Len(checkpoints') = k /\ GoodList(checkpoints)'
      /\ \A i \in 1..k : checkpoints'[i] = checkpoints[i]
      /\ (checkpoints' # <<>> <=> k > 0)
  BY <1>1, <1>2, CutLists
<1>4. CountsFit' /\ CommittedIsWritten' /\ RunExtends' /\ ResetIsClean' /\ AheadIsOwn'
  <2>1. k = IF k < savedCheckpoints THEN k ELSE savedCheckpoints
    OBVIOUS
  <2> QED  BY <1>1, <1>2, <2>1, CutRun
<1>5. DataOK'
  BY <1>1, <1>3 DEF IInv, DataOK, FailsWith, chainVars, walkVars
<1>6. WrittenGood'
  BY DEF IInv, WrittenGood
<1>7. k > 0 => SavedCk' = SavedCk /\ SavedCk \in Checkpoint
  BY SMTT(30), <1>2, <1>3, CkTypes DEF SavedCk
<1>8. StoreBehind'
  BY <1>7 DEF IInv, StoreBehind, Behind
<1>9. ASSUME k > 0, NEW s \in Stores
      PROVE  /\ Exact(s, rows'[s], SavedCk.blocks, SavedCk.num)
             /\ \A m \in 0..SavedCk.num : Empty(cached'[s], m)
  <2>1. \A m \in 0..SavedCk.num : rows'[s][m] = rows[s][m] /\ cached'[s][m] = cached[s][m]
    BY SMTT(30), <1>7, <1>9, ConstantsAssumption DEF Checkpoint, Block
  <2>2. Exact(s, rows[s], SavedCk.blocks, SavedCk.num) /\ \A m \in 0..SavedCk.num : Empty(cached[s], m)
    BY <1>9 DEF IInv, SavedIsWritten
  <2> QED  BY SMTT(30), <2>1, <2>2 DEF Exact, Empty
<1>10. SavedIsWritten'
  BY <1>7, <1>9 DEF SavedIsWritten
<1>11. NoRowLostOrDoubled'
  <2> SUFFICES ASSUME k > 0, NEW s \in Stores
               PROVE  Exact(s, Merge(s, rows'[s], cached'[s]), SavedCk.blocks, SavedCk.num)
    BY <1>3, <1>7 DEF NoRowLostOrDoubled, SavedCk
  <2>1. rows'[s] \in [Block -> [Fork -> Nat]] /\ cached'[s] \in [Block -> [Fork -> Nat]]
    BY DEF Rows
  <2> QED  BY <2>1, <1>7, <1>9, MergeEmpty DEF Checkpoint
<1> QED  BY <1>3, <1>4, <1>5, <1>6, <1>8, <1>10, <1>11 DEF IInv

\* A commit that fails touches no block up to the last saved checkpoint.
LEMMA CommitFailsStep == \A s \in Stores : \A written \in SUBSET Block : Keeps(CommitFails(s, written))
<1> SUFFICES ASSUME NEW s \in Stores, NEW written \in SUBSET Block, IInv, CommitFails(s, written)
             PROVE  IInv'
  BY DEF Keeps
<1> DEFINE part == [m \in Block |-> IF m <= Cur.num /\ m \in written THEN cached[s][m] ELSE NoRows[m]]
<1>1. /\ op = s /\ op' = "idle" /\ failures' \in 0..MaxFail
      /\ UNCHANGED <<savedCheckpoints, storeVars, chainVars, walkVars, crashes>>
      /\ Rollback(checkpoints, savedCheckpoints) /\ (FailsWith("user") \/ FailsWith("driver"))
      /\ rows' = [rows EXCEPT ![s] = Merge(s, rows[s], part)]
      /\ cached' = IF s = "entity" THEN [cached EXCEPT ![s] = RowsUpTo(cached[s], Cur.num)] ELSE cached
  BY SMTT(30), ConstantsAssumption DEF CommitFails, SaveTo, Fails, IInv, DataOK
<1>2. op # "idle" /\ Cur.num \in Int
  BY SMTT(30), <1>1, ConstantsAssumption, CkTypes DEF Checkpoint, Block
<1>3. /\ cached \in Rows /\ rows \in Rows /\ cached[s] \in [Block -> [Fork -> Nat]]
      /\ rows[s] \in [Block -> [Fork -> Nat]]
  BY DEF IInv, DataOK, Rows
<1>4. part \in [Block -> [Fork -> Nat]]
  BY <1>3 DEF NoRows
<1>5. rows' \in Rows
  BY <1>1, <1>3, <1>4, MergeType DEF Rows
<1>6. cached' \in Rows
  BY <1>1, <1>2, <1>3, CutType DEF Rows
<1>7. ASSUME savedCheckpoints > 0
      PROVE  SavedCk.num \in Block /\ Cur.num \in Block /\ SavedCk.num <= Cur.num
  BY SMTT(30), <1>2, <1>7, CkTypes, Earlier DEF SavedCk, Cur
<1>8. ASSUME NEW t \in Stores, NEW m \in Block, savedCheckpoints > 0, m <= SavedCk.num
      PROVE  rows'[t][m] = rows[t][m] /\ cached'[t][m] = cached[t][m]
  <2>1. CASE t # s
    BY <2>1, <1>1, <1>3 DEF Rows
  <2>2. CASE t = s
    <3>1. m \in 0..SavedCk.num /\ m <= Cur.num
      BY SMTT(30), <1>7, <1>8 DEF Block
    <3>2. Empty(cached[s], m)
      BY <1>8, <3>1 DEF IInv, SavedIsWritten
    <3>3. ASSUME NEW v \in Fork PROVE part[m][v] = 0
      BY <3>2 DEF Empty, NoRows
    <3>4. ASSUME NEW v \in Fork PROVE AddRows(s, rows[s][m][v], part[m][v]) = rows[s][m][v]
      BY SMTT(30), <3>3, <1>3 DEF AddRows
    <3>5. Merge(s, rows[s], part)[m] = [v \in Fork |-> rows[s][m][v]]
      <4> HIDE DEF part
      <4> QED  BY <3>4 DEF Merge
    <3>6. rows[s][m] = [v \in Fork |-> rows[s][m][v]]
      BY <1>3
    <3>7. rows'[s][m] = rows[s][m]
      BY <1>1, <1>3, <3>5, <3>6 DEF Rows
    <3>8. cached'[s][m] = cached[s][m]
      BY <1>1, <1>3, <3>1 DEF Rows, RowsUpTo
    <3> QED  BY <2>2, <3>7, <3>8
  <2> QED  BY <2>1, <2>2
<1> QED  BY <1>1, <1>2, <1>5, <1>6, <1>8, RollbackStep

(***************************************************************************)
(* The steps of a save that succeed.                                       *)
(***************************************************************************)

LEMMA AfterType ==
    ASSUME NEW step
    PROVE  After(step) \in {"usage"} \cup Stores
BY DEF After

\* The calls that do not touch the data.
LEMMA CallStep == Keeps(CheckOverQuota \/ SaveUsage)
<1> SUFFICES ASSUME IInv, CheckOverQuota \/ SaveUsage
             PROVE  IInv'
  BY DEF Keeps
<1> USE DEF CheckOverQuota, SaveUsage, SaveTo, NoFailure, ctlVars, dataVars, chainVars, walkVars
<1>1. DataOK'
  BY AfterType DEF IInv, DataOK
<1>2. CountsFit' /\ RunExtends' /\ ResetIsClean'
  BY SMTT(30) DEF IInv, CountsFit, RunExtends, ResetIsClean, Live
<1>3. AheadIsOwn'
  BY SMTT(30) DEF IInv, AheadIsOwn, Live, Fresh
<1>4. CommittedIsWritten'
  <2>1. Cur' = Cur
    BY DEF Cur
  <2>2. CASE CheckOverQuota
    <3>1. Committed' = {}
      BY <2>2 DEF Committed, After
    <3> QED  BY <3>1 DEF CommittedIsWritten
  <2>3. CASE SaveUsage
    <3>1. Committed' = Committed
      BY <2>3 DEF Committed
    <3> QED  BY <2>1, <3>1 DEF IInv, CommittedIsWritten
  <2> QED  BY <2>2, <2>3
<1> QED  BY <1>1, <1>2, <1>3, <1>4, SameLists, SameData DEF IInv

LEMMA CommitStep == \A s \in Stores : Keeps(Commit(s))
<1> SUFFICES ASSUME NEW s \in Stores, IInv, Commit(s)
             PROVE  IInv'
  BY DEF Keeps
<1> DEFINE n == Cur.num
<1>1. /\ op = s /\ op' = After(s) /\ failures' = failures
      /\ UNCHANGED <<chainVars, walkVars, crashes, ctlVars, storeVars, runVars>>
      /\ rows' = [rows EXCEPT ![s] = Merge(s, rows[s], RowsUpTo(cached[s], n))]
      /\ cached' = [cached EXCEPT ![s] = RowsAfter(cached[s], n)]
  BY DEF Commit, SaveTo, NoFailure, CommittedRows
<1>2. op # "idle" /\ n \in Block /\ n \in Int /\ savedCheckpoints + 1 \in 1..Len(checkpoints)
  BY SMTT(30), <1>1, ConstantsAssumption, CkTypes DEF Checkpoint, Block
<1>3. /\ cached \in Rows /\ rows \in Rows /\ cached[s] \in [Block -> [Fork -> Nat]]
      /\ rows[s] \in [Block -> [Fork -> Nat]]
  BY DEF IInv, DataOK, Rows
<1> HIDE DEF n
<1>4. /\ RowsUpTo(cached[s], n) \in [Block -> [Fork -> Nat]]
      /\ RowsAfter(cached[s], n) \in [Block -> [Fork -> Nat]]
  BY <1>2, <1>3, CutType
<1>5. rows' \in Rows /\ cached' \in Rows
  <2>1. Merge(s, rows[s], RowsUpTo(cached[s], n)) \in [Block -> [Fork -> Nat]]
    BY <1>3, <1>4, MergeType
  <2> QED  BY <1>1, <1>3, <1>4, <2>1 DEF Rows
<1>6. /\ \A t \in Stores \ {s} : cached'[t] = cached[t] /\ rows'[t] = rows[t]
      /\ cached'[s] = RowsAfter(cached[s], n)
      /\ rows'[s] = Merge(s, rows[s], RowsUpTo(cached[s], n))
  BY <1>1, <1>3 DEF Rows
<1>7. DataOK'
  BY <1>1, <1>5, AfterType DEF IInv, DataOK, chainVars, walkVars, ctlVars
<1>8. NoRowLostOrDoubled'
  <2>1. ASSUME NEW t \in Stores PROVE Merge(t, rows'[t], cached'[t]) = Merge(t, rows[t], cached[t])
    <3>1. CASE t # s
      BY <3>1, <1>6
    <3>2. CASE t = s
      BY SMTT(30), <3>2, <1>2, <1>3, <1>6, CommitMoves
    <3> QED  BY <3>1, <3>2
  <2> QED  BY <1>1, <2>1 DEF IInv, NoRowLostOrDoubled, ctlVars
<1>9. \A m \in 0..n : m \in Block /\ Empty(cached'[s], m)
  BY SMTT(30), <1>2, <1>6, ConstantsAssumption DEF Empty, RowsAfter, NoRows, Block
<1>10. SavedIsWritten'
  <2> SUFFICES ASSUME savedCheckpoints > 0, NEW t \in Stores
               PROVE  /\ Exact(t, rows'[t], SavedCk.blocks, SavedCk.num)
                      /\ \A m \in 0..SavedCk.num : Empty(cached'[t], m)
    BY <1>1 DEF SavedIsWritten, SavedCk, ctlVars
  <2>1. SavedCk.num \in Block /\ SavedCk.num <= n
    BY SMTT(30), <1>2, CkTypes, Earlier DEF SavedCk, Cur, n
  <2>2. Exact(t, rows[t], SavedCk.blocks, SavedCk.num) /\ \A m \in 0..SavedCk.num : Empty(cached[t], m)
    BY DEF IInv, SavedIsWritten
  <2>3. CASE t # s
    BY <2>2, <2>3, <1>6
  <2>4. CASE t = s
    <3>1. \A m \in 0..SavedCk.num : m \in 0..n
      BY SMTT(30), <1>2, <2>1 DEF Block
    <3>2. \A m \in 0..SavedCk.num : Empty(RowsUpTo(cached[s], n), m)
      BY SMTT(30), <1>2, <1>9, <2>2, <2>4, <3>1 DEF Empty, RowsUpTo
    <3>3. Exact(s, Merge(s, rows[s], RowsUpTo(cached[s], n)), SavedCk.blocks, SavedCk.num)
      BY <1>3, <1>4, <2>1, <2>2, <2>4, <3>2, MergeEmpty
    <3> QED  BY <1>6, <1>9, <2>4, <3>1, <3>3
  <2> QED  BY <2>3, <2>4
<1>11. CommittedIsWritten'
  <2>1. Committed' \subseteq Committed \cup {s}
    <3>1. s = "timeSeries" \/ s = "entity" \/ s = "webhook"
      BY ConstantsAssumption
    <3> QED  BY <1>1, <3>1 DEF Committed, After
  <2>2. Cur' = Cur
    BY <1>1 DEF Cur, ctlVars
  <2>3. ASSUME NEW t \in Committed, t # s, NEW m \in 0..n PROVE Empty(cached'[t], m)
    BY <2>3, <1>6 DEF IInv, CommittedIsWritten, Committed, n
  <2> QED  BY <1>9, <2>1, <2>2, <2>3 DEF CommittedIsWritten, n
<1>12. CountsFit' /\ RunExtends' /\ ResetIsClean'
  BY <1>1, <1>2 DEF IInv, CountsFit, RunExtends, ResetIsClean, Live, ctlVars, walkVars
<1>13. AheadIsOwn'
  <2>1. AheadIsOwn /\ Live /\ ~stopped
    BY <1>2 DEF IInv, CountsFit
  <2>2. n < cursor /\ cursor \in Nat
    BY SMTT(30), <1>2, <2>1, CkNums DEF IInv, DataOK, RunExtends, Live, Cur, n, Inf
  <2>3. ASSUME NEW m \in cursor..MaxBlock, NEW v \in Fork
        PROVE  rows'[s][m][v] = rows[s][m][v] /\ cached'[s][m] = cached[s][m]
    <3>1. m \in Block /\ ~(m <= n)
      BY SMTT(30), <1>2, <2>2 DEF Block
    <3>2. rows'[s][m][v] = AddRows(s, rows[s][m][v], RowsUpTo(cached[s], n)[m][v])
      BY SMTT(30), <1>6, <3>1 DEF Merge
    <3>3. RowsUpTo(cached[s], n)[m][v] = 0 /\ rows[s][m][v] \in Nat
      BY <1>3, <3>1 DEF RowsUpTo, NoRows
    <3>4. cached'[s][m] = cached[s][m]
      BY <1>6, <3>1 DEF RowsAfter
    <3>5. rows'[s][m][v] = AddRows(s, rows[s][m][v], 0)
      BY <3>2, <3>3
    <3> QED  BY SMTT(30), <3>3, <3>4, <3>5 DEF AddRows
  <2>4. ASSUME NEW t \in Stores, NEW m \in cursor..MaxBlock
        PROVE  /\ t # "webhook" => Empty(rows'[t], m)
               /\ \A v \in Fork : cached'[t][m][v] = IF t \in ins[m] /\ v = lin[m] THEN 1 ELSE 0
    <3>1. CASE t # s
      BY SMTT(30), <3>1, <1>6, <2>1 DEF AheadIsOwn, Fresh
    <3>2. CASE t = s
      BY SMTT(30), <3>2, <2>1, <2>3 DEF AheadIsOwn, Fresh, Empty
    <3> QED  BY <3>1, <3>2
  <2> QED  BY SMTT(30), <1>1, <2>1, <2>4 DEF AheadIsOwn, Fresh, ctlVars, walkVars
<1> QED  BY <1>1, <1>7, <1>8, <1>10, <1>11, <1>12, <1>13, SameLists DEF IInv, ctlVars
=============================================================================
