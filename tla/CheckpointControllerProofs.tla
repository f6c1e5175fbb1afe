-------------------- MODULE CheckpointControllerProofs --------------------
(***************************************************************************)
(* Proofs about the checkpoint controller, for any number of blocks, forks,*)
(* failures and crashes, any data stores and any template instances: the   *)
(* steps that add checkpoints and save them, and the theorems.             *)
(***************************************************************************)
EXTENDS CheckpointRunProofs, CheckpointCutProofs

\* A leaf that names no backend is proved by Zenon; those that need arithmetic
\* or extensionality name the SMT solver.
USE ZenonT(30) DEF storeVars, runVars

(***************************************************************************)
(* Adding a checkpoint, and dropping unsaved ones before a save.           *)
(***************************************************************************)

\* While the saved checkpoints stay, so does what is known of them.
LEMMA SavedStays ==
    ASSUME IInv, UNCHANGED <<savedCheckpoints, storeVars, cached, rows>>,
           \A i \in 1..savedCheckpoints : checkpoints'[i] = checkpoints[i]
    PROVE  WrittenGood' /\ StoreBehind' /\ SavedIsWritten'
<1>1. WrittenGood'
  BY DEF IInv, WrittenGood
<1>2. savedCheckpoints > 0 => SavedCk' = SavedCk
  BY SMTT(30), CkTypes DEF SavedCk
<1>3. StoreBehind'
  BY <1>2 DEF IInv, StoreBehind, Behind
<1>4. SavedIsWritten'
  BY <1>2 DEF IInv, SavedIsWritten
<1> QED  BY <1>1, <1>3, <1>4

LEMMA KeepSaveStep == \A k \in 1..Len(checkpoints) : Keeps(KeepSave(k))
<1> SUFFICES ASSUME NEW k \in 1..Len(checkpoints), IInv, KeepSave(k)
             PROVE  IInv'
  BY DEF Keeps
<1> USE DEF KeepSave, Accepting, chainVars, dataVars, walkVars, bounds
<1> DEFINE n == savedCheckpoints
<1>1. /\ checkpoints' \in Seq(Checkpoint)
      /\ Len(checkpoints') = n + 1 + Len(checkpoints) - k
      /\ \A i \in 1..n : checkpoints'[i] = checkpoints[i]
      /\ \A i \in (n + 1) .. Len(checkpoints') : checkpoints'[i] = checkpoints[i + k - 1 - n]
      /\ GoodList(checkpoints')
  BY Collapsed DEF IInv, DataOK
<1>2. Len(checkpoints) \in Nat /\ n \in Nat /\ k > n /\ k <= Len(checkpoints) /\ k \in Nat
  BY SMTT(30), CkTypes
<1>3. Len(checkpoints') \in Nat /\ n < Len(checkpoints') /\ DOMAIN checkpoints' = 1..Len(checkpoints')
  BY SMTT(30), <1>1, <1>2, SeqLen
<1>4. checkpoints'[Len(checkpoints')] = LastCk
  <2>1. Len(checkpoints') \in (n + 1) .. Len(checkpoints')
    BY SMTT(30), <1>2, <1>3
  <2>2. Len(checkpoints') + k - 1 - n = Len(checkpoints)
    BY SMTT(30), <1>1, <1>2
  <2> QED  BY <1>1, <2>1, <2>2 DEF LastCk
<1>5. \A i \in DOMAIN checkpoints' : \E j \in DOMAIN checkpoints : checkpoints'[i] = checkpoints[j]
  <2> SUFFICES ASSUME NEW i \in 1..Len(checkpoints')
               PROVE  \E j \in 1..Len(checkpoints) : checkpoints'[i] = checkpoints[j]
    BY <1>3, CkNums
  <2>1. CASE i <= n
    <3>1. i \in 1..n /\ i \in 1..Len(checkpoints)
      BY SMTT(30), <2>1, <1>2, <1>3
    <3> QED  BY <3>1, <1>1
  <2>2. CASE ~(i <= n)
    <3>1. i + k - 1 - n \in 1..Len(checkpoints) /\ i \in (n + 1) .. Len(checkpoints')
      BY SMTT(30), <2>2, <1>1, <1>2, <1>3
    <3> QED  BY <3>1, <1>1
  <2> QED  BY <2>1, <2>2
<1>6. DataOK'
  BY <1>1 DEF IInv, DataOK
<1>7. CountsFit'
  BY SMTT(30), <1>2, <1>3 DEF CountsFit, Live
<1>8. checkpoints # <<>> /\ checkpoints' # <<>> /\ LatestNum(checkpoints') = LatestNum(checkpoints)
  <2>1. checkpoints # <<>> /\ checkpoints' # <<>>
    BY SMTT(30), <1>1, <1>2, <1>3, SeqEmpty, CkTypes
  <2> QED  BY <2>1, <1>4 DEF LatestNum, LastCk
<1>9. NoRowLostOrDoubled'
  BY <1>4, <1>8 DEF IInv, NoRowLostOrDoubled, LastCk
<1>10. RunExtends'
  BY SMTT(30), <1>5 DEF IInv, RunExtends, Live
<1>11. ResetIsClean' /\ AheadIsOwn'
  BY SMTT(30), <1>8 DEF IInv, ResetIsClean, AheadIsOwn, Live, Fresh
<1>12. GoodList(checkpoints)'
  BY <1>1
<1>13. WrittenGood' /\ StoreBehind' /\ SavedIsWritten'
  BY <1>1, SavedStays
<1>14. CommittedIsWritten'
  BY SameCommitted
<1> QED  BY <1>6, <1>7, <1>9, <1>10, <1>11, <1>12, <1>13, <1>14 DEF IInv

\* The list with the new checkpoint: it continues the fork, and the rows of
\* its block are all there.
LEMMA Added ==
    ASSUME IInv, BlockDone, ~stopped
    PROVE  LET a == Append(checkpoints, NewCheckpoint) IN
           /\ a \in Seq(Checkpoint) /\ Len(a) = Len(checkpoints) + 1
           /\ \A i \in 1..Len(checkpoints) : a[i] = checkpoints[i]
           /\ a[Len(a)] = NewCheckpoint /\ NewCheckpoint \in Checkpoint
           /\ cursor \in Block
           /\ GoodList(a)
           /\ \A s \in Stores : Exact(s, Merge(s, rows[s], cached[s]), NewCheckpoint.blocks, cursor)
<1> DEFINE a == Append(checkpoints, NewCheckpoint)
           n == Len(checkpoints)
<1>1. n \in Nat /\ cursor \in Block /\ cursor < fetched /\ AheadIsOwn /\ RunExtends /\ Live
  BY SMTT(30), CkTypes, ConstantsAssumption DEF IInv, DataOK, BlockDone, Block, Inf
<1>2. /\ NewCheckpoint.num = cursor /\ NewCheckpoint.blocks = BlocksUpTo(lin, cursor)
      /\ NewCheckpoint \in Checkpoint
  <2>1. BlocksUpTo(lin, cursor) \in [Block -> Fork]
    BY SMTT(30), <1>1, BlocksType DEF IInv, DataOK, Block
  <2> QED  BY <1>1, <2>1 DEF NewCheckpoint, Checkpoint
<1>3. /\ a \in Seq(Checkpoint) /\ Len(a) = n + 1
      /\ \A i \in 1..n : a[i] = checkpoints[i]
      /\ a[n + 1] = NewCheckpoint
  BY SMTT(30), <1>2, SeqAppend DEF IInv, DataOK
<1> HIDE DEF a
<1>4. GoodList(a)
  <2>1. DOMAIN a = 1..(n + 1)
    BY <1>3, SeqLen
  <2>2. ASSUME NEW i \in 1..n
        PROVE  /\ a[i] = checkpoints[i] /\ a[i].num < cursor /\ a[i].num \in Block
               /\ a[i].blocks = BlocksUpTo(lin, a[i].num) /\ a[i].blocks = BlocksUpTo(a[i].blocks, a[i].num)
               /\ a[i].blocks = BlocksUpTo(BlocksUpTo(lin, cursor), a[i].num)
    <3>1. a[i] = checkpoints[i] /\ i \in DOMAIN checkpoints
      BY <1>3, CkNums
    <3>2. a[i].num < cursor /\ a[i].num \in Block /\ a[i].blocks = BlocksUpTo(lin, a[i].num)
      BY <3>1, <1>1, CkNums DEF RunExtends, Live
    <3>3. a[i].blocks = BlocksUpTo(a[i].blocks, a[i].num)
      BY <3>1 DEF IInv, GoodList
    <3>4. a[i].blocks = BlocksUpTo(BlocksUpTo(lin, cursor), a[i].num)
      BY SMTT(30), <3>2, <1>1, BlocksOfBlocks DEF Block
    <3> QED  BY <3>1, <3>2, <3>3, <3>4
  <2>3. BlocksUpTo(lin, cursor) = BlocksUpTo(BlocksUpTo(lin, cursor), cursor)
    BY SMTT(30), <1>1, BlocksOfBlocks DEF Block
  <2>4. ASSUME NEW i \in 1..(n + 1), NEW j \in 1..(n + 1), i < j
        PROVE  a[i].num < a[j].num /\ a[i].blocks = BlocksUpTo(a[j].blocks, a[i].num)
    <3>1. i \in 1..n
      BY SMTT(30), <2>4, <1>1
    <3>2. CASE j = n + 1
      BY <3>1, <3>2, <2>2, <1>2, <1>3
    <3>3. CASE j \in 1..n
      <4>1. a[i] = checkpoints[i] /\ a[j] = checkpoints[j] /\ i \in DOMAIN checkpoints /\ j \in DOMAIN checkpoints
        BY <3>1, <3>3, <1>3, CkNums
      <4> QED  BY SMTT(30), <2>4, <4>1 DEF IInv, GoodList, OneFork
    <3> QED  BY SMTT(30), <3>2, <3>3, <1>1
  <2>5. ASSUME NEW i \in 1..(n + 1)
        PROVE  a[i].blocks = BlocksUpTo(a[i].blocks, a[i].num)
    <3>1. CASE i = n + 1
      BY <3>1, <1>2, <1>3, <2>3
    <3>2. CASE i \in 1..n
      BY <3>2, <2>2
    <3> QED  BY SMTT(30), <3>1, <3>2, <1>1
  <2> QED  BY <2>1, <2>4, <2>5 DEF GoodList, OneFork
<1>5. ASSUME NEW s \in Stores
      PROVE  Exact(s, Merge(s, rows[s], cached[s]), NewCheckpoint.blocks, cursor)
  <2> SUFFICES ASSUME NEW m \in 0..cursor, NEW v \in Fork
               PROVE  Counted(s, Merge(s, rows[s], cached[s])[m][v], v = NewCheckpoint.blocks[m])
    BY DEF Exact
  <2>1. m \in Block /\ m <= cursor /\ cursor \in Int /\ NewCheckpoint.blocks[m] = lin[m]
    BY SMTT(30), <1>1, <1>2, ConstantsAssumption, BlocksAt DEF Block
  <2>2. CASE m < cursor
    <3>1. LatestNum(checkpoints) = cursor - 1
      BY SMTT(30), <1>1, CkTypes DEF IInv, AheadIsOwn, LatestNum, LastCk, Checkpoint, Block, None
    <3>2. checkpoints # <<>> /\ LastCk.num = cursor - 1
      BY SMTT(30), <2>1, <2>2, <3>1 DEF LatestNum, LastCk, None, Block
    <3>3. n \in DOMAIN checkpoints /\ LastCk.blocks = BlocksUpTo(lin, LastCk.num)
      BY SMTT(30), <1>1, <3>2, CkTypes, CkNums DEF RunExtends, Live, LastCk
    <3>4. m \in 0..LastCk.num /\ LastCk.num \in Int /\ m <= LastCk.num
      BY SMTT(30), <2>1, <2>2, <3>2 DEF Block
    <3>5. LastCk.blocks[m] = lin[m]
      BY SMTT(30), <2>1, <3>3, <3>4, BlocksAt
    <3>6. Exact(s, Merge(s, rows[s], cached[s]), LastCk.blocks, LastCk.num)
      BY <3>2 DEF IInv, NoRowLostOrDoubled, LastCk
    <3>7. Counted(s, Merge(s, rows[s], cached[s])[m][v], v = LastCk.blocks[m])
      BY <3>4, <3>6 DEF Exact
    <3> QED  BY <2>1, <3>5, <3>7
  <2>3. CASE m = cursor
    <3>1. Merge(s, rows[s], cached[s])[m][v] = AddRows(s, rows[s][m][v], cached[s][m][v])
      BY <2>1 DEF Merge
    <3>2. m \in cursor..MaxBlock /\ s \in ins[m]
      BY SMTT(30), <2>1, <2>3 DEF BlockDone, Block
    <3>3. /\ cached[s][m][v] = IF v = lin[m] THEN 1 ELSE 0
          /\ s # "webhook" => rows[s][m][v] = 0
      BY SMTT(30), <3>2, <1>1 DEF AheadIsOwn, Fresh, Empty
    <3>4. rows[s][m][v] \in Nat
      BY SMTT(30), <2>1 DEF IInv, DataOK, Rows
    <3> QED  BY SMTT(30), <2>1, <3>1, <3>3, <3>4 DEF Counted, AddRows
  <2> QED  BY SMTT(30), <2>1, <2>2, <2>3, <1>1
<1> QED  BY <1>1, <1>2, <1>3, <1>4, <1>5 DEF a

LEMMA TemplatesStep == Keeps(MakeCheckpointWithTemplates)
<1> SUFFICES ASSUME IInv, MakeCheckpointWithTemplates
             PROVE  IInv'
  BY DEF Keeps
<1> DEFINE a == Append(checkpoints, NewCheckpoint)
           again == RunsAgain(unsavedTemplates[cursor])
<1>1. /\ BlockDone /\ ~stopped /\ stopped' = TRUE /\ phase' = "failing"
      /\ checkpoints' = (IF again THEN checkpoints ELSE a)
      /\ cursor' = (IF again THEN cursor ELSE cursor + 1)
      /\ served' = (IF again THEN served ELSE [served EXCEPT ![cursor] = active])
      /\ err' \in {"internal", err}
      /\ UNCHANGED <<chainVars, savedCheckpoints, storeVars, dataVars, first, fetched, lin, since,
                     ins, active, resetDone, op, bounds>>
  BY DEF MakeCheckpointWithTemplates, Accepting, FailsWith
<1>2. /\ a \in Seq(Checkpoint) /\ Len(a) = Len(checkpoints) + 1
      /\ \A i \in 1..Len(checkpoints) : a[i] = checkpoints[i]
      /\ a[Len(a)] = NewCheckpoint /\ NewCheckpoint \in Checkpoint
      /\ cursor \in Block
      /\ GoodList(a)
      /\ \A s \in Stores : Exact(s, Merge(s, rows[s], cached[s]), NewCheckpoint.blocks, cursor)
  BY <1>1, Added
<1> HIDE DEF a, again
<1>3. Len(checkpoints) \in Nat /\ savedCheckpoints \in 0..Len(checkpoints) /\ op = "idle" /\ Live
  BY <1>1, CkTypes DEF BlockDone
<1>4. DataOK'
  <2>1. checkpoints' \in Seq(Checkpoint) /\ cursor' \in 0..Inf /\ served' \in [Block -> SUBSET TplIds]
    BY SMTT(30), <1>1, <1>2, ConstantsAssumption DEF IInv, DataOK, Block, Inf
  <2> QED  BY <1>1, <2>1 DEF IInv, DataOK, chainVars, dataVars, bounds
<1>5. \A i \in 1..savedCheckpoints : checkpoints'[i] = checkpoints[i]
  BY SMTT(30), <1>1, <1>2, <1>3
<1>6. WrittenGood' /\ StoreBehind' /\ SavedIsWritten'
  BY <1>1, <1>5, SavedStays DEF dataVars
<1>7. GoodList(checkpoints)'
  BY SMTT(30), <1>1, <1>2 DEF IInv, GoodList, OneFork, BlocksUpTo
<1>8. CountsFit'
  BY SMTT(30), <1>1, <1>2, <1>3 DEF CountsFit
<1>9. NoRowLostOrDoubled'
  <2>1. NewCheckpoint.num = cursor
    BY DEF NewCheckpoint
  <2> QED  BY <1>1, <1>2, <2>1 DEF IInv, NoRowLostOrDoubled, dataVars
<1>10. RunExtends'
  <2>1. RunExtends /\ phase \in {"running", "failing"} /\ cursor < fetched /\ cursor \in Nat /\ fetched \in Nat
    BY SMTT(30), <1>1 DEF IInv, DataOK, BlockDone, Live, Inf
  <2>2. CASE again
    BY <1>1, <2>1, <2>2 DEF RunExtends
  <2>3. CASE ~again
    <3>1. DOMAIN a = 1..(Len(checkpoints) + 1) /\ cursor + 1 <= fetched
      BY SMTT(30), <1>2, <2>1, SeqLen
    <3>2. ASSUME NEW i \in 1..(Len(checkpoints) + 1)
          PROVE  a[i].num < cursor + 1 /\ a[i].blocks = BlocksUpTo(lin, a[i].num)
      <4>1. CASE i = Len(checkpoints) + 1
        BY SMTT(30), <4>1, <1>2, <2>1 DEF NewCheckpoint
      <4>2. CASE i \in 1..Len(checkpoints)
        <5>1. a[i] = checkpoints[i] /\ i \in DOMAIN checkpoints /\ checkpoints[i].num \in Int
          BY SMTT(30), <4>2, <1>2, CkNums DEF Block
        <5>2. checkpoints[i].num < cursor /\ checkpoints[i].blocks = BlocksUpTo(lin, checkpoints[i].num)
          BY <5>1, <2>1 DEF RunExtends
        <5> QED  BY SMTT(30), <5>1, <5>2, <2>1
      <4> QED  BY SMTT(30), <4>1, <4>2, <1>3
    <3> QED  BY <1>1, <2>3, <3>1, <3>2 DEF RunExtends
  <2> QED  BY <2>2, <2>3
<1>11. ResetIsClean' /\ AheadIsOwn' /\ CommittedIsWritten'
  BY <1>1, <1>3, SameCommitted DEF ResetIsClean, AheadIsOwn
<1> QED  BY <1>4, <1>6, <1>7, <1>8, <1>9, <1>10, <1>11 DEF IInv

\* The checkpoint is added; when it is to be saved at once, the unsaved ones
\* before the one to save go.  b is the list afterwards.
LEMMA MakeStep == \A k \in 0..(Len(checkpoints) + 1) : Keeps(MakeCheckpoint(k))
<1> SUFFICES ASSUME NEW k \in 0..(Len(checkpoints) + 1), IInv, MakeCheckpoint(k)
             PROVE  IInv'
  BY DEF Keeps
<1> DEFINE a == Append(checkpoints, NewCheckpoint)
           n == savedCheckpoints
<1>1. /\ BlockDone /\ ~stopped /\ cursor' = cursor + 1
      /\ \/ checkpoints' = a /\ op' = op
         \/ k \in (n + 1) .. Len(a) /\ checkpoints' = Collapse(a, k) /\ op' = "quota"
      /\ served' = [served EXCEPT ![cursor] = active]
      /\ UNCHANGED <<chainVars, savedCheckpoints, stopped, storeVars, dataVars, runVars, first,
                     fetched, lin, since, ins, active, resetDone, bounds>>
  BY DEF MakeCheckpoint, Accepting
<1>2. /\ a \in Seq(Checkpoint) /\ Len(a) = Len(checkpoints) + 1
      /\ \A i \in 1..Len(checkpoints) : a[i] = checkpoints[i]
      /\ a[Len(a)] = NewCheckpoint /\ NewCheckpoint \in Checkpoint
      /\ cursor \in Block
      /\ GoodList(a)
      /\ \A s \in Stores : Exact(s, Merge(s, rows[s], cached[s]), NewCheckpoint.blocks, cursor)
  BY <1>1, Added
<1> HIDE DEF a
<1>3. Len(checkpoints) \in Nat /\ n \in 0..Len(checkpoints) /\ op = "idle" /\ Live /\ n \in Nat
  BY SMTT(30), <1>1, CkTypes DEF BlockDone
<1>4. /\ checkpoints' \in Seq(Checkpoint) /\ GoodList(checkpoints')
      /\ n < Len(checkpoints') /\ Len(checkpoints') \in Nat
      /\ \A i \in 1..n : checkpoints'[i] = checkpoints[i]
      /\ checkpoints'[Len(checkpoints')] = NewCheckpoint
      /\ \A i \in 1..Len(checkpoints') : \E j \in 1..Len(a) : checkpoints'[i] = a[j]
  <2>1. CASE checkpoints' = a
    <3>1. Len(a) \in Nat /\ n < Len(a) /\ \A i \in 1..n : a[i] = checkpoints[i]
      BY SMTT(30), <1>2, <1>3
    <3> QED  BY <2>1, <3>1, <1>2
  <2>2. CASE k \in (n + 1) .. Len(a) /\ checkpoints' = Collapse(a, k)
    <3> DEFINE b == Collapse(a, k)
    <3>1. /\ b \in Seq(Checkpoint) /\ Len(b) = n + 1 + Len(a) - k
          /\ \A i \in 1..n : b[i] = a[i]
          /\ \A i \in (n + 1) .. Len(b) : b[i] = a[i + k - 1 - n]
          /\ GoodList(b)
      BY <2>2, <1>2, <1>3, Collapsed
    <3> HIDE DEF b
    <3>2. /\ Len(a) \in Nat /\ Len(b) \in Nat /\ n < Len(b) /\ k \in Nat /\ n < k /\ k <= Len(a)
          /\ Len(b) \in (n + 1) .. Len(b) /\ Len(b) + k - 1 - n = Len(a)
      BY SMTT(30), <2>2, <3>1, <1>2, <1>3
    <3>3. b[Len(b)] = NewCheckpoint
      BY <3>1, <3>2, <1>2
    <3>4. ASSUME NEW i \in 1..n PROVE b[i] = checkpoints[i]
      <4>1. i \in 1..Len(checkpoints)
        BY SMTT(30), <1>3
      <4> QED  BY <4>1, <3>1, <1>2
    <3>5. ASSUME NEW i \in 1..Len(b) PROVE \E j \in 1..Len(a) : b[i] = a[j]
      <4>1. CASE i <= n
        <5>1. i \in 1..n /\ i \in 1..Len(a)
          BY SMTT(30), <4>1, <3>2, <1>3
        <5> QED  BY <5>1, <3>1
      <4>2. CASE ~(i <= n)
        <5>1. i + k - 1 - n \in 1..Len(a) /\ i \in (n + 1) .. Len(b)
          BY SMTT(30), <4>2, <3>1, <3>2, <1>3
        <5> QED  BY <5>1, <3>1
      <4> QED  BY <4>1, <4>2
    <3> QED  BY <2>2, <3>1, <3>2, <3>3, <3>4, <3>5 DEF b
  <2> QED  BY <1>1, <2>1, <2>2
<1>5. DOMAIN checkpoints' = 1..Len(checkpoints') /\ checkpoints' # <<>> /\ NewCheckpoint.num = cursor
  BY SMTT(30), <1>3, <1>4, SeqLen, SeqEmpty DEF NewCheckpoint
<1>6. DataOK'
  <2>1. cursor' \in 0..Inf /\ served' \in [Block -> SUBSET TplIds]
    BY SMTT(30), <1>1, <1>2, ConstantsAssumption DEF IInv, DataOK, Block, Inf
  <2>2. op' \in {"idle", "quota"}
    BY <1>1, <1>3
  <2> QED  BY <1>1, <1>4, <2>1, <2>2 DEF IInv, DataOK, chainVars, dataVars, bounds
<1>7. WrittenGood' /\ StoreBehind' /\ SavedIsWritten'
  BY <1>1, <1>4, SavedStays DEF dataVars
<1>8. GoodList(checkpoints)'
  BY <1>4
<1>9. CountsFit'
  BY SMTT(30), <1>1, <1>3, <1>4 DEF CountsFit, Live
<1>10. NoRowLostOrDoubled'
  BY <1>1, <1>2, <1>4, <1>5 DEF NoRowLostOrDoubled, dataVars
<1>11. RunExtends'
  <2>1. RunExtends /\ phase \in {"running", "failing"} /\ cursor < fetched /\ cursor \in Nat /\ fetched \in Nat
    BY SMTT(30), <1>1 DEF IInv, DataOK, BlockDone, Live, Inf
  <2>2. ASSUME NEW j \in 1..Len(a)
        PROVE  a[j].num < cursor + 1 /\ a[j].blocks = BlocksUpTo(lin, a[j].num)
    <3>1. CASE j = Len(a)
      BY SMTT(30), <3>1, <1>2, <2>1 DEF NewCheckpoint
    <3>2. CASE j \in 1..Len(checkpoints)
      <4>1. a[j] = checkpoints[j] /\ j \in DOMAIN checkpoints /\ checkpoints[j].num \in Int
        BY SMTT(30), <3>2, <1>2, CkNums DEF Block
      <4>2. checkpoints[j].num < cursor /\ checkpoints[j].blocks = BlocksUpTo(lin, checkpoints[j].num)
        BY <4>1, <2>1 DEF RunExtends
      <4> QED  BY SMTT(30), <4>1, <4>2, <2>1
    <3> QED  BY SMTT(30), <3>1, <3>2, <1>2, <1>3
  <2>3. cursor + 1 <= fetched
    BY SMTT(30), <2>1
  <2>4. \A i \in 1..Len(checkpoints') :
           checkpoints'[i].num < cursor + 1 /\ checkpoints'[i].blocks = BlocksUpTo(lin, checkpoints'[i].num)
    BY <1>4, <2>2
  <2> QED  BY <1>1, <1>5, <2>3, <2>4 DEF RunExtends
<1>12. ResetIsClean' /\ CommittedIsWritten'
  BY <1>1, <1>3, SameCommitted DEF ResetIsClean, Live
<1>13. AheadIsOwn'
  <2>1. AheadIsOwn /\ Live /\ ~stopped /\ cursor \in Nat
    BY SMTT(30), <1>1, <1>3 DEF IInv, DataOK, Inf
  <2>2. LatestNum(checkpoints') = cursor
    BY <1>4, <1>5 DEF LatestNum
  <2>3. \A m \in (cursor + 1)..MaxBlock : m \in cursor..MaxBlock
    BY SMTT(30), <2>1
  <2> QED  BY SMTT(30), <1>1, <2>1, <2>2, <2>3 DEF AheadIsOwn, Fresh, dataVars
<1> QED  BY <1>6, <1>7, <1>8, <1>9, <1>10, <1>11, <1>12, <1>13 DEF IInv

(***************************************************************************)
(* The last call of a save.                                                *)
(***************************************************************************)

\* When the list is about to be saved, all rows up to the checkpoint are
\* written, and the store is behind it on its fork.
LEMMA CurWritten ==
    ASSUME IInv, op = "save"
    PROVE  /\ Cur \in Checkpoint /\ savedCheckpoints + 1 \in 1..Len(checkpoints)
           /\ Cur.blocks = BlocksUpTo(Cur.blocks, Cur.num)
           /\ \A s \in Stores : /\ Exact(s, rows[s], Cur.blocks, Cur.num)
                                /\ \A m \in 0..Cur.num : Empty(cached[s], m)
           /\ \A cks \in Seq(Checkpoint) : Behind(cks) /\ cks # <<>> =>
                 /\ cks[Len(cks)].num <= Cur.num
                 /\ cks[Len(cks)].blocks = BlocksUpTo(Cur.blocks, cks[Len(cks)].num)
<1> DEFINE n == savedCheckpoints
<1>1. /\ Cur \in Checkpoint /\ n + 1 \in 1..Len(checkpoints) /\ Len(checkpoints) \in Nat
      /\ n \in Nat /\ checkpoints # <<>>
  BY SMTT(30), CkTypes
<1>2. Cur.blocks = BlocksUpTo(Cur.blocks, Cur.num) /\ Cur.num \in Block
  BY SMTT(30), <1>1, Earlier DEF Cur
<1>3. ASSUME NEW s \in Stores
      PROVE  /\ Exact(s, rows[s], Cur.blocks, Cur.num)
             /\ \A m \in 0..Cur.num : Empty(cached[s], m)
  <2>1. s \in Committed
    BY ConstantsAssumption DEF Committed
  <2>2. \A m \in 0..Cur.num : Empty(cached[s], m)
    BY <2>1 DEF IInv, CommittedIsWritten
  <2>3. /\ LastCk.num \in Block /\ Cur.num <= LastCk.num
        /\ Cur.blocks = BlocksUpTo(LastCk.blocks, Cur.num)
    BY SMTT(30), <1>1, Earlier DEF Cur, LastCk
  <2>4. Exact(s, Merge(s, rows[s], cached[s]), LastCk.blocks, LastCk.num)
    BY <1>1 DEF IInv, NoRowLostOrDoubled, LastCk
  <2>5. Exact(s, Merge(s, rows[s], cached[s]), Cur.blocks, Cur.num)
    BY <1>2, <2>3, <2>4, ExactBelow
  <2>6. rows[s] \in [Block -> [Fork -> Nat]] /\ cached[s] \in [Block -> [Fork -> Nat]]
    BY DEF IInv, DataOK, Rows
  <2> QED  BY <1>2, <2>2, <2>5, <2>6, MergeEmpty
<1>4. ASSUME NEW cks \in Seq(Checkpoint), Behind(cks), cks # <<>>
      PROVE  /\ cks[Len(cks)].num <= Cur.num
             /\ cks[Len(cks)].blocks = BlocksUpTo(Cur.blocks, cks[Len(cks)].num)
  <2> DEFINE ck == cks[Len(cks)]
  <2>1. ck \in Checkpoint
    <3>1. Len(cks) \in 1..Len(cks)
      BY SMTT(30), <1>4, SeqLen, SeqEmpty
    <3> QED  BY <3>1, SeqLen
  <2>2. /\ n > 0 /\ ck.num <= SavedCk.num /\ ck.blocks = BlocksUpTo(SavedCk.blocks, ck.num)
        /\ ck.num \in Block
    BY <1>4, <2>1 DEF Behind, Checkpoint
  <2> HIDE DEF ck
  <2>3. /\ SavedCk.num \in Block /\ SavedCk.num <= Cur.num
        /\ SavedCk.blocks = BlocksUpTo(Cur.blocks, SavedCk.num)
    BY SMTT(30), <1>1, <2>2, Earlier DEF SavedCk, Cur
  <2>4. BlocksUpTo(SavedCk.blocks, ck.num) = BlocksUpTo(Cur.blocks, ck.num)
    BY SMTT(30), <2>2, <2>3, BlocksOfBlocks DEF Block
  <2>5. ck.num <= Cur.num
    BY SMTT(30), <1>2, <2>2, <2>3 DEF Block
  <2> QED  BY <2>2, <2>4, <2>5 DEF ck
<1> QED  BY <1>1, <1>2, <1>3, <1>4

LEMMA SaveStoreStep == \A f \in Thinnings(savedCheckpoints + 1) : Keeps(SaveStore(f))
<1> SUFFICES ASSUME NEW f \in Thinnings(savedCheckpoints + 1), IInv, SaveStore(f)
             PROVE  IInv'
  BY DEF Keeps
<1> DEFINE k == savedCheckpoints + 1
           kept == Thin(checkpoints, f)
           b == kept \o SubSeq(checkpoints, k + 1, Len(checkpoints))
<1>0. k + 1 = savedCheckpoints + 2
  BY SMTT(30) DEF IInv, DataOK
<1>1. /\ op = "save" /\ op' = "idle" /\ checkpoints' = b /\ savedCheckpoints' = Len(kept)
      /\ store'.checkpoints = kept /\ chainState' = store' /\ failures' = failures
      /\ UNCHANGED <<chainVars, walkVars, crashes, stopped, dataVars, runVars>>
  <2>1. \A t : Saved(kept, t).checkpoints = kept
    BY SMTT(30) DEF Saved
  <2> QED  BY <1>0, <2>1 DEF SaveStore, SaveTo, NoFailure
<1>2. /\ Cur \in Checkpoint /\ k \in 1..Len(checkpoints) /\ Cur.blocks = BlocksUpTo(Cur.blocks, Cur.num)
      /\ \A s \in Stores : /\ Exact(s, rows[s], Cur.blocks, Cur.num)
                           /\ \A m \in 0..Cur.num : Empty(cached[s], m)
      /\ Cur = checkpoints[k]
  BY <1>1, CurWritten DEF Cur
<1>3. /\ kept \in Seq(Checkpoint) /\ Len(kept) \in Nat \ {0} /\ kept[Len(kept)] = Cur /\ GoodList(kept)
  BY SMTT(30), <1>2, Thinned DEF IInv, DataOK
<1>4. /\ b \in Seq(Checkpoint) /\ Len(b) = Len(kept) + Len(checkpoints) - k
      /\ b[Len(kept)] = Cur /\ b[Len(b)] = LastCk
      /\ \A i \in 1..Len(b) : \E j \in 1..Len(checkpoints) : b[i] = checkpoints[j]
      /\ GoodList(b)
  BY <1>2, SavedList DEF IInv, DataOK, LastCk
<1> HIDE DEF kept, b
<1>5. /\ Len(checkpoints) \in Nat /\ Len(b) \in Nat /\ Len(kept) <= Len(b) /\ b # <<>> /\ checkpoints # <<>>
      /\ DOMAIN b = 1..Len(b) /\ DOMAIN checkpoints = 1..Len(checkpoints)
  <2>1. Len(checkpoints) \in Nat /\ k \in Nat
    BY SMTT(30), <1>2, CkTypes
  <2>2. Len(b) \in Nat /\ Len(kept) <= Len(b) /\ Len(b) > 0
    BY SMTT(30), <1>2, <1>3, <1>4, <2>1
  <2> QED  BY SMTT(30), <1>2, <1>4, <2>1, <2>2, SeqLen, SeqEmpty, CkTypes
<1>6. DataOK'
  BY <1>1, <1>3, <1>4 DEF IInv, DataOK, chainVars, walkVars, dataVars
<1>7. GoodList(checkpoints)' /\ WrittenGood'
  BY <1>1, <1>3, <1>4 DEF WrittenGood
<1>8. CountsFit'
  BY <1>1, <1>5 DEF CountsFit
<1>9. SavedCk' = Cur
  BY <1>1, <1>3, <1>4 DEF SavedCk
<1>10. StoreBehind' /\ SavedIsWritten'
  <2>1. Cur.num <= Cur.num /\ Len(kept) > 0
    BY SMTT(30), <1>2, <1>3 DEF Checkpoint, Block
  <2>2. StoreBehind'
    BY <1>1, <1>2, <1>3, <1>9, <2>1 DEF StoreBehind, Behind
  <2>3. SavedIsWritten'
    BY <1>1, <1>2, <1>9 DEF SavedIsWritten, dataVars
  <2> QED  BY <2>2, <2>3
<1>11. LatestNum(checkpoints') = LatestNum(checkpoints)
  BY <1>1, <1>4, <1>5 DEF LatestNum, LastCk
<1>12. NoRowLostOrDoubled'
  BY <1>1, <1>4, <1>5 DEF IInv, NoRowLostOrDoubled, LastCk, dataVars
<1>13. RunExtends'
  BY SMTT(30), <1>1, <1>4, <1>5 DEF IInv, RunExtends, walkVars
<1>14. ResetIsClean' /\ AheadIsOwn' /\ CommittedIsWritten'
  BY SMTT(30), <1>1, <1>11, SameCommitted DEF IInv, ResetIsClean, AheadIsOwn, Live, Fresh, walkVars, dataVars
<1> QED  BY <1>6, <1>7, <1>8, <1>10, <1>12, <1>13, <1>14 DEF IInv

LEMMA SaveStoreFailsStep == \A f \in Thinnings(savedCheckpoints + 1) : Keeps(SaveStoreFails(f))
<1> SUFFICES ASSUME NEW f \in Thinnings(savedCheckpoints + 1), IInv, SaveStoreFails(f)
             PROVE  IInv'
  BY DEF Keeps
<1> DEFINE k == savedCheckpoints + 1
           kept == Thin(checkpoints, f)
<1>1. /\ op = "save" /\ op' = "idle" /\ checkpoints' = SubSeq(kept, 1, Len(kept))
      /\ savedCheckpoints' = Len(kept) /\ stopped' = TRUE /\ phase' = "failing"
      /\ err' \in {"driver", err} /\ chainState' = chainState
      /\ (store' = store \/ store'.checkpoints = kept) /\ failures' \in 0..MaxFail
      /\ UNCHANGED <<chainVars, walkVars, crashes, dataVars>>
  <2>1. failures' \in 0..MaxFail
    BY SMTT(30), ConstantsAssumption DEF SaveStoreFails, Fails, IInv, DataOK
  <2>2. \A t : Saved(kept, t).checkpoints = kept
    BY SMTT(30) DEF Saved
  <2> QED  BY <2>1, <2>2 DEF SaveStoreFails, SaveTo, Rollback, FailsWith
<1>2. /\ Cur \in Checkpoint /\ k \in 1..Len(checkpoints) /\ Cur.blocks = BlocksUpTo(Cur.blocks, Cur.num)
      /\ \A s \in Stores : /\ Exact(s, rows[s], Cur.blocks, Cur.num)
                           /\ \A m \in 0..Cur.num : Empty(cached[s], m)
      /\ \A cks \in Seq(Checkpoint) : Behind(cks) /\ cks # <<>> =>
            /\ cks[Len(cks)].num <= Cur.num
            /\ cks[Len(cks)].blocks = BlocksUpTo(Cur.blocks, cks[Len(cks)].num)
      /\ Cur = checkpoints[k]
  BY <1>1, CurWritten DEF Cur
<1>3. /\ kept \in Seq(Checkpoint) /\ Len(kept) \in Nat \ {0} /\ kept[Len(kept)] = Cur /\ GoodList(kept)
      /\ f \in [1..Len(kept) -> 1..k] /\ \A i \in 1..Len(kept) : kept[i] = checkpoints[f[i]]
  BY SMTT(30), <1>2, Thinned DEF IInv, DataOK
<1> HIDE DEF kept
<1>4. checkpoints' = kept /\ DOMAIN kept = 1..Len(kept) /\ kept # <<>>
  BY <1>1, <1>3, SeqWhole, SeqLen, SeqEmpty
<1>5. DataOK'
  <2>1. store'.checkpoints \in Seq(Checkpoint)
    BY <1>1, <1>3 DEF IInv, DataOK
  <2> QED  BY <1>1, <1>3, <1>4, <2>1 DEF IInv, DataOK, chainVars, walkVars, dataVars
<1>6. GoodList(checkpoints)'
  BY <1>3, <1>4
<1>7. WrittenGood'
  BY <1>1, <1>3 DEF IInv, WrittenGood
<1>8. CountsFit'
  BY SMTT(30), <1>1, <1>3, <1>4 DEF CountsFit
<1>9. SavedCk' = Cur
  BY <1>1, <1>3, <1>4 DEF SavedCk
<1>10. StoreBehind'
  <2>1. Cur.num <= Cur.num /\ savedCheckpoints' > 0
    BY SMTT(30), <1>1, <1>2, <1>3 DEF Checkpoint, Block
  <2>3. ASSUME NEW cks \in Seq(Checkpoint), Behind(cks)
        PROVE  cks # <<>> => /\ savedCheckpoints' > 0 /\ cks[Len(cks)].num <= SavedCk'.num
                             /\ cks[Len(cks)].blocks = BlocksUpTo(SavedCk'.blocks, cks[Len(cks)].num)
    BY <1>2, <1>9, <2>1, <2>3
  <2>4. /\ store.checkpoints \in Seq(Checkpoint) /\ Behind(store.checkpoints)
        /\ chainState.checkpoints \in Seq(Checkpoint) /\ Behind(chainState.checkpoints)
    BY DEF IInv, DataOK, StoreBehind
  <2>5. Behind(chainState.checkpoints)'
    BY <1>1, <2>3, <2>4 DEF Behind
  <2>6. CASE store' = store
    <3>1. Behind(store.checkpoints)'
      BY <2>3, <2>4, <2>6 DEF Behind
    <3> QED  BY <2>5, <3>1 DEF StoreBehind
  <2>7. CASE store'.checkpoints = kept
    <3>1. Behind(store.checkpoints)'
      BY <1>2, <1>3, <1>9, <2>1, <2>7 DEF Behind
    <3> QED  BY <2>5, <3>1 DEF StoreBehind
  <2> QED  BY <1>1, <2>6, <2>7
<1>11. SavedIsWritten'
  BY <1>1, <1>2, <1>9 DEF SavedIsWritten, dataVars
<1>12. NoRowLostOrDoubled'
  <2> SUFFICES ASSUME NEW s \in Stores
               PROVE  Exact(s, Merge(s, rows[s], cached[s]), Cur.blocks, Cur.num)
    BY <1>1, <1>3, <1>4 DEF NoRowLostOrDoubled, dataVars
  <2>1. rows[s] \in [Block -> [Fork -> Nat]] /\ cached[s] \in [Block -> [Fork -> Nat]]
    BY DEF IInv, DataOK, Rows
  <2> QED  BY <1>2, <2>1, MergeEmpty DEF Checkpoint
<1>13. RunExtends'
  <2>1. RunExtends /\ Live
    BY <1>1 DEF IInv, CountsFit
  <2>2. \A i \in 1..Len(kept) : \E j \in DOMAIN checkpoints : kept[i] = checkpoints[j]
    <3>1. 1..k \subseteq DOMAIN checkpoints
      BY SMTT(30), <1>2, CkTypes, CkNums
    <3> QED  BY <1>3, <3>1
  <2> QED  BY SMTT(30), <1>1, <1>4, <2>1, <2>2 DEF RunExtends, Live, walkVars
<1>14. ResetIsClean' /\ AheadIsOwn' /\ CommittedIsWritten'
  BY <1>1, SameCommitted DEF ResetIsClean, AheadIsOwn
<1> QED  BY <1>5, <1>6, <1>7, <1>8, <1>10, <1>11, <1>12, <1>13, <1>14 DEF IInv

(***************************************************************************)
(* The theorems.                                                           *)
(***************************************************************************)

LEMMA NextIInv ==
    ASSUME "clean" \notin Failures, IInv, [Next]_vars
    PROVE  IInv'
<1>1. CASE UNCHANGED vars
  <2>1. failures \in 0..MaxFail /\ crashes \in 0..MaxCrash
    BY DEF IInv, DataOK
  <2>2. PhaseOnly
    BY <1>1, <2>1 DEF PhaseOnly, Errors, vars, ctlVars, bounds, IInv, DataOK
  <2> QED  BY <2>2, PhaseStep DEF Keeps
<1>2. CASE Crash \/ Relaunch
  <2>1. crashes \in 0..MaxCrash /\ MaxCrash \in Nat
    BY ConstantsAssumption DEF IInv, DataOK
  <2>2. Restart /\ crashes' \in 0..MaxCrash
    BY SMTT(30), <1>2, <2>1 DEF Crash, Relaunch
  <2> QED  BY <2>2, RestartStep DEF Keeps
<1>3. CASE Driver
  BY <1>2, <1>3, StartStep, ResetStep, ReadyStep, FetchStep, InsertStep, MainStep, CleanStep,
     KeepSaveStep, CallStep, CommitStep, SaveStoreStep, StoppedStep, TemplatesStep, MakeStep
     DEF Driver, SaveStep, Make, Keeps
<1>4. CASE SaveFails
  BY <1>4, FailStep, CommitFailsStep, SaveStoreFailsStep DEF SaveFails, Keeps
<1>5. CASE \/ \E k \in Block : ChainReorg(k)
           \/ \E v \in Fork : ChainBack(v)
           \/ \E s \in Stores, gone \in SUBSET Block : ResetFails(s, gone)
           \/ \E n \in Block : NewTemplateInstance(n)
           \/ \E e \in {"driver", "runtime", "system", "user"} : RunFails(e)
           \/ \E e \in {"driver", "system", "user"} : StartFails(e)
           \/ SaveErrorFails
  BY <1>5, ChainStep, ResetFailsStep, TemplateStep, FailStep, MainStep DEF Keeps
<1> QED  BY <1>1, <1>2, <1>3, <1>4, <1>5 DEF Next, Finished

\* When the save of CleanCheckpoint does not fail, the inductive invariant
\* holds throughout: any number of blocks, reorganisations, crashes and other
\* failures, any data stores, with or without template instances.
THEOREM InductiveInvariant ==
    ASSUME "clean" \notin Failures
    PROVE  Spec => []IInv
<1>1. Init => IInv
  BY InitIInv
<1>2. IInv /\ [Next]_vars => IInv'
  BY NextIInv
<1> QED  BY <1>1, <1>2, PTL DEF Spec

LEMMA IInvImplies ==
    ASSUME IInv
    PROVE  Recoverable /\ NoRowLostOrDoubled
<1>1. Recoverable
  <2> SUFFICES ASSUME store.checkpoints # <<>>, NEW s \in Stores
               PROVE  Exact(s, rows[s], StoreCk.blocks, StoreCk.num)
    BY DEF Recoverable, StoreCk
  <2>1. Exact(s, rows[s], SavedCk.blocks, SavedCk.num)
    BY StoreCkBehind DEF IInv, SavedIsWritten
  <2> QED  BY <2>1, StoreCkBehind, ExactBelow
<1> QED  BY <1>1 DEF IInv

\* Crash recovery for every value of the constants: whatever call of save or
\* Ready fails and wherever the driver dies, the data stores hold exactly the
\* rows of the blocks up to the checkpoint a restart resumes from.
THEOREM CrashRecovery ==
    ASSUME "clean" \notin Failures
    PROVE  Spec => []Recoverable
BY InductiveInvariant, IInvImplies, PTL

\* Rows written and rows cached are together exactly those of the blocks up
\* to the last checkpoint in memory: no run loses or repeats a row.
THEOREM RowsExact ==
    ASSUME "clean" \notin Failures
    PROVE  Spec => []NoRowLostOrDoubled
BY InductiveInvariant, IInvImplies, PTL

\* What a step may do once the controller has stopped.
OnlyShrinks ==
    /\ \E k \in 0..Len(checkpoints) : checkpoints' = SubSeq(checkpoints, 1, k)
    /\ \/ store' \in {store, chainState}
       \/ \E k \in 0..Len(checkpoints) : store'.checkpoints = SubSeq(checkpoints, 1, k)

LEMMA StoppedStays ==
    ASSUME IInv, [Next]_vars, stopped, stopped'
    PROVE  OnlyShrinks
<1>1. op = "idle" /\ checkpoints \in Seq(Checkpoint) /\ Len(checkpoints) \in 0..Len(checkpoints)
  BY SMTT(30), SeqLen DEF IInv, DataOK, CountsFit
<1>2. ASSUME checkpoints' = checkpoints, store' \in {store, chainState}
      PROVE  OnlyShrinks
  BY <1>1, <1>2, SeqWhole DEF OnlyShrinks
<1>3. ASSUME NEW v \in Fork, NEW ge \in Block, CleanCheckpoint(v, ge)
      PROVE  OnlyShrinks
  <2>1. PICK k \in 0..Len(checkpoints) : CleanSucceeds(k) \/ CleanFails(k)
    BY <1>3 DEF CleanCheckpoint
  <2>2. checkpoints' = checkpoints \/ checkpoints' = SubSeq(checkpoints, 1, k)
    BY <2>1 DEF CleanSucceeds, CleanFails, CleanMemory
  <2>3. store' = store \/ store'.checkpoints = SubSeq(checkpoints, 1, k)
    <3>1. \A t : Saved(SubSeq(checkpoints, 1, k), t).checkpoints = SubSeq(checkpoints, 1, k)
      BY SMTT(30) DEF Saved
    <3>2. NothingSaved.checkpoints = <<>> /\ (k = 0 => SubSeq(checkpoints, 1, k) = <<>>)
      BY SMTT(30), <1>1 DEF NothingSaved, Saved
    <3> QED  BY <2>1, <3>1, <3>2 DEF CleanSucceeds, CleanFails, CleanStore
  <2> QED  BY <1>1, <2>1, <2>2, <2>3, SeqWhole DEF OnlyShrinks
<1>4. ~Crash /\ ~Relaunch /\ ~Ready
  BY DEF Crash, Relaunch, Restart, Ready
<1>5. ~SaveStep /\ ~SaveFails
  <2>1. \A s \in Stores : s # "idle"
    BY ConstantsAssumption
  <2> QED  BY <1>1, <2>1 DEF SaveStep, CheckOverQuota, Commit, SaveUsage, SaveStore, SaveFails,
             QuotaFails, CommitFails, SaveStoreFails, SaveTo
<1>6. ~(\E k \in 1..Len(checkpoints) : KeepSave(k)) /\ (Make => MakeCheckpointStopped)
  BY DEF KeepSave, Make, MakeCheckpointWithTemplates, MakeCheckpoint, Accepting
<1>7. CASE UNCHANGED vars \/ MakeCheckpointStopped \/ Start \/ RunEnds \/ ChainDone
  BY <1>2, <1>7 DEF vars, ctlVars, MakeCheckpointStopped, Start, RunEnds, ChainDone
<1>8. CASE MainRetries \/ MainReturns \/ SaveErrorFails
  BY <1>2, <1>8 DEF MainRetries, MainReturns, SaveErrorFails, SaveError, AfterRun, ctlVars
<1>9. CASE \/ \E s \in Stores : ResetStore(s)
           \/ \E v \in Fork : Fetch(v)
           \/ \E n \in Block, s \in Stores : InsertRows(n, s)
           \/ \E n \in Block : NewTemplateInstance(n)
  BY <1>2, <1>9 DEF ResetStore, Fetch, InsertRows, NewTemplateInstance, ctlVars
<1>10. CASE \/ \E k \in Block : ChainReorg(k)
            \/ \E v \in Fork : ChainBack(v)
            \/ \E s \in Stores, gone \in SUBSET Block : ResetFails(s, gone)
            \/ \E e \in {"driver", "runtime", "system", "user"} : RunFails(e)
            \/ \E e \in {"driver", "system", "user"} : StartFails(e)
  BY <1>2, <1>10 DEF ChainReorg, ChainBack, FollowChain, ResetFails, RunFails, StartFails, ctlVars
<1> QED  BY <1>3, <1>4, <1>5, <1>6, <1>7, <1>8, <1>9, <1>10 DEF Next, Driver, Finished

\* For every value of the constants: from a failed save, a reorganisation or
\* new templates until the next Ready, the goroutines that are still running
\* add nothing to the list and nothing to the store.
THEOREM FrozenOnceStopped ==
    ASSUME "clean" \notin Failures
    PROVE  Spec => StoppedFreezes
<1>1. IInv /\ [Next]_vars => [stopped /\ stopped' => OnlyShrinks]_vars
  BY StoppedStays
<1> QED  BY <1>1, InductiveInvariant, PTL DEF Spec, StoppedFreezes, OnlyShrinks
=============================================================================
