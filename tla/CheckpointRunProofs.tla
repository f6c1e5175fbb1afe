----------------------- MODULE CheckpointRunProofs -----------------------
(***************************************************************************)
(* The inductive invariant is kept by the steps of the chain, of Main and  *)
(* of the goroutines of a run that make no checkpoint.                     *)
(***************************************************************************)
EXTENDS CheckpointLemmas

\* A leaf that names no backend is proved by Zenon; those that need arithmetic
\* or extensionality name the SMT solver.
USE ZenonT(30) DEF storeVars, runVars

(***************************************************************************)
(* Steps of the environment, of Main and of the producer.                  *)
(***************************************************************************)

LEMMA FollowStep == \A c \in [Block -> Fork] : Keeps(FollowChain(c))
<1> SUFFICES ASSUME NEW c \in [Block -> Fork], IInv, FollowChain(c)
             PROVE  IInv'
  BY DEF Keeps
<1> USE DEF FollowChain, ctlVars, dataVars, walkVars, bounds
<1>1. fork + 1 \in Fork
  BY SMTT(30), ConstantsAssumption DEF IInv, DataOK, Fork
<1>2. DataOK'
  BY <1>1 DEF IInv, DataOK
<1>3. CountsFit' /\ RunExtends' /\ ResetIsClean' /\ AheadIsOwn'
  BY SMTT(30) DEF IInv, CountsFit, RunExtends, ResetIsClean, AheadIsOwn, Live, LatestNum, Fresh, Empty, BlocksUpTo
<1> QED  BY <1>2, <1>3, SameLists, SameData, SameCommitted DEF IInv

LEMMA ChainStep ==
    /\ \A k \in Block : Keeps(ChainReorg(k))
    /\ \A v \in Fork : Keeps(ChainBack(v))
<1>1. ASSUME NEW k \in Block, IInv, ChainReorg(k) PROVE IInv'
  <2> DEFINE c == [n \in Block |-> IF n >= k THEN fork + 1 ELSE chain[n]]
  <2>1. fork + 1 \in Fork
    BY SMTT(30), <1>1, ConstantsAssumption DEF ChainReorg, FollowChain, IInv, DataOK, Fork
  <2>2. c \in [Block -> Fork]
    BY <1>1, <2>1 DEF IInv, DataOK, chain
  <2> QED  BY <1>1, <2>2, FollowStep DEF ChainReorg, Keeps
<1>2. ASSUME NEW v \in Fork, IInv, ChainBack(v) PROVE IInv'
  <2>1. forks[v] \in [Block -> Fork]
    BY <1>2 DEF IInv, DataOK
  <2> QED  BY <1>2, <2>1, FollowStep DEF ChainBack, Keeps
<1> QED  BY <1>1, <1>2 DEF Keeps

LEMMA RestartStep == Keeps(Restart /\ crashes' \in 0..MaxCrash)
<1> SUFFICES ASSUME IInv, Restart, crashes' \in 0..MaxCrash
             PROVE  IInv'
  BY DEF Keeps
<1> USE DEF Restart, chainVars, walkVars
<1> DEFINE cks == store.checkpoints
<1>1. DataOK'
  <2>1. failures' \in 0..MaxFail
    BY SMTT(30), ConstantsAssumption DEF IInv, DataOK, Fails, NoFailure
  <2> QED  BY <2>1, SeqLen DEF IInv, DataOK, Rows, NoRows
<1>2. GoodList(checkpoints)' /\ WrittenGood' /\ CountsFit'
  <2>1. GoodList(checkpoints)' /\ WrittenGood'
    BY DEF IInv, WrittenGood
  <2>2. Len(cks) <= Len(cks)
    BY SMTT(30), SeqLen DEF IInv, DataOK
  <2> QED  BY <2>1, <2>2 DEF CountsFit
<1>3. StoreBehind'
  <2>1. ASSUME cks # <<>>
        PROVE  Len(cks) > 0 /\ StoreCk.num <= StoreCk.num /\ StoreCk.blocks = BlocksUpTo(StoreCk.blocks, StoreCk.num)
    <3>1. Len(cks) \in DOMAIN cks /\ Len(cks) > 0
      BY SMTT(30), <2>1, SeqLen, SeqEmpty DEF IInv, DataOK
    <3>2. StoreCk.num \in Int
      BY SMTT(30), <2>1, CkTypes DEF Checkpoint, Block
    <3> QED  BY SMTT(30), <3>1, <3>2 DEF IInv, WrittenGood, GoodList, StoreCk
  <2> QED  BY <2>1 DEF StoreBehind, Behind, StoreCk, SavedCk
<1>4. SavedIsWritten' /\ NoRowLostOrDoubled'
  <2>1. ASSUME cks # <<>>, NEW s \in Stores
        PROVE  /\ Exact(s, rows[s], StoreCk.blocks, StoreCk.num)
               /\ \A m \in 0..StoreCk.num : Empty(NoRows, m)
               /\ Exact(s, Merge(s, rows[s], NoRows), StoreCk.blocks, StoreCk.num)
    <3>1. StoreCk \in Checkpoint
      BY <2>1, CkTypes
    <3>2. savedCheckpoints > 0 /\ SavedCk \in Checkpoint
      BY <2>1, CkTypes, StoreCkBehind
    <3>3. Exact(s, rows[s], SavedCk.blocks, SavedCk.num)
      BY <3>2, <2>1 DEF IInv, SavedIsWritten
    <3>4. Exact(s, rows[s], StoreCk.blocks, StoreCk.num)
      BY <2>1, <3>3, StoreCkBehind, ExactBelow
    <3>5. \A m \in 0..StoreCk.num : Empty(NoRows, m)
      BY SMTT(30), <3>1, ConstantsAssumption DEF Checkpoint, Block, Empty, NoRows
    <3>6. NoRows \in [Block -> [Fork -> Nat]] /\ rows[s] \in [Block -> [Fork -> Nat]]
      BY <2>1 DEF IInv, DataOK, Rows, NoRows
    <3> QED  BY <3>1, <3>4, <3>5, <3>6, MergeEmpty DEF Checkpoint
  <2>2. cks # <<>> <=> Len(cks) > 0
    BY SeqEmpty, SeqLen DEF IInv, DataOK
  <2>3. SavedIsWritten'
    BY <2>1, <2>2 DEF SavedIsWritten, SavedCk, StoreCk
  <2>4. NoRowLostOrDoubled'
    BY <2>1, <2>2 DEF NoRowLostOrDoubled, StoreCk
  <2> QED  BY <2>3, <2>4
<1>5. RunExtends' /\ ResetIsClean' /\ AheadIsOwn'
  BY DEF RunExtends, ResetIsClean, AheadIsOwn, Live
<1> QED  BY <1>1, <1>2, <1>3, <1>4, <1>5, SameCommitted DEF IInv

LEMMA StartStep == Keeps(Start)
<1> SUFFICES ASSUME IInv, Start
             PROVE  IInv'
  BY DEF Keeps
<1> USE DEF Start, chainVars, ctlVars, dataVars, bounds
<1> DEFINE n == LatestNum(checkpoints)
<1>1. n \in Block \cup {None} /\ FirstBlock(n) \in 0..Inf
  BY SMTT(30), CkTypes, ConstantsAssumption DEF LatestNum, LastCk, Checkpoint, None, FirstBlock, Block, Inf
<1>2. checkpoints # <<>> => /\ n = LastCk.num /\ n # None
                            /\ lin' = LastCk.blocks /\ LastCk.blocks \in [Block -> Fork]
  BY SMTT(30), CkTypes, ConstantsAssumption DEF LatestNum, LastCk, Checkpoint, None, Block
<1>3. lin' \in [Block -> Fork]
  BY SMTT(30), <1>2, ConstantsAssumption DEF LatestNum, None, Fork, Block
<1>4. DataOK'
  BY <1>1, <1>3 DEF IInv, DataOK, ActiveIds
<1>5. ASSUME NEW i \in DOMAIN checkpoints
      PROVE  checkpoints[i].num < FirstBlock(n) /\ checkpoints[i].blocks = BlocksUpTo(lin', checkpoints[i].num)
  <2>1. i \in 1..Len(checkpoints) /\ Len(checkpoints) \in 1..Len(checkpoints) /\ checkpoints # <<>>
    BY SMTT(30), CkTypes, SeqLen DEF IInv, DataOK
  <2>2. checkpoints[i].num \in Int /\ n \in Int
    BY SMTT(30), <1>1, CkNums DEF Block, None
  <2>3. CASE i = Len(checkpoints)
    BY SMTT(30), <2>1, <2>2, <2>3, <1>2 DEF IInv, GoodList, LastCk, FirstBlock
  <2>4. CASE i < Len(checkpoints)
    BY SMTT(30), <2>1, <2>2, <2>4, <1>2 DEF IInv, GoodList, OneFork, LastCk, FirstBlock
  <2> QED  BY SMTT(30), <2>1, <2>3, <2>4
<1>6. CountsFit' /\ RunExtends' /\ ResetIsClean' /\ AheadIsOwn'
  <2>1. op = "idle"
    BY DEF IInv, CountsFit, Live
  <2>2. FirstBlock(n) <= FirstBlock(n)
    BY SMTT(30), <1>1 DEF Inf
  <2> QED  BY <1>1, <1>5, <2>1, <2>2 DEF IInv, CountsFit, RunExtends, ResetIsClean, AheadIsOwn, Live, FirstBlock
<1> QED  BY <1>4, <1>6, SameLists, SameData, SameCommitted DEF IInv

\* A data store after Reset: as before up to the last checkpoint.
LEMMA ResetKeeps ==
    ASSUME IInv, NEW s \in Stores,
           cached' \in Rows, rows' \in Rows,
           UNCHANGED <<checkpoints, savedCheckpoints>>,
           \A t \in Stores, m \in Block :
              m <= LatestNum(checkpoints) => /\ cached'[t][m] = cached[t][m]
                                             /\ rows'[t][m] = rows[t][m]
    PROVE  SavedIsWritten' /\ NoRowLostOrDoubled'
<1>1. ASSUME savedCheckpoints > 0
      PROVE  SavedCk \in Checkpoint /\ SavedCk.num <= LatestNum(checkpoints)
  <2>1. /\ savedCheckpoints \in DOMAIN checkpoints /\ Len(checkpoints) \in DOMAIN checkpoints
        /\ checkpoints # <<>> /\ savedCheckpoints <= Len(checkpoints)
        /\ savedCheckpoints \in Nat /\ Len(checkpoints) \in Nat
    BY SMTT(30), <1>1, CkTypes, CkNums
  <2>2. SavedCk.num \in Block /\ LastCk.num \in Block
    BY <2>1, CkNums DEF SavedCk, LastCk
  <2>3. SavedCk.num <= LastCk.num
    <3>1. CASE savedCheckpoints = Len(checkpoints)
      BY SMTT(30), <3>1, <2>2 DEF SavedCk, LastCk, Block
    <3>2. CASE savedCheckpoints < Len(checkpoints)
      BY SMTT(30), <3>2, <2>1, <2>2 DEF IInv, GoodList, OneFork, SavedCk, LastCk, Block
    <3> QED  BY SMTT(30), <2>1, <3>1, <3>2
  <2> QED  BY <1>1, <2>1, <2>3, CkTypes DEF LatestNum, LastCk
<1>2. SavedIsWritten'
  <2> SUFFICES ASSUME savedCheckpoints > 0, NEW t \in Stores
               PROVE  /\ Exact(t, rows'[t], SavedCk.blocks, SavedCk.num)
                      /\ \A m \in 0..SavedCk.num : Empty(cached'[t], m)
    BY DEF SavedIsWritten, SavedCk
  <2>1. \A m \in 0..SavedCk.num : m \in Block /\ rows'[t][m] = rows[t][m] /\ cached'[t][m] = cached[t][m]
    <3>1. SavedCk.num \in Block /\ SavedCk.num <= LatestNum(checkpoints) /\ LatestNum(checkpoints) \in Int
      BY SMTT(30), <1>1, CkTypes DEF Checkpoint, LatestNum, LastCk, None, Block
    <3> QED  BY SMTT(30), <3>1, ConstantsAssumption DEF Block
  <2>2. Exact(t, rows[t], SavedCk.blocks, SavedCk.num) /\ \A m \in 0..SavedCk.num : Empty(cached[t], m)
    BY DEF IInv, SavedIsWritten
  <2> QED  BY SMTT(30), <2>1, <2>2 DEF Exact, Empty
<1>3. NoRowLostOrDoubled'
  <2> SUFFICES ASSUME checkpoints # <<>>, NEW t \in Stores
               PROVE  Exact(t, Merge(t, rows'[t], cached'[t]), LastCk.blocks, LastCk.num)
    BY DEF NoRowLostOrDoubled, LastCk
  <2>1. LastCk.num \in Block /\ LatestNum(checkpoints) = LastCk.num
    BY CkTypes DEF Checkpoint, LatestNum, LastCk
  <2>2. \A m \in 0..LastCk.num : Merge(t, rows'[t], cached'[t])[m] = Merge(t, rows[t], cached[t])[m]
    <3> SUFFICES ASSUME NEW m \in 0..LastCk.num
                 PROVE  Merge(t, rows'[t], cached'[t])[m] = Merge(t, rows[t], cached[t])[m]
      OBVIOUS
    <3>1. m \in Block /\ m <= LatestNum(checkpoints)
      BY SMTT(30), <2>1, ConstantsAssumption DEF Block
    <3>2. rows'[t][m] = rows[t][m] /\ cached'[t][m] = cached[t][m]
      BY <3>1
    <3> QED  BY <3>1, <3>2 DEF Merge
  <2>3. Exact(t, Merge(t, rows[t], cached[t]), LastCk.blocks, LastCk.num)
    BY DEF IInv, NoRowLostOrDoubled, LastCk
  <2> QED  BY <2>2, <2>3 DEF Exact
<1> QED  BY <1>2, <1>3

LEMMA ResetStep == \A s \in Stores : Keeps(ResetStore(s))
<1> SUFFICES ASSUME NEW s \in Stores, IInv, ResetStore(s)
             PROVE  IInv'
  BY DEF Keeps
<1> USE DEF ResetStore, CacheAfterReset, chainVars, ctlVars, bounds
<1> DEFINE n == LatestNum(checkpoints)
<1>1. n \in Int
  BY SMTT(30), CkTypes DEF LatestNum, LastCk, Checkpoint, None, Block
<1>2. cached' \in Rows /\ rows' \in Rows
  BY <1>1, CutType DEF IInv, DataOK, Rows
<1>3. /\ \A t \in Stores \ {s} : cached'[t] = cached[t] /\ rows'[t] = rows[t]
      /\ cached'[s] = RowsUpTo(cached[s], n)
      /\ rows'[s] = IF s = "webhook" THEN rows[s] ELSE RowsUpTo(rows[s], n)
  BY DEF IInv, DataOK, Rows
<1>4. DataOK'
  BY <1>2 DEF IInv, DataOK
<1>5. \A t \in Stores, m \in Block :
         m <= n => cached'[t][m] = cached[t][m] /\ rows'[t][m] = rows[t][m]
  BY SMTT(30), <1>3 DEF RowsUpTo
<1>6. SavedIsWritten' /\ NoRowLostOrDoubled'
  BY <1>2, <1>5, ResetKeeps
<1>7. op = "idle"
  BY DEF IInv, CountsFit, Live
<1>8. ResetIsClean'
  <2>1. \A m \in cursor..MaxBlock : m \in Block /\ ~(m <= n)
    BY SMTT(30), <1>1, ConstantsAssumption DEF IInv, DataOK, ResetIsClean, Block, Inf
  <2>2. ASSUME NEW m \in cursor..MaxBlock
        PROVE  (s # "webhook" => Empty(rows'[s], m)) /\ Empty(cached'[s], m)
    BY SMTT(30), <1>3, <2>1 DEF Empty, RowsUpTo, NoRows
  <2>3. ASSUME NEW t \in resetDone, NEW m \in cursor..MaxBlock, t # s
        PROVE  (t # "webhook" => Empty(rows'[t], m)) /\ Empty(cached'[t], m)
    <3>1. t \in Stores /\ cached'[t] = cached[t] /\ rows'[t] = rows[t]
      BY <2>3, <1>3 DEF IInv, DataOK
    <3> QED  BY <3>1 DEF IInv, ResetIsClean, Fresh
  <2> QED  BY <2>2, <2>3 DEF IInv, ResetIsClean, Fresh
<1>9. CountsFit' /\ RunExtends' /\ AheadIsOwn'
  BY <1>7 DEF IInv, CountsFit, RunExtends, AheadIsOwn, Live
<1> QED  BY <1>4, <1>6, <1>7, <1>8, <1>9, SameLists, SameCommitted DEF IInv

LEMMA ResetFailsStep == \A s \in Stores : \A gone \in SUBSET Block : Keeps(ResetFails(s, gone))
<1> SUFFICES ASSUME NEW s \in Stores, NEW gone \in SUBSET Block, IInv, ResetFails(s, gone)
             PROVE  IInv'
  BY DEF Keeps
<1> USE DEF ResetFails, CacheAfterReset, Fails, chainVars, ctlVars, walkVars
<1> DEFINE n == LatestNum(checkpoints)
<1>1. n \in Int
  BY SMTT(30), CkTypes DEF LatestNum, LastCk, Checkpoint, None, Block
<1>2. cached' \in Rows /\ rows' \in Rows
  BY <1>1, CutType DEF IInv, DataOK, Rows, NoRows
<1>3. /\ \A t \in Stores \ {s} : cached'[t] = cached[t] /\ rows'[t] = rows[t]
      /\ cached'[s] = RowsUpTo(cached[s], n)
      /\ rows'[s] = [m \in Block |-> IF m > n /\ m \in gone THEN NoRows[m] ELSE rows[s][m]]
  BY DEF IInv, DataOK, Rows
<1>4. DataOK'
  BY SMTT(30), <1>2, ConstantsAssumption DEF IInv, DataOK
<1>5. \A t \in Stores, m \in Block :
         m <= n => cached'[t][m] = cached[t][m] /\ rows'[t][m] = rows[t][m]
  BY SMTT(30), <1>1, <1>3 DEF RowsUpTo, Block
<1>6. SavedIsWritten' /\ NoRowLostOrDoubled'
  BY <1>2, <1>5, ResetKeeps
<1>7. op = "idle"
  BY DEF IInv, CountsFit, Live
<1>8. CountsFit' /\ RunExtends' /\ ResetIsClean' /\ AheadIsOwn'
  BY <1>7 DEF IInv, CountsFit, RunExtends, ResetIsClean, AheadIsOwn, Live
<1> QED  BY <1>4, <1>6, <1>7, <1>8, SameLists, SameCommitted DEF IInv

LEMMA ReadyStep == Keeps(Ready)
<1> SUFFICES ASSUME IInv, Ready
             PROVE  IInv'
  BY DEF Keeps
<1> USE DEF Ready, chainVars, dataVars, walkVars, bounds
<1>1. DataOK'
  BY DEF IInv, DataOK
<1>2. op = "idle"
  BY DEF IInv, CountsFit, Live
<1>3. CountsFit' /\ RunExtends' /\ ResetIsClean'
  BY <1>2 DEF IInv, CountsFit, RunExtends, ResetIsClean, Live
<1>4. AheadIsOwn'
  <2>1. cursor = LatestNum(checkpoints) + 1
    BY DEF IInv, ResetIsClean
  <2>2. \A m \in fetched..MaxBlock : ins[m] = {}
    BY SMTT(30), ConstantsAssumption DEF IInv, DataOK, ResetIsClean, Block, Inf
  <2>3. ASSUME NEW s \in Stores, NEW m \in cursor..MaxBlock
        PROVE  Fresh(s, m) /\ \A v \in Fork : cached[s][m][v] = IF s \in ins[m] /\ v = lin[m] THEN 1 ELSE 0
    <3>1. m \in Block /\ Fresh(s, m) /\ Empty(cached[s], m) /\ ins[m] = {}
      BY SMTT(30), ConstantsAssumption DEF IInv, DataOK, ResetIsClean, Block, Inf
    <3> QED  BY <3>1 DEF Empty
  <2> QED  BY SMTT(30), <2>1, <2>2, <2>3 DEF AheadIsOwn, Fresh
<1> QED  BY <1>1, <1>3, <1>4, SameLists, SameData, SameCommitted DEF IInv

LEMMA FetchStep == \A v \in Fork : Keeps(Fetch(v))
<1> SUFFICES ASSUME NEW w \in Fork, IInv, Fetch(w)
             PROVE  IInv'
  BY DEF Keeps
<1> USE DEF Fetch, chainVars, ctlVars, dataVars, bounds
<1>1. fetched \in Block /\ cursor <= fetched /\ cursor \in Nat
  BY SMTT(30), ConstantsAssumption DEF IInv, DataOK, RunExtends, Block, Inf
<1>2. DataOK'
  <2>1. fetched + 1 \in 0..Inf
    BY SMTT(30), <1>1, ConstantsAssumption DEF Block, Inf
  <2>2. Tag(w) \in Fork
    <3>1. forks \in [Fork -> [Block -> Fork]]
      BY DEF IInv, DataOK
    <3> QED  BY <1>1, <3>1 DEF Tag
  <2> QED  BY <1>1, <2>1, <2>2 DEF IInv, DataOK
<1>3. \A m \in Block : m # fetched => lin'[m] = lin[m]
  BY DEF IInv, DataOK
<1>4. RunExtends'
  <2>1. ASSUME NEW i \in DOMAIN checkpoints
        PROVE  /\ checkpoints[i].num < cursor
               /\ checkpoints[i].blocks = BlocksUpTo(lin', checkpoints[i].num)
    <3>1. /\ checkpoints[i].num < cursor /\ checkpoints[i].num \in Block
          /\ checkpoints[i].blocks = BlocksUpTo(lin, checkpoints[i].num)
      BY CkNums DEF IInv, RunExtends
    <3>2. BlocksUpTo(lin', checkpoints[i].num) = BlocksUpTo(lin, checkpoints[i].num)
      BY SMTT(30), <1>1, <1>3, <3>1 DEF BlocksUpTo, Block
    <3> QED  BY <3>1, <3>2
  <2>2. cursor <= fetched + 1
    BY SMTT(30), <1>1, ConstantsAssumption DEF Block
  <2> QED  BY <2>1, <2>2 DEF RunExtends
<1>5. AheadIsOwn'
  <2> SUFFICES ASSUME ~stopped PROVE AheadIsOwn'
    BY DEF AheadIsOwn
  <2>1. AheadIsOwn /\ Live
    BY DEF IInv, Live
  <2>2. \A m \in (fetched + 1)..MaxBlock : ins[m] = {}
    BY SMTT(30), <2>1, <1>1, ConstantsAssumption DEF AheadIsOwn, Block
  <2>3. ASSUME NEW s \in Stores, NEW m \in cursor..MaxBlock
        PROVE  Fresh(s, m) /\ \A v \in Fork : cached[s][m][v] = IF s \in ins[m] /\ v = lin'[m] THEN 1 ELSE 0
    <3>1. m \in Block
      BY SMTT(30), <1>1, ConstantsAssumption DEF Block
    <3>2. CASE m = fetched
      BY SMTT(30), <3>1, <3>2, <2>1 DEF AheadIsOwn, Block
    <3>3. CASE m # fetched
      BY SMTT(30), <3>1, <3>3, <1>3, <2>1 DEF AheadIsOwn
    <3> QED  BY <3>2, <3>3
  <2> QED  BY SMTT(30), <2>1, <2>2, <2>3 DEF AheadIsOwn, Fresh
<1>6. CountsFit' /\ ResetIsClean'
  BY DEF IInv, CountsFit, ResetIsClean, Live
<1> QED  BY <1>2, <1>4, <1>5, <1>6, SameLists, SameData, SameCommitted DEF IInv

LEMMA InsertStep == \A n \in Block : \A s \in Stores : Keeps(InsertRows(n, s))
<1> SUFFICES ASSUME NEW n \in Block, NEW s \in Stores, IInv, InsertRows(n, s)
             PROVE  IInv'
  BY DEF Keeps
<1> USE DEF InsertRows, Executing, chainVars, ctlVars, bounds
<1> DEFINE new == [NoRows EXCEPT ![n] = [@ EXCEPT ![lin[n]] = 1]]
<1>1. /\ n >= cursor /\ n < fetched /\ cursor \in Nat /\ n \in Nat /\ fetched \in Nat
      /\ lin[n] \in Fork /\ s \notin ins[n] /\ ins[n] \subseteq Stores
  <2>1. s \notin Before(s)
    BY ConstantsAssumption DEF Before
  <2> QED  BY SMTT(30), <2>1, ConstantsAssumption DEF IInv, DataOK, Block, Inf
<1>2. /\ new \in [Block -> [Fork -> Nat]]
      /\ \A m \in Block, v \in Fork : new[m][v] = IF m = n /\ v = lin[n] THEN 1 ELSE 0
  BY <1>1 DEF NoRows
<1> HIDE DEF new
<1>3. cached[s] \in [Block -> [Fork -> Nat]] /\ cached \in Rows
  BY DEF IInv, DataOK, Rows
<1>4. cached' = [cached EXCEPT ![s] = Merge(s, cached[s], new)]
  BY DEF new
<1>5. cached' \in Rows /\ ins' \in [Block -> SUBSET Stores]
  <2>1. Merge(s, cached[s], new) \in [Block -> [Fork -> Nat]]
    BY <1>2, <1>3, MergeType
  <2>2. cached' \in Rows
    BY <2>1, <1>3, <1>4 DEF Rows
  <2> QED  BY <2>2 DEF IInv, DataOK
<1>6. DataOK'
  BY <1>5 DEF IInv, DataOK
<1>7. ASSUME NEW t \in Stores, NEW m \in Block, t # s \/ m # n
      PROVE  cached'[t][m] = cached[t][m]
  <2>1. CASE t # s
    BY <2>1, <1>3, <1>4 DEF Rows
  <2>2. CASE t = s /\ m # n
    <3>1. cached'[t] = Merge(s, cached[s], new)
      BY <2>2, <1>3, <1>4 DEF Rows
    <3>2. ASSUME NEW v \in Fork PROVE AddRows(s, cached[s][m][v], new[m][v]) = cached[s][m][v]
      BY SMTT(30), <2>2, <1>2, <1>3 DEF AddRows
    <3>3. Merge(s, cached[s], new)[m] = [v \in Fork |-> cached[s][m][v]]
      BY <3>2 DEF Merge
    <3>4. cached[s][m] = [v \in Fork |-> cached[s][m][v]]
      BY <1>3
    <3> QED  BY <2>2, <3>1, <3>3, <3>4
  <2> QED  BY <1>7, <2>1, <2>2
<1>8. \A i \in DOMAIN checkpoints : checkpoints[i].num < n /\ checkpoints[i].num \in Block
  BY SMTT(30), <1>1, CkNums DEF IInv, RunExtends, Live, Block
<1>9. SavedIsWritten' /\ NoRowLostOrDoubled'
  <2>1. LatestNum(checkpoints) < n /\ LatestNum(checkpoints) \in Int
    BY SMTT(30), <1>1, <1>8, CkTypes, CkNums DEF LatestNum, None, Block
  <2>2. \A t \in Stores, m \in Block : m <= LatestNum(checkpoints) =>
           cached'[t][m] = cached[t][m] /\ rows'[t][m] = rows[t][m]
    <3>1. \A m \in Block : m <= LatestNum(checkpoints) => m # n
      BY SMTT(30), <2>1, <1>1 DEF Block
    <3> QED  BY <3>1, <1>7
  <2>3. rows' \in Rows
    BY DEF IInv, DataOK
  <2> QED  BY <2>2, <2>3, <1>5, ResetKeeps
<1>10. AheadIsOwn'
  <2> SUFFICES ASSUME ~stopped PROVE AheadIsOwn'
    BY DEF AheadIsOwn
  <2>1. AheadIsOwn /\ Live
    BY DEF IInv, Live
  <2>2. \A m \in fetched..MaxBlock : ins'[m] = {}
    BY SMTT(30), <2>1, <1>1, ConstantsAssumption DEF IInv, DataOK, AheadIsOwn, Block
  <2>3. ASSUME NEW t \in Stores, NEW m \in cursor..MaxBlock, NEW v \in Fork
        PROVE  cached'[t][m][v] = IF t \in ins'[m] /\ v = lin[m] THEN 1 ELSE 0
    <3>1. m \in Block /\ cached[t][m][v] = IF t \in ins[m] /\ v = lin[m] THEN 1 ELSE 0
      BY SMTT(30), <2>1, <1>1, ConstantsAssumption DEF AheadIsOwn, Block
    <3>2. CASE t = s /\ m = n
      <4>1. cached'[s] = Merge(s, cached[s], new)
        BY <1>3, <1>4 DEF Rows
      <4>2. cached'[s][m][v] = AddRows(s, cached[s][m][v], new[m][v])
        BY SMTT(30), <3>1, <4>1 DEF Merge
      <4>3. cached[s][m][v] = 0 /\ new[m][v] = IF v = lin[m] THEN 1 ELSE 0
        BY <3>1, <3>2, <1>1, <1>2
      <4>4. s \in ins'[m]
        BY <3>2 DEF IInv, DataOK
      <4> QED  BY SMTT(30), <3>2, <4>2, <4>3, <4>4 DEF AddRows
    <3>3. CASE t # s \/ m # n
      <4>1. t \in ins'[m] <=> t \in ins[m]
        BY <3>1, <3>3 DEF IInv, DataOK
      <4> QED  BY <3>1, <3>3, <4>1, <1>7
    <3> QED  BY <3>2, <3>3
  <2>4. \A t \in Stores : \A m \in cursor..MaxBlock : Fresh(t, m)'
    BY <2>1 DEF AheadIsOwn, Fresh
  <2>5. cursor' = LatestNum(checkpoints)' + 1 /\ UNCHANGED <<cursor, fetched, lin>>
    BY <2>1 DEF AheadIsOwn
  <2> HIDE DEF InsertRows
  <2> QED  BY SMTT(30), <2>2, <2>3, <2>4, <2>5 DEF AheadIsOwn
<1>11. CountsFit' /\ RunExtends' /\ ResetIsClean'
  BY DEF IInv, CountsFit, RunExtends, ResetIsClean, Live
<1> QED  BY <1>6, <1>9, <1>10, <1>11, SameLists, SameCommitted DEF IInv

\* The kinds of error that end a run, and none.
Errors == {"none", "internal", "driver", "runtime", "system", "user"}

\* Steps that only move the run on: no checkpoint, no row and no block changes.
PhaseOnly ==
    /\ UNCHANGED <<chainVars, checkpoints, savedCheckpoints, stopped, chainState, dataVars, walkVars>>
    /\ failures' \in 0..MaxFail /\ crashes' \in 0..MaxCrash /\ err' \in Errors
    /\ \/ UNCHANGED <<phase, op, store>>
       \/ Live /\ phase' = "failing" /\ (op' = op \/ op' = "idle") /\ store' = store
       \/ /\ op = "idle" /\ op' = op /\ phase' \in {"down", "failed", "exited", "done"}
          /\ store' \in {store, chainState}

LEMMA PhaseStep == Keeps(PhaseOnly)
<1> SUFFICES ASSUME IInv, PhaseOnly
             PROVE  IInv'
  BY DEF Keeps
<1> USE DEF PhaseOnly, chainVars, dataVars, walkVars
<1>1. DataOK'
  BY DEF IInv, DataOK, Errors
<1>2. CountsFit' /\ RunExtends' /\ ResetIsClean'
  <2>1. /\ UNCHANGED <<checkpoints, savedCheckpoints, stopped, cached, rows>>
        /\ UNCHANGED <<cursor, fetched, lin, ins, resetDone>>
        /\ \/ UNCHANGED <<phase, op>>
           \/ Live /\ phase' = "failing" /\ (op' = op \/ op' = "idle")
           \/ op = "idle" /\ op' = op /\ phase' \in {"down", "failed", "exited", "done"}
    BY DEF PhaseOnly
  <2> HIDE DEF PhaseOnly
  <2>2. CountsFit'
    BY SMTT(30), <2>1 DEF IInv, CountsFit, Live
  <2>3. RunExtends'
    BY SMTT(30), <2>1 DEF IInv, RunExtends, Live
  <2>4. ResetIsClean'
    BY SMTT(30), <2>1 DEF IInv, ResetIsClean, Live, Fresh
  <2> QED  BY <2>2, <2>3, <2>4
<1>3. AheadIsOwn'
  BY SMTT(30) DEF IInv, AheadIsOwn, Live, Fresh
<1>4. GoodList(checkpoints)' /\ WrittenGood' /\ StoreBehind'
  <2>1. CASE store' = store
    BY <2>1, SameLists
  <2>2. CASE store' = chainState
    BY <2>2 DEF IInv, WrittenGood, StoreBehind, Behind, SavedCk
  <2> QED  BY <2>1, <2>2
<1> QED  BY <1>1, <1>2, <1>3, <1>4, SameData, SameCommitted DEF IInv

LEMMA TemplateStep == \A n \in Block : Keeps(NewTemplateInstance(n))
<1> SUFFICES ASSUME NEW n \in Block, IInv, NewTemplateInstance(n)
             PROVE  IInv'
  BY DEF Keeps
<1>1. /\ UNCHANGED <<chainVars, checkpoints, savedCheckpoints, stopped, storeVars, dataVars, walkVars>>
      /\ UNCHANGED <<op, failures, crashes>> /\ Live
      /\ UNCHANGED runVars \/ FailsWith("user")
  BY DEF NewTemplateInstance, Executing, bounds
<1>2. PhaseOnly
  BY <1>1 DEF PhaseOnly, FailsWith, Errors, IInv, DataOK
<1> QED  BY <1>2, PhaseStep DEF Keeps

\* The steps that fail a run without touching anything else.
LEMMA FailStep ==
    /\ \A e \in {"driver", "runtime", "system", "user"} : Keeps(RunFails(e))
    /\ \A e \in {"driver", "system", "user"} : Keeps(StartFails(e))
    /\ Keeps(QuotaFails)
<1> SUFFICES ASSUME IInv,
                    \/ \E e \in {"driver", "runtime", "system", "user"} : RunFails(e)
                    \/ \E e \in {"driver", "system", "user"} : StartFails(e)
                    \/ QuotaFails
             PROVE  IInv'
  BY DEF Keeps
<1>1. /\ failures \in 0..MaxFail /\ crashes \in 0..MaxCrash /\ MaxFail \in Nat
      /\ (op # "idle" => Live) /\ err \in Errors
  BY ConstantsAssumption DEF IInv, DataOK, CountsFit, Errors
<1>2. ASSUME NEW e \in {"driver", "runtime", "system", "user"}, RunFails(e) PROVE PhaseOnly
  <2>1. failures' \in 0..MaxFail
    BY SMTT(30), <1>1, <1>2 DEF RunFails, Fails
  <2> QED  BY <1>1, <1>2, <2>1 DEF PhaseOnly, RunFails, FailsWith, Errors, ctlVars, Live
<1>3. ASSUME NEW e \in {"driver", "system", "user"}, StartFails(e) PROVE PhaseOnly
  <2>1. failures' \in 0..MaxFail
    BY SMTT(30), <1>1, <1>3 DEF StartFails, Fails
  <2> QED  BY <1>1, <1>3, <2>1 DEF PhaseOnly, StartFails, Errors, ctlVars, Live
<1>4. ASSUME QuotaFails PROVE PhaseOnly
  <2>1. failures' \in 0..MaxFail
    BY SMTT(30), <1>1, <1>4 DEF QuotaFails, Fails
  <2>2. op = "quota" /\ op' = "idle" /\ "quota" # "idle"
    BY <1>4 DEF QuotaFails, SaveTo
  <2> QED  BY <1>1, <1>4, <2>1, <2>2 DEF PhaseOnly, QuotaFails, SaveTo, FailsWith, Errors, ctlVars
<1> QED  BY <1>2, <1>3, <1>4, PhaseStep DEF Keeps

\* The steps of Main.
LEMMA MainStep == Keeps(RunEnds \/ ChainDone \/ MainRetries \/ MainReturns \/ SaveErrorFails)
<1> SUFFICES ASSUME IInv, RunEnds \/ ChainDone \/ MainRetries \/ MainReturns \/ SaveErrorFails
             PROVE  IInv'
  BY DEF Keeps
<1>1. /\ failures \in 0..MaxFail /\ crashes \in 0..MaxCrash
      /\ (op # "idle" => Live) /\ err \in Errors /\ "none" \in Errors
  BY DEF IInv, DataOK, CountsFit, Errors
<1>2. ASSUME RunEnds PROVE PhaseOnly
  BY <1>1, <1>2 DEF PhaseOnly, RunEnds, ctlVars, bounds
<1>3. ASSUME ChainDone PROVE PhaseOnly
  BY <1>1, <1>3 DEF PhaseOnly, ChainDone, ctlVars, bounds
<1>4. ASSUME AfterRun, err' \in Errors, phase' \in {"down", "exited"}, store' \in {store, chainState}
      PROVE  PhaseOnly
  BY <1>1, <1>4 DEF PhaseOnly, AfterRun, Live, ctlVars, bounds
<1>5. ASSUME MainRetries \/ MainReturns \/ SaveErrorFails PROVE PhaseOnly
  BY <1>1, <1>4, <1>5 DEF MainRetries, MainReturns, SaveErrorFails, SaveError
<1> QED  BY <1>2, <1>3, <1>5, PhaseStep DEF Keeps

LEMMA StoppedStep == Keeps(MakeCheckpointStopped)
<1> SUFFICES ASSUME IInv, MakeCheckpointStopped
             PROVE  IInv'
  BY DEF Keeps
<1> USE DEF MakeCheckpointStopped, BlockDone, chainVars, ctlVars, dataVars, bounds
<1>1. DataOK'
  BY SMTT(30), ConstantsAssumption DEF IInv, DataOK, Inf
<1>2. RunExtends'
  <2>1. \A i \in DOMAIN checkpoints : checkpoints[i].num < cursor + 1
    BY SMTT(30), CkNums DEF IInv, DataOK, RunExtends, Live, Block, Inf
  <2>2. cursor + 1 <= fetched
    BY SMTT(30) DEF IInv, DataOK, Inf
  <2> QED  BY <2>1, <2>2 DEF IInv, RunExtends, Live
<1>3. CountsFit' /\ ResetIsClean' /\ AheadIsOwn'
  BY DEF IInv, CountsFit, ResetIsClean, AheadIsOwn, Live
<1> QED  BY <1>1, <1>2, <1>3, SameLists, SameData, SameCommitted DEF IInv
=============================================================================
