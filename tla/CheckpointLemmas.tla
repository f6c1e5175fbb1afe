------------------------- MODULE CheckpointLemmas -------------------------
(***************************************************************************)
(* Lemmas about sequences of checkpoints, blocks and rows, and about the   *)
(* parts of the inductive invariant that a step leaves alone.              *)
(***************************************************************************)
EXTENDS CheckpointInvariant, TLAPS

\* A leaf that names no backend is proved by Zenon; those that need arithmetic
\* or extensionality name the SMT solver.
USE ZenonT(30) DEF storeVars, runVars

(***************************************************************************)
(* Sequences.                                                              *)
(***************************************************************************)

\* A sequence is a function on the positions up to its length.
LEMMA SeqLen ==
    ASSUME NEW S, NEW q \in Seq(S)
    PROVE  Len(q) \in Nat /\ q \in [1..Len(q) -> S] /\ DOMAIN q = 1..Len(q)
BY SMTT(30)

LEMMA SeqOf ==
    ASSUME NEW S, NEW n \in Nat, NEW f \in [1..n -> S]
    PROVE  f \in Seq(S) /\ Len(f) = n
BY SMTT(30)

LEMMA SeqEmpty ==
    ASSUME NEW S
    PROVE  <<>> \in Seq(S) /\ Len(<<>>) = 0 /\ \A q \in Seq(S) : q # <<>> <=> Len(q) > 0
BY SMTT(30)

\* Each operation on sequences, by its length and its elements.
LEMMA SeqConcat ==
    ASSUME NEW S, NEW q \in Seq(S), NEW r \in Seq(S)
    PROVE  /\ q \o r \in Seq(S) /\ Len(q \o r) = Len(q) + Len(r)
           /\ \A i \in 1..(Len(q) + Len(r)) :
                 (q \o r)[i] = IF i <= Len(q) THEN q[i] ELSE r[i - Len(q)]
BY SMTT(30)

LEMMA SeqPart ==
    ASSUME NEW S, NEW q \in Seq(S), NEW a \in 1..(Len(q) + 1), NEW b \in (a - 1)..Len(q)
    PROVE  /\ SubSeq(q, a, b) \in Seq(S) /\ Len(SubSeq(q, a, b)) = b - a + 1
           /\ \A i \in 1..(b - a + 1) : SubSeq(q, a, b)[i] = q[a + i - 1]
BY SMTT(30)

LEMMA SeqWhole ==
    ASSUME NEW S, NEW q \in Seq(S)
    PROVE  SubSeq(q, 1, Len(q)) = q
BY SMTT(30)

LEMMA SeqAppend ==
    ASSUME NEW S, NEW q \in Seq(S), NEW e \in S
    PROVE  /\ Append(q, e) \in Seq(S) /\ Len(Append(q, e)) = Len(q) + 1
           /\ Append(q, e)[Len(q) + 1] = e
           /\ \A i \in 1..Len(q) : Append(q, e)[i] = q[i]
BY SMTT(30)

(***************************************************************************)
(* Blocks and rows.                                                        *)
(***************************************************************************)

\* The blocks of a checkpoint give every number a tag.
LEMMA BlocksType ==
    ASSUME NEW f \in [Block -> Fork], NEW n \in Int
    PROVE  BlocksUpTo(f, n) \in [Block -> Fork]
BY SMTT(30), ConstantsAssumption DEF BlocksUpTo, Block, Fork

\* The blocks of a checkpoint determine those of every earlier one.
LEMMA BlocksOfBlocks ==
    ASSUME NEW f, NEW i \in Int, NEW j \in Int, i <= j
    PROVE  BlocksUpTo(BlocksUpTo(f, j), i) = BlocksUpTo(f, i)
BY SMTT(30), ConstantsAssumption DEF BlocksUpTo, Block

LEMMA BlocksAt ==
    ASSUME NEW f, NEW n \in Int, NEW m \in Block, m <= n
    PROVE  BlocksUpTo(f, n)[m] = f[m]
BY ConstantsAssumption DEF BlocksUpTo, Block

\* Data that is exact up to a block is exact up to every earlier block.
LEMMA ExactBelow ==
    ASSUME NEW s, NEW r, NEW h, NEW n \in Block, NEW k \in Block, k <= n,
           Exact(s, r, h, n)
    PROVE  Exact(s, r, BlocksUpTo(h, k), k)
BY SMTT(30), ConstantsAssumption, BlocksAt DEF Exact, Block

\* A part of a good list, in order, is a good list.
LEMMA GoodPart ==
    ASSUME NEW a \in Seq(Checkpoint), NEW b \in Seq(Checkpoint),
           NEW g \in [1..Len(b) -> 1..Len(a)],
           \A i, j \in 1..Len(b) : i < j => g[i] < g[j],
           \A i \in 1..Len(b) : b[i] = a[g[i]],
           GoodList(a)
    PROVE  GoodList(b)
<1>1. DOMAIN a = 1..Len(a) /\ DOMAIN b = 1..Len(b) /\ Len(a) \in Nat /\ Len(b) \in Nat
  BY SeqLen
<1>2. ASSUME NEW i \in 1..Len(b), NEW j \in 1..Len(b), i < j
      PROVE  b[i].num < b[j].num /\ b[i].blocks = BlocksUpTo(b[j].blocks, b[i].num)
  <2>1. g[i] \in DOMAIN a /\ g[j] \in DOMAIN a /\ g[i] < g[j]
    BY <1>1, <1>2
  <2>2. b[i] = a[g[i]] /\ b[j] = a[g[j]]
    OBVIOUS
  <2> QED  BY SMTT(30), <2>1, <2>2 DEF GoodList, OneFork
<1>3. ASSUME NEW i \in 1..Len(b)
      PROVE  b[i].blocks = BlocksUpTo(b[i].blocks, b[i].num)
  BY SMTT(30), <1>1 DEF GoodList
<1> QED  BY <1>1, <1>2, <1>3 DEF GoodList, OneFork

\* The checkpoints that remain after CleanCheckpoint or after the rollback
\* of a failed save.
LEMMA Prefix ==
    ASSUME NEW a \in Seq(Checkpoint), GoodList(a), NEW k \in 0..Len(a)
    PROVE  /\ SubSeq(a, 1, k) \in Seq(Checkpoint)
           /\ Len(SubSeq(a, 1, k)) = k
           /\ \A i \in 1..k : SubSeq(a, 1, k)[i] = a[i]
           /\ GoodList(SubSeq(a, 1, k))
<1> DEFINE b == SubSeq(a, 1, k)
           g == [i \in 1..k |-> i]
<1>1. b \in Seq(Checkpoint) /\ Len(b) = k /\ \A i \in 1..k : b[i] = a[i]
  BY SMTT(30), SeqPart, SeqLen
<1>2. g \in [1..Len(b) -> 1..Len(a)] /\ \A i \in 1..Len(b) : g[i] = i
  BY SMTT(30), <1>1, SeqLen
<1>3. GoodList(b)
  <2> HIDE DEF b, g
  <2> QED  BY SMTT(30), <1>1, <1>2, GoodPart, SeqLen
<1> QED  BY <1>1, <1>3

\* save drops the unsaved checkpoints before the one it saves.
LEMMA Collapsed ==
    ASSUME NEW a \in Seq(Checkpoint), GoodList(a), savedCheckpoints \in Nat,
           NEW k \in (savedCheckpoints + 1) .. Len(a)
    PROVE  LET b == Collapse(a, k) IN
           /\ b \in Seq(Checkpoint)
           /\ Len(b) = savedCheckpoints + 1 + Len(a) - k
           /\ \A i \in 1..savedCheckpoints : b[i] = a[i]
           /\ \A i \in (savedCheckpoints + 1) .. Len(b) : b[i] = a[i + k - 1 - savedCheckpoints]
           /\ GoodList(b)
<1> DEFINE n == savedCheckpoints
           b1 == SubSeq(a, 1, n)
           b2 == SubSeq(a, k, Len(a))
           b == b1 \o b2
           g == [i \in 1..(n + 1 + Len(a) - k) |-> IF i <= n THEN i ELSE i + k - 1 - n]
<1>0. Len(a) \in Nat /\ n \in Nat /\ k \in Nat /\ n < k /\ k <= Len(a)
  BY SMTT(30), SeqLen
<1>1. b1 \in Seq(Checkpoint) /\ Len(b1) = n /\ \A i \in 1..n : b1[i] = a[i]
  BY SMTT(30), <1>0, SeqPart
<1>2. /\ b2 \in Seq(Checkpoint) /\ Len(b2) = Len(a) - k + 1
      /\ \A i \in 1..(Len(a) - k + 1) : b2[i] = a[k + i - 1]
  BY SMTT(30), <1>0, SeqPart
<1> HIDE DEF b1, b2
<1>3. /\ b \in Seq(Checkpoint) /\ Len(b) = Len(b1) + Len(b2)
      /\ \A i \in 1..(Len(b1) + Len(b2)) : b[i] = IF i <= Len(b1) THEN b1[i] ELSE b2[i - Len(b1)]
  BY <1>1, <1>2, SeqConcat
<1> HIDE DEF b
<1>4. Len(b) = n + 1 + Len(a) - k /\ \A i \in 1..n : b[i] = a[i]
  <2>1. Len(b) = n + 1 + Len(a) - k
    BY SMTT(30), <1>0, <1>1, <1>2, <1>3
  <2>2. ASSUME NEW i \in 1..n  PROVE  b[i] = a[i]
    <3>1. i \in 1..(Len(b1) + Len(b2)) /\ i <= Len(b1)
      BY SMTT(30), <1>0, <1>1, <1>2
    <3> QED  BY <3>1, <1>1, <1>3
  <2> QED  BY <2>1, <2>2
<1>5. ASSUME NEW i \in (n + 1) .. Len(b)
      PROVE  b[i] = a[i + k - 1 - n]
  <2>1. i - n \in 1..(Len(a) - k + 1) /\ i \in 1..(Len(b1) + Len(b2)) /\ ~(i <= Len(b1))
    BY SMTT(30), <1>0, <1>1, <1>2, <1>4
  <2>2. b[i] = b2[i - n]
    BY <2>1, <1>1, <1>3
  <2>3. k + (i - n) - 1 = i + k - 1 - n
    BY SMTT(30), <1>0
  <2> QED  BY <2>1, <2>2, <2>3, <1>2
<1>6. /\ g \in [1..Len(b) -> 1..Len(a)]
      /\ \A i, j \in 1..Len(b) : i < j => g[i] < g[j]
  BY SMTT(30), <1>0, <1>4
<1>7. ASSUME NEW i \in 1..Len(b)
      PROVE  b[i] = a[g[i]]
  <2>1. CASE i <= n
    BY SMTT(30), <2>1, <1>0, <1>4
  <2>2. CASE ~(i <= n)
    BY SMTT(30), <2>2, <1>0, <1>4, <1>5
  <2> QED  BY <2>1, <2>2
<1>8. GoodList(b)
  <2> HIDE DEF g
  <2> QED  BY <1>3, <1>6, <1>7, GoodPart
<1> QED  BY <1>3, <1>4, <1>5, <1>8 DEF Collapse, b, b1, b2

\* RemoveWithMultiplier keeps the last of the checkpoints it is given.
LEMMA Thinned ==
    ASSUME NEW a \in Seq(Checkpoint), GoodList(a), NEW k \in 1..Len(a),
           NEW f \in Thinnings(k)
    PROVE  LET b == Thin(a, f) IN
           /\ b \in Seq(Checkpoint)
           /\ Len(b) \in Nat \ {0}
           /\ b[Len(b)] = a[k]
           /\ GoodList(b)
           /\ Len(b) = Len(f) /\ f \in [1..Len(f) -> 1..k] /\ f[Len(f)] = k
           /\ \A i, j \in 1..Len(f) : i < j => f[i] < f[j]
           /\ \A i \in 1..Len(f) : b[i] = a[f[i]]
<1> DEFINE b == Thin(a, f)
<1>1. PICK n \in 1..k : /\ f \in [1..n -> 1..k] /\ f[1] = 1 /\ f[n] = k
                        /\ \A i, j \in 1..n : i < j => f[i] < f[j]
  BY DEF Thinnings
<1>2. n \in Nat \ {0} /\ k \in Nat /\ Len(a) \in Nat /\ k <= Len(a)
  BY SMTT(30), SeqLen
<1>3. f \in Seq(1..k) /\ Len(f) = n
  BY <1>1, <1>2, SeqOf, SeqLen
<1>4. b \in [1..n -> Checkpoint] /\ \A i \in 1..n : b[i] = a[f[i]]
  BY SMTT(30), <1>1, <1>2, SeqLen DEF Thin
<1>5. b \in Seq(Checkpoint) /\ Len(b) = n
  BY <1>4, <1>2, SeqOf, SeqLen
<1>6. f \in [1..Len(b) -> 1..Len(a)]
  BY SMTT(30), <1>1, <1>2, <1>5
<1>7. GoodList(b)
  <2> HIDE DEF b
  <2> QED  BY <1>1, <1>4, <1>5, <1>6, GoodPart
<1> QED  BY SMTT(30), <1>1, <1>2, <1>3, <1>4, <1>5, <1>7

\* The list after a save: the kept checkpoints, the one just saved the last of
\* them, and the ones that are not saved yet.
LEMMA SavedList ==
    ASSUME NEW a \in Seq(Checkpoint), GoodList(a), NEW k \in 1..Len(a),
           NEW f \in Thinnings(k)
    PROVE  LET kept == Thin(a, f)
               b == kept \o SubSeq(a, k + 1, Len(a))
           IN  /\ b \in Seq(Checkpoint)
               /\ Len(b) = Len(kept) + Len(a) - k
               /\ b[Len(kept)] = a[k]
               /\ b[Len(b)] = a[Len(a)]
               /\ \A i \in 1..Len(b) : \E j \in 1..Len(a) : b[i] = a[j]
               /\ GoodList(b)
<1> DEFINE kept == Thin(a, f)
           n == Len(f)
           later == SubSeq(a, k + 1, Len(a))
           b == kept \o later
           g == [i \in 1..(n + Len(a) - k) |-> IF i <= n THEN f[i] ELSE i - n + k]
<1>0. Len(a) \in Nat /\ k \in Nat /\ 1 <= k /\ k <= Len(a)
  BY SMTT(30), SeqLen
<1>1. /\ kept \in Seq(Checkpoint) /\ Len(kept) = n /\ n \in Nat \ {0}
      /\ f \in [1..n -> 1..k] /\ f[n] = k
      /\ \A i, j \in 1..n : i < j => f[i] < f[j]
      /\ \A i \in 1..n : kept[i] = a[f[i]]
  BY SMTT(30), Thinned
<1>2. /\ later \in Seq(Checkpoint) /\ Len(later) = Len(a) - k
      /\ \A i \in 1..(Len(a) - k) : later[i] = a[k + i]
  BY SMTT(30), <1>0, SeqPart
<1> HIDE DEF kept, later, n
<1>3. /\ b \in Seq(Checkpoint) /\ Len(b) = Len(kept) + Len(later)
      /\ \A i \in 1..(Len(kept) + Len(later)) :
            b[i] = IF i <= Len(kept) THEN kept[i] ELSE later[i - Len(kept)]
  <2>1. kept \in Seq(Checkpoint) /\ later \in Seq(Checkpoint)
    BY <1>1, <1>2
  <2> QED  BY <2>1, SeqConcat
<1> HIDE DEF b
<1>4. Len(b) = n + Len(a) - k /\ Len(b) \in Nat /\ n <= Len(b)
  BY SMTT(30), <1>0, <1>1, <1>2, <1>3
<1>5. ASSUME NEW i \in 1..Len(b)
      PROVE  g[i] \in 1..Len(a) /\ b[i] = a[g[i]]
  <2>1. CASE i <= n
    <3>1. g[i] = f[i] /\ f[i] \in 1..k /\ i \in 1..n
      BY SMTT(30), <2>1, <1>0, <1>1, <1>4
    <3>2. i \in 1..(Len(kept) + Len(later)) /\ i <= Len(kept)
      BY <2>1, <1>0, <1>1, <1>2, <1>4
    <3>3. b[i] = kept[i]
      BY <3>2, <1>3
    <3> QED  BY SMTT(30), <3>1, <3>3, <1>0, <1>1
  <2>2. CASE ~(i <= n)
    <3>1. g[i] = i - n + k /\ i - n \in 1..(Len(a) - k)
      BY SMTT(30), <2>2, <1>0, <1>1, <1>4
    <3>2. i \in 1..(Len(kept) + Len(later)) /\ ~(i <= Len(kept))
      BY <2>2, <1>0, <1>1, <1>2, <1>4
    <3>3. b[i] = later[i - n]
      BY <3>2, <1>1, <1>3
    <3>4. later[i - n] = a[k + (i - n)]
      BY <3>1, <1>2
    <3>5. k + (i - n) = i - n + k /\ i - n + k \in 1..Len(a)
      BY SMTT(30), <3>1, <1>0, <1>1, <1>4
    <3> QED  BY <3>1, <3>3, <3>4, <3>5
  <2> QED  BY <2>1, <2>2
<1>6. ASSUME NEW i \in 1..Len(b), NEW j \in 1..Len(b), i < j
      PROVE  g[i] < g[j]
  BY SMTT(30), <1>0, <1>1, <1>4, <1>6
<1>7. g[n] = k /\ g[Len(b)] = Len(a)
  <2>1. CASE Len(a) = k
    BY SMTT(30), <2>1, <1>0, <1>1, <1>4
  <2>2. CASE Len(a) # k
    BY SMTT(30), <2>2, <1>0, <1>1, <1>4
  <2> QED  BY <2>1, <2>2
<1>8. g \in [1..Len(b) -> 1..Len(a)]
  BY <1>4, <1>5
<1> HIDE DEF g
<1>9. GoodList(b)
  BY <1>3, <1>5, <1>6, <1>8, GoodPart
<1>10. b[n] = a[k] /\ b[Len(b)] = a[Len(a)]
  <2>1. n \in 1..Len(b) /\ Len(b) \in 1..Len(b)
    BY SMTT(30), <1>1, <1>4
  <2> QED  BY <2>1, <1>5, <1>7
<1> QED  BY <1>1, <1>3, <1>4, <1>5, <1>9, <1>10 DEF b, kept, later

(***************************************************************************)
(* Rows.                                                                   *)
(***************************************************************************)

LEMMA MergeType ==
    ASSUME NEW s, NEW r \in [Block -> [Fork -> Nat]], NEW c \in [Block -> [Fork -> Nat]]
    PROVE  Merge(s, r, c) \in [Block -> [Fork -> Nat]]
BY SMTT(30) DEF Merge, AddRows

LEMMA CutType ==
    ASSUME NEW r \in [Block -> [Fork -> Nat]], NEW n \in Int
    PROVE  /\ RowsUpTo(r, n) \in [Block -> [Fork -> Nat]]
           /\ RowsAfter(r, n) \in [Block -> [Fork -> Nat]]
BY DEF RowsUpTo, RowsAfter, NoRows

\* With nothing cached the rows of a store are all there is.
LEMMA MergeEmpty ==
    ASSUME NEW s, NEW r \in [Block -> [Fork -> Nat]], NEW c \in [Block -> [Fork -> Nat]],
           NEW h, NEW n \in Block, \A m \in 0..n : Empty(c, m)
    PROVE  Exact(s, Merge(s, r, c), h, n) <=> Exact(s, r, h, n)
<1>1. ASSUME NEW m \in 0..n, NEW v \in Fork
      PROVE  Merge(s, r, c)[m][v] = r[m][v]
  <2>1. m \in Block
    BY SMTT(30), ConstantsAssumption DEF Block
  <2>2. Merge(s, r, c)[m][v] = AddRows(s, r[m][v], c[m][v])
    BY <2>1 DEF Merge
  <2>3. c[m][v] = 0 /\ r[m][v] \in Nat
    BY <2>1 DEF Empty
  <2> QED  BY SMTT(30), <2>2, <2>3 DEF AddRows
<1> DEFINE x == Merge(s, r, c)
<1> HIDE DEF x
<1>2. \A m \in 0..n : \A v \in Fork : x[m][v] = r[m][v]
  BY <1>1 DEF x
<1>3. Exact(s, x, h, n) <=> Exact(s, r, h, n)
  BY SMTT(30), <1>2, Zenon DEF Exact
<1> QED  BY <1>3 DEF x

\* A commit moves rows from memory to the store and changes nothing else.
LEMMA CommitMoves ==
    ASSUME NEW s, NEW r \in [Block -> [Fork -> Nat]], NEW c \in [Block -> [Fork -> Nat]],
           NEW n \in Int
    PROVE  Merge(s, Merge(s, r, RowsUpTo(c, n)), RowsAfter(c, n)) = Merge(s, r, c)
<1>1. ASSUME NEW m \in Block, NEW v \in Fork
      PROVE  AddRows(s, AddRows(s, r[m][v], RowsUpTo(c, n)[m][v]), RowsAfter(c, n)[m][v])
             = AddRows(s, r[m][v], c[m][v])
  <2>1. r[m][v] \in Nat /\ c[m][v] \in Nat
    OBVIOUS
  <2>2. CASE m <= n
    BY SMTT(30), <2>1, <2>2 DEF RowsUpTo, RowsAfter, NoRows, AddRows
  <2>3. CASE ~(m <= n)
    BY SMTT(30), <2>1, <2>3 DEF RowsUpTo, RowsAfter, NoRows, AddRows
  <2> QED  BY <2>2, <2>3
<1> QED  BY <1>1 DEF Merge

(***************************************************************************)
(* The inductive invariant holds initially.                                *)
(***************************************************************************)

LEMMA InitIInv == Init => IInv
<1> SUFFICES ASSUME Init PROVE IInv
  OBVIOUS
<1>1. DataOK
  <2>1. 0 \in Block /\ 0 \in Fork /\ 0 \in 0..Inf /\ 0 \in 0..MaxFail /\ 0 \in 0..MaxCrash /\ 0 \in Nat
    BY SMTT(30), ConstantsAssumption DEF Block, Fork, Inf
  <2>2. store.checkpoints = <<>> /\ chainState.checkpoints = <<>> /\ <<>> \in Seq(Checkpoint)
    BY SMTT(30) DEF Init, NothingSaved, Saved
  <2> QED  BY <2>1, <2>2 DEF Init, DataOK, Rows, NoRows
<1>2. GoodList(checkpoints) /\ WrittenGood
  BY SMTT(30) DEF Init, NothingSaved, Saved, WrittenGood, GoodList, OneFork
<1>3. CountsFit /\ StoreBehind /\ SavedIsWritten /\ NoRowLostOrDoubled
  BY SMTT(30) DEF Init, NothingSaved, Saved, CountsFit, StoreBehind, Behind, SavedIsWritten, NoRowLostOrDoubled
<1>4. CommittedIsWritten
  BY DEF Init, CommittedIsWritten, Committed
<1>5. RunExtends /\ ResetIsClean /\ AheadIsOwn
  BY DEF Init, RunExtends, ResetIsClean, AheadIsOwn, Live
<1> QED  BY <1>1, <1>2, <1>3, <1>4, <1>5 DEF IInv

(***************************************************************************)
(* Parts of the invariant that a step cannot disturb.                      *)
(***************************************************************************)

\* The first and last checkpoints the invariant speaks of are checkpoints.
LEMMA CkTypes ==
    ASSUME IInv
    PROVE  /\ Len(checkpoints) \in Nat /\ savedCheckpoints \in 0..Len(checkpoints)
           /\ savedCheckpoints > 0 => SavedCk \in Checkpoint
           /\ checkpoints # <<>> <=> Len(checkpoints) > 0
           /\ checkpoints # <<>> => LastCk \in Checkpoint
           /\ store.checkpoints # <<>> => StoreCk \in Checkpoint
           /\ op # "idle" => Cur \in Checkpoint /\ savedCheckpoints + 1 \in 1..Len(checkpoints)
<1>1. /\ checkpoints \in Seq(Checkpoint) /\ Len(checkpoints) \in Nat
      /\ store.checkpoints \in Seq(Checkpoint) /\ Len(store.checkpoints) \in Nat
  BY SeqLen DEF IInv, DataOK
<1>2. savedCheckpoints \in 0..Len(checkpoints)
  BY SMTT(30), <1>1 DEF IInv, DataOK, CountsFit
<1>3. savedCheckpoints > 0 => SavedCk \in Checkpoint
  BY SMTT(30), <1>1, <1>2, SeqLen DEF SavedCk
<1>4. checkpoints # <<>> <=> Len(checkpoints) > 0
  BY <1>1, SeqEmpty
<1>5. checkpoints # <<>> => LastCk \in Checkpoint
  BY SMTT(30), <1>1, <1>4, SeqLen DEF LastCk
<1>6. store.checkpoints # <<>> => StoreCk \in Checkpoint
  <2> DEFINE cks == store.checkpoints
  <2> HIDE DEF cks
  <2>1. cks \in Seq(Checkpoint) /\ (cks # <<>> => Len(cks) \in 1..Len(cks))
    BY SMTT(30), <1>1, SeqEmpty DEF cks
  <2> QED  BY <2>1, SeqLen DEF cks, StoreCk
<1>7. op # "idle" => Cur \in Checkpoint /\ savedCheckpoints + 1 \in 1..Len(checkpoints)
  <2>1. op # "idle" => savedCheckpoints + 1 \in 1..Len(checkpoints)
    BY SMTT(30), <1>1, <1>2 DEF IInv, CountsFit
  <2> QED  BY <1>1, <2>1, SeqLen DEF Cur
<1> QED  BY <1>1, <1>2, <1>3, <1>4, <1>5, <1>6, <1>7

\* What the store holds is behind the last saved checkpoint.
LEMMA StoreCkBehind ==
    ASSUME IInv, store.checkpoints # <<>>
    PROVE  /\ savedCheckpoints > 0 /\ StoreCk.num \in Block /\ SavedCk.num \in Block
           /\ StoreCk.num <= SavedCk.num
           /\ StoreCk.blocks = BlocksUpTo(SavedCk.blocks, StoreCk.num)
<1>1. /\ savedCheckpoints > 0 /\ StoreCk.num <= SavedCk.num
      /\ StoreCk.blocks = BlocksUpTo(SavedCk.blocks, StoreCk.num)
  BY DEF IInv, StoreBehind, Behind, StoreCk
<1> QED  BY <1>1, CkTypes DEF Checkpoint

LEMMA CkNums ==
    ASSUME IInv
    PROVE  /\ DOMAIN checkpoints = 1..Len(checkpoints)
           /\ \A i \in DOMAIN checkpoints :
                 checkpoints[i].num \in Block /\ checkpoints[i].blocks \in [Block -> Fork]
<1>1. checkpoints \in Seq(Checkpoint)
  BY DEF IInv, DataOK
<1>2. ASSUME NEW i \in 1..Len(checkpoints)
      PROVE  checkpoints[i] \in Checkpoint
  BY <1>1, SeqLen
<1> QED  BY <1>1, <1>2, SeqLen DEF Checkpoint

LEMMA SameLists ==
    ASSUME IInv, UNCHANGED <<checkpoints, savedCheckpoints, storeVars>>
    PROVE  GoodList(checkpoints)' /\ WrittenGood' /\ StoreBehind'
<1>1. GoodList(checkpoints)' /\ WrittenGood'
  BY DEF IInv, WrittenGood
<1>2. StoreBehind'
  BY DEF IInv, StoreBehind, Behind, SavedCk
<1> QED  BY <1>1, <1>2

LEMMA SameData ==
    ASSUME IInv, UNCHANGED <<checkpoints, savedCheckpoints, cached, rows>>
    PROVE  SavedIsWritten' /\ NoRowLostOrDoubled'
<1>1. SavedIsWritten'
  BY DEF IInv, SavedIsWritten, SavedCk
<1>2. NoRowLostOrDoubled'
  BY DEF IInv, NoRowLostOrDoubled
<1> QED  BY <1>1, <1>2

LEMMA SameCommitted ==
    ASSUME IInv, \/ op' \in {"idle", "quota"}
                 \/ UNCHANGED <<op, checkpoints, savedCheckpoints, cached>>
    PROVE  CommittedIsWritten'
<1>1. CASE op' \in {"idle", "quota"}
  BY <1>1 DEF CommittedIsWritten, Committed
<1>2. CASE UNCHANGED <<op, checkpoints, savedCheckpoints, cached>>
  BY SMTT(30), <1>2 DEF IInv, CommittedIsWritten, Committed, Cur, Empty
<1> QED  BY <1>1, <1>2
=============================================================================
