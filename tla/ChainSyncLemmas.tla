--------------------------- MODULE ChainSyncLemmas ---------------------------
(***************************************************************************)
(* Facts about ranges and slots that the proofs about Sync rest on.        *)
(***************************************************************************)
EXTENDS ChainSync, WellFoundedInduction, SequenceTheorems, TLAPS

\* The ends of an interval.
LEMMA MinMax ==
    ASSUME NEW lo \in Int, NEW hi \in Int, lo <= hi
    PROVE  Min(lo .. hi) = lo /\ Max(lo .. hi) = hi
<1>1. lo \in lo .. hi /\ \A y \in lo .. hi : lo <= y
  OBVIOUS
<1>2. hi \in lo .. hi /\ \A y \in lo .. hi : hi >= y
  OBVIOUS
<1>3. \A x \in lo .. hi : (\A y \in lo .. hi : x <= y) => x = lo
  BY <1>1
<1>4. \A x \in lo .. hi : (\A y \in lo .. hi : x >= y) => x = hi
  BY <1>2
<1>5. Min(lo .. hi) \in lo .. hi /\ \A y \in lo .. hi : Min(lo .. hi) <= y
  BY <1>1, Zenon DEF Min
<1>6. Max(lo .. hi) \in lo .. hi /\ \A y \in lo .. hi : Max(lo .. hi) >= y
  BY <1>2, Zenon DEF Max
<1> QED  BY <1>3, <1>4, <1>5, <1>6, Zenon

\* A nonempty set of numbers has a least member.
LEMMA Smallest ==
    ASSUME NEW T, T \subseteq Nat, T # {}
    PROVE  \E x \in T : \A y \in T : x <= y
<1>1. PICK x \in T : \A y \in T : ~(<<y, x>> \in OpToRel(<, Nat))
  BY NatLessThanWellFounded, WFMin
<1>2. \A y \in T : ~(y < x)
  BY <1>1 DEF OpToRel
<1> QED  BY <1>2

\* The run of a set from its smallest member is an interval.
LEMMA RunIsInterval ==
    ASSUME NEW D, NEW m \in Nat, NEW top \in Nat, D \subseteq m .. top, m \in D
    PROVE  \E h \in m .. top : RunOf(D, m) = m .. h /\ m .. h \subseteq D /\ h + 1 \notin D
<1> DEFINE T == {n \in Nat : n >= m /\ n \notin D}
<1>1. T \subseteq Nat /\ top + 1 \in T
  OBVIOUS
<1>2. PICK x \in T : \A y \in T : x <= y
  BY <1>1, Smallest
<1>3. x \in Nat /\ x > m /\ x <= top + 1 /\ x \notin D
  BY <1>1, <1>2
<1>4. ASSUME NEW n \in m .. (x - 1) PROVE n \in D
  <2>1. n \in Nat /\ n >= m /\ ~(x <= n)
    BY <1>3
  <2> QED  BY <1>2, <2>1
<1>5. RunOf(D, m) = m .. (x - 1)
  <2> HIDE DEF T
  <2>1. ASSUME NEW n \in D, (m .. n) \cup (n .. m) \subseteq D PROVE n \in m .. (x - 1)
    BY <2>1, <1>3
  <2>2. ASSUME NEW n \in m .. (x - 1) PROVE n \in D /\ (m .. n) \cup (n .. m) \subseteq D
    BY <1>3, <1>4
  <2> QED  BY <2>1, <2>2 DEF RunOf
<1>6. x - 1 \in m .. top /\ m .. (x - 1) \subseteq D /\ (x - 1) + 1 \notin D
  <2> HIDE DEF T
  <2> QED  BY <1>3, <1>4
<1> QED  BY <1>5, <1>6

Slot == Seq(Branch)
Prefix(b, k) == SubSeq(b, 1, k)

\* A slot is its history: its ancestors are its prefixes.
LEMMA PrefixFacts ==
    ASSUME NEW b \in Slot, NEW k \in 0 .. Len(b)
    PROVE  /\ Prefix(b, k) \in Slot /\ Len(Prefix(b, k)) = k
           /\ k > 0 => Parent(Prefix(b, k)) = Prefix(b, k - 1)
           /\ k < Len(b) => Prefix(Parent(b), k) = Prefix(b, k)
           /\ Prefix(b, Len(b)) = b
<1>1. Prefix(b, k) \in Slot /\ Len(Prefix(b, k)) = k
  BY SubSeqProperties DEF Prefix, Slot
<1>2. ASSUME k > 0 PROVE Parent(Prefix(b, k)) = Prefix(b, k - 1)
  BY <1>1, <1>2, SubSeqOfSubSeq DEF Parent, Prefix, Slot
<1>3. ASSUME k < Len(b) PROVE Prefix(Parent(b), k) = Prefix(b, k)
  BY <1>3, SubSeqOfSubSeq DEF Parent, Prefix, Slot
<1>4. Prefix(b, Len(b)) = b
  BY SubSeqFull DEF Prefix, Slot
<1> QED  BY <1>1, <1>2, <1>3, <1>4
-----------------------------------------------------------------------------
(* The inductive invariant.                                                *)

SaveRecord ==
    [at : {"idle", "clean", "stream"}, interval : SUBSET Num, cur : SUBSET Num, seed : Int,
     left : Slot, next : Int, loaded : SUBSET Slot, inserted : SUBSET Num, completed : SUBSET Num,
     err : {"nil", "error", "link", "infinite", "discontinuous"}]

TypeOK ==
    /\ rows \in [Num -> Seq(Slot)]
    /\ range \in SUBSET Num /\ current \in {Unread, range}
    /\ save \in [Saver -> SaveRecord]
    /\ deleting \in [at : {"idle", "range", "rows", "over"}, target : SUBSET Int, ok : BOOLEAN]
    /\ src \in Slot /\ Len(src) <= MaxNum + 1
    /\ position \in Num

\* The range is an interval, with one row for each of its slots, and every row
\* is the parent of the next.
RangeOK ==
    /\ range = {} \/ \E lo, hi \in Num : lo <= hi /\ range = lo .. hi
    /\ \A n \in range :
          /\ Len(rows[n]) = 1 /\ Len(rows[n][1]) = n + 1
          /\ n + 1 \in range => rows[n][1] = Parent(rows[n + 1][1])

\* The Save of Sync copies a .. b, which follows the range it started from.
\* All that it has received are prefixes of the last slot received.
Bounds(v, a, b) ==
    /\ a \in Num /\ b \in Num /\ a <= b /\ v.interval = a .. b
    /\ v.cur = range /\ v.seed \in Num /\ v.seed <= a
    /\ \/ range = {} /\ v.seed = a
       \/ \E h \in Num : h >= v.seed /\ h >= a - 1 /\ h <= b /\ range = v.seed .. h
    /\ v.at \in {"clean", "stream"} /\ v.next \in a .. (b + 1)
    /\ v.next > a \/ a - 1 \in range => Len(v.left) = v.next

Fresh(v, a, b) ==
    v.at = "clean" => /\ v.next = a /\ range \cap (a .. b) = {}
                      /\ v.loaded = {} /\ v.inserted = {} /\ v.completed = {}

Received(v, a, b) ==
    /\ \A n \in range : n >= a - 1 => rows[n] = <<Prefix(v.left, n + 1)>>
    /\ \A n \in v.inserted \cup v.completed :
          n \in a .. (v.next - 1) /\ rows[n] = <<Prefix(v.left, n + 1)>>
    /\ \A x \in v.loaded : /\ Len(x) - 1 \in a .. (v.next - 1)
                           /\ x = Prefix(v.left, Len(x)) /\ rows[Len(x) - 1] = <<>>
    /\ v.at = "stream" => \A n \in v.next .. b : rows[n] = <<>>

\* Unless it has failed, nothing received is forgotten, and what is complete
\* but not yet in the range waits for a slot before it.
Reported(v, a, b) ==
    /\ range \cap (a .. b) \subseteq v.completed
    /\ v.err = "nil" => \A n \in a .. (v.next - 1) :
                           n \in v.inserted \cup v.completed \/ Prefix(v.left, n + 1) \in v.loaded
    /\ v.err = "nil" => \A n \in v.completed \ range : \E m \in a .. n : m \notin v.completed

SaveOK(v, a, b) == Bounds(v, a, b) /\ Fresh(v, a, b) /\ Received(v, a, b) /\ Reported(v, a, b)

\* What is being deleted is at one end of the range, and out of it before the
\* rows are touched.
CutOK ==
    \E c \in 0 .. (MaxNum + 1) :
        /\ deleting.target = 0 .. (c - 1)
        /\ deleting.at = "range" =>
              \E lo, hi \in Num : lo <= hi /\ range = lo .. hi /\ hi + 1 - c >= DstTargetLen
        /\ deleting.at = "rows" => deleting.target \cap range = {}

CleanOK ==
    \E f \in 0 .. (MaxNum + 1) :
        /\ deleting.target = f .. MaxNum
        /\ deleting.at = "rows" => deleting.target \cap range = {}

IInv ==
    /\ TypeOK /\ RangeOK
    /\ sync = "save" => \E a, b \in Num : SaveOK(save[S], a, b)
    /\ sync = "cut" => CutOK
    /\ sync = "clean" => CleanOK

-----------------------------------------------------------------------------
LEMMA SIsSaver == S \in Saver
BY SyncAssumption DEF S

\* RangeStore.Get: the cached range, where there is one, is the stored one.
LEMMA CurrentIsRange == ASSUME TypeOK PROVE Current = range
BY DEF TypeOK, Current

LEMMA NoSaveType == NoSave \in SaveRecord
<1>1. <<>> \in Slot
  BY DEF Slot
<1> QED  BY <1>1 DEF NoSave, SaveRecord, NoSlot

\* The invariant holds at the start, when the copy is empty.
LEMMA InitOK == ASSUME Init PROVE IInv /\ range = {}
<1>1. /\ rows = [n \in Num |-> <<>>] /\ range = {} /\ current = Unread
      /\ save = [s \in Saver |-> NoSave] /\ deleting = NoDelete
      /\ src \in [1 .. FirstLen -> {CHOOSE b \in Branch : TRUE}]
      /\ sync = "round" /\ position = 0
  BY DEF Init, DInit
<1>2. rows \in [Num -> Seq(Slot)]
  BY <1>1
<1>3. NoSave \in SaveRecord
  BY NoSaveType
<1>4. NoDelete \in [at : {"idle", "range", "rows", "over"}, target : SUBSET Int, ok : BOOLEAN]
  BY DEF NoDelete
<1>5. src \in Slot /\ Len(src) = FirstLen
  <2>1. (CHOOSE b \in Branch : TRUE) \in Branch
    BY SyncAssumption
  <2>2. src \in [1 .. FirstLen -> Branch] /\ FirstLen \in Nat
    BY <1>1, <2>1, SyncAssumption
  <2> QED  BY <2>2 DEF Slot
<1>6. TypeOK
  BY <1>1, <1>2, <1>3, <1>4, <1>5, SyncAssumption DEF TypeOK, Num
<1>7. RangeOK
  BY <1>1 DEF RangeOK
<1> QED  BY <1>1, <1>6, <1>7 DEF IInv
===============================================================================
