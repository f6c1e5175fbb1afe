---------------------------- MODULE ChainSyncSteps ----------------------------
(***************************************************************************)
(* The steps of the source, of Sync's rounds, of Delete and of a crash     *)
(* keep the invariant, and what readers see changes as StoredChain says.   *)
(***************************************************************************)
EXTENDS ChainSyncLemmas

\* What readers see stays as it is.
Kept == range' = range /\ \A n \in range : rows'[n] = rows[n]

\* The range grows at its upper end.
Extended ==
    /\ rows' = rows /\ range \subseteq range'
    /\ \E lo, hi \in Num : /\ lo <= hi /\ range' = lo .. hi
                           /\ range = {} \/ \E h \in Num : lo <= h /\ range = lo .. h

\* The range loses slots at one end.
Cut ==
    /\ rows' = rows
    /\ \E k \in range : range' = {n \in range : n > k} \/ range' = {n \in range : n < k}

\* A step of Sync as StoredChain allows it, and the invariant after it.
Good == IInv' /\ (Kept \/ Extended \/ Cut)

-----------------------------------------------------------------------------
LEMMA SameTypes ==
    ASSUME TypeOK, UNCHANGED <<rows, range, current>>, 
           save' \in [Saver -> SaveRecord],
           deleting' \in [at : {"idle", "range", "rows", "over"}, target : SUBSET Int, ok : BOOLEAN],
           src' \in Slot /\ Len(src') <= MaxNum + 1, position' \in Num
    PROVE  TypeOK'
BY DEF TypeOK

LEMMA SameRange == ASSUME RangeOK, Kept PROVE RangeOK'
BY DEF RangeOK, Kept

LEMMA SameSave ==
    ASSUME UNCHANGED <<rows, range, save>>, NEW a, NEW b, SaveOK(save[S], a, b)
    PROVE  SaveOK(save[S], a, b)'
BY DEF SaveOK, Bounds, Fresh, Received, Reported

LEMMA SameDelete ==
    ASSUME UNCHANGED <<range, deleting>>
    PROVE  (CutOK => CutOK') /\ (CleanOK => CleanOK')
BY DEF CutOK, CleanOK

-----------------------------------------------------------------------------
(* The source.                                                             *)

\* The source grows or is reorganised: the copy does not change.
LEMMA SourceSteps == ASSUME IInv, Grow \/ Reorg PROVE Good
<1>1. UNCHANGED <<rows, range, current, save, deleting, sync, position>>
  BY DEF Grow, Reorg, dVars
<1>2. src' \in Slot /\ Len(src') <= MaxNum + 1
  <2>1. src \in Slot /\ Len(src) \in Nat /\ MaxNum \in Nat
    BY SyncAssumption DEF IInv, TypeOK, Slot
  <2>2. CASE Grow
    BY <2>1, <2>2 DEF Grow, Slot
  <2>3. CASE Reorg
    <3>1. PICK keep \in 1 .. (Len(src) - 1), b \in Branch : src' = Append(SubSeq(src, 1, keep), b)
      BY <2>3 DEF Reorg
    <3>2. Prefix(src, keep) \in Slot /\ Len(Prefix(src, keep)) = keep
      BY <2>1, PrefixFacts
    <3>3. src' \in Slot /\ Len(src') = keep + 1
      BY <3>1, <3>2 DEF Prefix, Slot
    <3> QED  BY <2>1, <2>3, <3>3 DEF Reorg
  <2> QED  BY <2>2, <2>3
<1>3. TypeOK'
  BY <1>1, <1>2, SameTypes DEF IInv, TypeOK
<1>4. Kept
  BY <1>1 DEF Kept
<1>5. sync = "save" => \E a, b \in Num : SaveOK(save[S], a, b)'
  BY <1>1, SameSave DEF IInv
<1> QED  BY <1>1, <1>3, <1>4, <1>5, SameRange, SameDelete DEF IInv, Good

-----------------------------------------------------------------------------
(* Ends of a Save, the trace, crashes.                                     *)

\* Steps that end something: the copy does not change.
LEMMA IdleSteps == ASSUME IInv, SaveFailed \/ DeleteOver \/ Panic \/ Crash PROVE Good
<1>1. UNCHANGED <<rows, range, src>> /\ sync' \in {"round", "panic", "trace", "down"}
  BY DEF SaveFailed, DeleteOver, Panic, Crash, DCrash, sVars
<1>2. save' \in [Saver -> SaveRecord]
  <2>1. \/ save' = [save EXCEPT ![S] = NoSave]
        \/ save' = [s \in Saver |-> NoSave]
        \/ save' = save
    BY DEF SaveFailed, DeleteOver, Panic, Crash, DCrash
  <2>2. save \in [Saver -> SaveRecord] /\ NoSave \in SaveRecord
    BY NoSaveType DEF IInv, TypeOK
  <2> QED  BY <2>1, <2>2
<1>3. deleting' \in [at : {"idle", "range", "rows", "over"}, target : SUBSET Int, ok : BOOLEAN]
  <2>1. deleting' = deleting \/ deleting' = NoDelete
    BY DEF SaveFailed, DeleteOver, Panic, Crash, DCrash
  <2>2. NoDelete \in [at : {"idle", "range", "rows", "over"}, target : SUBSET Int, ok : BOOLEAN]
    BY DEF NoDelete
  <2>3. deleting \in [at : {"idle", "range", "rows", "over"}, target : SUBSET Int, ok : BOOLEAN]
    BY DEF IInv, TypeOK
  <2> QED  BY <2>1, <2>2, <2>3, Zenon
<1>4. position' \in Num
  <2>1. CASE SaveFailed
    <3>1. PICK a, b \in Num : Bounds(save[S], a, b)
      BY <2>1 DEF SaveFailed, IInv, SaveOK
    <3>2. Min(save[S].interval) = a
      BY <3>1, MinMax DEF Bounds, Num
    <3>3. a # 0 => a - 1 \in Num
      BY SyncAssumption DEF Num
    <3> QED  BY <2>1, <3>2, <3>3 DEF SaveFailed, IInv, TypeOK
  <2>2. CASE UNCHANGED position
    BY <2>2 DEF IInv, TypeOK
  <2> QED  BY <2>1, <2>2 DEF DeleteOver, Panic, Crash
<1>5. current' \in {Unread, range'}
  BY <1>1 DEF SaveFailed, DeleteOver, Panic, Crash, DCrash, IInv, TypeOK
<1>6. TypeOK'
  BY <1>1, <1>2, <1>3, <1>4, <1>5 DEF IInv, TypeOK
<1>7. Kept
  BY <1>1 DEF Kept
<1> QED  BY <1>1, <1>6, <1>7, SameRange DEF IInv, Good

\* SimpleDimension.Init drops the rows outside the range.
LEMMA RestartStep == ASSUME IInv, Restart PROVE Good
<1>1. /\ UNCHANGED <<range, current, save, deleting, src, position>> /\ sync' = "round"
      /\ rows' = Without(Residue)
  BY DEF Restart, DimensionInit, sVars
<1>2. Current = range
  BY CurrentIsRange DEF IInv
<1>3. Residue \cap range = {}
  <2>1. CASE range = {}
    BY <2>1
  <2>2. CASE range # {}
    <3>1. PICK lo, hi \in Num : lo <= hi /\ range = lo .. hi
      BY <2>2 DEF IInv, RangeOK
    <3>2. Max(range) = hi
      BY <3>1, MinMax DEF Num
    <3> QED  BY <1>2, <2>2, <3>1, <3>2, SyncAssumption DEF Residue, Num
  <2> QED  BY <2>1, <2>2
<1>4. Kept
  BY <1>1, <1>3 DEF Kept, Without, IInv, TypeOK
<1>5. TypeOK'
  <2>1. rows' \in [Num -> Seq(Slot)]
    BY <1>1 DEF Without, IInv, TypeOK
  <2> QED  BY <1>1, <2>1 DEF IInv, TypeOK
<1> QED  BY <1>1, <1>4, <1>5, SameRange DEF IInv, Good

\* traceForkPoint chooses what to delete and changes nothing else.
LEMMA TraceStep == ASSUME IInv, Trace PROVE Good
<1>1. UNCHANGED <<rows, range, current, save, src>> /\ sync' \in {"trace", "round", "clean"}
  BY DEF Trace, sVars
<1>2. position \in Num /\ MaxNum \in Nat
  BY SyncAssumption DEF IInv, TypeOK
<1>3. CASE UNCHANGED <<position, deleting>> /\ sync' = "round"
  <2>1. TypeOK'
    BY <1>1, <1>3, SameTypes DEF IInv, TypeOK
  <2> QED  BY <1>1, <1>3, <2>1, SameRange DEF IInv, Good, Kept
<1>4. CASE \E db, sb : /\ ForkPoint(position, db, sb) = NotYet
                       /\ position' = position - 1 /\ UNCHANGED <<sync, deleting>>
  <2>1. position # 0
    BY <1>2, <1>4 DEF ForkPoint, ForkStart, NotYet, Num
  <2>2. position' \in Num
    BY <1>2, <1>4, <2>1 DEF Num
  <2>3. TypeOK'
    BY <1>1, <1>4, <2>2, SameTypes DEF IInv, TypeOK
  <2> QED  BY <1>1, <1>4, <2>3, SameRange, SameDelete DEF IInv, Good, Kept, Trace
<1>5. CASE \E db, sb : LET fork == ForkPoint(position, db, sb) IN
              fork # NotYet /\ sync' = "clean" /\ DeleteBegins(fork .. MaxNum) /\ UNCHANGED position
  <2>1. PICK fork \in 0 .. (MaxNum + 1) : sync' = "clean" /\ DeleteBegins(fork .. MaxNum)
    BY <1>2, <1>5 DEF ForkPoint, ForkStart, Num
  <2>2. deleting' \in [at : {"idle", "range", "rows", "over"}, target : SUBSET Int, ok : BOOLEAN]
    BY <1>2, <2>1 DEF DeleteBegins
  <2>3. TypeOK'
    BY <1>1, <1>5, <2>2, SameTypes DEF IInv, TypeOK
  <2>4. deleting'.target = fork .. MaxNum /\ deleting'.at = "range"
    BY <2>1 DEF DeleteBegins
  <2>5. CleanOK'
    BY <2>4 DEF CleanOK
  <2> QED  BY <1>1, <2>1, <2>3, <2>5, SameRange DEF IInv, Good, Kept
<1> QED  BY <1>3, <1>4, <1>5 DEF Trace

-----------------------------------------------------------------------------
(* Delete.                                                                 *)

\* Delete removes rows only after they have left the range.
LEMMA DeleteRowsStep == ASSUME IInv, Delete, DeleteRows PROVE Good
<1>1. /\ UNCHANGED <<range, current, save, src, sync, position>> /\ sync \in {"cut", "clean"}
      /\ deleting.at = "rows"
      /\ \E T \in SUBSET deleting.target : rows' = Without(T)
      /\ \E k \in BOOLEAN : deleting' = [deleting EXCEPT !.at = "over", !.ok = k] \/ deleting' = [deleting EXCEPT !.at = "over"]
  BY DEF Delete, DeleteRows, sVars
<1>2. deleting.target \cap range = {}
  BY <1>1 DEF IInv, CutOK, CleanOK
<1>3. Kept
  BY <1>1, <1>2 DEF Kept, Without, IInv, TypeOK
<1>4. /\ deleting' \in [at : {"idle", "range", "rows", "over"}, target : SUBSET Int, ok : BOOLEAN]
      /\ deleting'.at = "over" /\ deleting'.target = deleting.target
  BY <1>1 DEF IInv, TypeOK
<1>5. TypeOK'
  <2>1. rows' \in [Num -> Seq(Slot)]
    BY <1>1 DEF Without, IInv, TypeOK
  <2> QED  BY <1>1, <1>4, <2>1 DEF IInv, TypeOK
<1>6. (CutOK => CutOK') /\ (CleanOK => CleanOK')
  BY <1>1, <1>4 DEF CutOK, CleanOK
<1> QED  BY <1>1, <1>3, <1>5, <1>6, SameRange DEF IInv, Good

\* The range that is left when one end of it is deleted.
LEMMA FirstRunOfRest ==
    ASSUME NEW lo \in Nat, NEW hi \in Nat, lo <= hi, NEW T,
           NEW c \in Nat, T = 0 .. (c - 1) \/ (T = c .. MaxNum /\ hi <= MaxNum),
           NEW W, W = (lo .. hi) \ T
    PROVE  FirstRun(W) = W
<1>1. MaxNum \in Nat /\ lo \in Int /\ hi \in Int
  BY SyncAssumption
<1>2. \E l, h \in Int : (lo .. hi) \ T = l .. h
  <2>1. c \in Int /\ c - 1 \in Int
    OBVIOUS
  <2>2. CASE T = 0 .. (c - 1)
    <3>1. CASE c <= lo
      <4>1. (lo .. hi) \ T = lo .. hi
        BY <2>2, <3>1
      <4> QED  BY <4>1, <1>1, <2>1, Zenon
    <3>2. CASE c > lo
      <4>1. (lo .. hi) \ T = c .. hi
        BY <2>2, <3>2
      <4> QED  BY <4>1, <1>1, <2>1, Zenon
    <3>3. c <= lo \/ c > lo
      BY <1>1
    <3> QED  BY <3>1, <3>2, <3>3, Zenon
  <2>3. CASE T = c .. MaxNum /\ hi <= MaxNum
    <3>1. CASE c > hi
      <4>1. (lo .. hi) \ T = lo .. hi
        BY <2>3, <3>1
      <4> QED  BY <4>1, <1>1, <2>1, Zenon
    <3>2. CASE c <= hi
      <4>1. (lo .. hi) \ T = lo .. (c - 1)
        BY <2>3, <3>2, <1>1
      <4> QED  BY <4>1, <1>1, <2>1, Zenon
    <3>3. c <= hi \/ c > hi
      BY <1>1
    <3> QED  BY <3>1, <3>2, <3>3, Zenon
  <2> QED  BY <2>2, <2>3
<1>3. PICK l, h \in Int : (lo .. hi) \ T = l .. h
  BY <1>2
<1>4. CASE l > h
  BY <1>3, <1>4 DEF FirstRun
<1>5. CASE l <= h
  <2>1. Min(l .. h) = l
    BY <1>3, <1>5, MinMax
  <2>2. \A n \in l .. h : l .. n \subseteq l .. h
    OBVIOUS
  <2>3. FirstRun(l .. h) = l .. h
    BY <2>1, <2>2 DEF FirstRun
  <2> QED  BY <1>3, <2>3
<1>6. l > h \/ l <= h
  BY <1>3
<1> QED  BY <1>4, <1>5, <1>6, Zenon

\* Cutting an interval at one end keeps RangeOK.
LEMMA Shrunk ==
    ASSUME RangeOK, TypeOK, rows' = rows, NEW c \in Nat, NEW T, range' = range \ T,
           T = 0 .. (c - 1) \/ T = c .. MaxNum
    PROVE  RangeOK' /\ (Kept \/ Cut)
<1>1. MaxNum \in Nat
  BY SyncAssumption
<1>2. CASE range = {}
  BY <1>2 DEF RangeOK, Kept
<1>3. CASE range # {}
  <2>1. PICK lo, hi \in Num : lo <= hi /\ range = lo .. hi
    BY <1>3 DEF RangeOK
  <2>2. lo \in Nat /\ hi \in Nat /\ hi <= MaxNum
    BY <1>1 DEF Num
  <2>3. \A n \in range' : n \in range
    OBVIOUS
  <2>4. \A n \in range' : /\ Len(rows'[n]) = 1 /\ Len(rows'[n][1]) = n + 1
                          /\ n + 1 \in range' => rows'[n][1] = Parent(rows'[n + 1][1])
    BY <2>3 DEF RangeOK
  <2>5. CASE T = 0 .. (c - 1)
    <3>1. CASE c <= lo
      <4>1. range' = range
        BY <2>1, <2>2, <2>5, <3>1
      <4> QED  BY <4>1, <2>1, <2>4 DEF RangeOK, Kept
    <3>2. CASE c > hi
      <4>1. range' = {} /\ hi \in range /\ range' = {n \in range : n > hi}
        BY <2>1, <2>2, <2>5, <3>2
      <4> QED  BY <4>1 DEF RangeOK, Cut
    <3>3. CASE c > lo /\ c <= hi
      <4>1. range' = c .. hi /\ c - 1 \in range /\ range' = {n \in range : n > c - 1} /\ c \in Num
        BY <1>1, <2>1, <2>2, <2>5, <3>3 DEF Num
      <4>2. Cut
        BY <4>1 DEF Cut
      <4> QED  BY <2>4, <3>3, <4>1, <4>2 DEF RangeOK
    <3> QED  BY <2>2, <3>1, <3>2, <3>3
  <2>6. CASE T = c .. MaxNum
    <3>1. CASE c > hi
      <4>1. range' = range
        BY <2>1, <2>2, <2>6, <3>1
      <4> QED  BY <4>1, <2>1, <2>4 DEF RangeOK, Kept
    <3>2. CASE c <= lo
      <4>1. range' = {} /\ lo \in range /\ range' = {n \in range : n < lo}
        BY <1>1, <2>1, <2>2, <2>6, <3>2
      <4> QED  BY <4>1 DEF RangeOK, Cut
    <3>3. CASE c > lo /\ c <= hi
      <4>1. range' = lo .. (c - 1) /\ c \in range /\ range' = {n \in range : n < c} /\ c - 1 \in Num /\ lo <= c - 1
        BY <1>1, <2>1, <2>2, <2>6, <3>3 DEF Num
      <4>2. Cut
        BY <4>1 DEF Cut
      <4> QED  BY <2>4, <4>1, <4>2 DEF RangeOK
    <3> QED  BY <2>2, <3>1, <3>2, <3>3
  <2> QED  BY <2>5, <2>6
<1> QED  BY <1>2, <1>3

\* What Delete leaves of the range is one end of it.
LEMMA RestOfRange ==
    ASSUME IInv, Delete, DeleteRange
    PROVE  FirstRun(Current \ deleting.target) = range \ deleting.target
<1>1. Current = range
  BY CurrentIsRange DEF IInv
<1>2. PICK c \in Nat : deleting.target = 0 .. (c - 1) \/ deleting.target = c .. MaxNum
  <2>1. CutOK \/ CleanOK
    BY DEF Delete, IInv
  <2>2. 0 .. (MaxNum + 1) \subseteq Nat
    BY SyncAssumption
  <2> QED  BY <2>1, <2>2 DEF CutOK, CleanOK
<1>3. CASE range = {}
  BY <1>1, <1>3 DEF FirstRun
<1>4. CASE range # {}
  <2>1. PICK lo, hi \in Num : lo <= hi /\ range = lo .. hi
    BY <1>4 DEF IInv, RangeOK
  <2>2. lo \in Nat /\ hi \in Nat /\ hi <= MaxNum
    BY <2>1, SyncAssumption DEF Num
  <2> DEFINE T == deleting.target
             W == (lo .. hi) \ T
  <2>3. T = 0 .. (c - 1) \/ (T = c .. MaxNum /\ hi <= MaxNum)
    BY <1>2, <2>2
  <2>4. W = (lo .. hi) \ T
    OBVIOUS
  <2> HIDE DEF T, W
  <2>5. FirstRun(W) = W
    BY <1>2, <2>1, <2>2, <2>3, <2>4, FirstRunOfRest
  <2> QED  BY <1>1, <2>1, <2>5 DEF T, W
<1> QED  BY <1>3, <1>4

\* Delete takes its target out of the range first.
LEMMA DeleteRangeStep == ASSUME MayLoseAnswer = FALSE, IInv, Delete, DeleteRange PROVE Good
<1> DEFINE new == FirstRun(Current \ deleting.target)
<1>1. /\ UNCHANGED <<rows, save, src, sync, position>> /\ sync \in {"cut", "clean"}
      /\ deleting.at = "range"
      /\ \/ range' = new /\ current' = new /\ deleting' = [deleting EXCEPT !.at = "rows"]
         \/ UNCHANGED <<range, current>> /\ deleting' = [deleting EXCEPT !.at = "over", !.ok = FALSE]
  BY DEF Delete, DeleteRange, SetRange, SetRangeFails, sVars
<1>3. PICK c \in Nat : deleting.target = 0 .. (c - 1) \/ deleting.target = c .. MaxNum
  BY <1>1, SyncAssumption DEF IInv, CutOK, CleanOK
<1>4. /\ deleting' \in [at : {"idle", "range", "rows", "over"}, target : SUBSET Int, ok : BOOLEAN]
      /\ deleting'.at \in {"rows", "over"} /\ deleting'.target = deleting.target
      /\ deleting'.at = "rows" => range' = new
  BY <1>1 DEF IInv, TypeOK
<1>5. new = range \ deleting.target
  BY RestOfRange
<1> HIDE DEF new
<1>6. RangeOK' /\ (Kept \/ Cut)
  <2>1. CASE range' = new
    BY <1>1, <1>3, <1>5, <2>1, Shrunk DEF IInv
  <2>2. CASE range' = range
    <3>1. Kept
      BY <1>1, <2>2 DEF Kept
    <3> QED  BY <3>1, SameRange DEF IInv
  <2> QED  BY <1>1, <2>1, <2>2
<1>7. TypeOK'
  <2>1. range' \in SUBSET Num /\ current' \in {Unread, range'}
    BY <1>1, <1>5 DEF IInv, TypeOK
  <2> QED  BY <1>1, <1>4, <2>1 DEF IInv, TypeOK
<1>8. (CutOK => CutOK') /\ (CleanOK => CleanOK')
  <2>1. deleting'.at # "range" /\ (deleting'.at = "rows" => deleting'.target \cap range' = {})
    BY <1>4, <1>5
  <2> QED  BY <1>4, <2>1 DEF CutOK, CleanOK
<1> QED  BY <1>1, <1>6, <1>7, <1>8 DEF IInv, Good

LEMMA DeleteStep == ASSUME MayLoseAnswer = FALSE, IInv, Delete PROVE Good
BY DeleteRangeStep, DeleteRowsStep DEF Delete

-----------------------------------------------------------------------------
(* A round begins, and a Save ends well.                                   *)

\* A slot of the source has its number for its height.
LEMMA SlotFacts ==
    ASSUME TypeOK, NEW n \in Int
    PROVE  SlotAt(n) \in Slot /\ (SlotAt(n) # NoSlot => n \in Num /\ Len(SlotAt(n)) = n + 1)
<1>1. src \in Slot /\ Len(src) \in Nat /\ Len(src) <= MaxNum + 1 /\ MaxNum \in Nat /\ SrcFirst \in Nat
  BY SyncAssumption DEF TypeOK, Slot
<1>2. CASE n >= SrcFirst /\ n < Len(src)
  <2>1. n + 1 \in 0 .. Len(src) /\ n \in Num
    BY <1>1, <1>2 DEF Num
  <2>2. SlotAt(n) = Prefix(src, n + 1)
    BY <1>2 DEF SlotAt, Prefix
  <2> QED  BY <1>1, <2>1, <2>2, PrefixFacts
<1>3. CASE ~(n >= SrcFirst /\ n < Len(src))
  <2>1. SlotAt(n) = NoSlot /\ NoSlot \in Slot
    BY <1>3 DEF SlotAt, NoSlot, Slot
  <2> QED  BY <2>1
<1> QED  BY <1>2, <1>3

\* What a round of Sync copies follows the range of the copy.
LEMMA RoundInterval ==
    ASSUME IInv, Round
    PROVE  \E a, b \in Num : /\ a <= b /\ SyncRange = a .. b
                             /\ range = {} \/ \E lo \in Num : lo <= a - 1 /\ range = lo .. (a - 1)
<1>1. /\ src \in Slot /\ Len(src) \in Nat /\ Len(src) <= MaxNum + 1 /\ MaxNum \in Nat /\ SrcFirst \in Nat
      /\ Current = range
  BY SyncAssumption, CurrentIsRange DEF IInv, TypeOK, Slot
<1> DEFINE b == Len(src) - 1
<1>2. SrcRange = SrcFirst .. b /\ SrcFirst <= b /\ SrcFirst \in Num /\ b \in Num
  BY <1>1 DEF Round, SrcRange, Num
<1> HIDE DEF b
<1>3. CASE range = {}
  BY <1>1, <1>2, <1>3 DEF SyncRange
<1>4. CASE range # {}
  <2>1. PICK lo, hi \in Num : lo <= hi /\ range = lo .. hi
    BY <1>4 DEF IInv, RangeOK
  <2>2. lo \in Nat /\ hi \in Nat /\ SrcFirst \in Int /\ b \in Int
    BY <1>1, <1>2, <2>1 DEF Num
  <2>3. Max(range) = hi /\ Min(range) = lo /\ Max(SrcRange) = b /\ Min(SrcRange) = SrcFirst
    BY <1>2, <2>1, <2>2, MinMax
  <2>4. b > hi /\ SrcFirst <= hi + 1
    BY <1>1, <1>2, <1>4, <2>2, <2>3 DEF Round, Far
  <2>5. hi + 1 \in Num /\ (hi + 1) - 1 = hi
    BY <1>1, <1>2, <2>2, <2>4 DEF Num
  <2>6. SyncRange = (hi + 1) .. b
    <3> DEFINE D == (SrcFirst .. b) \ (lo .. hi)
    <3>1. (hi + 1) .. b \subseteq D /\ b \in D /\ \A y \in D : b >= y
      BY <2>2, <2>4
    <3>2. Max(D) \in D /\ \A y \in D : Max(D) >= y
      BY <3>1, Zenon DEF Max
    <3>3. Max(D) = b
      BY <2>2, <3>1, <3>2
    <3>4. SyncRange = {n \in D : n .. Max(D) \subseteq D}
      BY <1>1, <1>2, <1>4, <2>1 DEF SyncRange, LastRun
    <3>5. ASSUME NEW n \in D, n .. b \subseteq D PROVE n \in (hi + 1) .. b
      BY <2>1, <2>2, <2>4, <3>5
    <3>6. ASSUME NEW n \in (hi + 1) .. b PROVE n \in D /\ n .. b \subseteq D
      BY <2>2, <2>4, <3>1
    <3> HIDE DEF D
    <3> QED  BY <3>3, <3>4, <3>5, <3>6
  <2> QED  BY <1>2, <2>1, <2>2, <2>4, <2>5, <2>6
<1> QED  BY <1>3, <1>4

LEMMA NewSaveType ==
    ASSUME NEW i \in SUBSET Num, NEW c \in SUBSET Num, NEW l \in Slot, NEW d \in Int, NEW n \in Int,
           NEW er \in {"nil", "discontinuous"}
    PROVE  [NoSave EXCEPT !.at = "clean", !.interval = i, !.cur = c, !.left = l,
                          !.seed = d, !.next = n, !.err = er] \in SaveRecord
BY NoSaveType DEF SaveRecord

\* A new Save knows nothing but the last row of the range.
LEMMA RoundStep == ASSUME IInv, Round PROVE Good
<1>1. UNCHANGED <<rows, range, current, deleting, src, position>> /\ sync' = "save"
  BY DEF Round, sVars
<1>2. PICK a, b \in Num : /\ a <= b /\ SyncRange = a .. b
                          /\ range = {} \/ \E lo \in Num : lo <= a - 1 /\ range = lo .. (a - 1)
  BY RoundInterval
<1>3. /\ Current = range /\ MaxNum \in Nat /\ a \in Nat /\ b \in Nat /\ range \in SUBSET Num
      /\ a .. b \in SUBSET Num /\ b <= MaxNum
  BY <1>2, CurrentIsRange, SyncAssumption DEF IInv, TypeOK, Num
<1>4. Min(a .. b) = a
  BY <1>2, <1>3, MinMax
<1> DEFINE seed == Min(IF range = {} THEN a .. b ELSE range)
<1>5. /\ seed \in Num /\ seed <= a
      /\ \/ range = {} /\ seed = a
         \/ range = seed .. (a - 1) /\ seed <= a - 1 /\ a - 1 \in Num
  <2>1. CASE range = {}
    BY <1>2, <1>3, <1>4, <2>1
  <2>2. CASE range # {}
    <3>1. PICK lo \in Num : lo <= a - 1 /\ range = lo .. (a - 1)
      BY <1>2, <2>2
    <3>2. lo \in Int /\ a - 1 \in Int /\ lo >= 0
      BY <1>3, <3>1 DEF Num
    <3>3. Min(range) = lo
      BY <3>1, <3>2, MinMax
    <3>4. seed = lo
      BY <2>2, <3>3
    <3> HIDE DEF seed
    <3> QED  BY <1>3, <3>1, <3>2, <3>4 DEF Num
  <2> QED  BY <2>1, <2>2
<1>6. \E left \in Slot : /\ save' = [save EXCEPT ![S] = NewSave(a .. b, left)]
                         /\ a - 1 \in range => /\ Len(left) = a
                                               /\ rows[a - 1] = <<Prefix(left, a)>>
  <2>1. CASE a - 1 \in range
    <3>1. rows[a - 1] \in Seq(Slot) /\ Len(rows[a - 1]) = 1 /\ Len(rows[a - 1][1]) = a
      BY <1>3, <2>1 DEF IInv, TypeOK, RangeOK
    <3> DEFINE x == rows[a - 1][1]
    <3>2. x \in Slot /\ rows[a - 1] = <<x>> /\ Len(x) = a
      BY <3>1
    <3>3. LeftPoint(a .. b) = {x}
      <4>1. LeftPoint(a .. b) = {rows[a - 1][i] : i \in DOMAIN rows[a - 1]}
        BY <1>3, <1>4, <2>1 DEF LeftPoint
      <4>2. DOMAIN rows[a - 1] = {1}
        BY <3>1
      <4> QED  BY <4>1, <4>2
    <3>4. save' = [save EXCEPT ![S] = NewSave(a .. b, x)]
      BY <1>2, <3>3 DEF Round, SaveStarts
    <3>5. Prefix(x, a) = x
      BY <1>3, <3>2, PrefixFacts
    <3> HIDE DEF x
    <3> QED  BY <3>2, <3>4, <3>5
  <2>2. CASE a - 1 \notin range
    <3>1. LeftPoint(a .. b) = {NoSlot}
      BY <1>3, <1>4, <2>2 DEF LeftPoint
    <3>2. save' = [save EXCEPT ![S] = NewSave(a .. b, NoSlot)]
      BY <1>2, <3>1 DEF Round, SaveStarts
    <3>3. NoSlot \in Slot
      BY DEF NoSlot, Slot
    <3> QED  BY <2>2, <3>2, <3>3
  <2> QED  BY <2>1, <2>2
<1>7. PICK left \in Slot : /\ save' = [save EXCEPT ![S] = NewSave(a .. b, left)]
                           /\ a - 1 \in range => /\ Len(left) = a
                                                 /\ rows[a - 1] = <<Prefix(left, a)>>
  BY <1>6
<1> DEFINE v == NewSave(a .. b, left)
<1>8. /\ v.at = "clean" /\ v.interval = a .. b /\ v.cur = range /\ v.seed = seed /\ v.left = left
      /\ v.next = a /\ v.loaded = {} /\ v.inserted = {} /\ v.completed = {}
      /\ v.err \in {"nil", "discontinuous"}
      /\ DOMAIN v = {"at", "interval", "cur", "seed", "left", "next", "loaded", "inserted", "completed", "err"}
  BY <1>3, <1>4 DEF NewSave, NoSave
<1>9. v \in SaveRecord
  <2>1. seed \in Int /\ a \in Int
    BY <1>3, <1>5 DEF Num
  <2> DEFINE er == IF Far(Current, a .. b) THEN "discontinuous" ELSE "nil"
  <2>2. er \in {"nil", "discontinuous"}
    OBVIOUS
  <2>3. v = [NoSave EXCEPT !.at = "clean", !.interval = a .. b, !.cur = range, !.left = left,
                           !.seed = seed, !.next = a, !.err = er]
    BY <1>3, <1>4 DEF NewSave
  <2> HIDE DEF v, seed, er
  <2> QED  BY <1>3, <1>7, <2>1, <2>2, <2>3, NewSaveType
<1> HIDE DEF v, seed
<1>10. save'[S] = v /\ save' \in [Saver -> SaveRecord]
  BY <1>7, <1>9, SIsSaver DEF v, IInv, TypeOK
<1>11. TypeOK'
  BY <1>1, <1>10, SameTypes DEF IInv, TypeOK
<1>12. Bounds(v, a, b)
  BY <1>2, <1>3, <1>5, <1>7, <1>8 DEF Bounds, Num
<1>13. Fresh(v, a, b)
  <2>1. range \cap (a .. b) = {}
    BY <1>3, <1>5 DEF Num
  <2> QED  BY <1>8, <2>1 DEF Fresh
<1>14. Received(v, a, b)
  <2>1. \A n \in range : n >= a - 1 => n = a - 1
    BY <1>3, <1>5 DEF Num
  <2>2. a - 1 + 1 = a
    BY <1>3
  <2> QED  BY <1>7, <1>8, <2>1, <2>2 DEF Received
<1>15. Reported(v, a, b)
  BY <1>3, <1>5, <1>8 DEF Reported, Num
<1>16. SaveOK(save[S], a, b)'
  BY <1>1, <1>10, <1>12, <1>13, <1>14, <1>15 DEF SaveOK, Bounds, Fresh, Received, Reported
<1> QED  BY <1>1, <1>2, <1>11, <1>16, SameRange DEF IInv, Good, Kept

\* When everything received has been reported, the range ends where the copy
\* ends.
LEMMA WholeRange ==
    ASSUME TypeOK, NEW a \in Num, NEW b \in Num, SaveOK(save[S], a, b), SaveOver(S), save[S].err = "nil"
    PROVE  range = save[S].seed .. b /\ save[S].seed <= b /\ save[S].interval = a .. b
<1> DEFINE v == save[S]
<1>1. /\ v.interval = a .. b /\ a <= b /\ v.next \in a .. (b + 1) /\ v.next \notin a .. b
      /\ v.loaded = {} /\ v.inserted = {} /\ MaxNum \in Nat
  BY SyncAssumption DEF SaveOver, SaveOK, Bounds
<1>2. a \in Nat /\ b \in Nat /\ v.next = b + 1 /\ v.next - 1 = b
  <2> HIDE DEF v
  <2>1. a \in Nat /\ b \in Nat
    BY <1>1 DEF Num
  <2> QED  BY <1>1, <2>1
<1>3. a .. b \subseteq v.completed
  <2>1. \A n \in a .. (v.next - 1) :
           n \in v.inserted \cup v.completed \/ Prefix(v.left, n + 1) \in v.loaded
    BY DEF SaveOK, Reported
  <2> HIDE DEF v
  <2> QED  BY <1>1, <1>2, <2>1
<1>4. b \in range
  <2>1. b \in v.completed
    BY <1>1, <1>2, <1>3
  <2>2. ~ \E m \in a .. b : m \notin v.completed
    BY <1>3
  <2> QED  BY <2>1, <2>2 DEF SaveOK, Reported
<1>5. PICK h \in Num : h <= b /\ range = v.seed .. h
  BY <1>4 DEF SaveOK, Bounds
<1>6. v.seed \in Int /\ h \in Int
  <2>1. v.seed \in Num
    BY DEF SaveOK, Bounds
  <2> HIDE DEF v
  <2> QED  BY <1>1, <1>5, <2>1 DEF Num
<1> HIDE DEF v
<1>7. h = b /\ v.seed <= b
  BY <1>2, <1>4, <1>5, <1>6
<1> QED  BY <1>1, <1>5, <1>7 DEF v

\* The cut of the head leaves DstTargetLen slots.
LEMMA SucceedStep == ASSUME IInv, SaveSucceeds PROVE Good
<1>1. /\ UNCHANGED <<rows, range, current, src, position>> /\ save' = [save EXCEPT ![S] = NoSave]
      /\ sync = "save"
  BY DEF SaveSucceeds, sVars
<1>2. PICK a, b \in Num : SaveOK(save[S], a, b)
  BY <1>1 DEF IInv
<1>3. range = save[S].seed .. b /\ save[S].seed <= b /\ save[S].interval = a .. b
  BY <1>2, WholeRange DEF IInv, SaveSucceeds
<1>4. a <= b /\ a \in Nat /\ b \in Nat /\ b <= MaxNum /\ MaxNum \in Nat /\ save[S].seed \in Num
  <2>1. a <= b /\ save[S].seed \in Num
    BY <1>2 DEF SaveOK, Bounds
  <2> QED  BY <1>2, <2>1, SyncAssumption DEF Num
<1>5. Max(save[S].interval) = b
  BY <1>3, <1>4, MinMax
<1>6. Kept
  BY <1>1 DEF Kept
<1>7. save' \in [Saver -> SaveRecord]
  BY <1>1, NoSaveType DEF IInv, TypeOK
<1>8. CASE sync' = "round" /\ UNCHANGED deleting
  <2>1. TypeOK'
    BY <1>1, <1>7, <1>8, SameTypes DEF IInv, TypeOK
  <2> QED  BY <1>1, <1>6, <1>8, <2>1, SameRange DEF IInv, Good
<1>9. CASE /\ DstTargetLen > 0 /\ CutLeft(b) > 0
           /\ sync' = "cut" /\ DeleteBegins(0 .. (CutLeft(b) - 1))
  <2> DEFINE c == CutLeft(b)
  <2>1. c \in Int /\ c <= b + 1 - DstTargetLen
    <3>1. DstLeftAlign \in Int /\ DstLeftAlign > 0 /\ b + 1 - DstTargetLen \in Int
      BY <1>4, SyncAssumption
    <3>2. \A x \in Int, y \in Int : y > 0 => (x \div y) \in Int /\ (x \div y) * y <= x /\ (x \div y) * y \in Int
      OBVIOUS
    <3> QED  BY <3>1, <3>2 DEF CutLeft
  <2> HIDE DEF c
  <2>2. c \in 0 .. (MaxNum + 1) /\ b + 1 - c >= DstTargetLen
    <3>1. c > 0 /\ DstTargetLen \in Nat
      BY <1>9, SyncAssumption DEF c
    <3> QED  BY <1>4, <2>1, <3>1
  <2>3. deleting' = [at |-> "range", target |-> 0 .. (c - 1), ok |-> TRUE]
    BY <1>9 DEF DeleteBegins, c
  <2>4. /\ deleting' \in [at : {"idle", "range", "rows", "over"}, target : SUBSET Int, ok : BOOLEAN]
        /\ deleting'.at = "range" /\ deleting'.target = 0 .. (c - 1)
    BY <2>2, <2>3
  <2>5. TypeOK'
    BY <1>1, <1>7, <2>4, SameTypes DEF IInv, TypeOK
  <2>6. CutOK'
    BY <1>1, <1>3, <1>4, <2>2, <2>4 DEF CutOK
  <2> QED  BY <1>1, <1>6, <1>9, <2>5, <2>6, SameRange DEF IInv, Good
<1> QED  BY <1>5, <1>8, <1>9 DEF SaveSucceeds
===============================================================================
