--------------------------- MODULE ChainSyncProofs ---------------------------
(***************************************************************************)
(* Sync keeps the promise of StoredChain, for sources and copies of any    *)
(* length, with any number of failures, crashes and reorganisations, as    *)
(* long as a range update that reports failure has not been stored.        *)
(***************************************************************************)
EXTENDS ChainSyncSteps, FiniteSetTheorems

-----------------------------------------------------------------------------
(* The steps of Save.                                                      *)

\* What every step of Save leaves alone.
Aside == UNCHANGED <<deleting, src, sync, position>> /\ sync = "save"

LEMMA SaveAside == ASSUME Save PROVE Aside
BY DEF Save, SaveSteps, SaveCleans, SaveInserts, SaveReports, SaveReceives, Aside, sVars

\* A step of Save is good when its record, the rows and the range fit.
LEMMA SaveGood ==
    ASSUME IInv, Aside, NEW v \in SaveRecord, save' = [save EXCEPT ![S] = v],
           rows' \in [Num -> Seq(Slot)], range' \in SUBSET Num, current' \in {Unread, range'},
           RangeOK', Kept \/ Extended, NEW a \in Num, NEW b \in Num, SaveOK(save[S], a, b)'
    PROVE  Good
<1>1. save' \in [Saver -> SaveRecord]
  BY DEF IInv, TypeOK
<1>2. TypeOK'
  BY <1>1 DEF Aside, IInv, TypeOK
<1> QED  BY <1>2 DEF Aside, IInv, Good

\* A failure is remembered; nothing else changes but rows outside the range
\* before anything has been received.
LEMMA FailStep ==
    ASSUME IInv, Aside, NEW e \in {"error", "link", "infinite"}, SaveFails(S, e),
           UNCHANGED <<range, current>>, rows' \in [Num -> Seq(Slot)],
           \/ rows' = rows
           \/ save[S].at = "clean" /\ \A n \in Num \ save[S].interval : rows'[n] = rows[n]
    PROVE  Good
<1>1. PICK a, b \in Num : SaveOK(save[S], a, b)
  BY DEF IInv, Aside
<1> DEFINE v == save[S]
           w == [v EXCEPT !.err = IF @ = "nil" THEN e ELSE @]
<1>2. v \in SaveRecord
  BY SIsSaver DEF IInv, TypeOK
<1>3. /\ w \in SaveRecord /\ w.err # "nil"
      /\ w.at = v.at /\ w.interval = v.interval /\ w.cur = v.cur /\ w.seed = v.seed /\ w.left = v.left
      /\ w.next = v.next /\ w.loaded = v.loaded /\ w.inserted = v.inserted /\ w.completed = v.completed
  BY <1>2 DEF SaveRecord
<1>4. save' = [save EXCEPT ![S] = w]
  BY DEF SaveFails
<1>5. save'[S] = w
  BY <1>4, SIsSaver DEF IInv, TypeOK
<1> HIDE DEF w
<1>6. \A n \in range : rows'[n] = rows[n]
  <2>1. CASE rows' = rows
    BY <2>1
  <2>2. CASE v.at = "clean" /\ \A n \in Num \ v.interval : rows'[n] = rows[n]
    <3>1. range \cap v.interval = {} /\ range \subseteq Num
      BY <1>1, <2>2 DEF SaveOK, Fresh, Bounds, IInv, TypeOK
    <3> QED  BY <2>2, <3>1
  <2> QED  BY <2>1, <2>2
<1>7. Kept
  BY <1>6 DEF Kept
<1>8. Bounds(save[S], a, b)' /\ Fresh(save[S], a, b)' /\ Reported(save[S], a, b)'
  BY <1>1, <1>3, <1>5 DEF SaveOK, Bounds, Fresh, Reported
<1>9. Received(save[S], a, b)'
  <2>1. CASE rows' = rows
    BY <1>1, <1>3, <1>5, <2>1 DEF SaveOK, Received
  <2>2. CASE v.at = "clean"
    BY <1>1, <1>3, <1>5, <1>6, <2>2 DEF SaveOK, Received, Fresh
  <2> QED  BY <2>1, <2>2
<1>10. SaveOK(save[S], a, b)'
  BY <1>8, <1>9 DEF SaveOK
<1>11. RangeOK' /\ range' \in SUBSET Num /\ current' \in {Unread, range'}
  BY <1>7, SameRange DEF IInv, TypeOK
<1> QED  BY <1>3, <1>4, <1>7, <1>10, <1>11, SaveGood

\* The rows Save empties are outside the range.
LEMMA CleanStep == ASSUME IInv, Aside, SaveCleans(S) PROVE Good
<1>1. UNCHANGED <<range, current>> /\ save[S].at = "clean"
  BY DEF SaveCleans
<1>2. \A T \in SUBSET save[S].interval :
         /\ Without(T) \in [Num -> Seq(Slot)]
         /\ \A n \in Num \ save[S].interval : Without(T)[n] = rows[n]
  BY DEF Without, IInv, TypeOK
<1>3. CASE \E T \in SUBSET save[S].interval : rows' = Without(T) /\ SaveFails(S, "error")
  BY <1>1, <1>2, <1>3, FailStep
<1>4. CASE rows' = Cleaned(save[S].interval) /\ Goes(S, [save[S] EXCEPT !.at = "stream"])
  <2>1. PICK a, b \in Num : SaveOK(save[S], a, b)
    BY DEF IInv, Aside
  <2> DEFINE v == save[S]
             w == [v EXCEPT !.at = "stream"]
  <2>2. v \in SaveRecord
    BY SIsSaver DEF IInv, TypeOK
  <2>3. /\ w \in SaveRecord /\ w.at = "stream"
        /\ w.err = v.err /\ w.interval = v.interval /\ w.cur = v.cur /\ w.seed = v.seed /\ w.left = v.left
        /\ w.next = v.next /\ w.loaded = v.loaded /\ w.inserted = v.inserted /\ w.completed = v.completed
    BY <2>2 DEF SaveRecord
  <2>4. save' = [save EXCEPT ![S] = w]
    BY <1>4 DEF Goes
  <2>5. save'[S] = w
    BY <2>4, SIsSaver DEF IInv, TypeOK
  <2> HIDE DEF w
  <2>6. /\ v.interval = a .. b /\ v.next = a /\ range \cap (a .. b) = {}
        /\ v.loaded = {} /\ v.inserted = {} /\ v.completed = {}
    BY <1>1, <2>1 DEF SaveOK, Fresh, Bounds
  <2>7. /\ rows' \in [Num -> Seq(Slot)] /\ \A n \in range : rows'[n] = rows[n]
        /\ \A n \in a .. b : n \in Num => rows'[n] = <<>>
    BY <1>2, <1>4, <2>6 DEF Cleaned, Without, IInv, TypeOK
  <2>8. a .. b \subseteq Num
    BY <2>2, <2>6 DEF SaveRecord
  <2>9. Kept
    BY <1>1, <2>7 DEF Kept
  <2>10. Bounds(save[S], a, b)' /\ Fresh(save[S], a, b)' /\ Reported(save[S], a, b)'
    BY <1>1, <2>1, <2>3, <2>5 DEF SaveOK, Bounds, Fresh, Reported
  <2>11. Received(save[S], a, b)'
    BY <1>1, <2>1, <2>3, <2>5, <2>6, <2>7, <2>8 DEF SaveOK, Received
  <2>12. SaveOK(save[S], a, b)'
    BY <2>10, <2>11 DEF SaveOK
  <2>13. RangeOK' /\ range' \in SUBSET Num /\ current' \in {Unread, range'}
    BY <1>1, <2>9, SameRange DEF IInv, TypeOK
  <2> QED  BY <2>3, <2>4, <2>7, <2>9, <2>12, <2>13, SaveGood
<1> QED  BY <1>3, <1>4 DEF SaveCleans

LEMMA ReceivedType ==
    ASSUME NEW v \in SaveRecord, NEW x \in Slot, NEW n \in Int, NEW l \in SUBSET Slot
    PROVE  LET w == [v EXCEPT !.left = x, !.next = n, !.loaded = l] IN
           /\ w \in SaveRecord /\ w.left = x /\ w.next = n /\ w.loaded = l
           /\ w.at = v.at /\ w.err = v.err /\ w.interval = v.interval /\ w.cur = v.cur /\ w.seed = v.seed
           /\ w.inserted = v.inserted /\ w.completed = v.completed
BY DEF SaveRecord

\* A slot that links extends the prefixes received before it.
LEMMA ReceiveStep == ASSUME IInv, Aside, SaveReceives(S, SlotAt(save[S].next)) PROVE Good
<1> DEFINE v == save[S]
           x == SlotAt(v.next)
<1>1. UNCHANGED <<rows, range, current>> /\ v.at = "stream" /\ v.next \in v.interval
  BY DEF SaveReceives
<1>2. rows' \in [Num -> Seq(Slot)] /\ range' \in SUBSET Num /\ current' \in {Unread, range'}
  BY <1>1 DEF IInv, TypeOK
<1>3. CASE SaveFails(S, "error") \/ SaveFails(S, "link")
  BY <1>1, <1>2, <1>3, FailStep
<1>4. CASE /\ x # NoSlot /\ ~LinkMismatch(v.left, x)
           /\ Goes(S, [v EXCEPT !.left = x, !.next = @ + 1, !.loaded = @ \cup {x}])
  <2>1. PICK a, b \in Num : SaveOK(v, a, b)
    BY DEF IInv, Aside
  <2>2. v \in SaveRecord /\ MaxNum \in Nat
    BY SIsSaver, SyncAssumption DEF IInv, TypeOK
  <2>3. /\ a \in Nat /\ b \in Nat /\ a <= b /\ v.interval = a .. b /\ v.next \in a .. b
        /\ v.left \in Slot /\ v.next \in Nat
    BY <1>1, <2>1, <2>2 DEF SaveOK, Bounds, Num, SaveRecord
  <2>4. x \in Slot /\ Len(x) = v.next + 1
    BY <1>4, <2>3, SlotFacts DEF IInv
  <2>5. Prefix(x, v.next + 1) = x
    BY <2>3, <2>4, PrefixFacts
  <2> HIDE DEF x
  <2> DEFINE w == [v EXCEPT !.left = x, !.next = @ + 1, !.loaded = @ \cup {x}]
  <2>6. /\ w \in SaveRecord /\ w.left = x /\ w.next = v.next + 1 /\ w.loaded = v.loaded \cup {x}
        /\ w.at = v.at /\ w.err = v.err /\ w.interval = v.interval /\ w.cur = v.cur /\ w.seed = v.seed
        /\ w.inserted = v.inserted /\ w.completed = v.completed
    <3>1. v.next + 1 \in Int /\ v.loaded \cup {x} \in SUBSET Slot
      BY <2>2, <2>3, <2>4 DEF SaveRecord
    <3> QED  BY <2>2, <2>4, <3>1, ReceivedType DEF SaveRecord
  <2>7. save' = [save EXCEPT ![S] = w]
    BY <1>4 DEF Goes
  <2>8. save'[S] = w
    BY <2>7, SIsSaver DEF IInv, TypeOK
  <2> HIDE DEF w
  <2>9. ASSUME v.next > a \/ a - 1 \in range, NEW n \in (a - 1) .. (v.next - 1), n >= 0
        PROVE  Prefix(x, n + 1) = Prefix(v.left, n + 1)
    <3>1. Len(v.left) = v.next /\ v.next > 0
      <4>1. a - 1 \in range => a > 0
        BY <2>2, <2>3 DEF IInv, TypeOK, Num
      <4> QED  BY <2>1, <2>3, <2>9, <4>1 DEF SaveOK, Bounds
    <3>2. v.left = Parent(x)
      BY <1>4, <3>1 DEF LinkMismatch, NoSlot
    <3>3. n + 1 \in 0 .. Len(x) /\ n + 1 < Len(x)
      BY <2>3, <2>4, <2>9
    <3> QED  BY <2>4, <3>2, <3>3, PrefixFacts
  <2>10. \A n \in v.inserted \cup v.completed :
            n \in a .. (v.next - 1) /\ rows[n] = <<Prefix(x, n + 1)>>
    BY <2>1, <2>3, <2>9 DEF SaveOK, Received
  <2>11. \A n \in range : n >= a - 1 => rows[n] = <<Prefix(x, n + 1)>>
    <3> SUFFICES ASSUME NEW n \in range, n >= a - 1 PROVE rows[n] = <<Prefix(x, n + 1)>>
      OBVIOUS
    <3>1. n \in Nat /\ n <= b
      <4>1. range \in SUBSET Num
        BY DEF IInv, TypeOK
      <4>2. n \in Nat
        BY <2>2, <4>1 DEF Num
      <4>3. \E h \in Num : h <= b /\ range = v.seed .. h
        BY <2>1, <2>3, <4>2 DEF SaveOK, Bounds
      <4>4. v.seed \in Int
        BY <2>2 DEF SaveRecord
      <4> QED  BY <2>2, <2>3, <4>2, <4>3, <4>4 DEF Num
    <3>2. CASE n = a - 1
      BY <2>1, <2>3, <2>9, <3>1, <3>2 DEF SaveOK, Received
    <3>3. CASE n >= a
      BY <2>1, <2>3, <2>10, <3>1, <3>3 DEF SaveOK, Reported
    <3> QED  BY <2>3, <3>1, <3>2, <3>3
  <2>12. \A y \in v.loaded : /\ Len(y) - 1 \in a .. (v.next - 1)
                             /\ y = Prefix(x, Len(y)) /\ rows[Len(y) - 1] = <<>>
    <3> SUFFICES ASSUME NEW y \in v.loaded
                 PROVE  /\ Len(y) - 1 \in a .. (v.next - 1)
                        /\ y = Prefix(x, Len(y)) /\ rows[Len(y) - 1] = <<>>
      OBVIOUS
    <3>1. /\ Len(y) - 1 \in a .. (v.next - 1) /\ rows[Len(y) - 1] = <<>>
          /\ y = Prefix(v.left, Len(y))
      BY <2>1 DEF SaveOK, Received
    <3>2. Len(y) \in Nat /\ (Len(y) - 1) + 1 = Len(y)
      BY <2>2 DEF SaveRecord, Slot
    <3>3. Prefix(x, (Len(y) - 1) + 1) = Prefix(v.left, (Len(y) - 1) + 1)
      BY <2>3, <2>9, <3>1
    <3> QED  BY <3>1, <3>2, <3>3
  <2>13. rows[v.next] = <<>> /\ \A n \in (v.next + 1) .. b : rows[n] = <<>>
    BY <1>1, <2>1, <2>3 DEF SaveOK, Received
  <2>14. Received(save[S], a, b)'
    <3>1. Len(x) - 1 = v.next /\ x = Prefix(x, Len(x))
      BY <2>3, <2>4, <2>5
    <3>2. \A y \in w.loaded : /\ Len(y) - 1 \in a .. (w.next - 1)
                              /\ y = Prefix(x, Len(y)) /\ rows[Len(y) - 1] = <<>>
      BY <2>3, <2>6, <2>12, <2>13, <3>1
    <3>3. \A n \in w.inserted \cup w.completed :
             n \in a .. (w.next - 1) /\ rows[n] = <<Prefix(x, n + 1)>>
      BY <2>3, <2>6, <2>10
    <3> QED  BY <1>1, <2>6, <2>8, <2>11, <2>13, <3>2, <3>3 DEF Received
  <2>15. Bounds(save[S], a, b)' /\ Fresh(save[S], a, b)'
    <3>1. /\ v.cur = range /\ v.seed \in Num /\ v.seed <= a
          /\ \/ range = {} /\ v.seed = a
             \/ \E h \in Num : h >= v.seed /\ h >= a - 1 /\ h <= b /\ range = v.seed .. h
      BY <2>1 DEF SaveOK, Bounds
    <3>2. v.next + 1 \in a .. (b + 1) /\ Len(x) = v.next + 1
      BY <2>3, <2>4
    <3> HIDE DEF v
    <3> QED  BY <1>1, <2>3, <2>6, <2>8, <3>1, <3>2 DEF Bounds, Fresh
  <2>16. Reported(save[S], a, b)'
    <3>1. ASSUME v.err = "nil", NEW n \in a .. (w.next - 1)
          PROVE  n \in w.inserted \cup w.completed \/ Prefix(x, n + 1) \in w.loaded
      <4>1. CASE n = v.next
        BY <2>5, <2>6, <4>1
      <4>2. CASE n # v.next
        <5>1. n \in a .. (v.next - 1) /\ v.next > a /\ n >= 0 /\ n \in (a - 1) .. (v.next - 1)
          BY <2>3, <2>6, <4>2
        <5>2. Prefix(x, n + 1) = Prefix(v.left, n + 1)
          BY <2>9, <5>1
        <5>3. n \in v.inserted \cup v.completed \/ Prefix(v.left, n + 1) \in v.loaded
          BY <2>1, <3>1, <5>1 DEF SaveOK, Reported
        <5> QED  BY <2>6, <5>2, <5>3
      <4> QED  BY <4>1, <4>2
    <3> QED  BY <1>1, <2>1, <2>6, <2>8, <3>1 DEF SaveOK, Reported
  <2>17. SaveOK(save[S], a, b)'
    BY <2>14, <2>15, <2>16 DEF SaveOK
  <2>18. Kept
    BY <1>1 DEF Kept
  <2>19. RangeOK'
    BY <2>18, SameRange DEF IInv
  <2> QED  BY <1>2, <2>6, <2>7, <2>17, <2>18, <2>19, SaveGood
<1> QED  BY <1>3, <1>4 DEF SaveReceives

\* An insert fills one row that was empty.
LEMMA InsertStep == ASSUME IInv, Aside, NEW x \in save[S].loaded, SaveInserts(S, x) PROVE Good
<1> DEFINE v == save[S]
           n0 == Len(x) - 1
<1>1. UNCHANGED <<range, current>>
  BY DEF SaveInserts
<1>2. range' \in SUBSET Num /\ current' \in {Unread, range'}
  BY <1>1 DEF IInv, TypeOK
<1>3. CASE SaveFails(S, "error") /\ UNCHANGED rows
  BY <1>1, <1>3, FailStep DEF IInv, TypeOK
<1>4. CASE /\ rows' = [rows EXCEPT ![Number(x)] = Append(@, x)]
           /\ Goes(S, [v EXCEPT !.loaded = @ \ {x}, !.inserted = @ \cup {Number(x)}])
  <2>1. PICK a, b \in Num : SaveOK(v, a, b)
    BY DEF IInv, Aside
  <2>2. v \in SaveRecord /\ MaxNum \in Nat
    BY SIsSaver, SyncAssumption DEF IInv, TypeOK
  <2>3. /\ a \in Nat /\ b \in Nat /\ b <= MaxNum /\ a <= b /\ v.next \in a .. (b + 1) /\ x \in Slot
        /\ Len(x) \in Nat
    BY <2>1, <2>2 DEF SaveOK, Bounds, Num, SaveRecord, Slot
  <2>4. /\ n0 \in a .. (v.next - 1) /\ x = Prefix(v.left, n0 + 1) /\ rows[n0] = <<>>
        /\ n0 \in Num
    <3>1. n0 \in a .. (v.next - 1) /\ x = Prefix(v.left, Len(x)) /\ rows[n0] = <<>>
      BY <2>1 DEF SaveOK, Received
    <3>2. n0 + 1 = Len(x)
      BY <2>3
    <3> HIDE DEF n0
    <3>3. n0 \in Num
      BY <2>2, <2>3, <3>1 DEF Num
    <3> QED  BY <3>1, <3>2, <3>3
  <2>5. Number(x) = n0
    BY DEF Number
  <2> HIDE DEF n0
  <2> DEFINE w == [v EXCEPT !.loaded = @ \ {x}, !.inserted = @ \cup {n0}]
  <2>6. /\ w \in SaveRecord /\ w.loaded = v.loaded \ {x} /\ w.inserted = v.inserted \cup {n0}
        /\ w.at = v.at /\ w.err = v.err /\ w.interval = v.interval /\ w.cur = v.cur /\ w.seed = v.seed
        /\ w.left = v.left /\ w.next = v.next /\ w.completed = v.completed
    BY <2>2, <2>4 DEF SaveRecord
  <2>7. save' = [save EXCEPT ![S] = w]
    BY <1>4, <2>5 DEF Goes
  <2>8. save'[S] = w
    BY <2>7, SIsSaver DEF IInv, TypeOK
  <2> HIDE DEF w
  <2>9. /\ rows'[n0] = <<x>> /\ \A n \in Num : n # n0 => rows'[n] = rows[n]
        /\ rows' \in [Num -> Seq(Slot)]
    <3>1. Append(rows[n0], x) = <<x>> /\ <<x>> \in Seq(Slot)
      BY <2>3, <2>4
    <3>2. rows' = [rows EXCEPT ![n0] = <<x>>] /\ rows \in [Num -> Seq(Slot)]
      BY <1>4, <2>5, <3>1 DEF IInv, TypeOK
    <3> QED  BY <2>4, <3>1, <3>2
  <2>10. n0 \notin range
    BY <2>4 DEF IInv, RangeOK
  <2>11. Kept
    BY <1>1, <2>9, <2>10 DEF Kept, IInv, TypeOK
  <2>12. v.inserted \cup v.completed \subseteq Num /\ n0 \notin v.inserted \cup v.completed
    <3>1. ASSUME NEW n \in v.inserted \cup v.completed PROVE rows[n] # <<>>
      <4>1. PICK y : rows[n] = <<y>>
        BY <2>1 DEF SaveOK, Received
      <4> QED  BY <4>1
    <3> QED  BY <2>2, <2>4, <3>1 DEF SaveRecord
  <2>13. Received(save[S], a, b)'
    <3>1. \A n \in w.inserted \cup w.completed :
             n \in a .. (w.next - 1) /\ rows'[n] = <<Prefix(w.left, n + 1)>>
      BY <2>1, <2>4, <2>6, <2>9, <2>12 DEF SaveOK, Received
    <3>2. ASSUME NEW y \in w.loaded
          PROVE  /\ Len(y) - 1 \in a .. (w.next - 1)
                 /\ y = Prefix(w.left, Len(y)) /\ rows'[Len(y) - 1] = <<>>
      <4>1. /\ y \in v.loaded /\ y # x /\ Len(y) - 1 \in a .. (v.next - 1)
            /\ y = Prefix(v.left, Len(y)) /\ rows[Len(y) - 1] = <<>>
        BY <2>1, <2>6, <3>2 DEF SaveOK, Received
      <4>2. Len(y) \in Nat /\ Len(y) - 1 \in Num
        BY <2>2, <2>3, <4>1 DEF SaveRecord, Slot, Num
      <4>3. Len(y) - 1 # n0
        <5>1. Len(y) - 1 = n0 => Len(y) = n0 + 1
          BY <4>2
        <5> QED  BY <2>4, <4>1, <5>1
      <4> QED  BY <2>6, <2>9, <4>1, <4>2, <4>3
    <3>3. ASSUME v.at = "stream", NEW n \in v.next .. b PROVE rows'[n] = <<>>
      <4>1. n # n0 /\ n \in Num /\ rows[n] = <<>>
        <5>1. rows[n] = <<>>
          BY <2>1, <3>3 DEF SaveOK, Received
        <5>2. n # n0 /\ n \in Num
          BY <2>2, <2>3, <2>4, <3>3 DEF Num
        <5> QED  BY <5>1, <5>2
      <4> QED  BY <2>9, <4>1
    <3>4. \A n \in range : n >= a - 1 => rows'[n] = <<Prefix(w.left, n + 1)>>
      BY <2>1, <2>6, <2>11 DEF SaveOK, Received, Kept
    <3> QED  BY <1>1, <2>6, <2>8, <3>1, <3>2, <3>3, <3>4 DEF Received
  <2>14. Bounds(save[S], a, b)' /\ Fresh(save[S], a, b)'
    BY <1>1, <2>1, <2>6, <2>8 DEF SaveOK, Bounds, Fresh
  <2>15. Reported(save[S], a, b)'
    <3>1. ASSUME v.err = "nil", NEW n \in a .. (v.next - 1)
          PROVE  n \in w.inserted \cup w.completed \/ Prefix(v.left, n + 1) \in w.loaded
      <4>1. n \in v.inserted \cup v.completed \/ Prefix(v.left, n + 1) \in v.loaded
        BY <2>1, <3>1 DEF SaveOK, Reported
      <4>2. ASSUME Prefix(v.left, n + 1) = x PROVE n = n0
        <5>1. n + 1 \in 0 .. Len(v.left) /\ v.left \in Slot
          <6>1. v.left \in Slot /\ (v.next > a => Len(v.left) = v.next)
            BY <2>1, <2>2 DEF SaveOK, Bounds, SaveRecord
          <6>2. v.next > a /\ n + 1 \in 0 .. v.next
            BY <2>3, <3>1
          <6> QED  BY <6>1, <6>2
        <5>2. Len(x) = n + 1
          BY <4>2, <5>1, PrefixFacts
        <5> QED  BY <2>3, <5>2 DEF n0
      <4> QED  BY <2>6, <4>1, <4>2
    <3> QED  BY <1>1, <2>1, <2>6, <2>8, <3>1 DEF SaveOK, Reported
  <2>16. SaveOK(save[S], a, b)'
    BY <2>13, <2>14, <2>15 DEF SaveOK
  <2>17. RangeOK'
    BY <2>11, SameRange DEF IInv
  <2> QED  BY <1>2, <2>6, <2>7, <2>9, <2>11, <2>16, <2>17, SaveGood
<1> QED  BY <1>3, <1>4 DEF SaveInserts

\* The range after a report: what is complete from the seed on.
LEMMA ReportStep ==
    ASSUME MayLoseAnswer = FALSE, IInv, Aside, NEW n \in save[S].inserted, SaveReports(S, n)
    PROVE  Good
<1> DEFINE v == save[S]
           done == v.completed \cup {n}
           D == done \cup v.cur
           after == RunOf(D, v.seed)
           new == NewRange(after)
           ins == v.inserted \ {n}
           reported == [v EXCEPT !.completed = done, !.inserted = ins]
<1>1. PICK a, b \in Num : SaveOK(v, a, b)
  BY DEF IInv, Aside
<1>2. v \in SaveRecord /\ MaxNum \in Nat /\ Current = range /\ range \in SUBSET Num /\ rows \in [Num -> Seq(Slot)]
  BY SIsSaver, SyncAssumption, CurrentIsRange DEF IInv, TypeOK
<1>3. /\ a \in Nat /\ b \in Nat /\ a <= b /\ b <= MaxNum /\ v.seed \in Nat /\ v.seed <= a
      /\ v.next \in a .. (b + 1) /\ v.cur = range
      /\ done \in SUBSET Num /\ ins \in SUBSET Num /\ v.left \in Slot
  <2>1. /\ v.completed \in SUBSET Num /\ v.inserted \in SUBSET Num /\ v.left \in Slot
    BY <1>2 DEF SaveRecord
  <2>2. done \in SUBSET Num /\ ins \in SUBSET Num
    BY <2>1
  <2> HIDE DEF done, ins
  <2>3. a <= b /\ v.seed \in Num /\ v.seed <= a /\ v.next \in a .. (b + 1) /\ v.cur = range
    BY <1>1 DEF SaveOK, Bounds
  <2> QED  BY <1>2, <2>1, <2>2, <2>3 DEF Num
<1>4. \A m \in done : m \in a .. (v.next - 1) /\ rows[m] = <<Prefix(v.left, m + 1)>>
  BY <1>1 DEF SaveOK, Received
<1>5. v.next > a /\ Len(v.left) = v.next /\ v.at = "stream"
  <2>1. n \in a .. (v.next - 1)
    BY <1>4
  <2>2. v.next > a
    BY <1>3, <2>1
  <2> QED  BY <1>1, <2>2 DEF SaveOK, Bounds, Fresh
<1>6. ins \cup done = v.inserted \cup v.completed
  OBVIOUS
<1>7. UNCHANGED rows
  BY DEF SaveReports
\* The record and the range after the step, in each of its cases.
<1>8. ASSUME NEW e \in {"nil", "error", "link", "infinite", "discontinuous"}, e = "nil" => v.err = "nil",
             save' = [save EXCEPT ![S] = [v EXCEPT !.completed = done, !.inserted = ins,
                                                   !.cur = range', !.err = e]],
             range' \in SUBSET Num, current' \in {Unread, range'},
             range \subseteq range' /\ range' \subseteq range \cup done,
             \/ range' = {} /\ v.seed = a
             \/ \E h \in Num : h >= v.seed /\ h >= a - 1 /\ h <= b /\ range' = v.seed .. h,
             e = "nil" => \A m \in done \ range' : \E k \in a .. m : k \notin done
      PROVE  Good
  <2> DEFINE w == [v EXCEPT !.completed = done, !.inserted = ins, !.cur = range', !.err = e]
  <2>1. w = [v EXCEPT !.completed = done, !.inserted = ins, !.cur = range', !.err = e]
    OBVIOUS
  <2>2. save' = [save EXCEPT ![S] = w]
    BY <1>8
  <2>3. save'[S] = w
    BY <2>2, SIsSaver DEF IInv, TypeOK
  <2> HIDE DEF w, done, ins
  <2>4. /\ w \in SaveRecord /\ w.completed = done /\ w.inserted = ins /\ w.cur = range' /\ w.err = e
        /\ w.at = v.at /\ w.interval = v.interval /\ w.seed = v.seed /\ w.left = v.left
        /\ w.next = v.next /\ w.loaded = v.loaded
    <3>1. v \in SaveRecord /\ done \in SUBSET Num /\ ins \in SUBSET Num /\ range' \in SUBSET Num
      BY <1>2, <1>3, <1>8
    <3> HIDE DEF v
    <3> QED  BY <1>8, <2>1, <3>1 DEF SaveRecord
  <2>5. v.completed \subseteq done
    BY DEF done
  <2>6. \A m \in range' : m >= a - 1 => rows[m] = <<Prefix(v.left, m + 1)>>
    BY <1>1, <1>4, <1>8 DEF SaveOK, Received
  <2>7. \A m \in range' : m < a => m \in range
    BY <1>3, <1>4, <1>8
  <2>8. \A m \in range' : m >= a => m \in done
    <3> SUFFICES ASSUME NEW m \in range', m >= a, m \in range PROVE m \in done
      BY <1>8
    <3>1. m \in a .. b
      BY <1>2, <1>3, <1>8 DEF Num
    <3> QED  BY <1>1, <2>5, <3>1 DEF SaveOK, Reported
  <2>9. \A m \in range' : m >= a - 1 => m + 1 \in 0 .. Len(v.left)
    <3> SUFFICES ASSUME NEW m \in range', m >= a - 1 PROVE m + 1 \in 0 .. Len(v.left)
      OBVIOUS
    <3>1. m \in Nat
      BY <1>2, <1>8 DEF Num
    <3>2. CASE m = a - 1
      BY <1>3, <1>5, <3>1, <3>2
    <3>3. CASE m >= a
      BY <1>3, <1>4, <1>5, <2>8, <3>1, <3>3
    <3> QED  BY <1>3, <3>1, <3>2, <3>3
  <2>10. RangeOK'
    <3>1. range' = {} \/ \E lo, hi \in Num : lo <= hi /\ range' = lo .. hi
      <4>1. v.seed \in Num
        BY <1>1 DEF SaveOK, Bounds
      <4>2. \A h \in Num : h >= v.seed => v.seed <= h
        BY <1>2, <1>3 DEF Num
      <4> QED  BY <1>8, <4>1, <4>2, Zenon
    <3>2. ASSUME NEW m \in range'
          PROVE  /\ Len(rows[m]) = 1 /\ Len(rows[m][1]) = m + 1
                 /\ m + 1 \in range' => rows[m][1] = Parent(rows[m + 1][1])
      <4>1. m \in Nat
        BY <1>2, <1>8 DEF Num
      <4>2. CASE m < a - 1
        <5>1. m \in range /\ (m + 1 \in range' => m + 1 \in range)
          BY <1>3, <2>7, <4>1, <4>2
        <5> QED  BY <5>1 DEF IInv, RangeOK
      <4>3. CASE m >= a - 1
        <5>1. rows[m] = <<Prefix(v.left, m + 1)>> /\ m + 1 \in 0 .. Len(v.left)
          BY <2>6, <2>9, <4>3
        <5>2. Len(Prefix(v.left, m + 1)) = m + 1
          BY <1>3, <5>1, PrefixFacts
        <5>3. ASSUME m + 1 \in range' PROVE rows[m][1] = Parent(rows[m + 1][1])
          <6>1. m + 1 >= a - 1
            BY <1>3, <4>1, <4>3
          <6>2. rows[m + 1] = <<Prefix(v.left, (m + 1) + 1)>> /\ (m + 1) + 1 \in 0 .. Len(v.left)
            BY <2>6, <2>9, <5>3, <6>1
          <6>3. (m + 1) + 1 > 0 /\ ((m + 1) + 1) - 1 = m + 1
            BY <4>1
          <6>4. Parent(Prefix(v.left, (m + 1) + 1)) = Prefix(v.left, m + 1)
            BY <1>3, <6>2, <6>3, PrefixFacts
          <6> QED  BY <5>1, <6>2, <6>4
        <5> QED  BY <5>1, <5>2, <5>3
      <4> QED  BY <1>3, <4>1, <4>2, <4>3
    <3> QED  BY <1>7, <3>1, <3>2 DEF RangeOK
  <2>11. Received(save[S], a, b)'
    BY <1>1, <1>6, <1>7, <2>3, <2>4, <2>6 DEF SaveOK, Received
  <2>12. Fresh(save[S], a, b)'
    BY <1>5, <2>3, <2>4 DEF Fresh
  <2>13. Bounds(save[S], a, b)'
    BY <1>1, <1>3, <1>5, <1>8, <2>3, <2>4 DEF SaveOK, Bounds
  <2>14. Reported(save[S], a, b)'
    <3>1. range' \cap (a .. b) \subseteq done
      BY <1>3, <2>8
    <3>2. e = "nil" => \A m \in a .. (v.next - 1) :
                          m \in ins \cup done \/ Prefix(v.left, m + 1) \in v.loaded
      BY <1>1, <1>6, <1>8 DEF SaveOK, Reported
    <3> QED  BY <1>8, <2>3, <2>4, <3>1, <3>2 DEF Reported
  <2>15. SaveOK(save[S], a, b)'
    BY <2>11, <2>12, <2>13, <2>14 DEF SaveOK
  <2>16. Kept \/ Extended
    <3>1. CASE range' = range
      BY <1>7, <3>1 DEF Kept
    <3>2. CASE range' # range
      <4>1. PICK h \in Num : h >= v.seed /\ range' = v.seed .. h
        BY <1>8, <3>2
      <4>2. v.seed \in Num
        BY <1>1 DEF SaveOK, Bounds
      <4>3. range = {} \/ \E k \in Num : v.seed <= k /\ range = v.seed .. k
        BY <1>1, <1>3 DEF SaveOK, Bounds, Num
      <4>4. v.seed <= h
        BY <1>2, <1>3, <4>1 DEF Num
      <4> QED  BY <1>7, <1>8, <4>1, <4>2, <4>3, <4>4 DEF Extended
    <3> QED  BY <3>1, <3>2
  <2>17. rows' \in [Num -> Seq(Slot)]
    BY <1>2, <1>7
  <2> QED  BY <1>8, <2>2, <2>4, <2>10, <2>15, <2>16, <2>17, SaveGood
<1>9. CASE v.seed \notin D
  <2>1. UNCHANGED <<range, current>>
    BY <1>9 DEF SaveReports
  <2> DEFINE e == IF v.err = "nil" THEN "infinite" ELSE v.err
  <2>2. e \in {"nil", "error", "link", "infinite", "discontinuous"} /\ e # "nil"
    BY <1>2 DEF SaveRecord
  <2>3. save' = [save EXCEPT ![S] = [v EXCEPT !.completed = done, !.inserted = ins,
                                              !.cur = range', !.err = e]]
    <3>1. save' = [save EXCEPT ![S] = [reported EXCEPT !.err = IF @ = "nil" THEN "infinite" ELSE @]]
      BY <1>9 DEF SaveReports, Goes
    <3>2. v.cur = range'
      BY <1>3, <2>1
    <3>3. [reported EXCEPT !.err = IF @ = "nil" THEN "infinite" ELSE @]
            = [v EXCEPT !.completed = done, !.inserted = ins, !.cur = range', !.err = e]
      BY <1>2, <3>2 DEF SaveRecord
    <3> QED  BY <3>1, <3>3
  <2>4. /\ range' \in SUBSET Num /\ current' \in {Unread, range'}
        /\ range \subseteq range' /\ range' \subseteq range \cup done
    BY <1>2, <2>1 DEF IInv, TypeOK
  <2>5. \/ range' = {} /\ v.seed = a
        \/ \E h \in Num : h >= v.seed /\ h >= a - 1 /\ h <= b /\ range' = v.seed .. h
    BY <1>1, <2>1 DEF SaveOK, Bounds
  <2> HIDE DEF e, done, ins, v
  <2> QED  BY <1>8, <2>2, <2>3, <2>4, <2>5
<1>10. CASE v.seed \in D
  <2>1. D \subseteq v.seed .. b /\ range \subseteq D
    <3>1. done \subseteq v.seed .. b
      <4> HIDE DEF done
      <4> QED  BY <1>3, <1>4
    <3>2. range \subseteq v.seed .. b
      <4>1. range = {} \/ \E k \in Num : k <= b /\ range = v.seed .. k
        BY <1>1 DEF SaveOK, Bounds
      <4>2. \A k \in Num : k <= b => v.seed .. k \subseteq v.seed .. b
        BY <1>2, <1>3 DEF Num
      <4> QED  BY <4>1, <4>2, Zenon
    <3> HIDE DEF done
    <3> QED  BY <1>3, <3>1, <3>2
  <2>2. PICK h \in v.seed .. b : after = v.seed .. h /\ v.seed .. h \subseteq D /\ h + 1 \notin D
    <3> HIDE DEF D
    <3> QED  BY <1>3, <1>10, <2>1, RunIsInterval
  <2>3. h \in Num /\ h >= v.seed /\ h <= b /\ h \in Nat
    <3> HIDE DEF v, done, D, after, new, ins, reported
    <3>1. h \in v.seed .. b
      BY <2>2
    <3> QED  BY <1>2, <1>3, <3>1 DEF Num
  <2>4. range \subseteq v.seed .. h /\ h >= a - 1
    <3>1. CASE range = {}
      <4>1. v.seed = a
        BY <1>1, <1>3, <3>1 DEF SaveOK, Bounds
      <4> HIDE DEF v, done, D, after, new, ins, reported
      <4> QED  BY <1>3, <2>3, <3>1, <4>1
    <3>2. CASE range # {}
      <4>1. PICK k \in Num : k >= v.seed /\ k >= a - 1 /\ range = v.seed .. k
        BY <1>1, <3>2 DEF SaveOK, Bounds
      <4>2. h + 1 \notin v.seed .. k
        BY <2>1, <2>2, <4>1
      <4> HIDE DEF v, done, D, after, new, ins, reported
      <4>3. k \in Nat /\ k <= h
        <5>1. k \in Nat /\ k >= v.seed
          BY <1>2, <4>1 DEF Num
        <5>2. h \in Nat /\ h >= v.seed /\ v.seed \in Nat
          BY <1>3, <2>3
        <5> QED  BY <4>2, <5>1, <5>2
      <4> QED  BY <1>3, <2>3, <4>1, <4>3
    <3> QED  BY <3>1, <3>2
  <2>5. ASSUME NEW m \in done \ (v.seed .. h) PROVE \E k \in a .. m : k \notin done
    <3>1. m \in a .. (v.next - 1)
      BY <1>4
    <3>2. h + 1 \in a .. m
      BY <1>3, <2>3, <2>4, <2>5, <3>1
    <3>3. h + 1 \notin done
      BY <2>2
    <3> QED  BY <3>2, <3>3
  <2>6. new = v.seed .. h
    <3>1. after \cup range = v.seed .. h
      BY <2>2, <2>4
    <3>2. Min(after \cup range) = v.seed /\ Max(after \cup range) = h
      <4>1. Min(v.seed .. h) = v.seed /\ Max(v.seed .. h) = h
        BY <1>3, <2>3, MinMax
      <4> HIDE DEF after, v
      <4> QED  BY <3>1, <4>1, Zenon
    <3> HIDE DEF after
    <3> QED  BY <1>2, <3>2 DEF NewRange, Cover
  <2>7. CASE SetRangeFails(new) /\ SaveFails(S, "error")
    <3>1. UNCHANGED <<range, current>>
      BY <2>7 DEF SetRangeFails
    <3> QED  BY <1>2, <1>7, <2>7, <3>1, FailStep
  <2>8. ASSUME range' = v.seed .. h, current' \in {Unread, range'},
               save' = [save EXCEPT ![S] = [reported EXCEPT !.cur = range']]
        PROVE  Good
    <3>1. [reported EXCEPT !.cur = range']
            = [v EXCEPT !.completed = done, !.inserted = ins, !.cur = range', !.err = v.err]
      BY <1>2 DEF SaveRecord
    <3>2. range' \in SUBSET Num /\ range' \subseteq range \cup done
      BY <1>2, <1>3, <2>2, <2>3, <2>8 DEF Num
    <3>3. v.err \in {"nil", "error", "link", "infinite", "discontinuous"}
      BY <1>2 DEF SaveRecord
    <3>4. \A m \in done \ range' : \E k \in a .. m : k \notin done
      BY <2>5, <2>8
    <3>5. save' = [save EXCEPT ![S] = [v EXCEPT !.completed = done, !.inserted = ins,
                                                !.cur = range', !.err = v.err]]
      BY <2>8, <3>1
    <3> HIDE DEF done, ins, v
    <3> QED  BY <1>8, <2>3, <2>4, <2>8, <3>2, <3>3, <3>4, <3>5
  <2>9. CASE after = v.cur /\ Goes(S, reported) /\ UNCHANGED <<range, current>>
    <3>1. range' = v.seed .. h /\ range' = v.cur
      BY <1>3, <2>2, <2>9
    <3>2. reported = [reported EXCEPT !.cur = range']
      BY <1>2, <3>1 DEF SaveRecord
    <3>3. save' = [save EXCEPT ![S] = [reported EXCEPT !.cur = range']]
      BY <2>9, <3>2 DEF Goes
    <3>4. current' \in {Unread, range'}
      BY <2>9 DEF IInv, TypeOK
    <3> HIDE DEF reported
    <3> QED  BY <2>8, <3>1, <3>3, <3>4
  <2>10. CASE SetRange(new) /\ Goes(S, [reported EXCEPT !.cur = new])
    <3>1. range' = v.seed .. h /\ current' = range' /\ new = range'
      BY <2>6, <2>10 DEF SetRange
    <3> HIDE DEF new, reported
    <3>2. save' = [save EXCEPT ![S] = [reported EXCEPT !.cur = range']]
      BY <2>10, <3>1 DEF Goes
    <3> QED  BY <2>8, <3>1, <3>2
  <2> QED  BY <1>10, <2>7, <2>9, <2>10 DEF SaveReports
<1> QED  BY <1>9, <1>10

\* Every step of Save, and what readers see of it.
LEMMA SaveStep == ASSUME MayLoseAnswer = FALSE, IInv, Save PROVE Good
<1>1. Aside
  BY SaveAside
<1> QED  BY <1>1, CleanStep, ReceiveStep, InsertStep, ReportStep DEF Save, SaveSteps

-----------------------------------------------------------------------------
\* Every step keeps the invariant and is a step readers may see.
LEMMA NextGood == ASSUME MayLoseAnswer = FALSE, IInv, [Next]_vars PROVE Good
<1>1. CASE UNCHANGED vars
  <2>1. UNCHANGED <<rows, range, current, save, deleting, src, sync, position>>
    BY <1>1 DEF vars, dVars
  <2>2. TypeOK' /\ Kept
    BY <2>1, SameTypes DEF IInv, TypeOK, Kept
  <2>3. sync = "save" => \E a, b \in Num : SaveOK(save[S], a, b)'
    BY <2>1, SameSave DEF IInv
  <2> QED  BY <2>1, <2>2, <2>3, SameRange, SameDelete DEF IInv, Good
<1>2. CASE Next
  BY <1>2, SourceSteps, IdleSteps, RestartStep, TraceStep, DeleteStep, RoundStep, SucceedStep, SaveStep
  DEF Next, Steps
<1> QED  BY <1>1, <1>2

\* The invariant holds for sources and copies of any length.
LEMMA Invariance == ASSUME MayLoseAnswer = FALSE PROVE Spec => []IInv
<1>1. Init => IInv
  BY InitOK
<1>2. IInv /\ [Next]_vars => IInv'
  BY NextGood DEF Good
<1> QED  BY <1>1, <1>2, PTL DEF Spec

\* Every slot of the range is stored exactly once at any time, whatever fails,
\* crashes or is reorganised: Save cleans before it inserts and extends the
\* range behind what is inserted; Delete and Init touch rows outside the range.
THEOREM StoredExactlyOnce == ASSUME MayLoseAnswer = FALSE PROVE Spec => []RangeComplete
<1>1. IInv => RangeComplete
  BY CurrentIsRange DEF IInv, RangeOK, RangeComplete
<1> QED  BY <1>1, Invariance, PTL

-----------------------------------------------------------------------------
(* The refinement.                                                         *)

View == [n \in range |-> rows[n]]

LEMMA PromiseMinMax ==
    ASSUME NEW lo \in Int, NEW hi \in Int, lo <= hi
    PROVE  Promise!Min(lo .. hi) = lo /\ Promise!Max(lo .. hi) = hi
BY MinMax DEF Promise!Min, Promise!Max, Min, Max

\* An extension of the range is StoredChain's Grows.
LEMMA ExtendedGrows == ASSUME IInv, IInv', Extended PROVE Promise!Grows
<1>1. PICK lo, hi \in Num : /\ lo <= hi /\ range' = lo .. hi
                            /\ range = {} \/ \E h \in Num : lo <= h /\ range = lo .. h
  BY DEF Extended
<1>2. DOMAIN View = range /\ DOMAIN View' = range' /\ range \subseteq range' /\ lo \in Int /\ hi \in Int
  BY <1>1, SyncAssumption DEF View, Extended, Num
<1>3. Promise!IsChain(View')
  <2>1. Promise!Interval(range')
    BY <1>1, <1>2, PromiseMinMax DEF Promise!Interval
  <2>2. \A n \in range' : /\ Len(View'[n]) = 1
                          /\ n + 1 \in range' => View'[n][1] = Parent(View'[n + 1][1])
    BY DEF View, IInv, RangeOK
  <2> QED  BY <1>2, <2>1, <2>2 DEF Promise!IsChain
<1>4. Promise!Restrict(View', range) = View
  BY <1>2 DEF Promise!Restrict, View, Extended
<1>5. range # {} => Promise!Min(range') = Promise!Min(range)
  <2> SUFFICES ASSUME range # {} PROVE Promise!Min(range') = Promise!Min(range)
    OBVIOUS
  <2>1. PICK h \in Num : lo <= h /\ range = lo .. h
    BY <1>1
  <2>2. h \in Int
    BY <2>1, SyncAssumption DEF Num
  <2>3. Promise!Min(lo .. hi) = lo /\ Promise!Min(lo .. h) = lo
    BY <1>1, <1>2, <2>1, <2>2, PromiseMinMax
  <2> QED  BY <1>1, <2>1, <2>3
<1> QED  BY <1>2, <1>3, <1>4, <1>5 DEF Promise!Grows, View

\* A cut is StoredChain's LosesHead or LosesTail.
LEMMA CutLoses == ASSUME IInv, Cut PROVE Promise!LosesHead \/ Promise!LosesTail
<1>1. PICK k \in range : range' = {n \in range : n > k} \/ range' = {n \in range : n < k}
  BY DEF Cut
<1>2. DOMAIN View = range /\ rows' = rows
  BY DEF View, Cut
<1>3. CASE range' = {n \in range : n > k}
  <2>1. View' = Promise!Restrict(View, {m \in DOMAIN View : m > k})
    BY <1>2, <1>3 DEF View, Promise!Restrict
  <2> QED  BY <1>1, <1>2, <2>1 DEF Promise!LosesHead, View
<1>4. CASE range' = {n \in range : n < k}
  <2>1. View' = Promise!Restrict(View, {m \in DOMAIN View : m < k})
    BY <1>2, <1>4 DEF View, Promise!Restrict
  <2> QED  BY <1>1, <1>2, <2>1 DEF Promise!LosesTail, View
<1> QED  BY <1>1, <1>3, <1>4

\* What readers see through the range changes only as StoredChain allows: a
\* chain of consecutive slots, one row each, that grows at its upper end and
\* loses slots at its ends, with no slot ever replaced in place.
THEOREM SyncImplementsStoredChain ==
    ASSUME MayLoseAnswer = FALSE PROVE Spec => ImplementsStoredChain
<1>1. Init => Promise!Init
  <2> SUFFICES ASSUME Init PROVE Promise!Init
    OBVIOUS
  <2>1. range = {}
    BY InitOK
  <2> QED  BY <2>1 DEF Promise!Init
<1>2. IInv /\ [Next]_vars => [Promise!Next]_View
  <2> SUFFICES ASSUME IInv, [Next]_vars PROVE [Promise!Next]_View
    OBVIOUS
  <2>1. IInv' /\ (Kept \/ Extended \/ Cut)
    BY NextGood DEF Good
  <2>2. CASE Kept
    BY <2>2 DEF Kept, View
  <2>3. CASE Extended
    BY <2>1, <2>3, ExtendedGrows DEF Promise!Next
  <2>4. CASE Cut
    BY <2>4, CutLoses DEF Promise!Next
  <2> QED  BY <2>1, <2>2, <2>3, <2>4
<1>3. Spec => Promise!Init /\ [][Promise!Next]_View
  BY <1>1, <1>2, Invariance, PTL DEF Spec
<1> QED  BY <1>3, PTL DEF ImplementsStoredChain, Promise!Spec, View

-----------------------------------------------------------------------------
(* The length that is kept.                                                *)

\* A step that removes the head leaves DstTargetLen slots.
LEMMA CutLength ==
    ASSUME MayLoseAnswer = FALSE, IInv, Next, sync = "cut", range' # range
    PROVE  Cardinality(range') >= DstTargetLen
<1>1. Delete /\ DeleteRange /\ deleting.at = "range" /\ range' = FirstRun(Current \ deleting.target)
  <2>1. Delete /\ DeleteRange
    BY DEF Next, Steps, Grow, Reorg, Round, Save, SaveSucceeds, SaveFailed, Trace, Delete, DeleteRows,
           DeleteOver, Panic, Restart, Crash, DCrash, dVars
  <2> QED  BY <2>1 DEF DeleteRange, SetRange, SetRangeFails
<1>2. PICK c \in 0 .. (MaxNum + 1), lo, hi \in Num :
         /\ deleting.target = 0 .. (c - 1)
         /\ lo <= hi /\ range = lo .. hi /\ hi + 1 - c >= DstTargetLen
  BY <1>1 DEF IInv, CutOK
<1>3. c \in Int /\ lo \in Nat /\ hi \in Nat /\ DstTargetLen \in Nat
  BY <1>2, SyncAssumption DEF Num
<1>4. range' = (lo .. hi) \ (0 .. (c - 1))
  BY <1>1, <1>2, RestOfRange
<1>5. c > lo
  <2> SUFFICES ASSUME c <= lo PROVE FALSE
    BY <1>3
  <2>1. (lo .. hi) \ (0 .. (c - 1)) = lo .. hi
    BY <1>3
  <2> QED  BY <1>2, <1>4, <2>1
<1>6. range' = c .. hi
  BY <1>3, <1>4, <1>5
<1>7. Cardinality(range') = IF c > hi THEN 0 ELSE hi - c + 1
  BY <1>3, <1>6, FS_Interval
<1> QED  BY <1>2, <1>3, <1>7

\* Cutting the head off never leaves fewer than DstTargetLen slots, whatever
\* the alignment: the cut starts only when the copied range is whole.
THEOREM CutKeepsTargetLen == ASSUME MayLoseAnswer = FALSE PROVE Spec => TargetLenKept
<1>1. IInv /\ [Next]_vars
        => [sync = "cut" /\ range' # range => Cardinality(range') >= DstTargetLen]_vars
  BY CutLength
<1> QED  BY <1>1, Invariance, PTL DEF Spec, TargetLenKept
===============================================================================
