------------------------------ MODULE WaiterHeap ------------------------------
(***************************************************************************)
(* The binary heap of ResourceManager.waiters                              *)
(* (common/concurrency/resource_manager.go) as operators on sequences.     *)
(* Positions count from 1: the parent of n is n \div 2, its children are   *)
(* 2n and 2n + 1.                                                          *)
(***************************************************************************)
EXTENDS Integers, Sequences

inFront(w, a) ==
    IF w.priority # a.priority THEN w.priority < a.priority ELSE w.index < a.index

Swapped(h, i, j) == [h EXCEPT ![i] = h[j], ![j] = h[i]]

RECURSIVE siftUp(_, _)
siftUp(h, n) ==
    IF n > 1 /\ inFront(h[n], h[n \div 2])
    THEN siftUp(Swapped(h, n, n \div 2), n \div 2)
    ELSE h

FrontChild(h, n) ==
    IF 2 * n + 1 <= Len(h) /\ inFront(h[2 * n + 1], h[2 * n]) THEN 2 * n + 1 ELSE 2 * n

RECURSIVE siftDown(_, _)
siftDown(h, n) ==
    IF 2 * n <= Len(h) /\ inFront(h[FrontChild(h, n)], h[n])
    THEN siftDown(Swapped(h, n, FrontChild(h, n)), FrontChild(h, n))
    ELSE h

\* The last waiter takes the place of the removed one and moves either way.
removeWaiterAt(h, i) ==
    LET last == Len(h)
        rest == SubSeq([h EXCEPT ![i] = h[last]], 1, last - 1)
        down == siftDown(rest, i)
    IN  IF i = last THEN rest ELSE IF down # rest THEN down ELSE siftUp(rest, i)

\* A new waiter starts at the end.
Inserted(h, w) == siftUp(Append(h, w), Len(h) + 1)
=============================================================================
