---------------------------- MODULE ResourceQueue ----------------------------
(***************************************************************************)
(* What a resource manager promises: a counting semaphore whose waiters    *)
(* are served by priority and, within a priority, in order of arrival.     *)
(* No data structure, no lock, no channel.                                 *)
(***************************************************************************)
EXTENDS Integers

CONSTANTS Client, MaxResource, Request

VARIABLES
    free,       \* resources nobody holds
    queue,      \* the set of waiting requests, each with its arrival number
    arrivals,   \* requests served or queued so far
    holder      \* what each client holds (0: nothing)

vars == <<free, queue, arrivals, holder>>

Before(v, w) ==
    v.priority < w.priority \/ (v.priority = w.priority /\ v.index < w.index)

Init == free = MaxResource /\ queue = {} /\ arrivals = 0 /\ holder = [c \in Client |-> 0]

Idle(c) == holder[c] = 0 /\ \A w \in queue : w.who # c

\* A request is served at once or waits.
Take(c, r) ==
    /\ Idle(c) /\ r.num <= free
    /\ free' = free - r.num
    /\ holder' = [holder EXCEPT ![c] = r.num]
    /\ arrivals' = arrivals + 1 /\ UNCHANGED queue

Enqueue(c, r) ==
    /\ Idle(c) /\ free < r.num /\ r.num <= MaxResource
    /\ queue' = queue \cup {[who |-> c, priority |-> r.priority, num |-> r.num,
                             index |-> arrivals]}
    /\ arrivals' = arrivals + 1 /\ UNCHANGED <<free, holder>>

First(waiting, w) == w \in waiting /\ \A v \in waiting \ {w} : Before(w, v)

\* The first waiter is served if what is available is enough for it; nobody
\* else is.
Serve(waiting, available, held) ==
    \/ /\ \A w \in waiting : First(waiting, w) => w.num > available
       /\ free' = available /\ queue' = waiting /\ holder' = held
    \/ \E w \in waiting :
       /\ First(waiting, w) /\ w.num <= available
       /\ free' = available - w.num
       /\ queue' = waiting \ {w}
       /\ holder' = [held EXCEPT ![w.who] = w.num]

\* Resources come back.
Return(c) ==
    /\ holder[c] > 0
    /\ Serve(queue, free + holder[c], [holder EXCEPT ![c] = 0])
    /\ UNCHANGED arrivals

\* A waiter leaves the queue.
Leave(c) ==
    /\ \E w \in queue : w.who = c /\ Serve(queue \ {w}, free, holder)
    /\ UNCHANGED arrivals

Next == \E c \in Client : Return(c) \/ Leave(c) \/ \E r \in Request : Take(c, r) \/ Enqueue(c, r)

Spec == Init /\ [][Next]_vars
=============================================================================
