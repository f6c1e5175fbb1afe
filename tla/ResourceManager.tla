--------------------------- MODULE ResourceManager ---------------------------
(***************************************************************************)
(* concurrency.ResourceManager (common/concurrency/resource_manager.go):   *)
(* the pool of concurrent calls a chain data client allows itself.  Every  *)
(* method runs under q.mu and is one step; a queued caller blocks in a     *)
(* select on its channel and on its context, so between the close of the   *)
(* channel and the moment the caller looks, a cancelled context may win.   *)
(***************************************************************************)
EXTENDS WaiterHeap, Functions, FiniteSetsExt

CONSTANTS
    Client,       \* goroutines that call Apply
    MaxResource,  \* q.maxResource
    Request,      \* the requests clients make: records [priority, num]
    MaxApply      \* bound: number of calls of Apply

VARIABLES
    curResource,  \* q.curResource
    count,        \* q.count
    waiters,      \* q.waiters, a binary heap
    state,        \* where each client is in Apply
    held,         \* the resources granted to each client
    applied       \* counter for the bound

vars == <<curResource, count, waiters, state, held, applied>>

Init ==
    /\ curResource = MaxResource /\ count = 0 /\ waiters = <<>>
    /\ state = [c \in Client |-> "idle"]
    /\ held = [c \in Client |-> 0]
    /\ applied = 0

\* With `available` resources free, wake the leader of h if that is enough.
grantLocked(h, available, st, hl) ==
    IF h = <<>> \/ available < h[1].num
    THEN /\ curResource' = available /\ waiters' = h /\ state' = st /\ held' = hl
    ELSE /\ curResource' = available - h[1].num
         /\ waiters' = removeWaiterAt(h, 1)
         /\ state' = [st EXCEPT ![h[1].who] = "granted"]
         /\ held' = [hl EXCEPT ![h[1].who] = h[1].num]

NewWaiter(c, r) == [who |-> c, priority |-> r.priority, num |-> r.num, index |-> count]

\* Mutant: first come, first served.
addWaiterAtEnd(c, r) == Append(waiters, NewWaiter(c, r))

addWaiter(c, r) == Inserted(waiters, NewWaiter(c, r))

\* A request above maxResource is refused and changes nothing.
Apply(c, r) ==
    /\ state[c] = "idle" /\ applied < MaxApply /\ r.num <= MaxResource
    /\ applied' = applied + 1
    /\ count' = count + 1
    /\ IF curResource >= r.num
       THEN /\ curResource' = curResource - r.num
            /\ state' = [state EXCEPT ![c] = "holding"]
            /\ held' = [held EXCEPT ![c] = r.num]
            /\ UNCHANGED waiters
       ELSE /\ waiters' = addWaiter(c, r)
            /\ state' = [state EXCEPT ![c] = "queued"]
            /\ UNCHANGED <<curResource, held>>

\* The select in Apply sees the closed channel.
Receive(c) ==
    /\ state[c] = "granted"
    /\ state' = [state EXCEPT ![c] = "holding"]
    /\ UNCHANGED <<curResource, count, waiters, held, applied>>

\* Mutant: nobody is woken.
releaseNoGrant(c) ==
    /\ state[c] = "holding"
    /\ curResource' = curResource + held[c]
    /\ state' = [state EXCEPT ![c] = "idle"] /\ held' = [held EXCEPT ![c] = 0]
    /\ UNCHANGED <<waiters, count, applied>>

\* The function Apply returned is called.
release(c) ==
    /\ state[c] = "holding"
    /\ grantLocked(waiters, curResource + held[c], [state EXCEPT ![c] = "idle"],
                   [held EXCEPT ![c] = 0])
    /\ UNCHANGED <<count, applied>>

\* Mutant: a waiter that was granted in the meantime returns nothing.
cancelWaiterForgets(c) ==
    /\ state[c] \in {"queued", "granted"}
    /\ IF state[c] = "queued"
       THEN LET i == CHOOSE i \in DOMAIN waiters : waiters[i].who = c IN
            grantLocked(removeWaiterAt(waiters, i), curResource, [state EXCEPT ![c] = "idle"], held)
       ELSE /\ state' = [state EXCEPT ![c] = "idle"] /\ held' = [held EXCEPT ![c] = 0]
            /\ UNCHANGED <<curResource, waiters>>
    /\ UNCHANGED <<count, applied>>

\* The context is cancelled before the client saw the grant.
cancelWaiter(c) ==
    /\ state[c] \in {"queued", "granted"}
    /\ IF state[c] = "queued"
       THEN LET i == CHOOSE i \in DOMAIN waiters : waiters[i].who = c IN
            grantLocked(removeWaiterAt(waiters, i), curResource, [state EXCEPT ![c] = "idle"], held)
       ELSE grantLocked(waiters, curResource + held[c], [state EXCEPT ![c] = "idle"],
                        [held EXCEPT ![c] = 0])
    /\ UNCHANGED <<count, applied>>

Next ==
    \E c \in Client :
        Receive(c) \/ release(c) \/ cancelWaiter(c) \/ \E r \in Request : Apply(c, r)

\* A granted client looks at its channel; a client that holds resources is
\* done with its call at some time.  Nobody has to apply or to give up.
Fairness == \A c \in Client : WF_vars(Receive(c)) /\ WF_vars(release(c))

Spec == Init /\ [][Next]_vars /\ Fairness

-----------------------------------------------------------------------------
\* No resource is lost or doubled: what is free and what is granted, a grant
\* its client has not seen yet included, is the whole pool.
Conserved == curResource + MapThenSumSet(LAMBDA c : held[c], Client) = MaxResource

\* A client in the queue is served or gives up, as long as every holder
\* releases what it got and new calls stop coming (MaxApply): the fast path
\* of Apply takes free resources past the queue, so an endless stream of
\* small calls could keep a large one waiting.  releaseLocked and cancelWaiter wake one waiter at
\* most, so free resources may lie beside a waiter they would satisfy: it is
\* the release of the waiter woken before it that serves it.
EventuallyServed == \A c \in Client : state[c] = "queued" ~> state[c] # "queued"

\* The heap, the channels and the cancellation race implement the priority
\* queue with one grant per return.
Promise ==
    INSTANCE ResourceQueue
    WITH free <- curResource, queue <- Range(waiters), arrivals <- count, holder <- held

ImplementsResourceQueue == Promise!Spec
=============================================================================
