---------------------------- MODULE FetchPipeline ----------------------------
(***************************************************************************)
(* How block data gets to the block builder (driver/controller/fetcher):   *)
(* one fetcher per requirement queries ranges of blocks ahead of the       *)
(* consumer (fetcher.go), their answers for one block are merged           *)
(* (merge.go), and a transfer fetcher turns them into tasks, several       *)
(* blocks at a time (transfer.go).  The block builder gets block after     *)
(* block and moves the start after each; the subscription raises the       *)
(* latest block or reports that it is broken.                              *)
(*                                                                         *)
(* Every call that takes a mutex is a step.  A goroutine that waits on a   *)
(* channel goes on once the channel it has seen is closed, so closing one  *)
(* wakes the goroutines that wait.  Every item of data has size one.       *)
(***************************************************************************)
EXTENDS Integers, Sequences, FiniteSets, FiniteSetsExt

CONSTANTS
    Jobs,               \* the runs that are looked at, see Init
    MaxUpstreams,       \* bound: fetchers that are merged
    MaxBlock,           \* bound: the last block of a job
    minQuerySize, maxQuerySize, targetKeepDataSize, maxReadyBlockCount, maxRetry,
    maxConcurrency, maxKeepDataNum      \* of the transfer fetcher

Block == 0 .. MaxBlock

VARIABLES
    job,            \* the job of this run, which never changes
    \* the fetchers
    fullStart, fetchingStart, fetchingEnd, fetchingFailed, latest, data, winChanged,
    keepFetch,      \* "growth", "query", "paused", "ended"
    query,          \* the range that is queried and the retries left
    brokenErr,
    \* the transfer fetcher
    tStart, readyEnd, fetchStart, fetched, fetchFailedAt, tLatest, tData, tryGrowth,
    tKeepFetch,     \* "growth", "paused", "ended"
    transfer,       \* per block: what the goroutine does
    found,          \* whether some fetcher had data for the block
    tBroken,
    \* the others
    consumer,       \* "get", "wait", "move", "error", "done"
    current,        \* the block the consumer is at
    moving,         \* the fetcher whose start is moved next
    subscribed,     \* the latest block of the subscription
    telling,        \* the fetcher that is told next, or 0
    got,            \* history: whether each block had data
    ctxDone, failures

fVars == <<fullStart, fetchingStart, fetchingEnd, fetchingFailed, latest, data, winChanged,
           keepFetch, query, brokenErr>>
tVars == <<tStart, readyEnd, fetchStart, fetched, fetchFailedAt, tLatest, tData, tryGrowth,
           tKeepFetch, transfer, found, tBroken>>
cVars == <<consumer, current, moving, got>>
sVars == <<subscribed, telling>>
vars == <<fVars, tVars, cVars, sVars, ctxDone, failures>>

Upstreams == Len(job.from)
Up == 1 .. Upstreams
From == job.from            \* full range of each fetcher
To == job.to
HasData == job.hasData      \* blocks each of them finds data for
Last == job.last            \* last block of the range of all
MaxFail == job.failures     \* bound: failing calls

None == MaxBlock + 1        \* fetchFailedAt when nothing has failed
Breaking == -1              \* the fetchers know that the subscription is broken
NoQuery == [start |-> 0, end |-> 0, retry |-> 0]

Least(a, b, c) == Min({a, b, c})

Init ==
    /\ job \in Jobs
    /\ fullStart = From /\ fetchingStart = From
    /\ fetchingEnd = [u \in Up |-> Least(From[u] + minQuerySize - 1, job.latest, To[u])]
    /\ fetchingFailed = [u \in Up |-> FALSE] /\ latest = [u \in Up |-> job.latest]
    /\ data = [u \in Up |-> {}] /\ winChanged = [u \in Up |-> FALSE]
    /\ keepFetch = [u \in Up |-> "growth"] /\ query = [u \in Up |-> NoQuery]
    /\ brokenErr = [u \in Up |-> FALSE]
    /\ tStart = 0 /\ readyEnd = 0 /\ fetchStart = 0 /\ fetched = {} /\ fetchFailedAt = None
    /\ tLatest = job.latest /\ tData = {} /\ tryGrowth = FALSE /\ tKeepFetch = "growth"
    /\ transfer = [n \in Block |-> [at |-> "none", up |-> 0, retry |-> 0]]
    /\ found = {} /\ tBroken = FALSE
    /\ consumer = "get" /\ current = 0 /\ moving = 0 /\ got = [n \in {} |-> FALSE]
    /\ subscribed = job.latest /\ telling = 0
    /\ ctxDone = FALSE /\ failures = 0

-----------------------------------------------------------------------------
(* A fetcher: growth and KeepFetch.                                        *)

\* Mutant: only the amount of data counts.
BufferFullBySize(u, ready, items) == Cardinality(items) >= targetKeepDataSize

BufferFull(u, ready, items) ==
    \/ Cardinality(items) >= targetKeepDataSize
    \/ ready - fullStart[u] >= maxReadyBlockCount

\* The goroutines that wait for fetchingDone of u look again.
WakeTransfers(u) ==
    transfer' = [n \in Block |-> IF transfer[n].at = "wait" /\ transfer[n].up = u
                                 THEN [transfer[n] EXCEPT !.at = "get"] ELSE transfer[n]]

fRest == <<fullStart, latest, brokenErr>>
tRest == <<tStart, readyEnd, fetchStart, fetched, fetchFailedAt, tLatest, tData, tryGrowth,
           tKeepFetch, found, tBroken>>

Growth(u) ==
    LET start == fetchingStart[u]
        end == IF fetchingEnd[u] < start /\ start <= latest[u]
               THEN Least(start + minQuerySize - 1, latest[u], To[u]) ELSE fetchingEnd[u]
        full == BufferFull(u, start, data[u])
    IN  /\ keepFetch[u] = "growth"
        /\ IF fetchingFailed[u] \/ To[u] < start
           THEN keepFetch' = [keepFetch EXCEPT ![u] = "ended"] /\ UNCHANGED <<query, winChanged>>
           ELSE IF full \/ end < start
           THEN /\ keepFetch' = [keepFetch EXCEPT ![u] = "paused"]
                /\ winChanged' = [winChanged EXCEPT ![u] = FALSE]
                /\ UNCHANGED query
           ELSE /\ keepFetch' = [keepFetch EXCEPT ![u] = "query"]
                /\ query' = [query EXCEPT ![u] = [start |-> start, end |-> end, retry |-> maxRetry]]
                /\ UNCHANGED winChanged
        /\ UNCHANGED <<fRest, fetchingStart, fetchingEnd, fetchingFailed, data, tVars, cVars,
                       sVars, ctxDone, failures>>

\* nextFetchSize: the query was big or slow enough, or the next may be larger.
NextFetchSizes(size) == {size, Min({Max({2 * size, minQuerySize}), maxQuerySize})}

QueryOk(u) ==
    LET q == query[u]
        items == data[u] \cup (HasData[u] \cap q.start .. q.end)
    IN  /\ keepFetch[u] = "query"
        /\ data' = [data EXCEPT ![u] = items]
        /\ fetchingStart' = [fetchingStart EXCEPT ![u] = q.end + 1]
        /\ \E size \in NextFetchSizes(q.end - q.start + 1) :
              fetchingEnd' = [fetchingEnd EXCEPT ![u] = Least(q.end + size, latest[u], To[u])]
        /\ WakeTransfers(u)
        /\ winChanged' = [winChanged EXCEPT ![u] = FALSE]
        /\ keepFetch' = [keepFetch EXCEPT ![u] =
                            IF BufferFull(u, q.end + 1, items) THEN "paused" ELSE "growth"]
        /\ UNCHANGED <<fRest, fetchingFailed, query, tRest, cVars, sVars, ctxDone, failures>>

\* A failed query is tried again with half the range, then again while there
\* are retries, unless the error is permanent.
QueryFails(u, permanent) ==
    LET q == query[u]
        size == q.end - q.start + 1
        smaller == IF size > minQuerySize THEN q.start + Max({minQuerySize, size \div 2}) - 1
                   ELSE q.end
        left == IF permanent THEN -1 ELSE IF size > minQuerySize THEN q.retry ELSE q.retry - 1
    IN  /\ keepFetch[u] = "query" /\ failures < MaxFail /\ failures' = failures + 1
        /\ query' = [query EXCEPT ![u] = [q EXCEPT !.end = smaller, !.retry = left]]
        /\ IF left < 0
           THEN /\ fetchingEnd' = [fetchingEnd EXCEPT ![u] = smaller]
                /\ fetchingFailed' = [fetchingFailed EXCEPT ![u] = TRUE]
                /\ WakeTransfers(u)
                /\ keepFetch' = [keepFetch EXCEPT ![u] = "ended"]
           ELSE UNCHANGED <<fetchingEnd, fetchingFailed, transfer, keepFetch>>
        /\ UNCHANGED <<fRest, fetchingStart, data, winChanged, tRest, cVars, sVars, ctxDone>>

KeepFetchWakes(u) ==
    /\ keepFetch[u] = "paused" /\ winChanged[u]
    /\ keepFetch' = [keepFetch EXCEPT ![u] = "growth"]
    /\ UNCHANGED <<fRest, fetchingStart, fetchingEnd, fetchingFailed, data, winChanged, query,
                   tVars, cVars, sVars, ctxDone, failures>>

StopsWhenCancelled(u) == keepFetch[u] \in {"paused", "query"}

KeepFetchCancelled(u) ==
    /\ StopsWhenCancelled(u) /\ ctxDone
    /\ keepFetch' = [keepFetch EXCEPT ![u] = "ended"]
    /\ UNCHANGED <<fRest, fetchingStart, fetchingEnd, fetchingFailed, data, winChanged, query,
                   tVars, cVars, sVars, ctxDone, failures>>

-----------------------------------------------------------------------------
(* The goroutine of the transfer fetcher for block n.                      *)

\* setFetchFailed keeps the failure of the earliest block.
EarliestFailure(n) == Min({fetchFailedAt, n})

\* The transfer of block n is over: with data, without, or failed.
Complete(n, has, failed) ==
    LET fd == fetched \cup {n}
        ready == Min({m \in readyEnd .. fetchStart : m = fetchStart \/ m \notin fd})
        moved == ready > readyEnd
    IN  /\ transfer' = [transfer EXCEPT ![n].at = "ended"]
        /\ fetchFailedAt' = IF failed THEN EarliestFailure(n) ELSE fetchFailedAt
        /\ tData' = IF has /\ ~failed THEN tData \cup {n} ELSE tData
        /\ fetched' = {m \in fd : m >= ready}
        /\ readyEnd' = ready
        /\ tryGrowth' = (tryGrowth \/ moved)
        /\ consumer' = IF moved /\ consumer = "wait" THEN "get" ELSE consumer
        /\ UNCHANGED <<tStart, fetchStart, tLatest, tKeepFetch, tBroken, current, moving, got>>

Contains(u, n) == fullStart[u] <= n /\ n <= To[u]

Go(n, at, u) == transfer' = [transfer EXCEPT ![n].at = at, ![n].up = u]

NotComplete == UNCHANGED <<tStart, readyEnd, fetchStart, fetched, fetchFailedAt, tLatest, tData,
                           tryGrowth, tKeepFetch, tBroken, cVars>>

\* The merged Get asks one fetcher after the other.
Get(n) ==
    LET u == transfer[n].up IN
    /\ transfer[n].at = "get" /\ u \in Up
    /\ \/ /\ ~Contains(u, n)
          /\ Go(n, "get", u + 1) /\ UNCHANGED found /\ NotComplete
       \/ /\ Contains(u, n) /\ brokenErr[u]
          /\ Complete(n, FALSE, TRUE) /\ UNCHANGED found
       \/ /\ Contains(u, n) /\ ~brokenErr[u] /\ fetchingStart[u] <= n
          /\ IF fetchingFailed[u] THEN Complete(n, FALSE, TRUE)
             ELSE Go(n, "wait", u) /\ NotComplete
          /\ UNCHANGED found
       \/ /\ Contains(u, n) /\ ~brokenErr[u] /\ fetchingStart[u] > n
          /\ found' = IF n \in data[u] THEN found \cup {n} ELSE found
          /\ Go(n, "get", u + 1) /\ NotComplete
    /\ UNCHANGED <<fVars, sVars, ctxDone, failures>>

\* mergeFunc, then transferFunc when there is data.  A failure is final when
\* it is permanent or no retry is left.
Transfer(n) ==
    /\ transfer[n].at = "get" /\ transfer[n].up = Upstreams + 1
    /\ \/ Complete(n, n \in found, FALSE) /\ UNCHANGED failures
       \/ /\ n \in found /\ failures < MaxFail /\ failures' = failures + 1
          /\ \/ Complete(n, FALSE, TRUE)
             \/ /\ transfer[n].retry > 0
                /\ transfer' = [transfer EXCEPT ![n].retry = @ - 1] /\ NotComplete
    /\ UNCHANGED <<fVars, found, sVars, ctxDone>>

\* A Get that is cancelled fails, a transferFunc that is cancelled just ends.
TransferCancelled(n) ==
    /\ ctxDone
    /\ \/ transfer[n].at = "wait" /\ Complete(n, FALSE, TRUE)
       \/ /\ transfer[n].at = "get" /\ transfer[n].up = Upstreams + 1
          /\ transfer' = [transfer EXCEPT ![n].at = "ended"] /\ NotComplete
    /\ UNCHANGED <<fVars, found, sVars, failures, ctxDone>>

-----------------------------------------------------------------------------
(* growth and keepFetch of the transfer fetcher.                           *)

MaxFetchBlock == Least(readyEnd + maxConcurrency - 1, tLatest, Last)

TransferGrowth ==
    LET room == Cardinality(tData) < maxKeepDataNum
        last == IF room /\ fetchStart <= MaxFetchBlock THEN MaxFetchBlock ELSE fetchStart - 1
    IN
    /\ tKeepFetch = "growth"
    /\ IF fetchFailedAt # None \/ Last < fetchStart
       THEN tKeepFetch' = "ended" /\ UNCHANGED <<transfer, fetchStart, tryGrowth>>
       ELSE /\ transfer' = [n \in Block |->
                  IF n \in fetchStart .. last THEN [at |-> "get", up |-> 1, retry |-> maxRetry]
                  ELSE transfer[n]]
            /\ fetchStart' = last + 1
            /\ tryGrowth' = FALSE /\ tKeepFetch' = "paused"
    /\ UNCHANGED <<fVars, tStart, readyEnd, fetched, fetchFailedAt, tLatest, tData, found,
                   tBroken, cVars, sVars, ctxDone, failures>>

TransferWakes ==
    /\ tKeepFetch = "paused"
    /\ \/ tryGrowth /\ tKeepFetch' = "growth"
       \/ ctxDone /\ tKeepFetch' = "ended"
    /\ UNCHANGED <<fVars, tStart, readyEnd, fetchStart, fetched, fetchFailedAt, tLatest, tData,
                   tryGrowth, transfer, found, tBroken, cVars, sVars, ctxDone, failures>>

-----------------------------------------------------------------------------
(* The block builder: Get of the transfer fetcher, then MoveStart.         *)

ConsumerGets ==
    /\ consumer = "get" /\ current <= Last
    /\ IF tBroken THEN consumer' = "error" /\ UNCHANGED got
       ELSE IF readyEnd <= current THEN consumer' = "wait" /\ UNCHANGED got
       ELSE IF fetchFailedAt <= current THEN consumer' = "error" /\ UNCHANGED got
       ELSE /\ consumer' = "move"
            /\ got' = [n \in DOMAIN got \cup {current} |->
                          IF n = current THEN current \in tData ELSE got[n]]
    /\ moving' = 1
    /\ UNCHANGED <<fVars, tVars, current, sVars, ctxDone, failures>>

ConsumerCancelled ==
    /\ consumer = "wait" /\ ctxDone /\ consumer' = "error"
    /\ UNCHANGED <<fVars, tVars, current, moving, got, sVars, ctxDone, failures>>

\* Mutant: the next block is dropped as well.
MovedTooFar(u) == Min({current + 2, fetchingStart[u]})

\* The new start is clamped to what is ready.
MovedTo(u) == Min({current + 1, fetchingStart[u]})

\* MoveStart goes to the fetchers before it changes the transfer fetcher.
MoveUpstream ==
    LET u == moving
        to == MovedTo(u)
    IN
    /\ consumer = "move" /\ moving \in Up
    /\ moving' = u + 1
    /\ IF current + 1 < fullStart[u] THEN UNCHANGED <<fullStart, data, winChanged>>
       ELSE /\ data' = [data EXCEPT ![u] = {n \in @ : n >= to}]
            /\ fullStart' = [fullStart EXCEPT ![u] = to]
            /\ winChanged' = [winChanged EXCEPT ![u] = TRUE]
    /\ UNCHANGED <<fetchingStart, fetchingEnd, fetchingFailed, latest, keepFetch, query,
                   brokenErr, tVars, consumer, current, got, sVars, ctxDone, failures>>

WakeGrowth == tryGrowth' = TRUE

MoveStart ==
    LET to == Min({current + 1, readyEnd}) IN
    /\ consumer = "move" /\ moving = Upstreams + 1
    /\ tData' = {n \in tData : n >= to} /\ tStart' = to
    /\ WakeGrowth
    /\ current' = current + 1
    /\ consumer' = IF current + 1 <= Last THEN "get" ELSE "done"
    /\ UNCHANGED <<fVars, readyEnd, fetchStart, fetched, fetchFailedAt, tLatest, tKeepFetch,
                   transfer, found, tBroken, moving, got, sVars, ctxDone, failures>>

-----------------------------------------------------------------------------
(* The subscription: UpdateLatest and Broken, fetchers first.              *)

NewLatest ==
    /\ telling = 0 /\ subscribed < Last /\ ~ctxDone /\ ~tBroken
    /\ subscribed' \in (subscribed + 1) .. Last
    /\ telling' = 1
    /\ UNCHANGED <<fVars, tVars, cVars, ctxDone, failures>>

UpdateLatest ==
    /\ telling > 0
    /\ IF telling \in Up
       THEN /\ latest' = [latest EXCEPT ![telling] = subscribed]
            /\ winChanged' = [winChanged EXCEPT ![telling] = TRUE]
            /\ telling' = telling + 1
            /\ UNCHANGED <<tLatest, tryGrowth>>
       ELSE /\ tLatest' = subscribed /\ tryGrowth' = TRUE
            /\ telling' = 0
            /\ UNCHANGED <<latest, winChanged>>
    /\ UNCHANGED <<fullStart, fetchingStart, fetchingEnd, fetchingFailed, data, keepFetch,
                   query, brokenErr, tStart, readyEnd, fetchStart, fetched, fetchFailedAt,
                   tData, tKeepFetch, transfer, found, tBroken, cVars, subscribed, ctxDone,
                   failures>>

\* Mutant: the waiting Get is not woken.
WakeConsumerNever == UNCHANGED consumer

\* The channel `broken` is closed.
WakeConsumer == consumer' = IF consumer = "wait" THEN "get" ELSE consumer

\* A waiting Get of a fetcher is not woken, only the one of the transfer fetcher.
BrokenUpstream ==
    /\ job.disturbed /\ telling = 0 /\ ~tBroken /\ ~ctxDone
    /\ brokenErr' = [u \in Up |-> TRUE] /\ winChanged' = [u \in Up |-> TRUE]
    /\ telling' = Breaking
    /\ UNCHANGED <<fullStart, fetchingStart, fetchingEnd, fetchingFailed, latest, data,
                   keepFetch, query, tVars, cVars, subscribed, ctxDone, failures>>

Broken ==
    /\ telling = Breaking /\ telling' = 0
    /\ tBroken' = TRUE
    /\ WakeConsumer
    /\ UNCHANGED <<fVars, tStart, readyEnd, fetchStart, fetched, fetchFailedAt, tLatest, tData,
                   tryGrowth, tKeepFetch, transfer, found, current, moving, got, subscribed,
                   ctxDone, failures>>

\* Finish cancels fetchCtx once the run is over, or the run itself is cancelled.
Cancel ==
    /\ ~ctxDone /\ (job.disturbed \/ consumer \in {"error", "done"})
    /\ ctxDone' = TRUE
    /\ UNCHANGED <<fVars, tVars, cVars, sVars, failures>>

KeepFetch(u) ==
    u \in Up /\ (Growth(u) \/ QueryOk(u) \/ KeepFetchWakes(u) \/ KeepFetchCancelled(u))
Fetchers == \E u \in 1 .. MaxUpstreams : KeepFetch(u)
Transfers == \E n \in Block : Get(n) \/ Transfer(n) \/ TransferCancelled(n)
Consumer == ConsumerGets \/ ConsumerCancelled \/ MoveUpstream \/ MoveStart
Subscription == NewLatest \/ UpdateLatest \/ Broken

Next ==
    \/ Fetchers \/ Transfers \/ TransferGrowth \/ TransferWakes \/ Consumer \/ Subscription
    \/ BrokenUpstream \/ Cancel
    \/ \E u \in Up, permanent \in BOOLEAN : QueryFails(u, permanent)

\* Goroutines that can go on do, queries return, the chain grows, and a run
\* that is over is cancelled.
Spec ==
    /\ Init /\ [][Next /\ UNCHANGED job]_<<vars, job>>
    /\ \A u \in 1 .. MaxUpstreams : WF_vars(KeepFetch(u))
    /\ \A n \in Block : WF_vars(Get(n) \/ Transfer(n) \/ TransferCancelled(n))
    /\ WF_vars(TransferGrowth \/ TransferWakes) /\ WF_vars(Consumer) /\ WF_vars(Subscription)
    /\ WF_vars(Cancel /\ consumer \in {"error", "done"})

-----------------------------------------------------------------------------
\* A block is handed out with data exactly when some fetcher has data for it,
\* whatever was fetched, moved away, or failed before it.
ExactData == \A n \in DOMAIN got : got[n] <=> \E u \in Up : n \in HasData[u] \cap From[u] .. To[u]

\* A fetcher holds at most the blocks of its limit and of one query more, and
\* the transfer fetcher works on maxConcurrency blocks at a time.
AheadBounded ==
    /\ \A u \in Up : fetchingStart[u] - fullStart[u] < maxReadyBlockCount + maxQuerySize
    /\ Cardinality({n \in Block : transfer[n].at \notin {"none", "ended"}}) <= maxConcurrency

\* The consumer gets every block of the range or an error, and after that
\* every goroutine ends, so Finish returns: neither full buffers, nor blocks
\* that finish out of order, nor a broken subscription nobody hears of stop
\* the run.
RunEnds ==
    <>(/\ consumer \in {"error", "done"}
       /\ \A u \in Up : keepFetch[u] = "ended"
       /\ tKeepFetch = "ended"
       /\ \A n \in Block : transfer[n].at \in {"none", "ended"})
=============================================================================
