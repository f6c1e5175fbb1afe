------------------------------ MODULE OrderedMap ------------------------------
(***************************************************************************)
(* concurrency.MapO2MWithProducerAndConsumer (common/concurrency/map.go),  *)
(* for a concurrency above one: tasks are mapped by concurrent goroutines  *)
(* and their products handed to the consumer in the order of the tasks.    *)
(* One step per channel operation; the goroutines are the producer, the    *)
(* dispatcher, one mapper per task, the watcher of errors, the collector   *)
(* and the consumer.  gp holds all but the consumer, gc the consumer and   *)
(* the wait for gp; an error of a member cancels its group's context, and  *)
(* pctx is a child of cctx.                                                *)
(***************************************************************************)
EXTENDS Integers, Sequences, FiniteSets

CONSTANTS
    Tasks,          \* the number of tasks
    Products,       \* how many products the mapper of each task has
    concurrency,    \* the parameter of MapO2M
    MayFail         \* goroutines that may return an error of their own

VARIABLES
    produced,       \* tasks sent to in
    inClosed,       \* the producer has closed in
    dispatcher,     \* "read", "register", "ended", "cancelled", "done"
    taskOutChan,    \* registered tasks the collector has not taken
    chanClosed,     \* taskOutChan and errChan are closed
    mapper,         \* per task: "none", "run", "report", "failed", "done"
    sent,           \* products each mapper has handed to the collector
    watcher,        \* "watch" or "done"
    collector,      \* "next", "drain", "send", "done"
    current,        \* the task the collector drains
    out,            \* the products the consumer has received
    consumer,       \* "run" or "done"
    pErr, cErr,     \* the first error of gp and of gc: "nil", "error", "cancelled"
    gpDone          \* gp.Wait has returned and out is closed

vars == <<produced, inClosed, dispatcher, taskOutChan, chanClosed, mapper, sent,
          watcher, collector, current, out, consumer, pErr, cErr, gpDone>>

Task == 1 .. Tasks

Init ==
    /\ produced = 0 /\ inClosed = FALSE
    /\ dispatcher = "read" /\ taskOutChan = <<>> /\ chanClosed = FALSE
    /\ mapper = [t \in Task |-> "none"] /\ sent = [t \in Task |-> 0]
    /\ watcher = "watch" /\ collector = "next" /\ current = 0
    /\ out = <<>> /\ consumer = "run"
    /\ pErr = "nil" /\ cErr = "nil" /\ gpDone = FALSE

cctxDone == cErr # "nil"
pctxDone == cctxDone \/ pErr # "nil"

\* A member of gp returns: the first error is kept and cancels pctx.
PReturns(err) == pErr' = IF pErr = "nil" THEN err ELSE pErr
CReturns(err) == cErr' = IF cErr = "nil" THEN err ELSE cErr

-----------------------------------------------------------------------------
(* The producer.  in is unbuffered: a task is sent when it is read.        *)

ProducerEnds ==
    /\ ~inClosed
    /\ inClosed' = TRUE
    /\ \/ produced = Tasks /\ PReturns("nil")
       \/ "producer" \in MayFail /\ PReturns("error")
       \/ pctxDone /\ PReturns("cancelled")
    /\ UNCHANGED <<produced, dispatcher, taskOutChan, chanClosed, mapper, sent, watcher,
                   collector, current, out, consumer, cErr, gpDone>>

-----------------------------------------------------------------------------
(* The dispatcher.                                                         *)

Read ==
    /\ dispatcher = "read" /\ ~inClosed /\ produced < Tasks
    /\ produced' = produced + 1
    /\ dispatcher' = "register"
    /\ UNCHANGED <<inClosed, taskOutChan, chanClosed, mapper, sent, watcher, collector,
                   current, out, consumer, pErr, cErr, gpDone>>

\* Mutant: the channel has room for one more.
RoomOneMore == Len(taskOutChan) < concurrency

\* The capacity of taskOutChan.
Room == Len(taskOutChan) < concurrency - 1

\* The task is registered with the collector before its mapper starts.
Register ==
    /\ dispatcher = "register" /\ Room
    /\ taskOutChan' = Append(taskOutChan, produced)
    /\ mapper' = [mapper EXCEPT ![produced] = "run"]
    /\ dispatcher' = "read"
    /\ UNCHANGED <<produced, inClosed, chanClosed, sent, watcher, collector, current, out,
                   consumer, pErr, cErr, gpDone>>

\* The loop ends; mapperWaiter.Wait is deferred.
DispatcherStops ==
    /\ \/ dispatcher = "read" /\ inClosed /\ dispatcher' = "ended"
       \/ dispatcher \in {"read", "register"} /\ pctxDone /\ dispatcher' = "cancelled"
    /\ UNCHANGED <<produced, inClosed, taskOutChan, chanClosed, mapper, sent, watcher,
                   collector, current, out, consumer, pErr, cErr, gpDone>>

DispatcherEnds ==
    /\ dispatcher \in {"ended", "cancelled"}
    /\ \A t \in Task : mapper[t] \in {"none", "done"}
    /\ chanClosed' = TRUE
    /\ dispatcher' = "done"
    /\ PReturns(IF dispatcher = "ended" THEN "nil" ELSE "cancelled")
    /\ UNCHANGED <<produced, inClosed, taskOutChan, mapper, sent, watcher, collector,
                   current, out, consumer, cErr, gpDone>>

-----------------------------------------------------------------------------
(* The mapper of task t.                                                   *)

\* taskOut is unbuffered: a product moves when the collector is at the task.
Product(t) ==
    /\ mapper[t] = "run" /\ sent[t] < Products[t]
    /\ collector = "drain" /\ current = t
    /\ sent' = [sent EXCEPT ![t] = @ + 1]
    /\ collector' = "send"
    /\ UNCHANGED <<produced, inClosed, dispatcher, taskOutChan, chanClosed, mapper, watcher,
                   current, out, consumer, pErr, cErr, gpDone>>

\* The mapper function returns, by itself, with an error, or cancelled.
MapperReturns(t) ==
    /\ mapper[t] = "run"
    /\ \/ sent[t] = Products[t] /\ mapper' = [mapper EXCEPT ![t] = "report"]
       \/ "mapper" \in MayFail /\ mapper' = [mapper EXCEPT ![t] = "failed"]
       \/ pctxDone /\ mapper' = [mapper EXCEPT ![t] = "failed"]
    /\ UNCHANGED <<produced, inClosed, dispatcher, taskOutChan, chanClosed, sent, watcher,
                   collector, current, out, consumer, pErr, cErr, gpDone>>

\* Mutant: the watcher passes over errors.
WatcherAfterNever(t) == "watch"

\* The watcher ends at the first error.
WatcherAfter(t) == IF mapper[t] = "failed" THEN "done" ELSE "watch"

\* The error, nil or not, goes to the watcher, and taskOut is closed.
Report(t) ==
    /\ mapper[t] \in {"report", "failed"}
    /\ \/ /\ watcher = "watch"
          /\ watcher' = WatcherAfter(t)
          /\ PReturns(IF WatcherAfter(t) = "done" THEN "error" ELSE "nil")
       \/ /\ pctxDone
          /\ UNCHANGED <<watcher, pErr>>
    /\ mapper' = [mapper EXCEPT ![t] = "done"]
    /\ UNCHANGED <<produced, inClosed, dispatcher, taskOutChan, chanClosed, sent, collector,
                   current, out, consumer, cErr, gpDone>>

WatcherEnds ==
    /\ watcher = "watch" /\ chanClosed
    /\ watcher' = "done"
    /\ UNCHANGED <<produced, inClosed, dispatcher, taskOutChan, chanClosed, mapper, sent,
                   collector, current, out, consumer, pErr, cErr, gpDone>>

-----------------------------------------------------------------------------
(* The collector.                                                          *)

\* Mutant: the task registered last comes first.
NextTaskLast ==
    /\ collector = "next" /\ taskOutChan # <<>>
    /\ current' = taskOutChan[Len(taskOutChan)]
    /\ taskOutChan' = SubSeq(taskOutChan, 1, Len(taskOutChan) - 1)
    /\ collector' = "drain"
    /\ UNCHANGED <<produced, inClosed, dispatcher, chanClosed, mapper, sent, watcher, out,
                   consumer, pErr, cErr, gpDone>>

NextTask ==
    /\ collector = "next" /\ taskOutChan # <<>>
    /\ current' = Head(taskOutChan) /\ taskOutChan' = Tail(taskOutChan)
    /\ collector' = "drain"
    /\ UNCHANGED <<produced, inClosed, dispatcher, chanClosed, mapper, sent, watcher, out,
                   consumer, pErr, cErr, gpDone>>

TaskDrained ==
    /\ collector = "drain" /\ mapper[current] = "done"
    /\ collector' = "next"
    /\ UNCHANGED <<produced, inClosed, dispatcher, taskOutChan, chanClosed, mapper, sent,
                   watcher, current, out, consumer, pErr, cErr, gpDone>>

\* out is unbuffered: the consumer receives in the same step.
Deliver ==
    /\ collector = "send" /\ consumer = "run"
    /\ out' = Append(out, <<current, sent[current]>>)
    /\ collector' = "drain"
    /\ UNCHANGED <<produced, inClosed, dispatcher, taskOutChan, chanClosed, mapper, sent,
                   watcher, current, consumer, pErr, cErr, gpDone>>

\* Mutant: the collector does not watch the context.
CollectorEndsDrained ==
    /\ collector = "next" /\ taskOutChan = <<>> /\ chanClosed /\ PReturns("nil")
    /\ collector' = "done"
    /\ UNCHANGED <<produced, inClosed, dispatcher, taskOutChan, chanClosed, mapper, sent,
                   watcher, current, out, consumer, cErr, gpDone>>

CollectorEnds ==
    /\ \/ collector = "next" /\ taskOutChan = <<>> /\ chanClosed /\ PReturns("nil")
       \/ collector = "send" /\ pctxDone /\ PReturns("cancelled")
    /\ collector' = "done"
    /\ UNCHANGED <<produced, inClosed, dispatcher, taskOutChan, chanClosed, mapper, sent,
                   watcher, current, out, consumer, cErr, gpDone>>

-----------------------------------------------------------------------------
(* The groups and the consumer.                                            *)

\* gp.Wait returns to the member of gc that closes out.
gpWaits ==
    /\ ~gpDone
    /\ inClosed /\ dispatcher = "done" /\ watcher = "done" /\ collector = "done"
    /\ gpDone' = TRUE
    /\ CReturns(pErr)
    /\ UNCHANGED <<produced, inClosed, dispatcher, taskOutChan, chanClosed, mapper, sent,
                   watcher, collector, current, out, consumer, pErr>>

ConsumerEnds ==
    /\ consumer = "run"
    /\ consumer' = "done"
    /\ \/ gpDone /\ CReturns("nil")
       \/ "consumer" \in MayFail /\ CReturns("error")
       \/ cctxDone /\ CReturns("cancelled")
    /\ UNCHANGED <<produced, inClosed, dispatcher, taskOutChan, chanClosed, mapper, sent,
                   watcher, collector, current, out, pErr, gpDone>>

Next ==
    \/ ProducerEnds \/ Read \/ Register \/ DispatcherStops \/ DispatcherEnds
    \/ WatcherEnds \/ NextTask \/ TaskDrained \/ Deliver \/ CollectorEnds
    \/ gpWaits \/ ConsumerEnds
    \/ \E t \in Task : Product(t) \/ MapperReturns(t) \/ Report(t)

\* Every goroutine that can go on does; producer, mapper and consumer watch
\* their context.
Spec == Init /\ [][Next]_vars /\ WF_vars(Next)

-----------------------------------------------------------------------------
Before(p, q) == p[1] < q[1] \/ (p[1] = q[1] /\ p[2] < q[2])

Returned == consumer = "done" /\ gpDone

\* The consumer gets products in the order of the tasks, whatever the order
\* the mappers run in, and no product twice.
DeliveredInOrder == \A i, j \in DOMAIN out : i < j => Before(out[i], out[j])

\* A call that returns no error has delivered every product of every task.
SuccessIsComplete ==
    Returned /\ cErr = "nil" =>
        \A t \in Task : \A k \in 1 .. Products[t] : \E i \in DOMAIN out : out[i] = <<t, k>>

\* At most `concurrency` mappers run at a time.
AtMostConcurrency == Cardinality({t \in Task : mapper[t] = "run"}) <= concurrency

\* The call returns and leaves no goroutine behind, whichever of them fails.
Terminates ==
    <>(Returned /\ inClosed /\ dispatcher = "done" /\ watcher = "done" /\ collector = "done"
       /\ \A t \in Task : mapper[t] \in {"none", "done"})
=============================================================================
