----------------------------- MODULE MainPipeline -----------------------------
(***************************************************************************)
(* One run of the main controller (driver/controller/main.go, run): a      *)
(* producer that fetches blocks and hands out their tasks, workers that    *)
(* execute them in any order, and the maker that turns finished blocks     *)
(* into checkpoints.  One step per channel operation.  KeepSave and the    *)
(* checkpoints themselves are in CheckpointController; here a checkpoint   *)
(* is the number of its block.                                             *)
(***************************************************************************)
EXTENDS Integers, Sequences, FiniteSets, Functions

CONSTANTS
    First, Last,    \* the blocks from the first to process to the last of the range
    TaskCount,      \* tasks of each block
    HasData,        \* blocks that have data (no tasks and no checkpoint otherwise)
    Worker,         \* goroutines that execute tasks
    WaitingCap,     \* capacity of waitingBlocks
    NoticeCap,      \* capacity of progressNotice
    MayEnd          \* what may end the run early: "fetch", "reorg", "task", "make", "template", "save"

VARIABLES
    producer,       \* "fetch", "cleaned", "slot", "notice", "send", "all done", "done"
    block,          \* the block the producer is at
    handed,         \* tasks of it that are handed out
    worker,         \* the block whose task each worker has, or a mark
    toNotice,       \* workers that have executed their task and must say so
    progressNotice, \* the channel: <<kind, block>>
    slots,          \* tokens in waitingBlocks
    waiting,        \* the map of the maker: tasks left, or Final
    maker,          \* "receive", "loop", "done"
    bn,             \* the block the maker looks at
    executed,       \* tasks of each block that were executed
    made,           \* checkpoints in the order they were made
    stopped,        \* CleanCheckpoint or a new template has stopped the checkpoint controller
    err,            \* the first error of the group ("nil": none)
    makeCheckpointDone,
    keepSave        \* "run" or "done"

vars == <<producer, block, handed, worker, toNotice, progressNotice, slots, waiting, maker,
          bn, executed, made, stopped, err, makeCheckpointDone, keepSave>>

Block == First .. Last
Idle == -1      \* a worker that waits on taskChan
Gone == -2      \* a worker that has returned
Final == -1     \* the nil panel of BlockAllDone

Init ==
    /\ producer = "fetch" /\ block = First /\ handed = 0
    /\ worker = [w \in Worker |-> Idle] /\ toNotice = {}
    /\ progressNotice = <<>> /\ slots = 0
    /\ waiting = [b \in {} |-> 0] /\ maker = "receive" /\ bn = First
    /\ executed = [b \in Block |-> 0] /\ made = <<>>
    /\ stopped = FALSE /\ err = "nil" /\ makeCheckpointDone = FALSE /\ keepSave = "run"

ctxDone == err # "nil"
Returns(e) == err' = IF err = "nil" THEN e ELSE err

-----------------------------------------------------------------------------
(* The producer.                                                           *)

producerOnly == <<worker, toNotice, waiting, maker, bn, executed, made, makeCheckpointDone,
                  keepSave>>

\* blockBuilder.Next: a block, an error or a reorganisation, or the end.
Fetch ==
    /\ producer = "fetch"
    /\ \/ producer' = (IF block \in Block THEN "slot" ELSE "all done") /\ UNCHANGED err
       \/ "fetch" \in MayEnd /\ producer' = "done" /\ Returns("error")
       \/ ctxDone /\ producer' = "done" /\ Returns("cancelled")
    /\ handed' = 0
    /\ UNCHANGED <<block, progressNotice, slots, stopped, producerOnly>>

\* A reorganisation: CleanCheckpoint stops the checkpoint controller, fails or
\* not, and the maker goes on until the producer has returned.
Clean ==
    /\ producer = "fetch" /\ "reorg" \in MayEnd /\ block \in Block
    /\ producer' = "cleaned" /\ stopped' = TRUE
    /\ UNCHANGED <<block, handed, progressNotice, slots, err, producerOnly>>

ReorgDetected ==
    /\ producer = "cleaned"
    /\ producer' = "done" /\ (Returns("reorg") \/ Returns("error"))
    /\ UNCHANGED <<block, handed, progressNotice, slots, stopped, producerOnly>>

\* Mutant: one block more than the capacity.
SlotFreeOneMore == slots <= WaitingCap

SlotFree == slots < WaitingCap

TakeSlot ==
    /\ producer = "slot" /\ SlotFree
    /\ slots' = slots + 1
    /\ producer' = "notice"
    /\ UNCHANGED <<block, handed, progressNotice, stopped, err, producerOnly>>

Notice(m) ==
    /\ Len(progressNotice) < NoticeCap
    /\ progressNotice' = Append(progressNotice, m)

\* Mutant: a message that finds the channel full is dropped.
ReportOrDrop(m) ==
    \/ Notice(m)
    \/ Len(progressNotice) = NoticeCap /\ UNCHANGED progressNotice

\* A message that is given up when the run is over.
Report(m) == Notice(m) \/ (ctxDone /\ UNCHANGED progressNotice)

BlockStart ==
    /\ producer = "notice" /\ Notice(<<"start", block>>)
    /\ producer' = "send"
    /\ UNCHANGED <<block, handed, slots, stopped, err, producerOnly>>

\* taskChan is unbuffered: a task goes to a worker that waits.
SendTask(w) ==
    /\ producer = "send" /\ handed < TaskCount[block]
    /\ worker[w] = Idle
    /\ worker' = [worker EXCEPT ![w] = block]
    /\ handed' = handed + 1
    /\ UNCHANGED <<producer, block, toNotice, progressNotice, slots, waiting, maker, bn,
                   executed, made, stopped, err, makeCheckpointDone, keepSave>>

TasksSent ==
    /\ producer = "send" /\ handed = TaskCount[block]
    /\ producer' = "fetch" /\ block' = block + 1
    /\ UNCHANGED <<handed, progressNotice, slots, stopped, err, producerOnly>>

BlockAllDone ==
    /\ producer = "all done"
    /\ Report(<<"all", block>>)
    /\ producer' = "done"
    /\ UNCHANGED <<block, handed, slots, stopped, err, producerOnly>>

ProducerCancelled ==
    /\ producer \in {"slot", "notice", "send"} /\ ctxDone
    /\ producer' = "done" /\ Returns("cancelled")
    /\ UNCHANGED <<block, handed, progressNotice, slots, stopped, producerOnly>>

-----------------------------------------------------------------------------
(* A worker.                                                               *)

workerOnly == <<producer, block, handed, slots, waiting, maker, bn, made, stopped,
                makeCheckpointDone, keepSave>>

Exec(w) ==
    /\ worker[w] \in Block /\ w \notin toNotice
    /\ \/ /\ executed' = [executed EXCEPT ![worker[w]] = @ + 1]
          /\ toNotice' = toNotice \cup {w}
          /\ UNCHANGED <<worker, err>>
       \/ /\ "task" \in MayEnd \/ ctxDone
          /\ worker' = [worker EXCEPT ![w] = Gone] /\ Returns("error")
          /\ UNCHANGED <<executed, toNotice>>
    /\ UNCHANGED <<workerOnly, progressNotice>>

TaskDone(w) ==
    /\ w \in toNotice
    /\ Report(<<"task", worker[w]>>)
    /\ worker' = [worker EXCEPT ![w] = Idle]
    /\ toNotice' = toNotice \ {w}
    /\ UNCHANGED <<workerOnly, executed, err>>

\* taskChan is closed, or the context is done.
WorkerEnds(w) ==
    /\ worker[w] = Idle
    /\ \/ producer = "done" /\ Returns("nil")
       \/ ctxDone /\ Returns("cancelled")
    /\ worker' = [worker EXCEPT ![w] = Gone]
    /\ UNCHANGED <<workerOnly, progressNotice, toNotice, executed>>

-----------------------------------------------------------------------------
(* The maker.                                                              *)

makerOnly == <<producer, block, handed, worker, toNotice, executed, keepSave>>

With(b, n) == [c \in DOMAIN waiting \cup {b} |-> IF c = b THEN n ELSE waiting[c]]

\* Mutant: a block is looked at whatever the one before it is doing.
MustWaitNever(b) == FALSE

\* Mutant: the end of the range does not wait for the blocks before it.
MustWaitNotAtEnd(b) == b > 0 /\ b <= Last /\ b - 1 \in DOMAIN waiting /\ waiting[b - 1] # Final

\* The block before is still waiting, so this one is not its turn.
MustWait(b) == b > 0 /\ b - 1 \in DOMAIN waiting /\ waiting[b - 1] # Final

Receive ==
    /\ maker = "receive" /\ progressNotice # <<>>
    /\ progressNotice' = Tail(progressNotice)
    /\ LET m == Head(progressNotice)
       IN  /\ waiting' = CASE m[1] = "start" -> With(m[2], TaskCount[m[2]])
                           [] m[1] = "all" -> With(m[2], Final)
                           [] m[1] = "task" -> With(m[2], waiting[m[2]] - 1)
           /\ bn' = m[2]
           /\ maker' = IF MustWait(m[2]) THEN "receive" ELSE "loop"
    /\ UNCHANGED <<makerOnly, slots, made, stopped, err, makeCheckpointDone>>

\* MakeCheckpoint does nothing once the checkpoint controller is stopped.
MakeCheckpoint == made' = IF bn \in HasData /\ ~stopped THEN Append(made, bn) ELSE made

Make ==
    /\ maker = "loop" /\ bn \in DOMAIN waiting /\ waiting[bn] = 0
    /\ MakeCheckpoint
    /\ slots > 0
    /\ waiting' = Restrict(waiting, DOMAIN waiting \ {bn})
    /\ slots' = slots - 1
    /\ bn' = bn + 1
    /\ UNCHANGED <<makerOnly, maker, progressNotice, stopped, err, makeCheckpointDone>>

\* The save inside MakeCheckpoint fails, or the block has created a template (and
\* has a checkpoint unless it is to be processed again): the run ends.
MakeEnds ==
    /\ maker = "loop" /\ bn \in HasData \cap DOMAIN waiting /\ waiting[bn] = 0
    /\ ~stopped
    /\ maker' = "done"
    /\ \/ "make" \in MayEnd /\ MakeCheckpoint /\ Returns("error") /\ UNCHANGED stopped
       \/ /\ "template" \in MayEnd /\ (MakeCheckpoint \/ UNCHANGED made)
          /\ Returns("template") /\ stopped' = TRUE
    /\ UNCHANGED <<makerOnly, progressNotice, slots, waiting, bn, makeCheckpointDone>>

LoopEnds ==
    /\ maker = "loop"
    /\ bn \in DOMAIN waiting => waiting[bn] > 0
    /\ maker' = "receive"
    /\ UNCHANGED <<makerOnly, progressNotice, slots, waiting, bn, made, stopped, err,
                   makeCheckpointDone>>

AllMade ==
    /\ maker = "loop" /\ bn \in DOMAIN waiting /\ waiting[bn] = Final
    /\ maker' = "done" /\ makeCheckpointDone' = TRUE
    /\ UNCHANGED <<makerOnly, progressNotice, slots, waiting, bn, made, stopped, err>>

MakerCancelled ==
    /\ maker = "receive" /\ ctxDone
    /\ maker' = "done" /\ Returns("cancelled")
    /\ UNCHANGED <<makerOnly, progressNotice, slots, waiting, bn, made, stopped, makeCheckpointDone>>

-----------------------------------------------------------------------------
(* KeepSave: it ends after its last save, cancelled, or with an error.     *)

saveOnly == <<producer, block, handed, worker, toNotice, progressNotice, slots, waiting, maker,
              bn, executed, made, stopped, makeCheckpointDone>>

KeepSaveEnds ==
    /\ keepSave = "run" /\ keepSave' = "done"
    /\ \/ makeCheckpointDone /\ Returns("nil")
       \/ ctxDone /\ Returns("cancelled")
    /\ UNCHANGED saveOnly

KeepSaveFails ==
    /\ keepSave = "run" /\ keepSave' = "done"
    /\ "save" \in MayEnd /\ Returns("error")
    /\ UNCHANGED saveOnly

Producer ==
    \/ Fetch \/ Clean \/ ReorgDetected \/ TakeSlot \/ BlockStart \/ TasksSent \/ BlockAllDone
    \/ ProducerCancelled \/ \E w \in Worker : SendTask(w)
Maker == Receive \/ Make \/ MakeEnds \/ LoopEnds \/ AllMade \/ MakerCancelled
Work(w) == Exec(w) \/ TaskDone(w) \/ WorkerEnds(w)

Next == Producer \/ Maker \/ KeepSaveEnds \/ KeepSaveFails \/ \E w \in Worker : Work(w)

\* Every goroutine that can go on does (fetching and executing return, and
\* watch their context); that saving fails is never taken for granted.
Spec ==
    /\ Init /\ [][Next]_vars
    /\ WF_vars(Producer) /\ WF_vars(Maker) /\ WF_vars(KeepSaveEnds)
    /\ \A w \in Worker : WF_vars(Work(w))

-----------------------------------------------------------------------------
Returned ==
    producer = "done" /\ maker = "done" /\ keepSave = "done" /\ \A w \in Worker : worker[w] = Gone

WithData(b) == HasData \cap First .. (b - 1)

\* Checkpoints are made in the order of the blocks, without a gap, and each
\* only after every task of its block and of the blocks before it has run.
MadeInOrder ==
    \A i \in DOMAIN made :
        /\ Cardinality(WithData(made[i])) = i - 1
        /\ \A b \in First .. made[i] : executed[b] = TaskCount[b]

\* A run that ends without error has made the checkpoint of every block.
SuccessMadeAll == Returned /\ err = "nil" => Range(made) = HasData

\* No more blocks are processed at the same time, from the first task handed
\* out to the checkpoint, than waitingBlocks has places.
InFlightBounded ==
    Cardinality({b \in Block : \/ b \in DOMAIN waiting
                              \/ <<"start", b>> \in Range(progressNotice)}) <= WaitingCap

\* The comment on `waiting`: "size will always less than cap(waitingBlocks)".
WaitingBelowCap == Cardinality(DOMAIN waiting) < WaitingCap

\* The run comes to an end, whatever fails and however small the channels.
RunReturns == <>Returned
=============================================================================
