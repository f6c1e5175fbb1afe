------------------------ MODULE CheckpointController ------------------------
(***************************************************************************)
(* The checkpoint controller of one chain (driver/controller/checkpoint.go)*)
(* together with the three data stores it commits, the checkpoint store it *)
(* saves to, and the part of MainController.run that drives it.            *)
(*                                                                         *)
(* A chain gives each block number a tag, and number and tag together name *)
(* one block: they stand for its hash.  Blocks that a reorganisation makes *)
(* get a fresh tag; the node may also go back to a chain it followed       *)
(* before.  The blocks a run takes need not form a chain: a block that does*)
(* not link is taken when the last one has not changed.                    *)
(*                                                                         *)
(* The save operation holds c.mu while it calls five external services one *)
(* after the other; each call is a step, so that a crash or a failure can  *)
(* fall between any two of them.  `op` is the call that comes next, or     *)
(* "idle" when the mutex is free.                                          *)
(***************************************************************************)
EXTENDS Integers, Sequences

CONSTANTS
    Stores,     \* the data stores the processor writes to
    MaxBlock,   \* last block of the full block range
    MaxFork,    \* bound: number of times the node changes its chain
    TplIds,     \* identities of template instances (TemplateInstance.UniqID)
    MaxTpl,     \* bound: instances one block may create
    Removals,   \* TRUE when handlers may also remove template instances
    Failures,   \* the external calls that may fail
    MaxFail,    \* bound: number of failures
    MaxCrash    \* bound: number of crashes of the driver process

FailureKinds == {"task", "reset", "clean", "quota", "commit", "save", "error"}

ASSUME ConstantsAssumption ==
    /\ Stores \subseteq {"timeSeries", "entity", "webhook"}
    /\ MaxBlock \in Nat
    /\ MaxFork \in Nat
    /\ MaxTpl \in Nat
    /\ Removals \in BOOLEAN
    /\ Failures \subseteq FailureKinds
    /\ MaxFail \in Nat
    /\ MaxCrash \in Nat

Block == 0..MaxBlock
Fork == 0..MaxFork
None == -1                    \* the number of "no checkpoint"
Inf == MaxBlock + 1           \* stands for every block after the range

VARIABLES
    forks, fork,              \* the chains the node has followed, the latest of them
    checkpoints,              \* c.checkpoints
    savedCheckpoints,         \* c.savedCheckpoints
    templates,                \* c.templates
    unsavedTemplates,         \* c.unsavedTemplates
    stopped,                  \* c.stopped
    store,                    \* what the checkpoint store holds
    chainState,               \* s.chainState: what the store has acknowledged
    cached,                   \* rows held in memory by each data store controller
    rows,                     \* rows written to each data store
    phase,                    \* where the run is
    first,                    \* number of the checkpoint this run started from
    fetched,                  \* b.currentBlockNumber: the next block to fetch
    lin,                      \* tags of the blocks the run extends or has fetched
    since,                    \* the chain the node followed when the run started
    ins,                      \* data stores each block of the run has written to
    cursor,                   \* the block whose checkpoint is made next
    active,                   \* template instances the handlers of this run serve
    resetDone,                \* data stores Ready has reset
    op,                       \* the next external call of save, or "idle"
    err,                      \* the kind of error that ends the run
    failures, crashes,        \* counters for the bounds
    served                    \* history: instances that were active when a block ran

chainVars == <<forks, fork>>
ctlVars == <<checkpoints, savedCheckpoints, templates, unsavedTemplates, stopped>>
dataVars == <<cached, rows>>
storeVars == <<store, chainState>>
runVars == <<phase, err>>
walkVars == <<first, fetched, lin, since, ins, cursor, active, resetDone, served>>
bounds == <<failures, crashes>>
vars == <<chainVars, ctlVars, storeVars, dataVars, runVars, walkVars, op, bounds>>

(***************************************************************************)
(* Data.                                                                   *)
(***************************************************************************)

\* The blocks up to n of a list of blocks with tags f.
BlocksUpTo(f, n) == [m \in Block |-> IF m <= n THEN f[m] ELSE 0]

\* A checkpoint with the blocks it stands for, the last of them its own.
Checkpoint == [num : Block, blocks : [Block -> Fork]]
Instance == [id : TplIds, start : Block, removed : BOOLEAN, tag : Fork]
TemplateMap == [Block -> Seq(Instance)]
Rows == [Stores -> [Block -> [Fork -> Nat]]]

NoTemplates == [n \in Block |-> <<>>]
NoRows == [m \in Block |-> [v \in Fork |-> 0]]

\* getLatestCheckpoint: the block number of the last checkpoint.
LatestNum(cks) == IF cks = <<>> THEN None ELSE cks[Len(cks)].num

\* Keep what belongs to blocks up to n.
TemplatesUpTo(tpls, n) == [m \in Block |-> IF m <= n THEN tpls[m] ELSE <<>>]
RowsUpTo(r, n) == [m \in Block |-> IF m <= n THEN r[m] ELSE NoRows[m]]

\* Mutant: a commit keeps what it has written in its cache.
RowsAfterKept(r, n) == r

RowsAfter(r, n) == [m \in Block |-> IF m <= n THEN NoRows[m] ELSE r[m]]

\* Writing rows of one block again appends to a time series and sends a
\* webhook message again, but overwrites the same version of an entity.
AddRows(s, a, b) == IF s = "entity" THEN (IF b > 0 THEN 1 ELSE a) ELSE a + b
Merge(s, r, new) ==
    [m \in Block |-> [v \in Fork |-> AddRows(s, r[m][v], new[m][v])]]

\* The instances of one identity created by blocks up to n, oldest first.
InstancesOf(tpls, id, n) ==
    LET upTo[k \in 0..(n + 1)] ==
            IF k = 0 THEN <<>>
            ELSE upTo[k - 1] \o SelectSeq(tpls[k - 1], LAMBDA t : t.id = id)
    IN  upTo[n + 1]

\* The blocks on which a list of instances is enabled: an instance adds or
\* removes every block from its start on, and the later ones win.
On(insts) ==
    {m \in 0..Inf : \E i \in DOMAIN insts :
        /\ insts[i].start <= m /\ ~insts[i].removed
        /\ \A j \in (i + 1)..Len(insts) : insts[j].removed => m < insts[j].start}

HasHole(S) == \E a, b \in S : \E m \in a..b : m \notin S

\* ConvertTemplateInstanceBack: the identities the handlers are built for.
ActiveIds(tpls) == {id \in TplIds : On(InstancesOf(tpls, id, MaxBlock)) # {}}

\* The identities enabled on block n by the instances created up to n.
EnabledAt(tpls, n) == {id \in TplIds : n \in On(InstancesOf(tpls, id, n))}

Fails(kind) == kind \in Failures /\ failures < MaxFail /\ failures' = failures + 1
NoFailure == failures' = failures

\* What the checkpoint store writes for a list and its templates.
Saved(cks, tpls) == [checkpoints |-> cks, templates |-> tpls]
NothingSaved == Saved(<<>>, NoTemplates)

Init ==
    /\ forks = [v \in Fork |-> [n \in Block |-> 0]] /\ fork = 0
    /\ checkpoints = <<>> /\ savedCheckpoints = 0
    /\ templates = NoTemplates /\ unsavedTemplates = NoTemplates
    /\ stopped = FALSE
    /\ store = NothingSaved /\ chainState = NothingSaved
    /\ cached = [s \in Stores |-> NoRows] /\ rows = [s \in Stores |-> NoRows]
    /\ phase = "down" /\ err = "none" /\ first = None /\ fetched = 0
    /\ lin = [n \in Block |-> 0] /\ since = 0 /\ ins = [n \in Block |-> {}]
    /\ cursor = 0 /\ active = {} /\ resetDone = {} /\ served = [n \in Block |-> {}]
    /\ op = "idle" /\ failures = 0 /\ crashes = 0

(***************************************************************************)
(* The environment.                                                        *)
(***************************************************************************)

\* The tags of the chain the node follows.
chain == forks[fork]

FollowChain(c) ==
    /\ fork < MaxFork /\ fork' = fork + 1
    /\ forks' = [forks EXCEPT ![fork + 1] = c]
    /\ UNCHANGED <<ctlVars, storeVars, dataVars, runVars, walkVars, op, bounds>>

\* The blocks from k on are replaced by new ones.
ChainReorg(k) == FollowChain([n \in Block |-> IF n >= k THEN fork + 1 ELSE chain[n]])

\* The node goes back to an earlier chain.
ChainBack(v) == v < fork /\ FollowChain(forks[v])

\* The driver process starts: it exits at once when the quota is exceeded, and
\* else NewCheckpointController loads the checkpoint store.  Everything that
\* was in memory is lost.
Restart ==
    /\ checkpoints' = store.checkpoints
    /\ savedCheckpoints' = Len(store.checkpoints)
    /\ templates' = store.templates
    /\ unsavedTemplates' = NoTemplates
    /\ stopped' = FALSE
    /\ cached' = [s \in Stores |-> NoRows]
    /\ chainState' = store /\ op' = "idle"
    /\ \/ phase' = "down" /\ err' = "none" /\ NoFailure
       \/ phase' = "exited" /\ err' = "user" /\ Fails("quota")
    /\ UNCHANGED <<chainVars, store, rows, walkVars>>

\* The process dies, or somebody starts one again that has exited.
Crash ==
    /\ crashes < MaxCrash /\ phase # "done"
    /\ crashes' = crashes + 1
    /\ Restart

(***************************************************************************)
(* Starting a run: BlockBuilder.Start, then Ready.                         *)
(***************************************************************************)

FirstBlock(n) == n + 1

Start ==
    /\ phase = "down"
    /\ phase' = "starting"
    /\ LET n == LatestNum(checkpoints) IN
       /\ first' = n /\ fetched' = FirstBlock(n) /\ cursor' = FirstBlock(n)
       /\ lin' = IF n = None THEN [m \in Block |-> 0]
                             ELSE checkpoints[Len(checkpoints)].blocks
    /\ since' = fork
    /\ ins' = [m \in Block |-> {}]
    /\ active' = ActiveIds(templates)
    /\ resetDone' = {}
    /\ UNCHANGED <<chainVars, ctlVars, storeVars, dataVars, err, served, op, bounds>>

\* Mutant: a reset that forgets the rows in memory.
CacheAfterResetKept(s, n) == cached[s]

CacheAfterReset(s, n) == RowsUpTo(cached[s], n)

\* Reset of one data store drops everything after the checkpoint; a webhook
\* message that was sent stays sent.
ResetStore(s) ==
    /\ phase = "starting" /\ s \notin resetDone
    /\ LET n == LatestNum(checkpoints) IN
       /\ cached' = [cached EXCEPT ![s] = CacheAfterReset(s, n)]
       /\ rows' = IF s = "webhook" THEN rows ELSE [rows EXCEPT ![s] = RowsUpTo(@, n)]
    /\ resetDone' = resetDone \cup {s}
    /\ UNCHANGED <<chainVars, ctlVars, storeVars, runVars, first, fetched, lin, since, ins, cursor,
                   active, served, op, bounds>>

\* A failing reset has dropped the cached rows and the rows of some blocks.
ResetFails(s, gone) ==
    /\ phase = "starting" /\ s \notin resetDone /\ s # "webhook"
    /\ Fails("reset")
    /\ LET n == LatestNum(checkpoints) IN
       /\ cached' = [cached EXCEPT ![s] = CacheAfterReset(s, n)]
       /\ rows' = [rows EXCEPT ![s] =
             [m \in Block |-> IF m > n /\ m \in gone THEN NoRows[m] ELSE @[m]]]
    /\ phase' = "failed" /\ err' = "driver"
    /\ UNCHANGED <<chainVars, ctlVars, storeVars, walkVars, op, crashes>>

Ready ==
    /\ phase = "starting" /\ resetDone = Stores
    /\ stopped' = FALSE
    /\ phase' = "running"
    /\ UNCHANGED <<chainVars, checkpoints, savedCheckpoints, templates, unsavedTemplates,
                   storeVars, dataVars, err, walkVars, op, bounds>>

(***************************************************************************)
(* The run: the producer fetches blocks and detects reorganisations, tasks *)
(* write rows and create templates, checkpoints are made in block order.   *)
(* Once the run has failed ("failing") its goroutines may still take steps *)
(* until all of them have noticed.                                         *)
(***************************************************************************)

Live == phase \in {"running", "failing"}

\* The run fails with an error of kind e.  When it is failing already, either
\* error may be the first that reaches the errgroup.
FailsWith(e) ==
    /\ phase' = "failing"
    /\ err' = e \/ (phase = "failing" /\ err' = err)

\* A block that the run has taken is no longer the one of the node's chain.
Changed(m) == lin[m] # chain[m]

\* The next block, as the node has reported it while it followed chain v.
Tag(v) == forks[v][fetched]

\* Its parent is the last block of the run.
Linked(v) == forks[Tag(v)][fetched - 1] = lin[fetched - 1]

\* checkReorg reports nothing: a block that does not link is taken all the same
\* when the node still has the last block of the run.
Accepted(v) == fetched > 0 => Linked(v) \/ ~Changed(fetched - 1)

\* Blocks are fetched ahead and in parallel, all of them after the run started.
Fetch(v) ==
    /\ phase = "running" /\ fetched <= MaxBlock /\ v \in since..fork /\ Accepted(v)
    /\ lin' = [lin EXCEPT ![fetched] = Tag(v)]
    /\ fetched' = fetched + 1
    /\ UNCHANGED <<chainVars, ctlVars, storeVars, dataVars, runVars, first, since, ins, cursor, active,
                   resetDone, served, op, bounds>>

\* Mutant: a controller that does not look at c.stopped.
AlwaysAccepting == TRUE

Accepting == ~stopped

\* A task is running as long as its block misses rows in some data store.
Executing(n) == Live /\ op = "idle" /\ n \in cursor..(fetched - 1) /\ ins[n] # Stores

\* Entity changes come while the handler runs; the final result of a task
\* brings its time series rows and then its webhook messages.
Before(s) ==
    Stores \cap (CASE s = "entity" -> {}
                   [] s = "timeSeries" -> {"entity"}
                   [] s = "webhook" -> {"entity", "timeSeries"})

InsertRows(n, s) ==
    /\ Executing(n) /\ ins[n] = Before(s)
    /\ cached' = [cached EXCEPT ![s] =
          Merge(s, @, [NoRows EXCEPT ![n] = [@ EXCEPT ![lin[n]] = 1]])]
    /\ ins' = [ins EXCEPT ![n] = @ \cup {s}]
    /\ UNCHANGED <<chainVars, ctlVars, storeVars, rows, runVars, first, fetched, lin, since, cursor,
                   active, resetDone, served, op, bounds>>

\* The instances of an identity that block n finds when it asks for another.
Exist(id, n) ==
    InstancesOf(templates, id, MaxBlock) \o InstancesOf(unsavedTemplates, id, n)

\* An instance of an identity that is enabled on the blocks `on` is ignored
\* when it changes nothing, and an error when it would leave a hole.
Ignored(t, on) ==
    IF t.removed THEN on \cap (t.start .. Inf) = {} ELSE (t.start .. Inf) \subseteq on

Rejected(t, on) ==
    /\ ~Ignored(t, on)
    /\ HasHole(IF t.removed THEN on \ (t.start .. Inf) ELSE on \cup (t.start .. Inf))

\* Mutant: one block too early.
ClampEarly(t, n) == IF t.start <= n /\ ~t.removed THEN [t EXCEPT !.start = n - 1] ELSE t

\* The start of a new instance is never before the block that creates it.
Clamp(t, n) == IF t.start < n /\ ~t.removed THEN [t EXCEPT !.start = n] ELSE t

\* What a task of block n may ask for.
Requests(n) ==
    UNION {[1..k -> {t \in Instance : t.tag = lin[n] /\ (t.removed => Removals)}] : k \in 1..MaxTpl}

\* One request of a task of block n; instances before a rejected one are kept.
NewTemplateInstance(n) ==
    LET exist == [id \in TplIds |-> Exist(id, n)]
        on == [id \in TplIds |-> On(exist[id]) \cap (n .. Inf)]
    IN
    /\ Executing(n) /\ Accepting
    /\ \E request \in Requests(n) :
       LET asked == [i \in DOMAIN request |-> Clamp(request[i], n)]
           known(t) == exist[t.id] # <<>>
           holes == {i \in DOMAIN asked : known(asked[i]) /\ Rejected(asked[i], on[asked[i].id])}
           cut == IF holes = {} THEN Len(asked)
                  ELSE (CHOOSE i \in holes : \A j \in holes : i <= j) - 1
           new == SelectSeq(SubSeq(asked, 1, cut),
                            LAMBDA t : ~(known(t) /\ Ignored(t, on[t.id])))
       IN  /\ Len(unsavedTemplates[n]) + Len(new) <= MaxTpl
           /\ unsavedTemplates' = [unsavedTemplates EXCEPT ![n] = @ \o new]
           /\ IF holes = {} THEN UNCHANGED runVars ELSE FailsWith("user")
    /\ UNCHANGED <<chainVars, checkpoints, savedCheckpoints, templates, stopped, storeVars,
                   dataVars, walkVars, op, bounds>>

\* A fetch or a task fails.
RunFails(e) ==
    /\ phase = "running" /\ Fails("task") /\ FailsWith(e)
    /\ UNCHANGED <<chainVars, ctlVars, storeVars, dataVars, walkVars, op, crashes>>

\* BlockBuilder.Start fails before anything is fetched.
StartFails(e) ==
    /\ phase = "down" /\ Fails("task")
    /\ phase' = "failed" /\ err' = e
    /\ UNCHANGED <<chainVars, ctlVars, storeVars, dataVars, walkVars, op, crashes>>

(***************************************************************************)
(* Main, and the process around it.  How often an error has come back is a *)
(* matter of module MainRetry; here an error that may be retried may also  *)
(* be the one that came too often.                                         *)
(***************************************************************************)

\* g.Wait returns once no goroutine holds the mutex.  After a reorganisation
\* or new templates Main starts another run at once.
RunEnds ==
    /\ phase = "failing" /\ op = "idle"
    /\ \/ err = "internal" /\ phase' = "down" /\ err' = "none"
       \/ err # "internal" /\ phase' = "failed" /\ err' = err
    /\ UNCHANGED <<chainVars, ctlVars, storeVars, dataVars, walkVars, op, bounds>>

\* What Main may do with an error that it has saved.
Retried(e) == e \in {"driver", "runtime"}

\* The exit codes NeverRetry and OverQuota: nothing starts the process again.
Final(e) == e \in {"runtime", "user"}

\* SaveError writes the chain state the store has acknowledged last, with the
\* error in it.
SaveError == store' = chainState

AfterRun ==
    /\ phase = "failed"
    /\ UNCHANGED <<chainVars, ctlVars, chainState, dataVars, walkVars, op, bounds>>

MainRetries == AfterRun /\ SaveError /\ Retried(err) /\ phase' = "down" /\ err' = "none"

\* An error that is none of the driver's own is not saved.
MainReturns ==
    /\ AfterRun /\ phase' = "exited" /\ err' = err
    /\ SaveError \/ (err = "system" /\ store' = store)

\* An error that cannot be saved is always followed by another run.
SaveErrorFails ==
    /\ AfterRun /\ "error" \in Failures
    /\ store' \in {store, chainState}
    /\ phase' = "down" /\ err' = "none"

\* The supervisor starts a process again that has exited with AlwaysRetry.
Relaunch ==
    /\ phase = "exited" /\ ~Final(err)
    /\ Restart /\ UNCHANGED crashes

\* Mutant: KeepSave returns without the last save.
NoLastSave == TRUE

AllSaved == savedCheckpoints = Len(checkpoints)

\* KeepSave has nothing left to save after the last checkpoint was made.
ChainDone ==
    /\ phase = "running" /\ op = "idle" /\ cursor = MaxBlock + 1
    /\ AllSaved
    /\ phase' = "done"
    /\ UNCHANGED <<chainVars, ctlVars, storeVars, dataVars, err, walkVars, op, bounds>>

(***************************************************************************)
(* CleanCheckpoint.  checkReorg reports a block from which everything is   *)
(* invalid: the one after a recorded header that has not changed, or the   *)
(* first recorded one when all have.  The list of headers is thinned out,  *)
(* so any header between the first and the last may be missing.            *)
(***************************************************************************)

Base == IF first = None THEN 0 ELSE first

ReorgFrom(ge) ==
    \/ ge = Base /\ Changed(Base)
    \/ ge - 1 \in Base..(fetched - 2) /\ ~Changed(ge - 1)

\* Mutant: the checkpoint of block ge itself is kept.
KeptUpTo(cks, ge, k) ==
    /\ \A i \in 1..k : cks[i].num <= ge
    /\ k < Len(cks) => cks[k + 1].num > ge

\* The loop of CleanCheckpoint stops after the first k checkpoints.
KeptBelow(cks, ge, k) ==
    /\ \A i \in 1..k : cks[i].num < ge
    /\ k < Len(cks) => cks[k + 1].num >= ge

CleanMemory(k) ==
    LET kept == SubSeq(checkpoints, 1, k) IN
    /\ checkpoints' = kept
    /\ savedCheckpoints' = IF k < savedCheckpoints THEN k ELSE savedCheckpoints
    /\ templates' = TemplatesUpTo(templates, LatestNum(kept))
    /\ unsavedTemplates' = TemplatesUpTo(unsavedTemplates, LatestNum(kept))

\* Mutant: the rollback of saved checkpoints is not written.
CleanStoreOnlyEmpty(k) ==
    IF k = 0 THEN NothingSaved ELSE store

\* What the store holds after the clean, if the save succeeds.
CleanStore(k) ==
    IF k = 0 THEN NothingSaved
    ELSE IF k < savedCheckpoints THEN Saved(SubSeq(checkpoints, 1, k), templates)
    ELSE store

CleanSaves(k) == k = 0 \/ k < savedCheckpoints

\* The save fails, with or without an effect: the list is already cut (unless
\* nothing remains), the count of saved checkpoints and the templates are not.
CleanFails(k) ==
    /\ CleanSaves(k) /\ Fails("clean") /\ FailsWith("driver")
    /\ checkpoints' = IF k = 0 THEN checkpoints ELSE SubSeq(checkpoints, 1, k)
    /\ store' \in {store, CleanStore(k)}
    /\ UNCHANGED <<savedCheckpoints, templates, unsavedTemplates, chainState>>

CleanSucceeds(k) ==
    /\ CleanMemory(k) /\ NoFailure /\ FailsWith("internal")
    /\ store' = CleanStore(k)
    /\ chainState' = IF CleanSaves(k) THEN CleanStore(k) ELSE chainState

CleanCheckpoint(v, ge) ==
    /\ Live /\ op = "idle"
    /\ fetched <= MaxBlock /\ v \in since..fork /\ ~Accepted(v) /\ ReorgFrom(ge)
    /\ stopped' = TRUE
    /\ \E k \in 0..Len(checkpoints) :
          KeptBelow(checkpoints, ge, k) /\ (CleanSucceeds(k) \/ CleanFails(k))
    /\ UNCHANGED <<chainVars, dataVars, walkVars, op, crashes>>

(***************************************************************************)
(* save: drop the unsaved checkpoints before the one to save, check the    *)
(* quota, commit the three data stores up to it, report the usage, thin    *)
(* out the list and save it.                                               *)
(***************************************************************************)

\* The list when checkpoint k is the one to save.
Collapse(cks, k) == SubSeq(cks, 1, savedCheckpoints) \o SubSeq(cks, k, Len(cks))

\* The checkpoint being saved.
Cur == checkpoints[savedCheckpoints + 1]

\* Save(false) of KeepSave, and Save(true) after the last checkpoint was made.
KeepSave(k) ==
    /\ Live /\ op = "idle" /\ Accepting
    /\ k \in (savedCheckpoints + 1) .. Len(checkpoints)
    /\ checkpoints' = Collapse(checkpoints, k)
    /\ op' = "quota"
    /\ UNCHANGED <<chainVars, savedCheckpoints, templates, unsavedTemplates, stopped, storeVars,
                   dataVars, runVars, walkVars, bounds>>

\* Mutant: the webhook messages are not committed.
AfterNoWebhook(step) ==
    IF step = "quota" /\ "timeSeries" \in Stores THEN "timeSeries"
    ELSE IF step \in {"quota", "timeSeries"} /\ "entity" \in Stores THEN "entity"
    ELSE "usage"

\* The call after a successful one.
After(step) ==
    IF step = "quota" /\ "timeSeries" \in Stores THEN "timeSeries"
    ELSE IF step \in {"quota", "timeSeries"} /\ "entity" \in Stores THEN "entity"
    ELSE IF step \in {"quota", "timeSeries", "entity"} /\ "webhook" \in Stores THEN "webhook"
    ELSE "usage"

SaveTo(step, next) ==
    /\ op = step /\ op' = next
    /\ UNCHANGED <<chainVars, walkVars, crashes>>

\* The deferred function of save after an error: back to the first k checkpoints.
Rollback(cks, k) ==
    LET kept == SubSeq(cks, 1, k) IN
    /\ checkpoints' = kept
    /\ templates' = TemplatesUpTo(templates, LatestNum(kept))
    /\ unsavedTemplates' = NoTemplates
    /\ stopped' = TRUE

CheckOverQuota ==
    /\ SaveTo("quota", After("quota")) /\ NoFailure
    /\ UNCHANGED <<ctlVars, storeVars, dataVars, runVars>>

\* The quota is exceeded, or the quota service does not answer.
QuotaFails ==
    /\ SaveTo("quota", "idle") /\ Fails("quota")
    /\ FailsWith("user") \/ FailsWith("driver")
    /\ UNCHANGED <<ctlVars, storeVars, dataVars>>

CommittedRows(s, n) == RowsUpTo(cached[s], n)

Commit(s) ==
    /\ SaveTo(s, After(s)) /\ NoFailure
    /\ rows' = [rows EXCEPT ![s] = Merge(s, @, CommittedRows(s, Cur.num))]
    /\ cached' = [cached EXCEPT ![s] = RowsAfter(@, Cur.num)]
    /\ UNCHANGED <<ctlVars, storeVars, runVars>>

\* A failing commit has written the rows of some blocks and keeps them all
\* cached; the entity controller has already cut its later changes off.
CommitFails(s, written) ==
    /\ SaveTo(s, "idle") /\ Fails("commit")
    /\ rows' = [rows EXCEPT ![s] = Merge(s, @,
          [m \in Block |-> IF m <= Cur.num /\ m \in written THEN cached[s][m] ELSE NoRows[m]])]
    /\ cached' = IF s = "entity" THEN [cached EXCEPT ![s] = RowsUpTo(@, Cur.num)] ELSE cached
    /\ Rollback(checkpoints, savedCheckpoints)
    /\ FailsWith("user") \/ FailsWith("driver")
    /\ UNCHANGED <<savedCheckpoints, storeVars>>

SaveUsage ==
    /\ SaveTo("usage", "save") /\ NoFailure
    /\ UNCHANGED <<ctlVars, storeVars, dataVars, runVars>>

\* What RemoveWithMultiplier may keep of the first k checkpoints: some of them,
\* in order, the first and the last among them (see module Sparsify).
Thinnings(k) ==
    UNION {{f \in [1..n -> 1..k] : /\ f[1] = 1 /\ f[n] = k
                                   /\ \A i, j \in 1..n : i < j => f[i] < f[j]} : n \in 1..k}

Thin(cks, f) == [i \in DOMAIN f |-> cks[f[i]]]

SaveStore(f) ==
    LET kept == Thin(checkpoints, f)
        later == SubSeq(checkpoints, savedCheckpoints + 2, Len(checkpoints))
    IN  /\ SaveTo("save", "idle") /\ NoFailure
        /\ checkpoints' = kept \o later
        /\ savedCheckpoints' = Len(kept)
        /\ store' = Saved(kept, TemplatesUpTo(templates, LatestNum(kept)))
        /\ chainState' = store'
        /\ UNCHANGED <<templates, unsavedTemplates, stopped, dataVars, runVars>>

\* The count of saved checkpoints is raised before the store answers.
SaveStoreFails(f) ==
    LET kept == Thin(checkpoints, f) IN
    /\ SaveTo("save", "idle") /\ Fails("save")
    /\ savedCheckpoints' = Len(kept)
    /\ Rollback(kept, Len(kept)) /\ FailsWith("driver")
    /\ store' \in {store, Saved(kept, TemplatesUpTo(templates, LatestNum(kept)))}
    /\ UNCHANGED <<chainState, dataVars>>

(***************************************************************************)
(* MakeCheckpoint.                                                         *)
(***************************************************************************)

NewCheckpoint == [num |-> cursor, blocks |-> BlocksUpTo(lin, cursor)]

\* All tasks of the block are done and every earlier block is behind.
BlockDone == Live /\ op = "idle" /\ cursor < fetched /\ ins[cursor] = Stores

MakeCheckpointStopped ==
    /\ BlockDone /\ stopped
    /\ cursor' = cursor + 1
    /\ UNCHANGED <<chainVars, ctlVars, storeVars, dataVars, runVars, first, fetched, lin, since, ins,
                   active, resetDone, served, op, bounds>>

\* Mutant: the block never runs again.
NeverAgain(new) == FALSE

\* The smallest start of the new instances is the block itself.
RunsAgain(new) ==
    /\ \E i \in DOMAIN new : new[i].start = cursor
    /\ \A i \in DOMAIN new : new[i].start >= cursor

\* The block created instances: they are confirmed, the run ends, and the
\* block runs again unless every instance starts later.
MakeCheckpointWithTemplates ==
    LET new == unsavedTemplates[cursor]
        again == RunsAgain(new)
    IN  /\ BlockDone /\ Accepting /\ new # <<>>
        /\ templates' = [templates EXCEPT ![cursor] = @ \o new]
        /\ unsavedTemplates' = NoTemplates
        /\ stopped' = TRUE
        /\ checkpoints' = IF again THEN checkpoints ELSE Append(checkpoints, NewCheckpoint)
        /\ served' = IF again THEN served ELSE [served EXCEPT ![cursor] = active]
        /\ cursor' = IF again THEN cursor ELSE cursor + 1
        /\ FailsWith("internal")
        /\ UNCHANGED <<chainVars, savedCheckpoints, storeVars, dataVars, first, fetched, lin,
                       since, ins, active, resetDone, op, bounds>>

\* Otherwise the checkpoint is added, and saved at once in realtime mode or
\* when too much is unsaved.
MakeCheckpoint(k) ==
    LET cks == Append(checkpoints, NewCheckpoint) IN
    /\ BlockDone /\ Accepting /\ unsavedTemplates[cursor] = <<>>
    /\ \/ k = 0 /\ checkpoints' = cks /\ op' = op
       \/ k \in (savedCheckpoints + 1) .. Len(cks) /\ checkpoints' = Collapse(cks, k) /\ op' = "quota"
    /\ served' = [served EXCEPT ![cursor] = active]
    /\ cursor' = cursor + 1
    /\ UNCHANGED <<chainVars, savedCheckpoints, templates, unsavedTemplates, stopped, storeVars,
                   dataVars, runVars, first, fetched, lin, since, ins, active, resetDone, bounds>>

\* Nothing happens after the chain is done or the process has exited for good.
Finished == phase \in {"done", "exited"} /\ UNCHANGED vars

SaveStep ==
    \/ CheckOverQuota
    \/ \E s \in Stores : Commit(s)
    \/ SaveUsage
    \/ \E f \in Thinnings(savedCheckpoints + 1) : SaveStore(f)

SaveFails ==
    \/ QuotaFails
    \/ \E s \in Stores, written \in SUBSET Block : CommitFails(s, written)
    \/ \E f \in Thinnings(savedCheckpoints + 1) : SaveStoreFails(f)

Make == MakeCheckpointStopped \/ MakeCheckpointWithTemplates \/ \E k \in 0..(Len(checkpoints) + 1) : MakeCheckpoint(k)

\* The steps of the driver that nothing outside can hold back for ever.
Driver ==
    \/ Start
    \/ \E s \in Stores : ResetStore(s)
    \/ Ready
    \/ \E v \in Fork : Fetch(v)
    \/ \E n \in Block, s \in Stores : InsertRows(n, s)
    \/ RunEnds
    \/ MainRetries
    \/ MainReturns
    \/ Relaunch
    \/ ChainDone
    \/ \E v \in Fork, ge \in Block : CleanCheckpoint(v, ge)
    \/ \E k \in 1..Len(checkpoints) : KeepSave(k)
    \/ SaveStep
    \/ Make

Next ==
    \/ Driver
    \/ \E k \in Block : ChainReorg(k)
    \/ \E v \in Fork : ChainBack(v)
    \/ Crash
    \/ \E s \in Stores, gone \in SUBSET Block : ResetFails(s, gone)
    \/ \E n \in Block : NewTemplateInstance(n)
    \/ \E e \in {"driver", "runtime", "system", "user"} : RunFails(e)
    \/ \E e \in {"driver", "system", "user"} : StartFails(e)
    \/ SaveFails
    \/ SaveErrorFails
    \/ Finished

Spec == Init /\ [][Next]_vars

\* Every goroutine of the driver is scheduled and every call returns; the
\* ticker of KeepSave fires; a process that asks for it is started again.
FairSpec == Spec /\ WF_vars(Driver)

(***************************************************************************)
(* Properties.                                                             *)
(***************************************************************************)

DataOK ==
    /\ forks \in [Fork -> [Block -> Fork]] /\ fork \in Fork /\ since \in Fork
    /\ checkpoints \in Seq(Checkpoint) /\ savedCheckpoints \in Nat
    /\ stopped \in BOOLEAN
    /\ store.checkpoints \in Seq(Checkpoint) /\ chainState.checkpoints \in Seq(Checkpoint)
    /\ cached \in Rows /\ rows \in Rows
    /\ phase \in {"down", "starting", "running", "failing", "failed", "exited", "done"}
    /\ err \in {"none", "internal", "driver", "runtime", "system", "user"}
    /\ first \in Block \cup {None} /\ fetched \in 0..Inf /\ cursor \in 0..Inf
    /\ lin \in [Block -> Fork] /\ ins \in [Block -> SUBSET Stores]
    /\ active \subseteq TplIds /\ resetDone \subseteq Stores
    /\ served \in [Block -> SUBSET TplIds]
    /\ op \in {"idle", "quota", "usage", "save"} \cup Stores
    /\ failures \in 0..MaxFail /\ crashes \in 0..MaxCrash

TemplatesOK ==
    /\ templates \in TemplateMap /\ unsavedTemplates \in TemplateMap
    /\ store.templates \in TemplateMap /\ chainState.templates \in TemplateMap

\* Every variable keeps its type; the numbers stay within the bounds.
TypeOK == DataOK /\ TemplatesOK

\* Whether a data store may hold c rows of a block that is or is not on the
\* chain: exactly one row, or none; a webhook message may have been sent more
\* than once and, before a reorganisation, for a block that is gone.
Counted(s, c, on) == IF s = "webhook" THEN on => c > 0 ELSE c = IF on THEN 1 ELSE 0

\* The rows r of a data store are those of the blocks h up to n.
Exact(s, r, h, n) == \A m \in 0..n : \A v \in Fork : Counted(s, r[m][v], v = h[m])

\* Crash recovery: at every moment, in the middle of a save included, the data
\* stores hold the rows of every block up to the last checkpoint in the
\* checkpoint store, once, and no row of an abandoned fork below it: a driver
\* that dies and reloads loses nothing and counts nothing twice.
Recoverable ==
    LET cks == store.checkpoints IN
    cks # <<>> => \A s \in Stores :
        Exact(s, rows[s], cks[Len(cks)].blocks, cks[Len(cks)].num)

\* What a run builds on: the rows written and the rows cached make up exactly
\* the blocks up to the last checkpoint in memory.
NoRowLostOrDoubled ==
    checkpoints # <<>> => \A s \in Stores :
        LET last == checkpoints[Len(checkpoints)] IN
        Exact(s, Merge(s, rows[s], cached[s]), last.blocks, last.num)

\* Saved checkpoints are in the store: the comment of savedCheckpoints
\* (checkpoint.go:271), whenever no call is under way.
SavedInStore ==
    op = "idle" =>
        /\ savedCheckpoints <= Len(checkpoints)
        /\ SubSeq(checkpoints, 1, savedCheckpoints) = store.checkpoints

\* A chain is reported done only when its last block is in the store.
DoneIsDurable == phase = "done" => LatestNum(store.checkpoints) = MaxBlock

\* Once the failures, crashes and changes of the chain are over, the chain is
\* done, unless the process has given up on an error of the user's code or an
\* exceeded quota: no run waits for ever, no two runs undo each other's work
\* for ever, and no error of the driver or of a service ends the work.
EventuallyDone == <>[](phase = "done" \/ (phase = "exited" /\ err \in {"runtime", "user"}))

\* A chain that is reported done has every row of every block, once.
DoneIsComplete == phase = "done" => NoRowLostOrDoubled

\* No block is checkpointed without the handlers of every template instance
\* that covers it: MakeCheckpoint ends the run when a block creates instances
\* and lets the block run again when one of them starts at the block.
TemplatesServed ==
    \A n \in 0..LatestNum(checkpoints) : EnabledAt(templates, n) \subseteq served[n]

\* Every confirmed instance was created by a block of the chain the
\* checkpoints are on, not by a block that was replaced.
NoOrphanTemplate ==
    checkpoints # <<>> =>
        LET last == checkpoints[Len(checkpoints)] IN
        \A n \in 0..last.num : \A i \in DOMAIN templates[n] : templates[n][i].tag = last.blocks[n]

\* A webhook message that was sent stays sent, so every further copy needs an
\* excuse: a message is sent again only when a failure, a crash or a change of
\* the chain has made the driver run its block again, and once for each.
ResentWithCause ==
    "webhook" \in Stores => \A m \in Block, v \in Fork :
        rows["webhook"][m][v] <= 1 + failures + crashes + fork

\* Between two runs of Ready nothing is added and nothing is saved: once the
\* controller has stopped, the list of checkpoints only shrinks, and the store
\* gets nothing but a part of that list or what it has acknowledged before.
StoppedFreezes ==
    [][stopped /\ stopped' =>
        /\ \E k \in 0..Len(checkpoints) : checkpoints' = SubSeq(checkpoints, 1, k)
        /\ \/ store' \in {store, chainState}
           \/ \E k \in 0..Len(checkpoints) :
                 store'.checkpoints = SubSeq(checkpoints, 1, k)]_vars
=============================================================================
