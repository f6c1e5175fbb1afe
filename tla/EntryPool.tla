------------------------------ MODULE EntryPool ------------------------------
(***************************************************************************)
(* pool.Pool (common/pool/pool.go) as ClientPool uses it                   *)
(* (chain/clientpool/client_pool.go): entries that are added, enabled,     *)
(* disabled and removed under p.mu, and per enabled entry a session of two *)
(* goroutines, the refresher that watches the endpoint and the applier     *)
(* that writes what it reports into the entry.  disable() keeps p.mu while *)
(* it waits for the refresher.  An entry is an object: a goroutine keeps   *)
(* the pointer of an entry that has left the pool.                         *)
(***************************************************************************)
EXTENDS Integers, Sequences, FiniteSets, FiniteSetsExt

CONSTANTS
    Name,           \* names of entries
    Config,         \* configurations an entry may have
    BrokenFallBehind, \* blocks an entry may be behind the highest one
    MaxBlock,       \* bound: heights the endpoints report
    MaxEntry,       \* bound: entry objects created
    MaxSession,     \* bound: sessions started
    MaxFailure      \* bound: failures of Init

VARIABLES
    entries,        \* p.entries: the object of each name, 0 when there is none
    object,         \* the entry objects, in the order of their creation
    session,        \* the sessions, in the order of their start
    latest,         \* p.status.LatestBlock.Number
    ready,          \* p.status.Ready
    mu,             \* p.mu: free, or the operation that waits in disable()
    failures        \* counter for the bound

vars == <<entries, object, session, latest, ready, mu, failures>>

NoStatus == [client |-> 0, initialized |-> FALSE, block |-> 0]
Nothing == [op |-> "nothing"]
Sent(es) == [op |-> "send", status |-> es]
Free == [op |-> "free"]

Init ==
    /\ entries = [n \in Name |-> 0]
    /\ object = <<>> /\ session = <<>>
    /\ latest = 0 /\ ready = FALSE
    /\ mu = Free
    /\ failures = 0

-----------------------------------------------------------------------------
Present(ents) == {ents[n] : n \in Name} \ {0}

\* Mutant: entries that lag behind the pool are valid too.
ValidBlocksAnyHeight(ents, objs) ==
    {objs[o].status.block : o \in {o \in Present(ents) :
        objs[o].enable /\ objs[o].status.initialized}}

\* Entries below the latest block of the pool are not valid.
ValidBlocks(ents, objs) ==
    {objs[o].status.block : o \in {o \in Present(ents) :
        objs[o].enable /\ objs[o].status.initialized /\ objs[o].status.block >= latest}}

\* poolStatusBuilder: the lowest block of the entries that are not fallen behind.
refreshPoolStatus(ents, objs) ==
    LET blocks == ValidBlocks(ents, objs)
    IN  IF blocks = {}
        THEN UNCHANGED <<latest, ready>>
        ELSE /\ latest' = Min({b \in blocks : Max(blocks) - b <= BrokenFallBehind})
             /\ ready' = TRUE

NewObject(n, c) == [name |-> n, config |-> c, status |-> NoStatus, enable |-> FALSE, session |-> 0]

Insert(n, c) ==
    /\ Len(object) < MaxEntry
    /\ object' = Append(object, NewObject(n, c))
    /\ entries' = [entries EXCEPT ![n] = Len(object) + 1]
    /\ refreshPoolStatus(entries', object')

\* Add of a new name.  Adding an unchanged entry does nothing.
Add(n, c) ==
    /\ mu = Free /\ entries[n] = 0
    /\ Insert(n, c)
    /\ UNCHANGED <<session, mu, failures>>

NewSession(o) ==
    [object |-> o, cancelled |-> FALSE, at |-> "start", es |-> NoStatus,
     out |-> Nothing, applying |-> Nothing]

Enable(n) ==
    /\ mu = Free /\ entries[n] # 0
    /\ ~object[entries[n]].enable
    /\ Len(session) < MaxSession
    /\ session' = Append(session, NewSession(entries[n]))
    /\ object' = [object EXCEPT ![entries[n]].enable = TRUE,
                                ![entries[n]].session = Len(session) + 1]
    /\ refreshPoolStatus(entries, object')
    /\ UNCHANGED <<entries, mu, failures>>

-----------------------------------------------------------------------------
(* The operations that call disable(): they take p.mu, go through the names *)
(* they are about, and wait for the refresher of each.                      *)

Begin(op, ns, new) ==
    /\ mu = Free
    /\ mu' = [op |-> op, left |-> ns, waiting |-> 0, new |-> new]
    /\ UNCHANGED <<entries, object, session, latest, ready, failures>>

AddChanged(n, c) ==
    /\ entries[n] # 0 /\ object[entries[n]].config # c
    /\ Len(object) < MaxEntry
    /\ Begin("add", {n}, <<n, c>>)

Disable(n) == entries[n] # 0 /\ object[entries[n]].enable /\ Begin("disable", {n}, <<>>)

Remove(n) == entries[n] # 0 /\ Begin("remove", {n}, <<>>)

RemoveAll == Begin("removeAll", {n \in Name : entries[n] # 0}, <<>>)

\* disable: cancel the session and clear the flag, then wait.
disable(n) ==
    LET o == entries[n]
        s == object[o].session
    IN  /\ mu # Free
        /\ n \in mu.left /\ mu.waiting = 0 /\ object[o].enable
        /\ session' = [session EXCEPT ![s].cancelled = TRUE]
        /\ object' = [object EXCEPT ![o].enable = FALSE]
        /\ mu' = [mu EXCEPT !.waiting = s]
        /\ UNCHANGED <<entries, latest, ready, failures>>

\* The entry is disabled: its refresher has closed refreshDone.
Left(n) ==
    /\ n \in mu.left
    /\ ~object[entries[n]].enable
    /\ mu.waiting # 0 => /\ session[mu.waiting].object = entries[n]
                         /\ session[mu.waiting].at = "done"

Disabled(n) ==
    /\ mu # Free /\ Left(n)
    /\ mu' = [mu EXCEPT !.left = @ \ {n}, !.waiting = 0]
    /\ entries' = IF mu.op = "disable" THEN entries ELSE [entries EXCEPT ![n] = 0]
    /\ UNCHANGED <<object, session, latest, ready, failures>>

\* The rest of the operation, and p.mu is released.  Disable does not refresh.
Finish ==
    /\ mu # Free /\ mu.left = {}
    /\ mu' = Free
    /\ \/ /\ mu.op = "disable"
          /\ UNCHANGED <<entries, object, latest, ready>>
       \/ /\ mu.op \in {"remove", "removeAll"}
          /\ refreshPoolStatus(entries, object)
          /\ UNCHANGED <<entries, object>>
       \/ /\ mu.op = "add"
          /\ Insert(mu.new[1], mu.new[2])
    /\ UNCHANGED <<session, failures>>

-----------------------------------------------------------------------------
(* The refresher of session s.                                             *)

Going(s, at) == session[s].at = at /\ session[s].out = Nothing

Moves(s, at, es, out) ==
    /\ session' = [session EXCEPT ![s].at = at, ![s].es = es, ![s].out = out]
    /\ UNCHANGED <<entries, object, latest, ready, mu>>

\* The goroutine starts with the status it finds, read without p.mu, and
\* builds the client if there is none; failing that is final.
Start(s) ==
    /\ session[s].at = "start"
    /\ LET o == session[s].object
           es == object[o].status
       IN  \/ es.initialized /\ Moves(s, "serve", es, Nothing)
           \/ ~es.initialized /\ Moves(s, "init", [es EXCEPT !.client = o], Nothing)
           \/ ~es.initialized /\ Moves(s, "exit", es, Sent(es))
    /\ UNCHANGED failures

InitFails(s) ==
    /\ Going(s, "init") /\ failures < MaxFailure
    /\ failures' = failures + 1
    /\ LET es == [session[s].es EXCEPT !.initialized = FALSE]
       IN  Moves(s, "init", es, Sent(es))

\* An Init answer behind the known block is ignored.
InitAnswer(es, b) == IF b >= es.block THEN b ELSE es.block

InitSucceeds(s, b) ==
    /\ Going(s, "init")
    /\ LET es == [session[s].es EXCEPT !.initialized = TRUE, !.block = InitAnswer(session[s].es, b)]
       IN  Moves(s, "serve", es, Sent(es))
    /\ UNCHANGED failures

\* The subscription reports a block; lower ones are ignored, and reporting
\* the same one again changes nothing.
NewBlock(s, b) ==
    /\ Going(s, "serve") /\ b > session[s].es.block
    /\ LET es == [session[s].es EXCEPT !.block = b]
       IN  Moves(s, "serve", es, Sent(es))
    /\ UNCHANGED failures

ReInit(s) == Going(s, "serve") /\ Moves(s, "init", session[s].es, Nothing) /\ UNCHANGED failures

Returns(s) == Moves(s, "done", NoStatus, Nothing) /\ UNCHANGED failures

SubscriptionStops(s) == Going(s, "serve") /\ Returns(s)

BuildFailed(s) == Going(s, "exit") /\ Returns(s)

\* Mutant: the push of a status does not watch the context.
CancelledBetweenPushes(s) ==
    /\ session[s].cancelled /\ session[s].at \in {"init", "serve", "exit"}
    /\ session[s].out = Nothing
    /\ Returns(s)

\* ctx is cancelled: the refresher returns, from inside pushChan too.
Cancelled(s) ==
    /\ session[s].cancelled /\ session[s].at \in {"init", "serve", "exit"}
    /\ Returns(s)

-----------------------------------------------------------------------------
(* The applier of session s.                                               *)

\* The unbuffered channel hands a status over when the applier is at it.
HandOver(s) ==
    /\ session[s].out # Nothing /\ session[s].applying = Nothing
    /\ session' = [session EXCEPT ![s].out = Nothing, ![s].applying = session[s].out]
    /\ UNCHANGED <<entries, object, latest, ready, mu, failures>>

\* Mutant: the entry is looked up by name.
TargetByName(s) == entries[object[session[s].object].name]

\* The applier holds the pointer of its entry.
Target(s) == session[s].object

Apply(s) ==
    /\ session[s].applying # Nothing /\ mu = Free
    /\ object' = IF Target(s) = 0 THEN object
                 ELSE [object EXCEPT ![Target(s)].status = session[s].applying.status]
    /\ session' = [session EXCEPT ![s].applying = Nothing]
    /\ refreshPoolStatus(entries, object')
    /\ UNCHANGED <<entries, mu, failures>>

Refresher(s) ==
    \/ Start(s) \/ InitFails(s) \/ ReInit(s) \/ SubscriptionStops(s)
    \/ BuildFailed(s) \/ Cancelled(s)
    \/ \E b \in 0 .. MaxBlock : InitSucceeds(s, b) \/ NewBlock(s, b)

Caller ==
    \/ \E n \in Name : Enable(n) \/ Disable(n) \/ Remove(n)
    \/ \E n \in Name, c \in Config : Add(n, c) \/ AddChanged(n, c)
    \/ RemoveAll

Operation == Finish \/ \E n \in Name : disable(n) \/ Disabled(n)

Next ==
    \/ Caller \/ Operation
    \/ \E s \in DOMAIN session : Refresher(s) \/ HandOver(s) \/ Apply(s)

\* An operation inside the pool goes on, a refresher returns once cancelled
\* (the contract of entryStatusRefresher) and an applier runs; nobody has to
\* call the pool and the endpoints have to do nothing.
Fairness ==
    /\ WF_vars(Operation)
    /\ \A s \in 1 .. MaxSession :
          /\ WF_vars(s \in DOMAIN session /\ (Start(s) \/ Cancelled(s)))
          /\ WF_vars(s \in DOMAIN session /\ (HandOver(s) \/ Apply(s)))

Spec == Init /\ [][Next]_vars /\ Fairness

-----------------------------------------------------------------------------
\* An operation that disables an entry while holding p.mu comes back, even
\* when the refresher is inside a push and the applier waits for p.mu.
OperationReturns == (mu # Free) ~> (mu = Free)

\* An entry only ever serves the client that was built for it: what a session
\* of a removed or reconfigured entry still reports never reaches the entry
\* that took its name.
OwnClient ==
    \A n \in Name : entries[n] # 0 => object[entries[n]].status.client \in {0, entries[n]}

\* The latest block of the pool never goes back, whichever entries come and
\* go, fall behind or initialise again, and a ready pool stays ready.
PoolNeverGoesBack == [][latest' >= latest /\ (ready => ready')]_vars

\* "never move the latest block backwards": the block of an entry never
\* decreases while the entry exists.
EntryNeverGoesBack ==
    [][\A o \in DOMAIN object : object'[o].status.block >= object[o].status.block]_vars
=============================================================================
