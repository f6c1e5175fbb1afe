------------------------------ MODULE ClientPool ------------------------------
(***************************************************************************)
(* clientpool.ClientPool (chain/clientpool/client_pool.go): consumers that *)
(* look for an endpoint, wait for one, use it, and ban or blacklist it,    *)
(* beside the one goroutine (Start) that applies configurations and moves  *)
(* the priority cursor.  An operation of the pool underneath (EntryPool)   *)
(* is one step here; so is what runs under p.mu.  Times are choices: a ban *)
(* may have expired, a consumer may have waited too long, the pool may be  *)
(* late.                                                                   *)
(***************************************************************************)
EXTENDS Integers, Sequences, FiniteSets, Functions, SequencesExt

CONSTANTS
    Configs,        \* configurations: the priority of each endpoint they name
    Initial,        \* bound: those that may come first
    Consumer,       \* goroutines that call UseClient
    Healthy,        \* endpoints that come up once they are enabled
    MaxUpdate,      \* bound: configurations, the first included
    MaxBroken,      \* bound: results that blame the endpoint
    MaxLag          \* bound: endpoints that drop out

VARIABLES
    config,         \* p.configEntries
    cursor,         \* p.priorityCursor, counted from 1
    loop,           \* where the Start goroutine is
    entry,          \* the entries of the pool: priority, enabled, fit
    banned,         \* endpoints whose ban is in force
    recent,         \* endpoints used within UpgradeSensitivity
    at,             \* where each consumer is in UseClient
    doing,          \* consumer.doing
    using,          \* the endpoint each consumer uses
    black,          \* the endpoints each consumer has blacklisted
    overdue,        \* consumers that have waited longer than ConsumerMaxWait
    fresh,          \* whether the psi a consumer has seen is still current
    result,         \* how the last call of each consumer ended
    crashed,        \* the Start goroutine has panicked
    updates,        \* p.configVersion: configurations so far
    brokens, lags   \* counters for the bounds

consumerVars == <<at, doing, using, black, overdue, result>>
bounds == <<updates, brokens, lags>>
vars == <<config, cursor, loop, entry, banned, recent, consumerVars, fresh, crashed, bounds>>

Idle == [at |-> "idle"]
None == "none"

\* p.configPriorities: the priorities of the configuration, in order.
Priorities(cf) == SetToSortSeq(Range(cf), LAMBDA x, y : x < y)

\* What the proofs need to know of sorting: the priorities are numbers, and
\* the first is the lowest.
ASSUME PrioritiesAssumption ==
    \A cf \in Configs : DOMAIN cf # {} =>
        /\ cf \in [DOMAIN cf -> Int]
        /\ Priorities(cf) \in Seq(Int) /\ Priorities(cf) # <<>>
        /\ \A e \in DOMAIN cf : Priorities(cf)[1] <= cf[e]

\* An entry as pool.Add creates it.
Added(p) == [priority |-> p, enable |-> FALSE, fit |-> FALSE]

\* NewClientPool: no configuration and no entries.
Init ==
    /\ config = [e \in {} |-> 0] /\ cursor = 1 /\ loop = Idle
    /\ entry = [e \in {} |-> Added(0)]
    /\ banned = {} /\ recent = {}
    /\ at = [c \in Consumer |-> "out"]
    /\ doing = [c \in Consumer |-> None]
    /\ using = [c \in Consumer |-> None]
    /\ black = [c \in Consumer |-> {}]
    /\ overdue = {}
    /\ fresh = [c \in Consumer |-> FALSE]
    /\ result = [c \in Consumer |-> None]
    /\ crashed = FALSE
    /\ updates = 0 /\ brokens = 0 /\ lags = 0

\* refreshPoolStatus: a new psi, which wakes every Wait on an older one.
NewPSI == fresh' = [c \in Consumer |-> FALSE]

-----------------------------------------------------------------------------
(* Consumers.                                                              *)

Goes(c, to) == at' = [at EXCEPT ![c] = to]

UseClient(c) ==
    /\ at[c] = "out"
    /\ Goes(c, "seeking")
    /\ doing' = [doing EXCEPT ![c] = None]
    /\ black' = [black EXCEPT ![c] = {}]
    /\ overdue' = overdue \ {c}
    /\ result' = [result EXCEPT ![c] = None]
    /\ UNCHANGED <<config, cursor, loop, entry, banned, recent, using, fresh, crashed, bounds>>

\* findEntries: the usable entries, among those that the caller may wait for.
Backup(B) == DOMAIN entry \ B
Found(B) == {e \in Backup(B) : e \notin banned /\ entry[e].enable /\ entry[e].fit}

Leave(c, r) ==
    /\ Goes(c, "out")
    /\ doing' = [doing EXCEPT ![c] = None]
    /\ result' = [result EXCEPT ![c] = r]

\* Nothing usable: give up, or remember the psi and wait.
FindNone(c) ==
    /\ at[c] = "seeking" /\ Found(black[c]) = {}
    /\ \/ /\ Backup(black[c]) = {}
          /\ Leave(c, "exhausted")
          /\ UNCHANGED fresh
       \/ /\ Backup(black[c]) # {} /\ c \in overdue
          /\ Leave(c, "waited too long")
          /\ UNCHANGED fresh
       \/ /\ Backup(black[c]) # {} /\ c \notin overdue
          /\ Goes(c, "to wait")
          /\ fresh' = [fresh EXCEPT ![c] = TRUE]
          /\ UNCHANGED <<doing, result>>
    /\ UNCHANGED <<config, cursor, loop, entry, banned, recent, using, black, overdue, crashed, bounds>>

\* chooseOne: one of the lowest priority number.
FindOne(c, e) ==
    /\ at[c] = "seeking" /\ e \in Found(black[c])
    /\ \A f \in Found(black[c]) : entry[e].priority <= entry[f].priority
    /\ Goes(c, "executing")
    /\ doing' = [doing EXCEPT ![c] = "executing"]
    /\ using' = [using EXCEPT ![c] = e]
    /\ UNCHANGED <<config, cursor, loop, entry, banned, recent, black, overdue, result, fresh, crashed, bounds>>

StartWait(c) ==
    /\ at[c] = "to wait"
    /\ Goes(c, "waiting")
    /\ doing' = [doing EXCEPT ![c] = "waiting"]
    /\ UNCHANGED <<config, cursor, loop, entry, banned, recent, using, black, overdue, result, fresh, crashed, bounds>>

\* The consumer still counts as waiting until it executes.
Wake(c) ==
    /\ at[c] = "waiting" /\ ~fresh[c]
    /\ Goes(c, "seeking")
    /\ UNCHANGED <<config, cursor, loop, entry, banned, recent, doing, using, black, overdue, result, fresh, crashed, bounds>>

Cancelled(c) ==
    /\ at[c] = "waiting"
    /\ Leave(c, "cancelled")
    /\ UNCHANGED <<config, cursor, loop, entry, banned, recent, using, black, overdue, fresh, crashed, bounds>>

\* clientActive
Succeeds(c) ==
    /\ at[c] = "executing"
    /\ Leave(c, "ok")
    /\ IF using[c] \in DOMAIN config
       THEN banned' = banned \ {using[c]} /\ recent' = recent \cup {using[c]}
       ELSE UNCHANGED <<banned, recent>>
    /\ UNCHANGED <<config, cursor, loop, entry, using, black, overdue, fresh, crashed, bounds>>

\* clientBan and the blacklist of the call
Breaks(c, ban, blackList) ==
    /\ at[c] = "executing" /\ (ban \/ blackList)
    /\ brokens < MaxBroken
    /\ brokens' = brokens + 1
    /\ Goes(c, "seeking")
    /\ banned' = IF ban /\ using[c] \in DOMAIN config THEN banned \cup {using[c]} ELSE banned
    /\ black' = IF blackList THEN [black EXCEPT ![c] = @ \cup {using[c]}] ELSE black
    /\ UNCHANGED <<config, cursor, loop, entry, recent, doing, using, overdue, result, fresh, crashed, updates, lags>>

\* Time passes for a consumer that is not executing.
Overdue(c) ==
    /\ at[c] \in {"seeking", "to wait", "waiting"} /\ c \notin overdue
    /\ overdue' = overdue \cup {c}
    /\ UNCHANGED <<config, cursor, loop, entry, banned, recent, at, doing, using, black, result,
                   fresh, crashed, bounds>>

BanExpires(e) ==
    /\ e \in banned
    /\ banned' = banned \ {e}
    /\ UNCHANGED <<config, cursor, loop, entry, recent, consumerVars, fresh, crashed, bounds>>

Quiet(e) ==
    /\ e \in recent
    /\ recent' = recent \ {e}
    /\ UNCHANGED <<config, cursor, loop, entry, banned, consumerVars, fresh, crashed, bounds>>

-----------------------------------------------------------------------------
(* Endpoints, as the refreshers of the pool report them.  A fit entry is   *)
(* initialized and not behind the latest block of the pool.                *)

ComesUp(e) ==
    /\ e \in DOMAIN entry /\ entry[e].enable /\ ~entry[e].fit
    /\ entry' = [entry EXCEPT ![e].fit = TRUE]
    /\ NewPSI
    /\ UNCHANGED <<config, cursor, loop, banned, recent, consumerVars, crashed, bounds>>

Lags(e) ==
    /\ e \in DOMAIN entry /\ entry[e].fit /\ lags < MaxLag
    /\ lags' = lags + 1
    /\ entry' = [entry EXCEPT ![e].fit = FALSE]
    /\ NewPSI
    /\ UNCHANGED <<config, cursor, loop, banned, recent, consumerVars, crashed, updates, brokens>>

\* A new block that changes nothing for the consumers but the psi.
Reports(e) ==
    /\ e \in DOMAIN entry /\ entry[e].enable /\ entry[e].fit
    /\ NewPSI
    /\ UNCHANGED <<config, cursor, loop, entry, banned, recent, consumerVars, crashed, bounds>>

-----------------------------------------------------------------------------
(* The Start goroutine.                                                    *)

\* updateConfig, under p.mu: the new configuration, the cursor and entryExtra.
Update(cf) ==
    LET kept == {e \in DOMAIN cf : e \in DOMAIN config /\ config[e] = cf[e]}
    IN  /\ loop = Idle /\ ~crashed
        /\ IF updates = 0 THEN cf \in Initial ELSE cf # config
        /\ updates < MaxUpdate
        /\ updates' = updates + 1
        /\ config' = cf
        /\ cursor' = 1
        /\ banned' = banned \cap kept
        /\ recent' = recent \cap kept
        /\ loop' = [at |-> "add", add |-> DOMAIN cf, remove |-> DOMAIN config \ DOMAIN cf]
        /\ UNCHANGED <<entry, consumerVars, fresh, crashed, brokens, lags>>

\* pool.Add for every name: an unchanged entry stays as it is.
AddEntry(e) ==
    /\ loop.at = "add" /\ e \in loop.add
    /\ loop' = [loop EXCEPT !.add = @ \ {e}]
    /\ IF e \in DOMAIN entry /\ entry[e].priority = config[e]
       THEN UNCHANGED <<entry, fresh>>
       ELSE /\ entry' = [f \in DOMAIN entry \cup {e} |->
                            IF f = e THEN Added(config[e]) ELSE entry[f]]
            /\ NewPSI
    /\ UNCHANGED <<config, cursor, banned, recent, consumerVars, crashed, bounds>>

\* Mutant: the old entries go before the new ones come.
RemovalDueFirst(e) == loop.at = "add" /\ e \in loop.remove

\* pool.Remove for the names that are gone, once the new ones are there.
RemovalDue(e) == loop.at = "add" /\ loop.add = {} /\ e \in loop.remove

RemoveEntry(e) ==
    /\ RemovalDue(e)
    /\ loop' = [loop EXCEPT !.remove = @ \ {e}]
    /\ entry' = Restrict(entry, DOMAIN entry \ {e})
    /\ NewPSI
    /\ UNCHANGED <<config, cursor, banned, recent, consumerVars, crashed, bounds>>

Updated ==
    /\ loop.at = "add" /\ loop.add = {} /\ loop.remove = {}
    /\ loop' = [at |-> "list"]
    /\ UNCHANGED <<config, cursor, entry, banned, recent, consumerVars, fresh, crashed, bounds>>

\* shouldDowngrade; late stands for a pool that is not ready or too far behind.
\* The interval of the timer comes with the first configuration.
Tick(late) ==
    /\ loop = Idle /\ ~crashed /\ updates > 0
    /\ loop' = [at |-> "look",
                down |-> (\E c \in Consumer : doing[c] = "waiting") \/ late \/ Found({}) = {}]
    /\ UNCHANGED <<config, cursor, entry, banned, recent, consumerVars, fresh, crashed, bounds>>

\* hasValidEntryAfterUpgrade
Look ==
    /\ loop.at = "look"
    /\ loop' = [at |-> "move", down |-> loop.down,
                up |-> /\ cursor <= Len(Priorities(config))
                       /\ \E e \in Found({}) : entry[e].priority < Priorities(config)[cursor]]
    /\ UNCHANGED <<config, cursor, entry, banned, recent, consumerVars, fresh, crashed, bounds>>

\* Mutant: there is no lower priority than the second.
CanDowngradeOnce == cursor + 2 <= Len(Priorities(config))

CanDowngrade == cursor + 1 <= Len(Priorities(config))

\* The message about the lowest priority indexes the priorities.
Move ==
    /\ loop.at = "move"
    /\ \/ /\ loop.down /\ CanDowngrade
          /\ cursor' = cursor + 1
          /\ UNCHANGED crashed
       \/ /\ loop.down /\ ~CanDowngrade
          /\ crashed' = (Priorities(config) = <<>>)
          /\ UNCHANGED cursor
       \/ /\ ~loop.down
          /\ cursor' = IF cursor > 1 /\ loop.up
                          /\ \A e \in recent : config[e] # Priorities(config)[cursor]
                       THEN cursor - 1 ELSE cursor
          /\ UNCHANGED crashed
    /\ loop' = [at |-> "list"]
    /\ UNCHANGED <<config, entry, banned, recent, consumerVars, fresh, bounds>>

\* Mutant: entries of a priority that is no longer served stay enabled.
DisableListNone == {}

DisableList == {e \in DOMAIN config : config[e] > Priorities(config)[cursor]}

\* enablePriority: the names to enable and to disable, under p.mu ...
enablePriority ==
    /\ loop.at = "list" /\ ~crashed
    /\ loop' = [at |-> "apply", on |-> DOMAIN config \ DisableList, off |-> DisableList]
    /\ UNCHANGED <<config, cursor, entry, banned, recent, consumerVars, fresh, crashed, bounds>>

\* ... and one call of the pool for each: Enable has a new psi, Disable not.
EnableEntry(e) ==
    /\ loop.at = "apply" /\ e \in loop.on
    /\ loop' = [loop EXCEPT !.on = @ \ {e}]
    /\ IF entry[e].enable
       THEN UNCHANGED <<entry, fresh>>
       ELSE entry' = [entry EXCEPT ![e].enable = TRUE] /\ NewPSI
    /\ UNCHANGED <<config, cursor, banned, recent, consumerVars, crashed, bounds>>

DisableEntry(e) ==
    /\ loop.at = "apply" /\ loop.on = {} /\ e \in loop.off
    /\ loop' = [loop EXCEPT !.off = @ \ {e}]
    /\ entry' = [entry EXCEPT ![e].enable = FALSE]
    /\ UNCHANGED <<config, cursor, banned, recent, consumerVars, fresh, crashed, bounds>>

Applied ==
    /\ loop.at = "apply" /\ loop.on = {} /\ loop.off = {}
    /\ loop' = Idle
    /\ UNCHANGED <<config, cursor, entry, banned, recent, consumerVars, fresh, crashed, bounds>>

-----------------------------------------------------------------------------
Endpoint == UNION {DOMAIN cf : cf \in Configs}

ConsumerStep(c) ==
    \/ FindNone(c) \/ StartWait(c) \/ Wake(c) \/ Succeeds(c)
    \/ \E e \in Endpoint : FindOne(c, e)

LoopStep ==
    \/ Look \/ Move \/ Updated \/ enablePriority \/ Applied
    \/ \E late \in BOOLEAN : Tick(late)
    \/ \E e \in Endpoint : AddEntry(e) \/ RemoveEntry(e) \/ EnableEntry(e) \/ DisableEntry(e)

Next ==
    \/ LoopStep
    \/ \E cf \in Configs : Update(cf)
    \/ \E c \in Consumer :
          \/ ConsumerStep(c) \/ UseClient(c) \/ Overdue(c) \/ Cancelled(c)
          \/ \E ban, blackList \in BOOLEAN : Breaks(c, ban, blackList)
    \/ \E e \in Endpoint :
          ComesUp(e) \/ Lags(e) \/ Reports(e) \/ BanExpires(e) \/ Quiet(e)

\* Consumers and the Start goroutine run (its timer fires), bans expire, and
\* the healthy endpoints come up.
Fairness ==
    /\ WF_vars(LoopStep)
    /\ \A c \in Consumer : WF_vars(ConsumerStep(c))
    /\ \A e \in Healthy : WF_vars(ComesUp(e)) /\ WF_vars(BanExpires(e))

\* SubscribeLatest of a healthy endpoint keeps reporting blocks.
Reporting == \A e \in Healthy : WF_vars(Reports(e))

Spec == Init /\ [][Next]_vars /\ Fairness /\ Reporting

\* The subscriptions have stopped, as the EVM client's does at MaxBlockNumber;
\* the clock of every consumer runs.
SpecStopped == Init /\ [][Next]_vars /\ Fairness /\ \A c \in Consumer : WF_vars(Overdue(c))

-----------------------------------------------------------------------------
\* A waiting consumer is served as long as an endpoint it may use is healthy
\* and configured, of whatever priority: it makes the pool downgrade, and the
\* entries that this enables wake it.
WaiterIsServed ==
    \A c \in Consumer, e \in Healthy :
        (at[c] = "waiting" /\ e \in DOMAIN config \ black[c]) ~>
            (at[c] \in {"executing", "out"} \/ e \notin DOMAIN config)

\* ConsumerMaxWait bounds a call: every call of UseClient ends.
EveryCallEnds == \A c \in Consumer : (at[c] # "out") ~> (at[c] = "out")

\* The pool has no entry yet: no configuration has come, or nothing of the
\* first one has been added.
Unconfigured ==
    \/ updates = 0
    \/ updates = 1 /\ loop.at = "add" /\ loop.add = DOMAIN config

\* A consumer that blacklisted nothing is told that no client is valid before
\* the first configuration is there, and never again because of an update: the
\* new entries come before the old ones go.
NeverExhausted ==
    [][\A c \in Consumer : result[c] # "exhausted" /\ result'[c] = "exhausted" =>
           black[c] # {} \/ Unconfigured]_vars

\* Between two turns of the Start goroutine the pool serves exactly the
\* entries of the configuration, enabled as far as the cursor.
PoolMatchesConfig ==
    loop = Idle =>
        /\ DOMAIN entry = DOMAIN config
        /\ \A e \in DOMAIN entry :
              /\ entry[e].priority = config[e]
              /\ entry[e].enable <=> config[e] <= Priorities(config)[cursor]

\* The Start goroutine never panics, also when there are no clients.
NoPanic == ~crashed
=============================================================================
