--------------------------- MODULE ClientPoolProofs ---------------------------
(***************************************************************************)
(* For every set of configurations that all name an endpoint, any number   *)
(* of consumers and any bounds: no configuration update leaves a moment    *)
(* without clients, between two turns of the Start goroutine the pool is   *)
(* exactly what the configuration and the cursor say, and the goroutine    *)
(* does not panic.                                                         *)
(***************************************************************************)
EXTENDS ClientPool, TLAPS

\* Every configuration names an endpoint.
NoEmptyConfig == \A cf \in Configs : DOMAIN cf # {}

\* The priority of the cursor.
Level == Priorities(config)[cursor]

-----------------------------------------------------------------------------
(* The inductive invariant.                                                *)

LoopType ==
    loop \in [at : {"idle", "list"}]
        \cup [at : {"add"}, add : SUBSET Endpoint, remove : SUBSET Endpoint]
        \cup [at : {"look"}, down : BOOLEAN]
        \cup [at : {"move"}, down : BOOLEAN, up : BOOLEAN]
        \cup [at : {"apply"}, on : SUBSET Endpoint, off : SUBSET Endpoint]

EntryType == entry \in [DOMAIN entry -> [priority : Int, enable : BOOLEAN, fit : BOOLEAN]]

\* While an update is applied nothing that stays is missing but what is still
\* to be added, and nothing else is there but what is still to be removed.
NamesOK ==
    /\ Unconfigured \/ DOMAIN entry # {}
    /\ loop.at # "add" => DOMAIN entry = DOMAIN config
    /\ loop.at = "add" =>
          /\ loop.add \subseteq DOMAIN config /\ loop.remove \cap DOMAIN config = {}
          /\ DOMAIN config \ loop.add \subseteq DOMAIN entry
          /\ DOMAIN entry \subseteq DOMAIN config \cup loop.remove

\* What has been added has the priority of the configuration.
PriorityOK ==
    \A e \in DOMAIN config :
        (loop.at = "add" => e \notin loop.add) => entry[e].priority = config[e]

\* What is still to be enabled or disabled is so by the cursor, and the rest
\* is already as the cursor says.
EnabledOK ==
    \A e \in DOMAIN config :
        /\ loop.at \in {"idle", "look", "move"} => (entry[e].enable <=> config[e] <= Level)
        /\ loop.at = "apply" =>
              /\ e \in loop.on => config[e] <= Level
              /\ e \in loop.off => ~(config[e] <= Level)
              /\ e \notin loop.on \cup loop.off => (entry[e].enable <=> config[e] <= Level)

ApplyOK == loop.at = "apply" => loop.on \cup loop.off \subseteq DOMAIN config

ConsumersOK ==
    /\ result = [c \in Consumer |-> result[c]]
    /\ black = [c \in Consumer |-> black[c]]

\* Before the first configuration the Start goroutine has nothing to do.
ConfigOK ==
    /\ updates \in Nat /\ ~crashed
    /\ updates = 0 => loop.at = "idle" /\ DOMAIN config = {}
    /\ updates > 0 => config \in Configs /\ cursor \in 1 .. Len(Priorities(config))

PoolOK == LoopType /\ EntryType /\ NamesOK /\ PriorityOK /\ EnabledOK /\ ApplyOK

IInv == ConfigOK /\ PoolOK /\ ConsumersOK

-----------------------------------------------------------------------------
(* What a configuration is.                                                *)

LEMMA ConfigFacts ==
    ASSUME NoEmptyConfig, NEW cf \in Configs
    PROVE  /\ DOMAIN cf # {} /\ DOMAIN cf \subseteq Endpoint
           /\ cf \in [DOMAIN cf -> Int]
           /\ Priorities(cf) \in Seq(Int) /\ Priorities(cf) # <<>>
           /\ 1 \in 1 .. Len(Priorities(cf))
           /\ \A e \in DOMAIN cf : Priorities(cf)[1] <= cf[e]
<1>1. DOMAIN cf # {} /\ DOMAIN cf \subseteq Endpoint
  BY DEF NoEmptyConfig, Endpoint
<1>2. /\ cf \in [DOMAIN cf -> Int]
      /\ Priorities(cf) \in Seq(Int) /\ Priorities(cf) # <<>>
      /\ \A e \in DOMAIN cf : Priorities(cf)[1] <= cf[e]
  BY <1>1, PrioritiesAssumption
<1>3. 1 \in 1 .. Len(Priorities(cf))
  BY <1>2
<1> QED  BY <1>1, <1>2, <1>3

LEMMA InitOK == ASSUME Init PROVE IInv
<1>1. updates = 0 /\ ~crashed /\ loop.at = "idle" /\ DOMAIN config = {} /\ DOMAIN entry = {}
  BY DEF Init, Idle
<1>2. ConfigOK /\ LoopType
  BY <1>1 DEF Init, Idle, ConfigOK, LoopType
<1>3. EntryType
  BY <1>1 DEF Init, EntryType
<1>4. NamesOK /\ PriorityOK /\ EnabledOK /\ ApplyOK
  BY <1>1 DEF NamesOK, PriorityOK, EnabledOK, ApplyOK, Unconfigured
<1>5. ConsumersOK
  BY DEF Init, ConsumersOK
<1> QED  BY <1>2, <1>3, <1>4, <1>5 DEF IInv, PoolOK

-----------------------------------------------------------------------------
(* Steps that leave the pool alone, and steps that leave the consumers     *)
(* alone.                                                                  *)

LEMMA SamePool ==
    ASSUME ConfigOK, PoolOK, UNCHANGED <<config, cursor, loop, entry, crashed, updates>>
    PROVE  ConfigOK' /\ PoolOK'
BY DEF ConfigOK, PoolOK, LoopType, EntryType, NamesOK, PriorityOK, EnabledOK, ApplyOK, Level, Unconfigured

LEMMA SameConsumers == ASSUME ConsumersOK, UNCHANGED <<result, black>> PROVE ConsumersOK'
BY DEF ConsumersOK

LEMMA ConsumerSteps ==
    ASSUME IInv, NEW c \in Consumer,
           \/ ConsumerStep(c) \/ UseClient(c) \/ Overdue(c) \/ Cancelled(c)
           \/ \E ban, blackList \in BOOLEAN : Breaks(c, ban, blackList)
    PROVE  IInv'
<1>1. UNCHANGED <<config, cursor, loop, entry, crashed, updates>>
  BY DEF bounds, ConsumerStep, UseClient, Overdue, Cancelled, Breaks, FindNone, StartWait, Wake, Succeeds, FindOne
<1>2. ConsumersOK'
  <2> USE DEF IInv, ConsumersOK
  <2>1. CASE UseClient(c)
    BY <2>1 DEF UseClient
  <2>2. CASE FindNone(c)
    BY <2>2 DEF FindNone, Leave
  <2>3. CASE Succeeds(c) \/ Cancelled(c)
    BY <2>3 DEF Succeeds, Cancelled, Leave
  <2>4. CASE \E ban, blackList \in BOOLEAN : Breaks(c, ban, blackList)
    BY <2>4 DEF Breaks
  <2>5. CASE StartWait(c) \/ Wake(c) \/ Overdue(c) \/ \E e \in Endpoint : FindOne(c, e)
    BY <2>5 DEF StartWait, Wake, Overdue, FindOne
  <2> QED  BY <2>1, <2>2, <2>3, <2>4, <2>5 DEF ConsumerStep
<1> QED  BY <1>1, <1>2, SamePool DEF IInv
-----------------------------------------------------------------------------
(* Steps of the endpoints and of time.                                     *)

LEMMA EndpointSteps ==
    ASSUME IInv, NEW e \in Endpoint,
           ComesUp(e) \/ Lags(e) \/ Reports(e) \/ BanExpires(e) \/ Quiet(e)
    PROVE  IInv'
<1>1. UNCHANGED <<config, cursor, loop, crashed, result, black, updates>>
  BY DEF ComesUp, Lags, Reports, BanExpires, Quiet, consumerVars, bounds
<1>2. CASE UNCHANGED entry
  BY <1>1, <1>2, SamePool, SameConsumers DEF IInv
<1>3. CASE \E b \in BOOLEAN : e \in DOMAIN entry /\ entry' = [entry EXCEPT ![e].fit = b]
  <2>1. EntryType' /\ DOMAIN entry' = DOMAIN entry
    BY <1>3 DEF IInv, PoolOK, EntryType
  <2>2. \A f \in DOMAIN entry : entry'[f].priority = entry[f].priority /\ entry'[f].enable = entry[f].enable
    BY <1>3 DEF IInv, PoolOK, EntryType
  <2>3. PriorityOK'
    BY <1>1, <2>1, <2>2 DEF IInv, PoolOK, PriorityOK, NamesOK
  <2>4. EnabledOK'
    BY <1>1, <2>1, <2>2 DEF IInv, PoolOK, EnabledOK, NamesOK, Level
  <2>5. LoopType' /\ NamesOK' /\ ApplyOK' /\ ConfigOK'
    BY <1>1, <2>1 DEF IInv, PoolOK, LoopType, NamesOK, ApplyOK, ConfigOK, Unconfigured
  <2> QED  BY <1>1, <2>1, <2>3, <2>4, <2>5, SameConsumers DEF IInv, PoolOK
<1> QED  BY <1>2, <1>3 DEF ComesUp, Lags, Reports, BanExpires, Quiet

-----------------------------------------------------------------------------
(* Steps of the Start goroutine.                                           *)

LEMMA UpdateStep == ASSUME NoEmptyConfig, IInv, NEW cf \in Configs, Update(cf) PROVE IInv'
<1>1. /\ DOMAIN cf \subseteq Endpoint /\ 1 \in 1 .. Len(Priorities(cf))
      /\ DOMAIN config \subseteq Endpoint /\ updates \in Nat
  BY ConfigFacts DEF IInv, ConfigOK
<1>2. /\ config' = cf /\ updates' = updates + 1 /\ cursor' = 1 /\ UNCHANGED <<entry, crashed, result, black>>
      /\ loop' = [at |-> "add", add |-> DOMAIN cf, remove |-> DOMAIN config \ DOMAIN cf]
      /\ loop.at = "idle"
  BY DEF Update, consumerVars, Idle
<1>3. ConfigOK'
  BY <1>1, <1>2 DEF IInv, ConfigOK
<1>4. LoopType' /\ EntryType' /\ NamesOK'
  BY <1>1, <1>2 DEF IInv, PoolOK, LoopType, EntryType, NamesOK, Unconfigured
<1>5. PriorityOK' /\ EnabledOK' /\ ApplyOK'
  BY <1>2 DEF PriorityOK, EnabledOK, ApplyOK
<1> QED  BY <1>2, <1>3, <1>4, <1>5, SameConsumers DEF IInv, PoolOK

LEMMA AddStep == ASSUME NoEmptyConfig, IInv, NEW e \in Endpoint, AddEntry(e) PROVE IInv'
<1>1. /\ UNCHANGED <<config, cursor, crashed, result, black, updates>>
      /\ loop.at = "add" /\ e \in loop.add
      /\ loop' = [loop EXCEPT !.add = @ \ {e}]
  BY DEF AddEntry, consumerVars, bounds
<1>2. loop \in [at : {"add"}, add : SUBSET Endpoint, remove : SUBSET Endpoint]
  BY <1>1 DEF IInv, PoolOK, LoopType
<1>3. loop'.at = "add" /\ loop'.add = loop.add \ {e} /\ loop'.remove = loop.remove /\ LoopType'
  BY <1>1, <1>2 DEF LoopType
<1>4. config \in [DOMAIN config -> Int]
  BY <1>1, ConfigFacts DEF IInv, ConfigOK
<1>. e \in DOMAIN config
  BY <1>1 DEF IInv, PoolOK, NamesOK
<1>5. /\ e \in DOMAIN entry' /\ entry'[e].priority = config[e]
      /\ \A f \in DOMAIN entry : f # e => entry'[f] = entry[f]
      /\ DOMAIN entry' = DOMAIN entry \cup {e}
      /\ EntryType'
  <2>1. CASE e \in DOMAIN entry /\ entry[e].priority = config[e] /\ UNCHANGED entry
    BY <2>1 DEF IInv, PoolOK, EntryType
  <2>2. CASE entry' = [f \in DOMAIN entry \cup {e} |-> IF f = e THEN Added(config[e]) ELSE entry[f]]
    BY <2>2, <1>4 DEF IInv, PoolOK, EntryType, Added
  <2> QED  BY <2>1, <2>2 DEF AddEntry
<1>6. NamesOK'
  BY <1>1, <1>3, <1>5 DEF IInv, PoolOK, NamesOK, Unconfigured
<1>7. PriorityOK'
  <2> SUFFICES ASSUME NEW f \in DOMAIN config, f \notin loop.add \/ f = e
               PROVE  entry'[f].priority = config[f]
    BY <1>1, <1>3 DEF PriorityOK
  <2> QED  BY <1>1, <1>5 DEF IInv, PoolOK, PriorityOK, NamesOK
<1>8. EnabledOK' /\ ApplyOK' /\ ConfigOK'
  BY <1>1, <1>3 DEF IInv, EnabledOK, ApplyOK, ConfigOK
<1> QED  BY <1>1, <1>3, <1>5, <1>6, <1>7, <1>8, SameConsumers DEF IInv, PoolOK

LEMMA RemoveStep == ASSUME NoEmptyConfig, IInv, NEW e \in Endpoint, RemoveEntry(e) PROVE IInv'
<1>1. /\ UNCHANGED <<config, cursor, crashed, result, black>>
      /\ loop.at = "add" /\ loop.add = {} /\ e \in loop.remove
      /\ loop' = [loop EXCEPT !.remove = @ \ {e}]
      /\ entry' = Restrict(entry, DOMAIN entry \ {e}) /\ UNCHANGED updates
  BY DEF RemoveEntry, RemovalDue, consumerVars, bounds
<1>2. loop \in [at : {"add"}, add : SUBSET Endpoint, remove : SUBSET Endpoint]
  BY <1>1 DEF IInv, PoolOK, LoopType
<1>3. loop'.at = "add" /\ loop'.add = {} /\ loop'.remove = loop.remove \ {e} /\ LoopType'
  BY <1>1, <1>2 DEF LoopType
<1>4. e \notin DOMAIN config /\ DOMAIN config # {} /\ DOMAIN config \subseteq DOMAIN entry
  BY <1>1, ConfigFacts DEF IInv, PoolOK, NamesOK, ConfigOK
<1>5. /\ DOMAIN entry' = DOMAIN entry \ {e}
      /\ \A f \in DOMAIN entry \ {e} : entry'[f] = entry[f]
      /\ EntryType'
  BY <1>1 DEF IInv, PoolOK, EntryType, Restrict
<1>6. NamesOK'
  BY <1>1, <1>3, <1>4, <1>5 DEF IInv, PoolOK, NamesOK, Unconfigured
<1>7. PriorityOK'
  BY <1>1, <1>3, <1>4, <1>5 DEF IInv, PoolOK, PriorityOK
<1>8. EnabledOK' /\ ApplyOK' /\ ConfigOK'
  BY <1>1, <1>3 DEF IInv, EnabledOK, ApplyOK, ConfigOK
<1> QED  BY <1>1, <1>3, <1>5, <1>6, <1>7, <1>8, SameConsumers DEF IInv, PoolOK

\* The steps that only move the Start goroutine or its cursor.
LEMMA TurnSteps ==
    ASSUME NoEmptyConfig, IInv,
           Look \/ Move \/ Updated \/ enablePriority \/ Applied \/ \E late \in BOOLEAN : Tick(late)
    PROVE  IInv'
<1>1. UNCHANGED <<config, entry, result, black, updates>>
  BY DEF Look, Move, Updated, enablePriority, Applied, Tick, consumerVars, bounds
<1>0. updates > 0
  BY DEF Look, Move, Updated, enablePriority, Applied, Tick, IInv, ConfigOK
<1>2. /\ config \in [DOMAIN config -> Int] /\ DOMAIN config \subseteq Endpoint /\ DOMAIN config # {}
      /\ Priorities(config) \in Seq(Int) /\ Priorities(config) # <<>>
  BY <1>0, ConfigFacts DEF IInv, ConfigOK
<1>3. Level \in Int
  BY <1>0, <1>2 DEF IInv, ConfigOK, Level
<1>4. ConfigOK'
  <2>1. CASE Move
    <3>1. Len(Priorities(config)) \in Nat /\ cursor \in 1 .. Len(Priorities(config))
      BY <1>0, <1>2 DEF IInv, ConfigOK
    <3>2. \/ cursor + 1 <= Len(Priorities(config)) /\ cursor' = cursor + 1
          \/ cursor > 1 /\ cursor' = cursor - 1
          \/ cursor' = cursor
      BY <2>1 DEF Move, CanDowngrade
    <3>3. cursor' \in 1 .. Len(Priorities(config))
      BY <3>1, <3>2
    <3>4. ~crashed'
      BY <1>2, <2>1, Zenon DEF Move, IInv, ConfigOK
    <3> QED  BY <1>0, <1>1, <3>3, <3>4 DEF IInv, ConfigOK
  <2>2. CASE UNCHANGED <<cursor, crashed>>
    BY <1>0, <1>1, <2>2 DEF IInv, ConfigOK
  <2> QED  BY <2>1, <2>2 DEF Look, Updated, enablePriority, Applied, Tick
<1>5. EntryType'
  BY <1>1 DEF IInv, PoolOK, EntryType
<1>6. LoopType' /\ NamesOK' /\ PriorityOK' /\ EnabledOK' /\ ApplyOK'
  <2> USE DEF IInv, PoolOK, Unconfigured
  <2>1. CASE Look
    <3>1. loop.at = "look" /\ loop.down \in BOOLEAN /\ UNCHANGED cursor
      BY <2>1 DEF Look, LoopType
    <3>2. PICK u \in BOOLEAN : loop' = [at |-> "move", down |-> loop.down, up |-> u]
      BY <2>1 DEF Look
    <3>3. loop'.at = "move" /\ LoopType'
      BY <3>1, <3>2 DEF LoopType
    <3> QED  BY <1>1, <3>1, <3>3 DEF NamesOK, PriorityOK, EnabledOK, ApplyOK, Level
  <2>2. CASE \E late \in BOOLEAN : Tick(late)
    <3>1. loop.at = "idle" /\ UNCHANGED cursor
      BY <2>2 DEF Tick, Idle
    <3>2. PICK d \in BOOLEAN : loop' = [at |-> "look", down |-> d]
      BY <2>2 DEF Tick
    <3>3. loop'.at = "look" /\ LoopType'
      BY <3>2 DEF LoopType
    <3> QED  BY <1>1, <3>1, <3>3 DEF NamesOK, PriorityOK, EnabledOK, ApplyOK, Level
  <2>3. CASE Move \/ Updated
    <3>1. loop' = [at |-> "list"]
      BY <2>3 DEF Move, Updated
    <3>2. loop'.at = "list" /\ LoopType' /\ EnabledOK' /\ ApplyOK'
      BY <3>1 DEF LoopType, EnabledOK, ApplyOK
    <3>3. loop.at = "move" \/ (loop.at = "add" /\ loop.add = {} /\ loop.remove = {})
      BY <2>3 DEF Move, Updated
    <3>4. NamesOK' /\ PriorityOK'
      BY <1>0, <1>1, <1>2, <3>2, <3>3 DEF NamesOK, PriorityOK
    <3> QED  BY <3>2, <3>4
  <2>4. CASE enablePriority
    <3>1. loop.at = "list" /\ UNCHANGED cursor
      BY <2>4 DEF enablePriority
    <3>2. loop' = [at |-> "apply", on |-> DOMAIN config \ DisableList, off |-> DisableList]
      BY <2>4 DEF enablePriority
    <3>3. DisableList \subseteq DOMAIN config
      BY DEF DisableList
    <3>4. /\ loop'.at = "apply" /\ LoopType' /\ ApplyOK'
          /\ loop'.on = DOMAIN config \ DisableList /\ loop'.off = DisableList
      BY <1>1, <1>2, <3>2, <3>3 DEF LoopType, ApplyOK
    <3>5. NamesOK' /\ PriorityOK'
      BY <1>1, <3>1, <3>4 DEF NamesOK, PriorityOK
    <3>6. \A e \in DOMAIN config : e \in DisableList <=> ~(config[e] <= Level)
      BY <1>2, <1>3 DEF DisableList, Level
    <3>7. EnabledOK'
      BY <1>1, <3>1, <3>4, <3>6 DEF EnabledOK, Level
    <3> QED  BY <3>4, <3>5, <3>7
  <2>5. CASE Applied
    <3>1. loop.at = "apply" /\ loop.on = {} /\ loop.off = {} /\ loop' = Idle /\ UNCHANGED cursor
      BY <2>5 DEF Applied
    <3>2. loop'.at = "idle" /\ LoopType' /\ ApplyOK'
      BY <3>1 DEF Idle, LoopType, ApplyOK
    <3> QED  BY <1>1, <3>1, <3>2 DEF NamesOK, PriorityOK, EnabledOK, Level
  <2> QED  BY <2>1, <2>2, <2>3, <2>4, <2>5
<1> QED  BY <1>1, <1>4, <1>5, <1>6, SameConsumers DEF IInv, PoolOK

LEMMA EnableSteps ==
    ASSUME NoEmptyConfig, IInv, NEW e \in Endpoint, EnableEntry(e) \/ DisableEntry(e)
    PROVE  IInv'
<1>1. /\ UNCHANGED <<config, cursor, crashed, result, black, updates>> /\ loop.at = "apply"
      /\ \/ e \in loop.on /\ loop' = [loop EXCEPT !.on = @ \ {e}]
         \/ e \in loop.off /\ loop' = [loop EXCEPT !.off = @ \ {e}]
  BY DEF EnableEntry, DisableEntry, consumerVars, bounds
<1>2. loop \in [at : {"apply"}, on : SUBSET Endpoint, off : SUBSET Endpoint]
  BY <1>1 DEF IInv, PoolOK, LoopType
<1>3. /\ loop'.at = "apply" /\ LoopType'
      /\ loop'.on \subseteq loop.on /\ loop'.off \subseteq loop.off
      /\ (loop.on \cup loop.off) \ {e} \subseteq loop'.on \cup loop'.off
  BY <1>1, <1>2 DEF LoopType
<1>4. e \in DOMAIN config /\ DOMAIN entry = DOMAIN config
  BY <1>1 DEF IInv, PoolOK, ApplyOK, NamesOK
<1>5. /\ DOMAIN entry' = DOMAIN entry /\ EntryType'
      /\ \A f \in DOMAIN entry : f # e => entry'[f] = entry[f]
      /\ entry'[e].priority = entry[e].priority
  <2>1. CASE UNCHANGED entry
    BY <2>1 DEF IInv, PoolOK, EntryType
  <2>2. CASE \E b \in BOOLEAN : entry' = [entry EXCEPT ![e].enable = b]
    BY <1>4, <2>2 DEF IInv, PoolOK, EntryType
  <2> QED  BY <2>1, <2>2 DEF EnableEntry, DisableEntry
<1>6. entry'[e].enable <=> config[e] <= Level
  <2>1. CASE EnableEntry(e)
    <3>1. config[e] <= Level
      BY <1>4, <2>1 DEF EnableEntry, IInv, PoolOK, EnabledOK
    <3>2. entry'[e].enable
      BY <1>4, <2>1 DEF EnableEntry, IInv, PoolOK, EntryType
    <3> QED  BY <3>1, <3>2
  <2>2. CASE DisableEntry(e)
    <3>1. ~(config[e] <= Level)
      BY <1>4, <2>2 DEF DisableEntry, IInv, PoolOK, EnabledOK
    <3>2. ~entry'[e].enable
      BY <1>4, <2>2 DEF DisableEntry, IInv, PoolOK, EntryType
    <3> QED  BY <3>1, <3>2
  <2> QED  BY <2>1, <2>2
<1>7. EnabledOK'
  <2> SUFFICES ASSUME NEW f \in DOMAIN config
               PROVE  /\ f \in loop'.on => config[f] <= Level
                      /\ f \in loop'.off => ~(config[f] <= Level)
                      /\ f \notin loop'.on \cup loop'.off => (entry'[f].enable <=> config[f] <= Level)
    BY <1>1, <1>3 DEF EnabledOK, Level
  <2>1. f # e => (f \notin loop'.on \cup loop'.off => f \notin loop.on \cup loop.off)
    BY <1>3
  <2>2. f # e => entry'[f] = entry[f]
    BY <1>4, <1>5
  <2> QED  BY <1>1, <1>3, <1>6, <2>1, <2>2 DEF IInv, PoolOK, EnabledOK
<1>8. NamesOK' /\ ApplyOK' /\ ConfigOK'
  BY <1>1, <1>3, <1>5 DEF IInv, PoolOK, NamesOK, ApplyOK, ConfigOK, Unconfigured
<1>9. PriorityOK'
  BY <1>1, <1>3, <1>4, <1>5 DEF IInv, PoolOK, PriorityOK
<1> QED  BY <1>1, <1>3, <1>5, <1>7, <1>8, <1>9, SameConsumers DEF IInv, PoolOK

LEMMA NextOK == ASSUME NoEmptyConfig, IInv, [Next]_vars PROVE IInv'
<1>1. CASE UNCHANGED vars
  BY <1>1, SamePool, SameConsumers DEF IInv, vars, consumerVars, bounds
<1>2. CASE LoopStep
  BY <1>2, TurnSteps, AddStep, RemoveStep, EnableSteps DEF LoopStep
<1>3. CASE \E cf \in Configs : Update(cf)
  BY <1>3, UpdateStep
<1>4. ASSUME NEW c \in Consumer,
             \/ ConsumerStep(c) \/ UseClient(c) \/ Overdue(c) \/ Cancelled(c)
             \/ \E ban, blackList \in BOOLEAN : Breaks(c, ban, blackList)
      PROVE  IInv'
  BY <1>4, ConsumerSteps
<1>5. ASSUME NEW e \in Endpoint, ComesUp(e) \/ Lags(e) \/ Reports(e) \/ BanExpires(e) \/ Quiet(e)
      PROVE  IInv'
  BY <1>5, EndpointSteps
<1> QED  BY <1>1, <1>2, <1>3, <1>4, <1>5 DEF Next

-----------------------------------------------------------------------------
\* The invariant holds whatever the configurations, as long as each names an
\* endpoint, with any number of consumers and updates.
LEMMA Invariance == ASSUME NoEmptyConfig PROVE Spec => []IInv
<1>1. Init => IInv
  BY InitOK
<1>2. IInv /\ [Next]_vars => IInv'
  BY NextOK
<1> QED  BY <1>1, <1>2, PTL DEF Spec

\* UseClient does not report that no client is valid to a caller that has
\* blacklisted none, however configuration updates and calls interleave, once
\* the pool has its first entry: updateConfig adds before it removes.
THEOREM NoUpdateExhaustsTheClients == ASSUME NoEmptyConfig PROVE Spec => NeverExhausted
<1>1. ASSUME IInv, [Next]_vars, NEW c \in Consumer, result[c] # "exhausted", result'[c] = "exhausted"
      PROVE  black[c] # {} \/ Unconfigured
  <2>1. ASSUME NEW d \in Consumer, ConsumerStep(d) \/ UseClient(d) \/ Cancelled(d)
        PROVE  FindNone(d) /\ d = c /\ Backup(black[d]) = {}
    <3> USE DEF IInv, ConsumersOK
    <3>1. CASE FindNone(d)
      BY <1>1, <2>1, <3>1 DEF FindNone, Leave
    <3>2. CASE UseClient(d) \/ Cancelled(d) \/ Succeeds(d)
      BY <1>1, <3>2 DEF UseClient, Cancelled, Succeeds, Leave, None
    <3>3. CASE StartWait(d) \/ Wake(d) \/ \E e \in Endpoint : FindOne(d, e)
      BY <1>1, <3>3 DEF StartWait, Wake, FindOne
    <3> QED  BY <2>1, <3>1, <3>2, <3>3 DEF ConsumerStep
  <2>2. CASE UNCHANGED result
    BY <1>1, <2>2
  <2>3. CASE \E d \in Consumer : ConsumerStep(d) \/ UseClient(d) \/ Cancelled(d)
    <3>1. PICK d \in Consumer : ConsumerStep(d) \/ UseClient(d) \/ Cancelled(d)
      BY <2>3
    <3>2. d = c /\ DOMAIN entry \ black[c] = {}
      BY <2>1, <3>1 DEF Backup
    <3> QED  BY <1>1, <3>2 DEF IInv, PoolOK, NamesOK
  <2> QED  BY <1>1, <2>2, <2>3 DEF Next, vars, consumerVars, LoopStep, Update, Overdue, Breaks,
             ComesUp, Lags, Reports, BanExpires, Quiet, Look, Move, Updated, enablePriority,
             Applied, Tick, AddEntry, RemoveEntry, EnableEntry, DisableEntry
<1>2. IInv /\ [Next]_vars =>
         [\A c \in Consumer : result[c] # "exhausted" /\ result'[c] = "exhausted" =>
              black[c] # {} \/ Unconfigured]_vars
  BY <1>1
<1> QED  BY <1>2, Invariance, PTL DEF Spec, NeverExhausted

\* Between two turns of the Start goroutine the entries of the pool, their
\* priorities and which of them are enabled are what the configuration and
\* the cursor say, whatever calls and reports came between the steps of
\* updateConfig and enablePriority.
THEOREM PoolFollowsTheConfiguration == ASSUME NoEmptyConfig PROVE Spec => []PoolMatchesConfig
<1>1. IInv => PoolMatchesConfig
  <2> SUFFICES ASSUME IInv, loop = Idle PROVE PoolMatchesConfig
    BY DEF PoolMatchesConfig
  <2>1. loop.at = "idle"
    BY DEF Idle
  <2>2. DOMAIN entry = DOMAIN config
    BY <2>1 DEF IInv, PoolOK, NamesOK
  <2> QED  BY <2>1, <2>2 DEF IInv, PoolOK, PriorityOK, EnabledOK, Level, PoolMatchesConfig
<1> QED  BY <1>1, Invariance, PTL

\* As long as every configuration names an endpoint the Start goroutine never
\* indexes outside the priorities, so it does not panic.
THEOREM NoPanicWithClients == ASSUME NoEmptyConfig PROVE Spec => []NoPanic
<1>1. IInv => NoPanic
  BY DEF IInv, ConfigOK, NoPanic
<1> QED  BY <1>1, Invariance, PTL
===============================================================================
