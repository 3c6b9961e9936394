-------------------------- MODULE ClientRegistration --------------------------
(***************************************************************************)
(* The registration of retry services.  A client instance that starts asks *)
(* the center to register its retry queue, for its service and with the    *)
(* address of its broker (a configuration).  The center keeps the          *)
(* configurations in the table client_config, one row per retry queue and  *)
(* service, and for each retry queue a RabbitTemplate in memory, through   *)
(* which the tasks send.  The table is read through a cache of iBATIS.     *)
(*                                                                         *)
(* This module follows one retry queue: the table is a function from       *)
(* services to configurations, the map of templates a single value.        *)
(* Registrations for other queues would only flush the cache now and then, *)
(* as Expire does.                                                         *)
(*                                                                         *)
(* A "seeded fault" is used by the mutants of PROJECT.json only.           *)
(***************************************************************************)
EXTENDS Naturals

CONSTANTS Instance,   \* the client instances
          Services,   \* the names of retry services
          Service,    \* [Instance -> Services]
          Config,     \* addresses of brokers, as the clients know them
          Brokers,    \* [Instance -> SUBSET Config]: those an instance may be given
          NoConfig,   \* no row, no template
          NoRows,     \* nothing cached, nothing read
          MaxFaults   \* bound on restarts of the center and failing statements

Rows == [Services -> Config \cup {NoConfig}]

ASSUME ConstantsAssumption ==
  /\ Service \in [Instance -> Services]
  /\ Brokers \in [Instance -> (SUBSET Config) \ {{}}]
  /\ NoConfig \notin Config
  /\ NoRows \notin Rows
  /\ MaxFaults \in Nat

VARIABLES
  table,     \* client_config, the rows of the queue
  cache,     \* clientConfigCache: the rows, or NoRows
  template,  \* retryRabbitTemplateMap, the entry of the queue
  config,    \* [Instance -> Config]: what an instance registers
  pc,        \* [Instance -> where its registration is]
  list,      \* [Instance -> rows fetched from the table, not cached yet]
  faults

center == <<table, cache, template>>
vars   == <<center, config, pc, list, faults>>

Reading == {"first", "second"}    \* the two calls of getAllClientConfigs
Working == Reading \cup {"update", "add", "template"}
Pc      == Working \cup {"off", "up"}

Init ==
  /\ table = [s \in Services |-> NoConfig]
  /\ cache = NoRows
  /\ template = NoConfig
  /\ config = [i \in Instance |-> CHOOSE c \in Brokers[i] : TRUE]
  /\ pc = [i \in Instance |-> "off"]
  /\ list = [i \in Instance |-> NoRows]
  /\ faults = 0

-----------------------------------------------------------------------------
(* The client. *)

\* Seeded fault: a request without an address is let through.
RegisterUnchecked(i) ==
  /\ pc[i] = "off"
  /\ pc' = [pc EXCEPT ![i] = "first"]
  /\ \E c \in Brokers[i] \cup {NoConfig} : config' = [config EXCEPT ![i] = c]
  /\ UNCHANGED <<center, list, faults>>

\* An instance starts, possibly configured anew, and sends its request.  Client and
\* center refuse parameters that are empty.
Register(i) ==
  /\ pc[i] = "off"
  /\ pc' = [pc EXCEPT ![i] = "first"]
  /\ \E c \in Brokers[i] : config' = [config EXCEPT ![i] = c]
  /\ UNCHANGED <<center, list, faults>>

\* A registered instance is stopped, to be started again.
Stop(i) ==
  /\ pc[i] = "up"
  /\ pc' = [pc EXCEPT ![i] = "off"]
  /\ UNCHANGED <<center, config, list, faults>>

-----------------------------------------------------------------------------
(* registerRetryService of the center, one thread per request. *)

ShouldUpdateOrInsert(i, rows) == rows[Service[i]] # config[i]

\* Seeded fault: the whole configuration is compared.
HasServiceRegisteredEqual(i, rows) == rows[Service[i]] = config[i]

HasServiceRegistered(i, rows) == rows[Service[i]] # NoConfig

\* What follows a call of getAllClientConfigs that has returned `rows`.
Decide(i, rows) ==
  pc' = [pc EXCEPT ![i] =
           CASE pc[i] = "first"  /\ ~ShouldUpdateOrInsert(i, rows) -> "up"
             [] pc[i] = "first"  /\ ShouldUpdateOrInsert(i, rows)  -> "second"
             [] pc[i] = "second" /\ HasServiceRegistered(i, rows)  -> "update"
             [] OTHER                                              -> "add"]

\* The rows are in the cache.
CacheHit(i) ==
  /\ pc[i] \in Reading /\ list[i] = NoRows /\ cache # NoRows
  /\ Decide(i, cache)
  /\ UNCHANGED <<center, config, list, faults>>

\* They are not: the statement is executed ...
CacheMiss(i) ==
  /\ pc[i] \in Reading /\ list[i] = NoRows /\ cache = NoRows
  /\ list' = [list EXCEPT ![i] = table]
  /\ UNCHANGED <<center, config, pc, faults>>

\* ... and its result, by then possibly out of date, is cached and returned.
CacheFill(i) ==
  /\ pc[i] \in Reading /\ list[i] # NoRows
  /\ cache' = list[i]
  /\ list' = [list EXCEPT ![i] = NoRows]
  /\ Decide(i, list[i])
  /\ UNCHANGED <<table, template, config, faults>>

\* Of what the center lets through, everything is valid.
IsClientConfigValid(c) == c # NoConfig

\* Seeded fault: the update is made, but is not among the statements that flush
\* the cache.
UpdateUnflushed(i) ==
  /\ pc[i] = "update"
  /\ pc' = [pc EXCEPT ![i] = "template"]
  /\ table' = [table EXCEPT ![Service[i]] = config[i]]
  /\ UNCHANGED <<cache, template, config, list, faults>>

\* updateClientConfig refuses a valid configuration.
Update(i) ==
  /\ pc[i] = "update"
  /\ pc' = [pc EXCEPT ![i] = "template"]
  /\ IF IsClientConfigValid(config[i])
       THEN UNCHANGED <<table, cache>>
       ELSE /\ table' = [table EXCEPT ![Service[i]] = config[i]]
            /\ cache' = NoRows
  /\ UNCHANGED <<template, config, list, faults>>

\* addClientConfig.  The unique key refuses a second row: the registration fails,
\* and the client with it.
Add(i) ==
  /\ pc[i] = "add"
  /\ IF table[Service[i]] = NoConfig
       THEN /\ table' = [table EXCEPT ![Service[i]] = config[i]]
            /\ cache' = NoRows
            /\ pc' = [pc EXCEPT ![i] = "template"]
       ELSE /\ pc' = [pc EXCEPT ![i] = "off"]
            /\ UNCHANGED <<table, cache>>
  /\ UNCHANGED <<template, config, list, faults>>

\* addRetryRabbitTemplate, and the reply.
SetTemplate(i) ==
  /\ pc[i] = "template"
  /\ template' = config[i]
  /\ pc' = [pc EXCEPT ![i] = "up"]
  /\ UNCHANGED <<table, cache, config, list, faults>>

\* A statement fails, and the registration with it.
Fails(i) ==
  /\ pc[i] \in Reading \cup {"add"} /\ faults < MaxFaults
  /\ faults' = faults + 1
  /\ pc' = [pc EXCEPT ![i] = "off"]
  /\ list' = [list EXCEPT ![i] = NoRows]
  /\ UNCHANGED <<center, config>>

Step(i) == CacheHit(i) \/ CacheMiss(i) \/ CacheFill(i) \/ Update(i) \/ Add(i) \/ SetTemplate(i)

-----------------------------------------------------------------------------

\* The cache is flushed, at the latest by its flush interval.
Expire ==
  /\ cache # NoRows
  /\ cache' = NoRows
  /\ UNCHANGED <<table, template, config, pc, list, faults>>

Registered == {table[s] : s \in Services} \ {NoConfig}

\* Seeded fault: the templates are not set from the table.
CenterRestartEmpty ==
  /\ faults < MaxFaults
  /\ faults' = faults + 1
  /\ template' = NoConfig
  /\ cache' = table
  /\ pc' = [i \in Instance |-> IF pc[i] \in Working THEN "off" ELSE pc[i]]
  /\ list' = [i \in Instance |-> NoRows]
  /\ UNCHANGED <<table, config>>

\* The center dies, with the requests it is working on, and starts again: it reads
\* the table and sets the templates, of two services of the queue the later one.
CenterRestart ==
  /\ faults < MaxFaults
  /\ faults' = faults + 1
  /\ template' \in IF Registered = {} THEN {NoConfig} ELSE Registered
  /\ cache' = table
  /\ pc' = [i \in Instance |-> IF pc[i] \in Working THEN "off" ELSE pc[i]]
  /\ list' = [i \in Instance |-> NoRows]
  /\ UNCHANGED <<table, config>>

Next ==
  \/ \E i \in Instance : Register(i) \/ Stop(i) \/ Step(i) \/ Fails(i)
  \/ Expire \/ CenterRestart

Spec == Init /\ [][Next]_vars

\* An instance that is off is started again, requests go on, the cache has a
\* flush interval.
Fairness ==
  /\ \A i \in Instance : WF_vars(Register(i)) /\ WF_vars(Step(i))
  /\ WF_vars(Expire)

FairSpec == Spec /\ Fairness

-----------------------------------------------------------------------------
(* Properties. *)

\* Types.
TypeOK ==
  /\ table \in Rows
  /\ cache \in Rows \cup {NoRows}
  /\ template \in Config \cup {NoConfig}
  /\ config \in [Instance -> Config]
  /\ pc \in [Instance -> Pc]
  /\ list \in [Instance -> Rows \cup {NoRows}]
  /\ faults \in Nat

\* A client that was told it is registered has a row for its service, and its
\* retry queue has a template, or gets it presently from a request that is not
\* finished - at any time later, and after restarts of the center.
Served ==
  \A i \in Instance : pc[i] = "up" =>
    /\ table[Service[i]] # NoConfig
    /\ template # NoConfig \/ \E j \in Instance : pc[j] = "template"

\* The cache, whatever the order of reads, fills and flushes, never shows a
\* configuration of a service that is not its row in the table: it may only miss
\* rows.
CacheOnlyMisses ==
  \A s \in Services : cache # NoRows => cache[s] \in {NoConfig, table[s]}

\* An instance that is started again whenever its registration fails is registered
\* in the end: a stale cache can refuse it only until the flush interval.
EventuallyUp == \A i \in Instance : (pc[i] # "up") ~> (pc[i] = "up")

\* "should update client config": after the update the table has the configuration
\* of the request.  For a single instance.
UpdateStores == \A i \in Instance : pc[i] = "template" => table[Service[i]] = config[i]
=============================================================================
