----------------------------- MODULE RetryCenter -----------------------------
(***************************************************************************)
(* The life of a failed business message in MRF: the client's listeners,   *)
(* the thrift call to the center with its fail-over to the exception queue *)
(* (EQ), the tables interval_retry and recover, the center's three tasks   *)
(* (EQ, interval retry, house keeping) with the work they have in memory,  *)
(* and the operator of the recover page.                                   *)
(*                                                                         *)
(* Every business queue has its own retry queue; a member of Msg is the    *)
(* one message followed on such a queue.  Configs[m] are the retry         *)
(* configurations with which the instances of its service are deployed:    *)
(* more than one while a service is redeployed with another configuration, *)
(* and a delivery may meet any of them.  The time of a record              *)
(* (next_exec_at, checkout_at) is abstract: a record may fall due, and a   *)
(* checked-out record may pass the house-keeping threshold, at any moment. *)
(* RetryTiming is about times.                                             *)
(*                                                                         *)
(* A definition marked "seeded fault" is a plausible mistake in the        *)
(* definition that follows it; no behaviour of this module uses it, the    *)
(* mutants of PROJECT.json put it in the place of the original.            *)
(***************************************************************************)
EXTENDS Integers, Sequences, FiniteSets, Functions, RetryModes

CONSTANTS Msg,         \* business messages, one per business queue
          NoMsg,       \* not a message
          Configs,     \* [Msg -> SUBSET RetryQueueConfig]: deployed for its queue
          EqWorker,    \* threads of the EQ pool
          SendWorker,  \* threads of the interval-retry pool
          WebThread,   \* threads that serve the recover page
          MaxId,       \* bound: message ids the generator hands out
          MaxFaults,   \* bound: faults (see Spend) in a behaviour
          MaxOps       \* bound: recover requests of operators

ASSUME ConstantsAssumption ==
  /\ NoMsg \notin Msg
  /\ Configs \in [Msg -> SUBSET RetryQueueConfig]
  /\ IsFiniteSet(EqWorker) /\ IsFiniteSet(SendWorker) /\ IsFiniteSet(WebThread)
  /\ MaxId \in Nat
  /\ MaxFaults \in Nat
  /\ MaxOps \in Nat

Id  == 1 .. MaxId      \* message ids of database records
Id0 == 0 .. MaxId      \* 0: the message has no record (yet)

VARIABLES
  bizQ,       \* messages whose first delivery is not acknowledged yet
  retryQ,     \* [Msg -> Seq(Copy)]: the retry queue of each business queue
  eq,         \* Seq(Request): the exception queue
  lastId,     \* last id of GlobalMessageIdGenerator
  owner,      \* [Id -> Msg \cup {NoMsg}]: business_msg of a record
  interval,   \* [Id -> state of its interval_retry record]
  retried,    \* [Id -> retried_times of its interval_retry record]
  recover,    \* [Id -> state of its recover record]
  eqTask,     \* [EqWorker -> Seq(Request)]: drained, not processed yet
  polled,     \* the record the interval poller holds
  sendTask,   \* [SendWorker -> record handed over, id 0 for none]
  hkList,     \* ids read by house keeping, waiting for the semaphore
  hkTask,     \* ids of the house-keeping task that runs
  hkPermit,   \* coordinateSignal has its permit
  done,       \* history: messages whose handler has succeeded
  discarded,  \* history: messages with a record deleted by an operator
  dropped,    \* history: messages whose only request was lost or ignored
  opTask,     \* [WebThread -> the recover record found, or checked out and not sent yet]
  faults, ops \* counters for MaxFaults and MaxOps

queues  == <<bizQ, retryQ>>
tables  == <<lastId, owner, interval, retried, recover>>
poller  == <<polled, sendTask>>
keeper  == <<hkList, hkTask, hkPermit>>
operator == <<opTask, ops>>
history == <<done, discarded, dropped>>
vars == <<queues, eq, tables, eqTask, poller, keeper, operator, history, faults>>

\* How the instances of a service treat a failed message.
AtOnce(cfg)      == IsImmediate(cfg) /\ ShouldRetryByConfig(cfg)
AtIntervals(cfg) == ~IsImmediate(cfg) /\ ~ShouldDirectToRecover(cfg)

SomeAtOnce(m)      == \E cfg \in Configs[m] : AtOnce(cfg)
SomeAtIntervals(m) == \E cfg \in Configs[m] : AtIntervals(cfg)
SomeDirect(m)      == \E cfg \in Configs[m] : ShouldDirectToRecover(cfg)

\* The values retriedTimes can take for the message.
Times(m) == {0} \cup UNION {Retries(cfg) : cfg \in Configs[m]}

\* A RetryMessage in a retry queue.
Copy == [id : Id0, retried : Nat, fromRecover : BOOLEAN]

\* A RetryMessage sent to the center, by its messageFlag.
Kinds == {"CLEAN_RECOVER", "CLEAN_INTERVAL_RETRY", "RESEND_FOR_RECOVER",
          "INTERVAL_MSG_DO__RETRY", "INTERVAL_MSG_DO_RECOVER",
          "IMMEDIATE_MSG_DO_RECOVER", "MSG_DIRECT_TO_RECOVER"}
Request == [kind : Kinds, msg : Msg, id : Id0, retried : Nat]

NoRecord == [id |-> 0, retried |-> 0]
Idle     == [phase |-> "idle", id |-> 0, retried |-> 0]
NoTask   == [phase |-> "idle", id |-> 0]

\* A fault is an event the code survives by design or by luck: a lost thrift
\* reply, a redelivery, a failed database call, a failed publish, a crash.
Spend(n) == faults + n <= MaxFaults /\ faults' = faults + n

Init ==
  /\ bizQ \in SUBSET Msg       \* the others succeed at their first delivery
  /\ done = Msg \ bizQ
  /\ retryQ = [m \in Msg |-> << >>]
  /\ eq = << >>
  /\ lastId = 0
  /\ owner = [i \in Id |-> NoMsg]
  /\ interval = [i \in Id |-> "NONE"]
  /\ retried = [i \in Id |-> 0]
  /\ recover = [i \in Id |-> "NONE"]
  /\ eqTask = [w \in EqWorker |-> << >>]
  /\ polled = Idle
  /\ sendTask = [w \in SendWorker |-> NoRecord]
  /\ hkList = {} /\ hkTask = {} /\ hkPermit = TRUE
  /\ discarded = {} /\ dropped = {}
  /\ opTask = [t \in WebThread |-> NoTask]
  /\ faults = 0 /\ ops = 0

-----------------------------------------------------------------------------
(***************************************************************************)
(* The center's services on the two tables: one transaction each.          *)
(***************************************************************************)

CleanRecover(q) ==
  /\ recover' = [recover EXCEPT ![q.id] = "NONE"]
  /\ UNCHANGED <<lastId, owner, interval, retried>>

CleanIntervalRetry(q) ==
  /\ interval' = [i \in Id |-> IF i = q.id THEN "NONE" ELSE interval[i]]
  /\ retried' = [i \in Id |-> IF i = q.id THEN 0 ELSE retried[i]]
  /\ UNCHANGED <<lastId, owner, recover>>

\* Seeded fault: a failed recovery leaves the record checked out.
ResendForRecoverForgets(q) == UNCHANGED tables

\* Seeded fault: a failed recovery is cleaned like a successful one.
ResendForRecoverDeletes(q) == CleanRecover(q)

\* checkInRecover: an update, no effect when the record is gone.
ResendForRecover(q) ==
  /\ recover' = [recover EXCEPT ![q.id] =
                   IF @ = "NONE" THEN @ ELSE "TO_RECOVER"]
  /\ UNCHANGED <<lastId, owner, interval, retried>>

\* A new record gets a fresh id.
FreshId(m) ==
  /\ lastId < MaxId
  /\ lastId' = lastId + 1
  /\ owner' = [owner EXCEPT ![lastId + 1] = m]

AddIntervalRetry(q) ==
  /\ FreshId(q.msg)
  /\ interval' = [interval EXCEPT ![lastId + 1] = "TO_RETRY"]
  /\ retried' = [retried EXCEPT ![lastId + 1] = q.retried]
  /\ UNCHANGED recover

\* checkinIntervalRetry: an update, no effect when the record is gone.
CheckinIntervalRetry(q) ==
  /\ interval' = [interval EXCEPT ![q.id] =
                    IF @ = "NONE" THEN @ ELSE "TO_RETRY"]
  /\ retried' = [retried EXCEPT ![q.id] =
                    IF interval[q.id] = "NONE" THEN @ ELSE q.retried]
  /\ UNCHANGED <<lastId, owner, recover>>

DoIntervalMessageRetry(q) ==
  \/ q.id = 0 /\ AddIntervalRetry(q)
  \/ q.id > 0 /\ CheckinIntervalRetry(q)

\* Seeded fault: the record is deleted and not added to the recover table.
DoIntervalMessageRecoverForgets(q) == CleanIntervalRetry(q)

\* Seeded fault: the recover record is given a state of interval_retry.
DoIntervalMessageRecoverMistyped(q) ==
  /\ interval' = [i \in Id |-> IF i = q.id THEN "NONE" ELSE interval[i]]
  /\ retried' = [i \in Id |-> IF i = q.id THEN 0 ELSE retried[i]]
  /\ recover' = [i \in Id |-> IF i = q.id THEN "IN_RETRY" ELSE recover[i]]
  /\ UNCHANGED <<lastId, owner>>

\* The record moves to the recover table if there was one to delete.  Nothing
\* happens for a message that has no record.
DoIntervalMessageRecover(q) ==
  LET found == q.id > 0 /\ interval[q.id] # "NONE"
  IN  /\ interval' = [i \in Id |-> IF found /\ i = q.id THEN "NONE" ELSE interval[i]]
      /\ retried' = [i \in Id |-> IF found /\ i = q.id THEN 0 ELSE retried[i]]
      /\ recover' = [i \in Id |-> IF found /\ i = q.id THEN "TO_RECOVER" ELSE recover[i]]
      /\ UNCHANGED <<lastId, owner>>

\* doImmediateMessageRecover: a new record, whatever id the request has.
AddRecover(q) ==
  /\ FreshId(q.msg)
  /\ recover' = [recover EXCEPT ![lastId + 1] = "TO_RECOVER"]
  /\ UNCHANGED <<interval, retried>>

\* A message that has an id keeps it, whether or not its interval_retry record
\* is there as well.
DoMessageDirectToRecover(q) ==
  \/ q.id = 0 /\ AddRecover(q)
  \/ /\ q.id > 0
     /\ recover' = [recover EXCEPT ![q.id] = "TO_RECOVER"]
     /\ UNCHANGED <<lastId, owner, interval, retried>>

\* The id is to be added to the recover table and is there already: the unique
\* key makes the transaction roll back, and the request fails.
Refused(q) ==
  /\ q.id > 0 /\ recover[q.id] # "NONE"
  /\ \/ q.kind = "INTERVAL_MSG_DO_RECOVER" /\ interval[q.id] # "NONE"
     \/ q.kind = "MSG_DIRECT_TO_RECOVER"

\* The request is all there is of its message, which has no record yet and is
\* not handled.
Carries(q) == q.id = 0 /\ q.kind # "CLEAN_INTERVAL_RETRY"

\* doIntervalMessageRecover acknowledges a request it has done nothing for.
Forgets(q) == Carries(q) /\ q.kind = "INTERVAL_MSG_DO_RECOVER"

Process(q) ==
  /\ ~Refused(q)
  /\ \/ q.kind = "CLEAN_RECOVER" /\ CleanRecover(q)
     \/ q.kind = "CLEAN_INTERVAL_RETRY" /\ CleanIntervalRetry(q)
     \/ q.kind = "RESEND_FOR_RECOVER" /\ ResendForRecover(q)
     \/ q.kind = "INTERVAL_MSG_DO__RETRY" /\ DoIntervalMessageRetry(q)
     \/ q.kind = "INTERVAL_MSG_DO_RECOVER" /\ DoIntervalMessageRecover(q)
     \/ q.kind = "IMMEDIATE_MSG_DO_RECOVER" /\ AddRecover(q)
     \/ q.kind = "MSG_DIRECT_TO_RECOVER" /\ DoMessageDirectToRecover(q)
  /\ dropped' = IF Forgets(q) THEN dropped \cup {q.msg} ELSE dropped

-----------------------------------------------------------------------------
(***************************************************************************)
(* The client: one delivery of a business message (src "business") or of a *)
(* copy at the head of its retry queue (src "retry"), from the listener's  *)
(* onMessage to the acknowledgement.  A throwable the configuration does   *)
(* not care about, and a failed fail-over, are rethrown: the broker        *)
(* requeues the delivery, which changes nothing here.                      *)
(***************************************************************************)

InitialCopy == [id |-> 0, retried |-> 0, fromRecover |-> FALSE]

Delivered(m, src, c) ==
  \/ src = "business" /\ m \in bizQ /\ c = InitialCopy
  \/ src = "retry" /\ retryQ[m] # << >> /\ c = Head(retryQ[m])

\* The delivery is acknowledged (n = 0), or it stays in its queue because the
\* consumer stopped before the acknowledgement (n = 1, a fault); more are the
\* copies the consumer has published to the retry queue meanwhile.
Settle(m, src, more, n) ==
  LET left == IF src = "retry" /\ n = 0 THEN Tail(retryQ[m]) ELSE retryQ[m]
  IN  /\ bizQ' = IF src = "business" /\ n = 0 THEN bizQ \ {m} ELSE bizQ
      /\ retryQ' = [retryQ EXCEPT ![m] = left \o more]

\* sendRetryMessageForProcess: the center processes q; or it cannot be reached
\* or fails, and q goes to the EQ; or (n = 1, a fault) it processes q and the
\* reply is lost, so that q goes to the EQ as well.
Submit(q, n) ==
  \/ n = 0 /\ Process(q) /\ UNCHANGED eq
  \/ n = 0 /\ eq' = Append(eq, q) /\ UNCHANGED <<tables, dropped>>
  \/ n = 1 /\ Process(q) /\ eq' = Append(eq, q)

\* f: faults the delivery has met already.
SubmitAndSettle(m, src, q, f) ==
  \E n, k \in {0, 1} : Submit(q, n) /\ Settle(m, src, << >>, k) /\ Spend(f + n + k)

RequestFor(kind, m, c, n) == [kind |-> kind, msg |-> m, id |-> c.id, retried |-> n]

\* retriedTimes is pre-increased unless the queue retries for ever.
NextTimes(cfg, c) == IF IsInfinite(cfg) THEN c.retried ELSE c.retried + 1

\* Seeded fault: one retry too many.
HasReachedMaxLate(cfg, src, c) ==
  src = "retry" /\ cfg.retryTimes >= 0 /\ c.retried > cfg.retryTimes

\* Seeded fault: any number of retries is at least the maximum of -1.
HasReachedMaxOfMinusOne(cfg, src, c) == src = "retry" /\ c.retried >= cfg.retryTimes

\* The initial listener never reaches the maximum.
HasReachedMax(cfg, src, c) ==
  src = "retry" /\ cfg.retryTimes >= 0 /\ c.retried >= cfg.retryTimes

\* Seeded fault: the initial listener cleans up as well.
NeedsCleanupAlways(cfg, src, c) == c.fromRecover \/ ~IsImmediate(cfg)

\* doCleanup has work to do: nothing for a first delivery, nor, where messages
\* are retried at once, for a copy that does not come from the recover table.
NeedsCleanup(cfg, src, c) == src = "retry" /\ (c.fromRecover \/ ~IsImmediate(cfg))

Succeeds(cfg, m, src, c) ==
  /\ Delivered(m, src, c)
  /\ done' = done \cup {m}
  /\ \/ /\ ~NeedsCleanup(cfg, src, c)
        /\ \E k \in {0, 1} : Settle(m, src, << >>, k) /\ Spend(k)
        /\ UNCHANGED <<eq, tables, dropped>>
     \/ /\ NeedsCleanup(cfg, src, c)
        /\ SubmitAndSettle(m, src, RequestFor(IF c.fromRecover THEN "CLEAN_RECOVER"
                                     ELSE "CLEAN_INTERVAL_RETRY", m, c, 0), 0)
     \/ \* the consumer stops between the business call and the clean-up
        /\ NeedsCleanup(cfg, src, c)
        /\ Spend(1)
        /\ UNCHANGED <<queues, eq, tables, dropped>>
  /\ UNCHANGED <<eqTask, poller, keeper, discarded, operator>>

\* The message came from the recover table: back to it.
FailsRecovering(cfg, m, src, c, f) ==
  /\ c.fromRecover /\ ShouldRetryByConfig(cfg)
  /\ SubmitAndSettle(m, src, RequestFor("RESEND_FOR_RECOVER", m, c, 0), f)

\* DIRECT_TO_RECOVER: no retry at all.
FailsDirectly(cfg, m, src, c, f) ==
  /\ ~c.fromRecover /\ ShouldDirectToRecover(cfg)
  /\ SubmitAndSettle(m, src, RequestFor("MSG_DIRECT_TO_RECOVER", m, c, 0), f)

\* Seeded fault: a copy from the recover table is retried like any other.
RetriesImmediatelyAnyway(cfg, m, src, c, f) ==
  /\ AtOnce(cfg) /\ ~HasReachedMax(cfg, src, c)
  /\ \E k \in {0, 1} :
       /\ Settle(m, src, <<[c EXCEPT !.retried = NextTimes(cfg, c)]>>, k)
       /\ Spend(f + k)
  /\ UNCHANGED <<eq, tables, dropped>>

\* doRetry of an immediate message: straight back to the retry queue.
RetriesImmediately(cfg, m, src, c, f) ==
  /\ ~c.fromRecover /\ AtOnce(cfg) /\ ~HasReachedMax(cfg, src, c)
  /\ \E k \in {0, 1} :
       /\ Settle(m, src, <<[c EXCEPT !.retried = NextTimes(cfg, c)]>>, k)
       /\ Spend(f + k)
  /\ UNCHANGED <<eq, tables, dropped>>

\* doRetry of an interval message: to the center.
RetriesLater(cfg, m, src, c, f) ==
  /\ ~c.fromRecover /\ AtIntervals(cfg) /\ ~HasReachedMax(cfg, src, c)
  /\ SubmitAndSettle(m, src,
       RequestFor("INTERVAL_MSG_DO__RETRY", m, c, NextTimes(cfg, c)), f)

\* doRecover once the maximum is reached.
GivesUp(cfg, m, src, c, f) ==
  /\ ~c.fromRecover /\ (AtOnce(cfg) \/ AtIntervals(cfg)) /\ HasReachedMax(cfg, src, c)
  /\ SubmitAndSettle(m, src, RequestFor(IF IsImmediate(cfg) THEN "IMMEDIATE_MSG_DO_RECOVER"
                               ELSE "INTERVAL_MSG_DO_RECOVER", m, c, 0), f)

\* The catch block of onMessage.
Caught(cfg, m, src, c, f) ==
  /\ \/ FailsRecovering(cfg, m, src, c, f)
     \/ FailsDirectly(cfg, m, src, c, f)
     \/ RetriesImmediately(cfg, m, src, c, f)
     \/ RetriesLater(cfg, m, src, c, f)
     \/ GivesUp(cfg, m, src, c, f)
  /\ UNCHANGED <<eqTask, poller, keeper, discarded, operator>>

Fails(cfg, m, src, c) ==
  /\ Delivered(m, src, c)
  /\ Caught(cfg, m, src, c, 0)
  /\ UNCHANGED done

\* The handler succeeds, the clean-up can reach neither the center nor the EQ
\* (a fault), and its exception is caught as if the handler had thrown it.
CleanupFails(cfg, m, src, c) ==
  /\ Delivered(m, src, c) /\ NeedsCleanup(cfg, src, c)
  /\ Caught(cfg, m, src, c, 1)
  /\ done' = done \cup {m}

Copies(m) == {InitialCopy} \cup Range(retryQ[m])

Consume(m) ==
  \E cfg \in Configs[m], src \in {"business", "retry"}, c \in Copies(m) :
    Succeeds(cfg, m, src, c) \/ Fails(cfg, m, src, c) \/ CleanupFails(cfg, m, src, c)

-----------------------------------------------------------------------------
(***************************************************************************)
(* The EQ task.  A round drains the queue with automatic acknowledgement;  *)
(* an exception while draining keeps what was read, so a round takes any   *)
(* prefix.  The messages then exist only in the memory of the task.        *)
(***************************************************************************)

EqDrain(w) ==
  /\ eqTask[w] = << >>
  /\ \E n \in 1 .. Len(eq) :
       /\ eqTask' = [eqTask EXCEPT ![w] = SubSeq(eq, 1, n)]
       /\ eq' = SubSeq(eq, n + 1, Len(eq))
  /\ UNCHANGED <<queues, tables, poller, keeper, history, faults, operator>>

\* The switch of the EQ task has no case for MSG_DIRECT_TO_RECOVER; what the
\* tables refuse is logged.
EqProcess(w) ==
  /\ eqTask[w] # << >>
  /\ LET q == Head(eqTask[w])
     IN  IF q.kind = "MSG_DIRECT_TO_RECOVER" \/ Refused(q)
         THEN /\ dropped' = IF Carries(q) THEN dropped \cup {q.msg} ELSE dropped
              /\ UNCHANGED tables
         ELSE Process(q)
  /\ eqTask' = [eqTask EXCEPT ![w] = Tail(@)]
  /\ UNCHANGED <<queues, eq, poller, keeper, done, discarded, faults, operator>>

\* An exception of the service is logged, and the request is gone.
EqProcessFails(w) ==
  /\ eqTask[w] # << >>
  /\ LET q == Head(eqTask[w])
     IN  dropped' = IF Carries(q) THEN dropped \cup {q.msg} ELSE dropped
  /\ eqTask' = [eqTask EXCEPT ![w] = Tail(@)]
  /\ Spend(1)
  /\ UNCHANGED <<queues, eq, tables, poller, keeper, done, discarded, operator>>

-----------------------------------------------------------------------------
(***************************************************************************)
(* The interval-retry task: read one record, check it out, hold it until   *)
(* it is due, hand it to a pool thread, which sends it to the retry queue. *)
(***************************************************************************)

\* getMostUrgentIntervalRetry(1), once the pool has a free thread.
PollRead ==
  /\ polled = Idle
  /\ \E w \in SendWorker : sendTask[w] = NoRecord
  /\ \E i \in Id :
       /\ interval[i] = "TO_RETRY"
       /\ polled' = [phase |-> "read", id |-> i, retried |-> retried[i]]
  /\ UNCHANGED <<queues, eq, tables, eqTask, sendTask, keeper, history, faults, operator>>

\* Seeded fault: the update only sets checkout_at.
CheckOutForgetsState ==
  /\ polled.phase = "read"
  /\ polled' = IF interval[polled.id] = "TO_RETRY" THEN [polled EXCEPT !.phase = "out"] ELSE Idle
  /\ UNCHANGED <<queues, eq, tables, eqTask, sendTask, keeper, history, faults, operator>>

\* checkOutIntervalRetry: a conditional update; the record is only kept when
\* the update found it still TO_RETRY.
CheckOut ==
  /\ polled.phase = "read"
  /\ \/ /\ interval[polled.id] = "TO_RETRY"
        /\ interval' = [interval EXCEPT ![polled.id] = "IN_RETRY"]
        /\ polled' = [polled EXCEPT !.phase = "out"]
     \/ /\ interval[polled.id] # "TO_RETRY"
        /\ polled' = Idle
        /\ UNCHANGED interval
  /\ UNCHANGED <<queues, eq, lastId, owner, retried, recover, eqTask, sendTask,
                 keeper, history, faults, operator>>

\* The update throws, done or not: result keeps its initial value true, and the
\* record is treated as checked out.
CheckOutThrows ==
  /\ polled.phase = "read"
  /\ \/ UNCHANGED interval
     \/ /\ interval[polled.id] = "TO_RETRY"
        /\ interval' = [interval EXCEPT ![polled.id] = "IN_RETRY"]
  /\ polled' = [polled EXCEPT !.phase = "out"]
  /\ Spend(1)
  /\ UNCHANGED <<queues, eq, lastId, owner, retried, recover, eqTask, sendTask,
                 keeper, history, operator>>

\* waitUntilAppropriateToExecute has returned: runInThread.
HandOff(w) ==
  /\ polled.phase = "out" /\ sendTask[w] = NoRecord
  /\ sendTask' = [sendTask EXCEPT ![w] = [id |-> polled.id, retried |-> polled.retried]]
  /\ polled' = Idle
  /\ UNCHANGED <<queues, eq, tables, eqTask, keeper, history, faults, operator>>

\* The task sends the record as it was read; with no template for the queue, or
\* when the publish throws, it only logs.
SendCopy(w) ==
  /\ sendTask[w] # NoRecord
  /\ LET c == [id |-> sendTask[w].id, retried |-> sendTask[w].retried,
               fromRecover |-> FALSE]
         m == owner[c.id]
     IN  \/ retryQ' = [retryQ EXCEPT ![m] = Append(@, c)]
         \/ UNCHANGED retryQ
  /\ sendTask' = [sendTask EXCEPT ![w] = NoRecord]
  /\ UNCHANGED <<bizQ, eq, tables, eqTask, polled, keeper, history, faults, operator>>

-----------------------------------------------------------------------------
(***************************************************************************)
(* House keeping: the scheduler thread reads the overdue records, then     *)
(* waits for the semaphore that the running task holds; the task moves the *)
(* records it was given to the recover table, by id, in one transaction.   *)
(***************************************************************************)

\* Seeded fault: the overdue records are looked for among the waiting ones.
HkReadWaiting(s) ==
  /\ hkList = {}
  /\ s # {} /\ \A i \in s : interval[i] = "TO_RETRY"
  /\ hkList' = s
  /\ UNCHANGED <<queues, eq, tables, eqTask, poller, hkTask, hkPermit, history, faults, operator>>

HkRead(s) ==
  /\ hkList = {}
  /\ s # {} /\ \A i \in s : interval[i] = "IN_RETRY"
  /\ hkList' = s
  /\ UNCHANGED <<queues, eq, tables, eqTask, poller, hkTask, hkPermit, history, faults, operator>>

HkAcquire ==
  /\ hkList # {} /\ hkTask = {} /\ hkPermit
  /\ hkTask' = hkList
  /\ hkList' = {}
  /\ hkPermit' = FALSE
  /\ UNCHANGED <<queues, eq, tables, eqTask, poller, history, faults, operator>>

\* Seeded fault: the records are copied, not moved.
DoHouseKeepCopies ==
  /\ recover' = [i \in Id |-> IF i \in hkTask THEN "TO_RECOVER" ELSE recover[i]]
  /\ UNCHANGED <<lastId, owner, interval, retried>>

\* A recover record with one of the ids makes the whole batch roll back.
DoHouseKeep ==
  LET moved == IF \A i \in hkTask : recover[i] = "NONE" THEN hkTask ELSE {}
  IN  /\ interval' = [i \in Id |-> IF i \in moved THEN "NONE" ELSE interval[i]]
      /\ retried' = [i \in Id |-> IF i \in moved THEN 0 ELSE retried[i]]
      /\ recover' = [i \in Id |-> IF i \in moved THEN "TO_RECOVER" ELSE recover[i]]
      /\ UNCHANGED <<lastId, owner>>

HkExecute ==
  /\ hkTask # {}
  /\ \/ DoHouseKeep /\ Spend(0)
     \/ UNCHANGED tables /\ Spend(1)      \* DAOException: rolled back, logged
  /\ hkTask' = {}
  /\ hkPermit' = TRUE
  /\ UNCHANGED <<queues, eq, eqTask, poller, hkList, history, operator>>

\* Any other exception skips coordinateSignal.release().
HkAborts ==
  /\ hkTask # {}
  /\ hkTask' = {}
  /\ Spend(1)
  /\ UNCHANGED <<queues, eq, tables, eqTask, poller, hkList, hkPermit, history, operator>>

-----------------------------------------------------------------------------
(***************************************************************************)
(* The operator: web requests on the recover table.                        *)
(***************************************************************************)

\* doRecoverRecord finds the record,
OpFind(t, i) ==
  /\ opTask[t] = NoTask
  /\ recover[i] # "NONE" /\ ops < MaxOps
  /\ ops' = ops + 1
  /\ opTask' = [opTask EXCEPT ![t] = [phase |-> "found", id |-> i]]
  /\ UNCHANGED <<queues, eq, tables, eqTask, poller, keeper, history, faults>>

\* checkOutRecover: an update whatever the state of the record is by now, with no
\* effect when it is gone.
CheckOutRecover(i) ==
  recover' = [recover EXCEPT ![i] = IF @ = "NONE" THEN @ ELSE "IN_RECOVER"]

\* checks it out,
OpCheckOut(t) ==
  /\ opTask[t].phase = "found"
  /\ CheckOutRecover(opTask[t].id)
  /\ opTask' = [opTask EXCEPT ![t].phase = "out"]
  /\ UNCHANGED <<queues, eq, lastId, owner, interval, retried, eqTask, poller, keeper,
                 history, ops, faults>>

\* (the update throws, done or not, and the request ends)
OpCheckOutThrows(t) ==
  /\ opTask[t].phase = "found"
  /\ CheckOutRecover(opTask[t].id) \/ UNCHANGED recover
  /\ opTask' = [opTask EXCEPT ![t] = NoTask]
  /\ Spend(1)
  /\ UNCHANGED <<queues, eq, lastId, owner, interval, retried, eqTask, poller, keeper,
                 history, ops>>

\* and sends what it found; with no template for the queue, or when the publish
\* throws, the record stays as it is.
OpSend(t) ==
  /\ opTask[t].phase = "out"
  /\ LET i == opTask[t].id
     IN  \/ /\ retryQ' = [retryQ EXCEPT ![owner[i]] =
                          Append(@, [id |-> i, retried |-> 0, fromRecover |-> TRUE])]
            /\ Spend(0)
         \/ UNCHANGED retryQ /\ Spend(1)
  /\ opTask' = [opTask EXCEPT ![t] = NoTask]
  /\ UNCHANGED <<bizQ, eq, tables, eqTask, poller, keeper, history, ops>>

\* deleteRecoverRecord, from a page that may be stale.
OpDelete(i) ==
  /\ recover[i] # "NONE"
  /\ recover' = [recover EXCEPT ![i] = "NONE"]
  /\ discarded' = discarded \cup {owner[i]}
  /\ UNCHANGED <<queues, eq, lastId, owner, interval, retried, eqTask, poller, keeper,
                 done, dropped, faults, operator>>

-----------------------------------------------------------------------------

InEqTask == UNION {Range(eqTask[w]) : w \in EqWorker}

\* The center's process dies and is started again: what its threads held is
\* gone, the tables and the queues stay.
CenterCrash ==
  /\ eqTask' = [w \in EqWorker |-> << >>]
  /\ polled' = Idle
  /\ sendTask' = [w \in SendWorker |-> NoRecord]
  /\ hkList' = {} /\ hkTask' = {} /\ hkPermit' = TRUE
  /\ opTask' = [t \in WebThread |-> NoTask]
  /\ dropped' = dropped \cup {q.msg : q \in {r \in InEqTask : Carries(r)}}
  /\ Spend(1)
  /\ UNCHANGED <<queues, eq, tables, done, discarded, ops>>

Next ==
  \/ \E m \in Msg : Consume(m)
  \/ \E w \in EqWorker : EqDrain(w) \/ EqProcess(w) \/ EqProcessFails(w)
  \/ PollRead \/ CheckOut \/ CheckOutThrows
  \/ \E w \in SendWorker : HandOff(w) \/ SendCopy(w)
  \/ \E s \in SUBSET Id : HkRead(s)
  \/ HkAcquire \/ HkExecute \/ HkAborts
  \/ \E t \in WebThread :
       (\E i \in Id : OpFind(t, i)) \/ OpCheckOut(t) \/ OpCheckOutThrows(t) \/ OpSend(t)
  \/ \E i \in Id : OpDelete(i)
  \/ CenterCrash

Spec == Init /\ [][Next]_vars

\* The listeners, the scheduler threads and the pool threads keep running; an
\* orphaned record is overdue in the end.  Nothing is asked of the operator,
\* of the faults, or of the outcome of the business handler.
Fairness ==
  /\ \A m \in Msg : WF_vars(Consume(m))
  /\ \A w \in EqWorker : WF_vars(EqDrain(w)) /\ WF_vars(EqProcess(w))
  /\ WF_vars(PollRead) /\ WF_vars(CheckOut)
  /\ \A w \in SendWorker : WF_vars(HandOff(w)) /\ WF_vars(SendCopy(w))
  /\ \A i \in Id : WF_vars(\E s \in SUBSET Id : i \in s /\ HkRead(s))
  /\ WF_vars(HkAcquire) /\ WF_vars(HkExecute)

FairSpec == Spec /\ Fairness

-----------------------------------------------------------------------------
(***************************************************************************)
(* Properties.                                                             *)
(***************************************************************************)

Pending == Range(eq) \cup InEqTask   \* requests that reached the EQ

\* Types.
TypeOK ==
  /\ bizQ \subseteq Msg
  /\ retryQ \in [Msg -> Seq(Copy)]
  /\ eq \in Seq(Request)
  /\ lastId \in Id0
  /\ owner \in [Id -> Msg \cup {NoMsg}]
  /\ interval \in [Id -> {"NONE", "TO_RETRY", "IN_RETRY"}]
  /\ retried \in [Id -> Nat]
  /\ recover \in [Id -> {"NONE", "TO_RECOVER", "IN_RECOVER"}]
  /\ eqTask \in [EqWorker -> Seq(Request)]
  /\ polled \in [phase : {"idle", "read", "out"}, id : Id0, retried : Nat]
  /\ sendTask \in [SendWorker -> [id : Id0, retried : Nat]]
  /\ hkList \subseteq Id /\ hkTask \subseteq Id /\ hkPermit \in BOOLEAN
  /\ done \subseteq Msg /\ discarded \subseteq Msg /\ dropped \subseteq Msg
  /\ opTask \in [WebThread -> [phase : {"idle", "found", "out"}, id : Id0]]
  /\ faults \in 0 .. MaxFaults /\ ops \in 0 .. MaxOps

HasRecord(m) == \E i \in Id : owner[i] = m /\ (interval[i] # "NONE" \/ recover[i] # "NONE")
Parked(m)    == \E i \in Id : owner[i] = m /\ recover[i] # "NONE"

\* A copy that can still lead to a retry or to a recover record by itself.
InFlight(m) == \/ m \in bizQ
               \/ \E c \in Range(retryQ[m]) : c.id = 0
               \/ \E q \in Pending : q.msg = m /\ Carries(q)

Excused(m) == m \in discarded \cup dropped

\* Whatever fails, a message whose handler never succeeded is still somewhere:
\* waiting for a delivery, in a table, or in a request that creates its record;
\* unless an operator deleted its record, an EQ task lost it from memory, or the
\* center ignored the request of a message that has no record (Forgets).
NothingVanishes == \A m \in Msg : m \in done \/ Excused(m) \/ InFlight(m) \/ HasRecord(m)

\* The same message id in both tables: every transaction that wants to move it
\* rolls back, a house-keeping batch with all its other records.
Poisoned(i) == interval[i] # "NONE" /\ recover[i] # "NONE"

\* The two tables hold the same message id only where a queue that was retried
\* at intervals has been redeployed as DIRECT_TO_RECOVER: but for that, the
\* moves of doIntervalMessageRecover and doHouseKeep (with its stale list) are
\* exact.
Switched(m) == SomeDirect(m) /\ SomeAtIntervals(m)
OneTable == \A i \in Id : Poisoned(i) => Switched(owner[i])

AllTimes(m) == {c.retried : c \in Range(retryQ[m])}
               \cup {retried[i] : i \in {j \in Id : owner[j] = m}}
               \cup {q.retried : q \in {r \in Pending : r.msg = m}}

\* retriedTimes, pre-increased by the client and stored, read, sent and
\* failed over by three processes, never passes maxRetryTimes.
RetriedBounded == \A m \in Msg : AllTimes(m) \subseteq Times(m)

\* Every id that is in use anywhere - in a copy of a retry queue, in a request
\* of the EQ, in the hands of a task or of a web thread - was handed out for the
\* very message it is used for, ids that were not handed out have no record, and
\* an id is missing only where the code will create a record - or where the
\* queue has been redeployed from immediate to interval retries.
RefersTo(i, m) == i <= lastId /\ owner[i] = m

CopyOK(m, c) ==
  /\ c.id # 0 => RefersTo(c.id, m)
  /\ c.retried \in Times(m)
  /\ IF c.fromRecover THEN c.id # 0
     ELSE IF c.id = 0 THEN SomeAtOnce(m) ELSE SomeAtIntervals(m)

Cleans(q) == q.kind \in {"CLEAN_RECOVER", "CLEAN_INTERVAL_RETRY"}

\* Which queues can cause a request without, and with, an id.
RequestIdOK(q) ==
  LET m == q.msg
  IN  /\ q.id # 0 => RefersTo(q.id, m)
      /\ q.retried \in Times(m)
      /\ q.kind \in {"CLEAN_RECOVER", "RESEND_FOR_RECOVER"} => q.id # 0
      /\ q.kind = "CLEAN_INTERVAL_RETRY" => q.id # 0 \/ SomeAtOnce(m)
      /\ q.kind = "INTERVAL_MSG_DO__RETRY" => SomeAtIntervals(m)
      /\ q.kind = "INTERVAL_MSG_DO_RECOVER" => SomeAtIntervals(m) /\ (q.id # 0 \/ SomeAtOnce(m))
      /\ q.kind = "IMMEDIATE_MSG_DO_RECOVER" => SomeAtOnce(m) /\ (q.id = 0 \/ SomeAtIntervals(m))
      /\ q.kind = "MSG_DIRECT_TO_RECOVER" => SomeDirect(m) /\ (q.id = 0 \/ SomeAtIntervals(m))

RequestOK(q) == RequestIdOK(q) /\ (Cleans(q) => q.msg \in done)

HeldOK(r) ==
  /\ r.id \in 1 .. lastId
  /\ r.retried \in Times(owner[r.id])
  /\ SomeAtIntervals(owner[r.id])

RecordOK(i) ==
  IF i <= lastId
  THEN /\ owner[i] \in Msg
       /\ retried[i] \in Times(owner[i])
       /\ interval[i] # "NONE" => SomeAtIntervals(owner[i])
  ELSE interval[i] = "NONE" /\ recover[i] = "NONE" /\ retried[i] = 0 /\ owner[i] = NoMsg

IdsMatch ==
  /\ \A i \in Id : RecordOK(i)
  /\ \A m \in Msg : \A c \in Range(retryQ[m]) : CopyOK(m, c)
  /\ \A q \in Pending : RequestOK(q)
  /\ polled.phase = "idle" \/ HeldOK(polled)
  /\ \A w \in SendWorker : sendTask[w] = NoRecord \/ HeldOK(sendTask[w])
  /\ \A t \in WebThread : opTask[t] = NoTask \/ opTask[t].id \in 1 .. lastId
  /\ hkList \cup hkTask \subseteq 1 .. lastId

\* The inductive invariant.
IInv == TypeOK /\ IdsMatch /\ OneTable

\* A client's answer to the retry of record i, still in the EQ.
Answers(q, i) == q.id = i /\ q.kind \in
  {"CLEAN_INTERVAL_RETRY", "INTERVAL_MSG_DO__RETRY", "INTERVAL_MSG_DO_RECOVER"}

\* Who holds the interval_retry record i for a retry: the poller, a pool thread
\* about to send it, a copy in the retry queue, an answer in the EQ.
Holders(i) ==
  LET m == owner[i]
  IN  {<<"poller", 0>> : x \in {p \in {polled} : p.phase = "out" /\ p.id = i}}
      \cup {<<"sender", w>> : w \in {v \in SendWorker : sendTask[v].id = i}}
      \cup {<<"copy", k>> : k \in {n \in DOMAIN retryQ[m] :
                retryQ[m][n].id = i /\ ~retryQ[m][n].fromRecover}}
      \cup {<<"answer", k>> : k \in {n \in DOMAIN eq : Answers(eq[n], i)}}
      \cup UNION {{<<"task", w, k>> : k \in {n \in DOMAIN eqTask[w] : Answers(eqTask[w][n], i)}}
                  : w \in EqWorker}

\* Checking a record out locks it, and each fault costs the lock at most one
\* holder: a record to be retried has no more holders than there have been
\* faults, a checked-out one has one more, whatever house keeping, operators and
\* late requests of the EQ do (a request that goes through the EQ is no fault).
\* As long as nothing fails, a record to be retried is therefore held by nobody,
\* and a checked-out one by at most one holder.
IntervalLock ==
  \A i \in Id :
    /\ interval[i] = "TO_RETRY" => Cardinality(Holders(i)) <= faults
    /\ interval[i] = "IN_RETRY" => Cardinality(Holders(i)) <= faults + 1

\* A record in recovery is stranded when nothing leads out of that state any more:
\* no web thread that is about to send it, no copy in its retry queue, no answer to
\* one in the EQ.  (The page offers no recover link for it.)
RecoverAnswer(q) == q.kind \in {"CLEAN_RECOVER", "RESEND_FOR_RECOVER"}

Backed(i) ==
  \/ \E t \in WebThread : opTask[t].phase = "out" /\ opTask[t].id = i
  \/ \E c \in Range(retryQ[owner[i]]) : c.id = i /\ c.fromRecover
  \/ \E q \in Pending : q.id = i /\ RecoverAnswer(q)

Stranded == {i \in Id : recover[i] = "IN_RECOVER" /\ ~Backed(i)}

\* What the center alone remembers: records its web threads work on, answers
\* its EQ tasks have drained.
InMemory == {opTask[t].id : t \in WebThread}
            \cup {q.id : q \in {r \in InEqTask : RecoverAnswer(r)}}

\* Only a fault strands a record in recovery, and only one that hits the center
\* while the record is in its memory: whatever the clients lose, repeat or
\* redeliver and however late an answer is processed, a record gets
\* stranded in no other way.
StrandedByFault ==
  [][LET new == Stranded' \ Stranded
     IN  new # {} => faults' > faults /\ new \subseteq InMemory]_vars

\* "[A checked-out record] can't be checked out again (like a lock)": there is
\* at most one copy of a recover record in its retry queue.
RecoverLock ==
  faults = 0 =>
    \A m \in Msg : \A k1, k2 \in DOMAIN retryQ[m] :
      LET c1 == retryQ[m][k1]
          c2 == retryQ[m][k2]
      IN  (c1.id = c2.id /\ c1.fromRecover /\ c2.fromRecover) => k1 = k2

\* A recover request of an operator leads to one retry at most: whatever is
\* redelivered, repeated or lost, there are never more copies from the recover
\* table than there have been requests, those not carried out yet included.
RecoveryNotMultiplied ==
  \A m \in Msg :
    Cardinality({k \in DOMAIN retryQ[m] : retryQ[m][k].fromRecover})
      + Cardinality({t \in WebThread : opTask[t] # NoTask /\ owner[opTask[t].id] = m}) <= ops

\* A message of a DIRECT_TO_RECOVER queue reaches the recover table: its request
\* is never thrown away while nothing fails.
DirectIsKept ==
  \A m \in Msg : (\A cfg \in Configs[m] : ShouldDirectToRecover(cfg)) => m \notin dropped

\* The messages to be retried for ever, however their queue is redeployed.
Endless == {m \in Msg : \A cfg \in Configs[m] : IsInfinite(cfg)}

\* A message to be retried for ever does not end in the recover table: house
\* keeping puts an orphaned record back to TO_RETRY.
InfiniteKeepsRetrying == \A m \in Endless : ~Parked(m)

\* What does put it there is house keeping only, with one of the records it has
\* found checked out for too long: whatever is repeated, overtaken or lost, and
\* whether the queue retries for ever at once, at intervals, or is redeployed from
\* one to the other, nothing ever takes the message for retried often enough.
InfiniteParkedByKeeper ==
  [][\A i \in Id : recover[i] = "NONE" /\ recover'[i] # "NONE" /\ owner'[i] \in Endless
                     => i \in hkTask]_vars

\* RetryCenter implements RetryContract: handled is final, a recover record
\* leaves its table only when its message is handled or an operator discards
\* it, and nothing vanishes that is not excused.
Status(m) == IF m \in done THEN "handled"
             ELSE IF Parked(m) THEN "recoverable"
             ELSE IF InFlight(m) \/ HasRecord(m) \/ retryQ[m] # << >> THEN "retrying"
             ELSE "vanished"
Contract == INSTANCE RetryContract
              WITH status <- [m \in Msg |-> Status(m)], excused <- discarded \cup dropped
ImplementsContract == Contract!Spec

\* Every message of a queue whose retries are limited is handled, or
\* recoverable, or excused in the end, unless the semaphore of house keeping has
\* been lost, or an id in both tables keeps house keeping from moving anything.
Settled(m) == m \in done \/ Parked(m) \/ Excused(m)
Limited(m) == \A cfg \in Configs[m] : ShouldRetryByConfig(cfg) /\ ~IsInfinite(cfg)
SemaphoreLost == ~hkPermit /\ hkTask = {}
EverySettles ==
  \A m \in Msg : Limited(m) =>
    <>(Settled(m) \/ SemaphoreLost \/ \E i \in Id : Poisoned(i))
=============================================================================
