# A TLA+ model of MRF (Message Retry Framework)

MRF retries failed RabbitMQ messages. A *client* wraps the listeners of its business
queues; when a handler throws, the client asks the *center* (a thrift service with a
MySQL database and three background tasks) to keep the message and to send it again
later to the retry queue of its business queue. Messages that have failed too often end
in a table from which an operator recovers or deletes them on a web page.

This directory holds TLA+ modules translated from the Java source, TLC configurations
that check them on small instances, and TLAPS proofs that hold for every value of the
constants. Paths below are relative to `src/`; `center`, `client` and `core` stand for
`mrf-center/src/main/java/com/nali/mrfcenter`, `mrf-client/.../mrfclient` and
`mrf-core/.../mrfcore`.

## 1. The system

| component | state | operations | where |
|---|---|---|---|
| business message listeners (client) | none of their own; the business queue and the retry queue (RabbitMQ) | `onMessage`, `doRetry`, `doRecover`, `doCleanup`, `resendForRecover` | `client/message` |
| thrift call and fail-over | the exception queue, EQ (RabbitMQ) | `sendRetryMessageForProcess`, `doFailOver`, `process` | `client/thrift`, `center/thrift/MRFServiceImpl` |
| message processing services | tables `interval_retry`, `recover`; the id generator | `cleanRecover`, `cleanIntervalRetry`, `resendForRecover`, `doIntervalMessageRetry`, `doIntervalMessageRecover`, `doImmediateMessageRecover`, `doMessageDirectToRecover` | `center/service/MRFMessageProcessService`, `center/dao` |
| exception-queue task | the drained batches in memory | drain, process one request after the other | `center/poll/PollEQTaskSchedulerThread` |
| interval-retry task | the record it holds; the records handed to its pool | read the most urgent, check out, wait, hand off, send | `center/poll/PollIntervalRetryTaskSchedulerThread` |
| house-keeping task | the overdue records it has read; a static semaphore | read, acquire, move to `recover`, release | `center/poll/HouseKeepSchedulerThread` |
| recover page | none (a page that may be stale) | recover, delete, and both in batches | `center/service/MRFRecoverService` |
| thread pool | lists of available and busy workers, a flag and a Runnable per thread | `runInThread`, `blockForAvailableThreads`, `makeAvailable`, `shutdown` | `center/poll/SimpleThreadPool` |
| scheduler threads | paused, halted, hasExecutedOnce per thread | main loop, `togglePause`, `halt`, `shutDown` | `center/poll/PollTaskSchedulerThread`, `PollTaskScheduler` |
| registration | table `client_config`, map of retry templates | `registerRetryService`, `updateClientConfig` | `center/service/MRFRegisterService` |
| retry configuration | none: pure functions of the configured numbers | `getMessageRetryMode`, `isImmediateRetryMessage`, `shouldRetryByConfig`, `shouldDirectToRecover`, ... | `client/service/RetryQueueConfigHelper` |
| start and stop of the center | singletons | `init`, `destroy`, `clearAllResources` | `center/service/MRFServerCenterStarter`, `MRFServerResources` |
| monitor thread, web paging, serializers, generated thrift code | none that matters here | read, format | not modelled |

How they interact: a client consumer, inside a delivery, calls the center by thrift (one
request, one reply) and falls back to publishing the request to the EQ. The center's
tasks each have a scheduler thread that constructs a task and hands it to a pool; they
share the two tables, one SQL statement at a time (two in a transaction in
`JoinDAOImpl`). The interval-retry task and the recover page publish copies to retry
queues, which the clients consume. All of this runs concurrently and nothing but the
database, the brokers and one semaphore synchronizes it.

What is hard: redelivery of what was processed already; a request processed by the
center whose reply is lost and which is processed again out of the EQ, much later, when
its record has moved on; the check-out (read, then update) of a record against house
keeping and late requests; lists read before a wait and used after it; messages that
exist only in the memory of a task; exceptions that skip a release; the hand-over of a
job against the shutdown of a pool. `PROJECT.json` lists each of these as a hazard, at
its line.

What makes the components correct:

* clients, services, tasks and tables together: a message stays in the care of the
  framework until its handler succeeds; ids and counters are never mixed up; a message
  id is in one table; a checked-out record is held once; what is checked out for
  recovery comes back; every finitely retried message settles; a retry is not much later
  than its interval; house keeping parks what has been abandoned, and nothing else;
* the pool: a job runs at most once and to its end, workers do not leak,
  `shutdown(true)` returns, and only when no job is left;
* scheduler threads: every round ends, `shutDown(true)` returns and leaves nothing
  running, a hand-over finds the worker that was asked for, the permit of house keeping
  is in one place;
* registration: a client that counts as registered has a row and a template, also after
  a restart; a client that is refused by a stale cache gets in later; a changed
  configuration is stored.

## 2. The modules

| module | what it is |
|---|---|
| `RetryModes` | what a configured interval and number of retries mean |
| `RetryContract` | abstract: a message is retrying, recoverable, handled or (when excused) vanished |
| `RetryCenter` | clients, thrift call, EQ, tables, the three tasks, the operator, crashes; refines `RetryContract` |
| `MCRetryCenter` | values of the constants for TLC |
| `RetryCenter_proofs` | proofs about `RetryCenter` and `RetryModes` |
| `RetryLock_proofs` | the proof of the lock of `interval_retry` records, by counting their holders; extends `RetryCenter_proofs` |
| `RetryRecoveries_proofs` | proofs about the recover table: recoveries are not multiplied, and who parks a message retried for ever; extends `RetryLock_proofs` |
| `RetryTiming` | the times of `interval_retry` records: the waiting poller, the threshold of house keeping |
| `MCRetryTiming` | values of the constants for TLC |
| `RetryTiming_proofs` | proofs about `RetryTiming` |
| `ThreadPoolContract` | abstract: a job is new, given, running or finished; a pool closes when nothing is given or running |
| `PoolView` | abstract: how many jobs a pool has not ended, whether it is open; what its user sees of it |
| `SimpleThreadPool` | the pool; refines `ThreadPoolContract` and `PoolView` |
| `SimpleThreadPool_proofs` | proofs about `SimpleThreadPool` |
| `SchedulerThreads` | the three scheduler threads, their pools as `PoolView` shows them, start and stop of the center |
| `MCSchedulerThreads` | values of the constants for TLC |
| `SchedulerThreads_proofs` | proofs about `SchedulerThreads` |
| `ClientRegistration` | clients that register a retry queue, `client_config` with its cache, the template map, restarts |
| `MCClientRegistration` | values of the constants for TLC |
| `ClientRegistration_proofs` | proofs about `ClientRegistration` |

### RetryModes

`setRetryInterval` and `setRetryTimes` make every negative number -1
(`NewRetryQueueConfig`), and `GetMessageRetryMode` sorts the pairs into six modes and
the rest, `UNSUPPORTED_RETRY_MODE`. The listeners do not ask for the mode but for four
predicates, which are defined as the code defines them: `IsImmediate` looks at the
interval only, so that -1/3, 0/-1 or 60/0 are all retried, -1/3 and 60/0 at intervals.
`Retries` is the set of `retriedTimes` such a queue can cause.

### RetryCenter

State. `bizQ` and `retryQ` are the broker's queues, `eq` the exception queue. The
database is `owner`, `interval`, `retried` and `recover`, functions from message ids (an
id without a record has state `"NONE"`); `lastId` is the id generator. `eqTask`,
`polled`, `sendTask`, `hkList`, `hkTask` and `hkPermit` are what the tasks hold in
memory; `opTask`, per web thread of the recover page, the record it has found, or has
checked out and not sent yet. `done`, `discarded` and
`dropped` are history: the messages whose handler has succeeded, whose record an
operator has deleted, and whose only trace an EQ task has lost or the center has
ignored. `faults` and `ops` count towards bounds.

Abstractions. One business queue has one message followed on it. `Configs[m]` are the
configurations with which the instances of its service are deployed; while the service
is redeployed with another one there are two or more, and each delivery meets any of
them. Times are abstract: a record may fall due, or pass the threshold of house keeping,
at any moment. Which record is the most urgent is left open. (`RetryTiming` is about
times.)

Actions. `Consume(m)` is one delivery, from `onMessage` to its acknowledgement: the
handler succeeds or throws, the request goes to the center or to the EQ or to both
(`Submit`), the acknowledgement is lost or not (`Settle`). It is one step because the
parts of it that others can see, one request and one acknowledgement, are separated only
by the outcomes `Submit` and `Settle` already offer. `Process` dispatches a request as
`MRFServiceImpl.process` does, one operator per service method. A service fails when the
unique key of `recover` refuses the record (`Refused`), and acknowledges an
`INTERVAL_MSG_DO_RECOVER` without an id although it has done nothing for it (`Forgets`;
the message was sent by an immediate queue that has since become an interval one).
`EqDrain`, `EqProcess` and `EqProcessFails` are the EQ task; `PollRead`, `CheckOut`,
`CheckOutThrows`, `HandOff` and `SendCopy` the interval-retry task; `HkRead`,
`HkAcquire`, `HkExecute` and `HkAborts` house keeping; `OpFind`, `OpCheckOut`,
`OpCheckOutThrows`, `OpSend` and `OpDelete` the recover page, whose check-out is
committed (`MRFRecoverService:106`) before the template is looked up and the message
sent (`:112-115`), so that a record in recovery without a copy can be seen;
`CenterCrash` the death and restart of the center. Every fault (a lost reply, a
redelivery, an exception of the database or of a publish, a crash) is counted by
`Spend`; a request that goes through the EQ is normal operation and is not counted.

Left out because it changes nothing: a delivery that is rethrown and requeued (an
ignored throwable, a failed fail-over), a malformed copy that the retry listener drops,
a batch request of the page (a sequence of single ones).

What redeployment can do, all of it in the runs:

* From immediate to interval retries: the message in the retry queue has no id. If its
  next delivery is its last one, its request is forgotten, and the message with it. It
  is then in `dropped`, which excuses it.
* From interval to direct: the message gets a `recover` record with the id of its
  `interval_retry` record, which stays (`Poisoned`). Every house-keeping batch that has
  this id rolls back from then on, and the batch has all overdue records. `EverySettles`
  therefore excepts this state; without the exception TLC finds it violated.
* From interval to immediate, or to no retries: the record of a message that is then
  handled is not cleaned up. It stays checked out until house keeping parks it, and an
  operator sees a message to recover that was handled long ago.

### RetryTiming

State. `state`, `due` and `out` are the columns of `interval_retry` that times depend
on, per message; `polled` is the record that the poller holds and the time it waits for;
`client` the messages a client has; `hkAt` when house keeping reads next; `now` the time
in seconds from a midnight. A record that left the table has become `"PARKED"` or
`"LEFT"`.

Actions. `DoIntervalMessageRetry` stores a record that is due an interval later, or
checks it in again; `LeaveTable` is the end of a message. `ConstructPollTask` checks out
the most urgent record at once, also when its time is to come, as the code does, and
`Execute` sends it when it has come; `HouseKeep` parks what `OutOfThreshold` says, and
waits when there is nothing; `Restart` forgets the poller's record. `Tick` lets the time
pass, to one of `Moments`, but no wait of the center beyond its end: the center needs no
time for what it does, the poller's idle wait of half a second counts as none, and the
clocks of the center and of the database are one and show whole seconds. A client may
take any time.

`OutOfThreshold` is the comparison in `IntervalRetry.xml`: MySQL makes the DATETIME a
number, YYYYMMDDHHMMSS, and adds the threshold in seconds, 7200, to that number
(`AsNumber`, external). As digits of such a number 7200 is 72 minutes, and the number
skips 40 at the end of a minute, and 4000 more at the end of an hour. The documented two
hours (`mrf-center.properties:31-33`) are therefore 32 minutes and a second to 60
minutes on one day, depending on the time of the check-out (`00:28:00` gives 2800 + 7200
= 10000, which `01:00:01` exceeds), and at midnight every checked-out record is overdue,
one of a minute ago as well. Because a record is checked out before its time and waits
in the poller, a queue with an interval of more than about an hour has every record
parked while it waits, and sent to the client all the same.

### SimpleThreadPool

State. `avail`, `busy` (the two lists, as sets), `run`, `runnable` and `pc` of every
thread, `waiting` (the job with which `runInThread` waits), `todo` and `finished`
(jobs), `shut` (where `shutdown(true)` is). `isShutdown` and `handoffPending` of the
code follow from `shut` and `waiting`. A worker is at the `top` of its loop, in the
`inner` wait, at `work`, in the finally block before (`fin`) or after (`release`) the
Runnable is reset, or has `exited`.

A block synchronized on `nextRunnableLock` is one step, and `shutdown` keeps the lock
between two of its waits when the second need not wait (`NextWait`), and while it joins
(`LockFree`). There is one caller of `runInThread`, because every pool of the center has
one scheduler thread. That thread asks `blockForAvailableThreads` first, which changes
nothing; the model lets it call `runInThread` without asking, as the interface allows,
so that the wait in `runInThread` is covered as well.

Two abstract specifications say what the pool promises. `ThreadPoolContract` follows
each job from `runInThread` to its end. `PoolView` is what the user of the pool needs to
know: the number of threads that hold a job, whether the pool is open, being drained or
closed, whether a hand-over waits, and whether the shutdown has stranded a job.
`ImplementsView` maps `jobs` to the number of busy threads, so that it says of every
step that a hand-over takes exactly one thread, the end of a job frees exactly one, and
`shutdown(true)` gets past its waits exactly when nobody has a job.

### SchedulerThreads

RetryCenter takes it for granted that the scheduler threads go round; this module is
about whether they do. `pc[s]` is where thread `s` (`"eq"`, `"hk"`, `"ir"`) is in the
main loop of `PollTaskSchedulerThread.run`; `paused`, `halted` and `once` are its flags;
`jobs`, `pool` and `stranded` are its pool, a `PoolView`: the number of jobs that have
not ended, whether it is open, and whether its shutdown has stranded one (the defect
that the run `pool_stranded` shows). `permit` is the semaphore of house keeping, `lost`
the history that its permit was taken and will not be released. `deployment`, `stage`
and `who` are the main program: `start` unpauses the three threads; a console program is
stopped by `shutDown(true)`, which halts and joins the threads and then shuts the pools
down; a web application by `destroy`, which shuts the pools down only.

One action per segment of the loop between two points where another thread can matter.
What a task is and does is left out: `constructPollTask` finds work, finds none, or
throws (`Throwing`; after `destroy` has cleared the resources anything may). `ImplementsViews`
ties the two modules together: all that the threads and the main program do to a pool
are steps of the `PoolView` that `SimpleThreadPool` implements, and since a hand-over
never waits (`HandOverNeverWaits`) its `pending` is FALSE. `notifyAll` is
left out, as every wait of the loop is timed and re-reads its condition; therefore a
missed notification delays a step and disables none.

### ClientRegistration

`table` is `client_config`, `cache` the iBATIS cache in front of it (`ClientConfig.xml`:
flushed by an insert, and every two hours), `template` the entry of
`retryRabbitTemplateMap`, all for one retry queue; `config[i]` is the broker address
with which client instance `i` registers, `pc[i]` and `list[i]` where the thread of the
center that serves its request is and what it has fetched. `registerRetryService` reads
all configurations twice, and each read either finds the cache filled (`CacheHit`) or
executes the statement (`CacheMiss`) and then fills the cache (`CacheFill`): a fill may
come after the flush of an insert that happened in between. Then it adds or updates, and
sets the template. A failed statement fails the request and the start of the client; a
center that restarts sets the template from the table. A request whose client has died
goes on in the center; the model has that as another instance of the same service.

Two services that use one name of a queue share a template, whatever their brokers: the
model has them, and for that reason no property says that the template is the latest
one.

## 3. The runs

Deadlock is checked in `register` and `timing`. The other systems really may stop: in
RetryCenter every message can be handled with all queues and tables empty; in the pool
all jobs are done and the pool is idle or shut down; a stopped console program has no
threads left.

| run | instance | checks |
|---|---|---|
| `center_safety` | one failing message, of a queue with one interval retry, with two immediate ones, direct, redeployed between one immediate retry, 0 interval ones and none, or redeployed between immediate and interval retries for ever; two EQ threads, one sender, 3 ids, 1 fault, 1 operator request by one web thread (of the redeployed ones a fault or a request) | `TypeOK IdsMatch NothingVanishes OneTable RetriedBounded IntervalLock RecoveryNotMultiplied`, the action properties `StrandedByFault InfiniteParkedByKeeper`, and the refinement `ImplementsContract` |
| `center_liveness` | an interval queue, a direct one, and one redeployed from interval to direct; two messages fail, or one fails and there is 1 fault; `TwoFailSpec` has the fairness of `FairSpec` | `EverySettles`, `ImplementsContract` |
| `timing` | intervals of 640, 1920 and 4480 seconds, threshold 7200000 ms, idle wait of 640 seconds, from 22:28:00 on; the clock advances to any multiple of 640 seconds after the start, up to 00:25:20, or to 23:00:01 or 23:10:41 | `TypeOK LatenessBounded AbandonedIsParked`, and `ParkedInALaterHour ShortWaitIsNotParked` |
| `center_direct_via_eq` | a direct message | violates `DirectIsKept` |
| `center_recover_lock` | an interval message, two operator requests by two web threads, no fault | violates `RecoverLock` |
| `center_infinite` | an interval message retried for ever | violates `InfiniteKeepsRetrying` |
| `pool` | two workers, three jobs, `FairSpec` | all properties of the pool, and the refinements `ImplementsContract ImplementsView` |
| `pool_stranded` | two workers, two jobs | violates `NoJobStranded` |
| `sched` | three threads, pools of 1, 1 and 2, both deployments, a throwing house keeping, `FairSpec` | `TypeOK ClosedIsQuiet PermitConserved HandOverNeverWaits NoCircularWait`, the refinement `ImplementsViews`, and `StopReturns RoundsEnd` |
| `sched_never_zero` | the same | violates `NeverZero` |
| `register` | two instances of one service, one of which moves between two brokers, an instance of another service, 1 fault, `FairSpec` | `TypeOK Served CacheOnlyMisses EventuallyUp` |
| `register_update` | one instance, two brokers, no fault | violates `UpdateStores` |

Bounds, and why they are enough. `MaxId` bounds the ids the generator hands out: a
message needs one; two more let duplicates of the first delivery create further records
of the same message, which is what the properties about ids are sensitive to. `MaxFaults
= 1` allows each fault once, at any moment; a request through the EQ is free, so late
and overtaking requests do not need a fault. Two EQ threads are needed for two drained
batches to be processed out of order. One retry is enough to pass through first
delivery, retry, maximum reached and recover; the immediate queue uses two. A message of
a queue that is being redeployed meets a fault or an operator, but not both
(`OneFailsSpec`): both together are left to the other messages and to the proofs. `MaxOps`
counts recover requests; two are needed for a double recover, and two web threads
to carry them out at once. Messages of different
queues share no record and no queue but the EQ, the threads and the house-keeping batch:
one failing message at a time (`center_safety`) covers everything but batches, which
`center_liveness` has with two. `timing` needs an interval above and two below the 32
minutes and a second after which a record can be parked, a start late enough to reach
midnight with records under way, and moments that do not divide the hour, so that
check-outs come at many places of it. A check-out at 22:28:00 can be parked at 23:00:01
at the earliest, one of the two moments off the grid, which is what `ParkedInALaterHour`
is sensitive to. Two workers let one
be handed a job while the other ends its own, three jobs let one wait while both work,
and let another be submitted after the shutdown. In `sched` nothing is bounded but the
sizes of the pools; a pool of one makes its thread wait for the job before, a pool of
two has a worker free beside a job. `register` needs two instances of a service for two
inserts of the same row and a third request to fill the cache late; starts and stops are
not bounded, and the one fault may be a restart of the center. What the proofs show
holds without these bounds.

Fairness. `RetryCenter!Fairness` asks that the listeners consume, that scheduler threads
make their rounds (`PollTaskSchedulerThread.run` loops for ever) and pool threads finish
their tasks, and that an orphaned record is overdue at some time; not that a handler
succeeds, that an operator acts, or that a fault does or does not happen. `EverySettles`
excepts the case that the semaphore of house keeping is lost, which the code does
(`HouseKeepSchedulerThread:94-99`), and that an id is in both tables. It is about queues
whose retries are limited, `0` retries included. A delivery that is rethrown and requeued
is no step of the model, so the fairness of `Consume` also assumes that this does not go
on for ever: a client whose fail-over keeps failing, with the center away and the broker
refusing the EQ, redelivers its message for ever, and `EverySettles` does not speak of
it.

`SimpleThreadPool!Fairness` asks that a thread which can go on does, that jobs end, and
that a timed wait re-reads its condition (every wait of the code has a timeout of 100 to
2000 ms); not that jobs are submitted or shutdown is called.

`SchedulerThreads!Fairness` asks the same of the scheduler threads, of the jobs and of
the main program once it has been asked to stop, not that it is asked, and not that a
round finds work. Its liveness properties except the ways to hang that the code has
(`Hangs`, `NeverSignalled`): house keeping in the wait for the first round of an EQ
thread that has ended without one (`PollTaskSchedulerThread:185` does not look at
`halted`) or whose pool is shut down; house keeping in the wait for a permit that was
lost, also when a halt throws its task away (`PollTaskSchedulerThread:238-242`); and a
stranded job. The properties say that these are all. `RoundsEnd` is about one round: a
thread whose `constructPollTask` throws in every round ends its rounds and gets nowhere.
In the runs this is house keeping, which no other thread depends on; the EQ task catches
its exceptions.

`ClientRegistration!Fairness` asks that an instance that is off is started again, that
requests go on and that the cache is flushed at its interval.

What the violated properties say, all of them statements of the code base:

* `DirectIsKept`: the EQ task has no case for `MSG_DIRECT_TO_RECOVER`, so that a direct
  message whose request went through the EQ is lost.
* `RecoverLock`: "can't be checked out again (like a lock)" does not hold, the update
  has no condition on the state.
* `InfiniteKeepsRetrying`: house keeping does not activate overdue records, as its
  configuration says, but parks them, infinite ones included.
* `NoJobStranded`: a worker at the head of its loop that was just handed a job
  terminates with it when `shutdown` clears its flag; `shutdown(true)` then waits for
  ever. `EveryJobEnds` and `ShutdownEnds` show that this is the only way for a job to be
  lost and for the shutdown to hang.
* `NeverZero`: "should never happen, if threadPool.blockForAvailableThreads() follows
  contract" happens in the web application after `destroy`: the pools are shut down, the
  threads are not halted, and the loop continues without a wait.
* `UpdateStores`: "should update client config" does not happen, because
  `updateClientConfig` refuses valid configurations.

Every property of a passing run has a mutant in `PROJECT.json`: a definition marked
"seeded fault" in the module that, put in the place of the definition after it, makes
TLC find the property violated.

## 4. What is proved

`RetryCenter_proofs`, for any messages, any sets of deployed configurations, any threads
and any bounds, from `ConstantsAssumption` (types of the constants):

* `Inductive`: `IInv == TypeOK /\ IdsMatch /\ OneTable` is an invariant. The three need
  each other: that a move to `recover` finds no record there (`OneTable`; only queues
  redeployed from interval to direct are excepted) needs that ids in requests and tasks
  belong to the message they carry (`IdsMatch`), which needs that new ids are fresh and
  that counters are in range (`TypeOK`). `IdsMatch` says of every place an id can be
  (copy, request, drained request, poller, sender, house-keeping list, web thread,
  record) that it was handed out for that very message.
* `TypeCorrect`, `IdsCorrect`, `TablesApart`, `RetriesBounded` follow.
* `StrandsOnlyByFault`: `StrandedByFault`, faults included: a record in recovery that
  nothing leads out of gets so by a fault, and only while a web thread or an EQ task of
  the center has it in memory. Given `IInv`, `StrandedStep` follows what backs the record
  through every action: a web thread that has checked it out keeps it until its copy is
  in the queue (or the send fails); a copy leaves its queue only with the request that
  answers it; an answer is in the EQ or drained until it is processed, and then the
  record is not in recovery any more; what a web thread, a copy or an answer names is the
  record itself by `IdsMatch`. What is left are a failing send and the loss of what the
  center remembers.
* `RetryIsLocked` (in `RetryLock_proofs`): `IntervalLock`, which is a statement about
  every behaviour, faults included: a record to be retried has at most `faults` holders,
  a checked-out one at most `faults + 1`. There are five kinds of places that hold a
  record: the poller, a pool thread, a copy in the retry queue, an answer in the EQ, an
  answer an EQ thread has drained. `Total(i)` is the sum of their counts, and
  `HoldersCounted` shows that it bounds the number of holders. With `IInv`, a step adds
  no more to the total of a record than to the faults: a holder that gives the record on
  no longer has it (`LockHandOff`, `LockSendCopy`, `LockOwn`, `LockDrain`) unless a fault
  duplicates it; an answer that is processed and frees the record is a holder less
  (`LockProcess`); a check-out adds one, and moves the bound by one (`LockCheckOut`); a
  delivery does nothing to the records of other messages (`LockOther`), nor to a record
  that is created meanwhile, to which nothing can refer yet (`FreshBound`, from
  `IdsMatch`). House keeping and operators only remove records. The counting lemmas
  (`CountAppend`, `CountTail`, `CountCut`, `RowsChange`) are about the places of a
  sequence, or of a function to sequences, that hold an element of a given set.
* `RecoveriesCounted` (in `RetryRecoveries_proofs`): `RecoveryNotMultiplied`, by the same
  counting: of the copies from the recover table in a retry queue plus the web threads
  that still have one to send, no delivery, no redelivery, no retry and no request
  of the EQ makes more, a request adds one and carrying it out turns it into a copy.
  `SecondRequestUnlocks` follows: `RecoverLock`, which the code breaks, holds until a
  second request is made; no fault can break it.
* `OnlyTheKeeperParks` (ibid.): what `InfiniteKeepsRetrying` is violated by is house
  keeping and nothing else, which is `InfiniteParkedByKeeper`: a message all of whose
  configurations are infinite is put in `recover` only by the house-keeping task that
  was given the record. The invariant behind it is that no request in the EQ gives such
  a message up (`NoneGivenUp`); that clients send none is arithmetic on the configured
  numbers (`EndlessSends`), and that no other request makes a recover record is
  `OnlyGivingUpParks`.
* `OnlyZeroZeroIsNotRetried`: of all pairs of integers a queue can be configured with,
  only interval 0 with 0 retries leaves a failing message alone, that is, neither
  retries it nor sends it to `recover`; the comments say "don't retry" of every negative
  interval and of every 0 (`MessageConstants:54`, `RetryQueueConfig:21`).
* `NothingIsLost`: `NothingVanishes`. Given `IInv`, each step keeps every message
  accounted for: a copy that leaves a queue has put a record or a request in its place.
  One lemma per action.
* `Implements`: `RetryCenter` implements `RetryContract`; besides `IInv` and
  `NothingVanishes` it needs that a record only leaves `recover` by a clean-up of a
  handled message or by an operator.

`RetryTiming_proofs`, for any queues, intervals, idle waits, starts and moments, from
`TimingAssumption`, and, where house keeping is concerned, for the configured threshold
(`DefaultThreshold`, an assumption of the theorems themselves):

* `OutAfterAnHour`, `WithinHalfAnHour`, `OutAfterLeastTime`, `OutAtMidnight`: what the
  comparison of the numbers YYYYMMDDHHMMSS amounts to, by arithmetic on what a clock
  shows (a day, an hour, a minute, a second). An hour is always too long, on one day 32
  minutes are never too long, and 32 minutes and a second are too long for every
  check-out in the last 32 minutes of an hour: the bound is exact.
* `Inductive`: `IInv` joins types, `PollerAhead` (the poller waits no longer than the
  longest interval from the storing of any waiting record), `LatenessBounded` and
  `HkSeen` (house keeping reads again less than an hour and an idle wait after any
  check-out). `LatenessIsBounded` needs `PollerAhead`, `AbandonedAreParked` needs
  `HkSeen` and `OutAfterAnHour`.
* `NothingIsParkedEarly` and `ShortWaitsAreSafe` are about steps, and follow from `IInv`
  and `WithinHalfAnHour`: with the seconds the SELECT compares, nothing is parked in the
  hour of its check-out, nor on that day before 32 minutes and a second.

`SimpleThreadPool_proofs`, for any set of jobs and any finite set of workers, from
`ConstantsAssumption` (workers, jobs and `null` are told apart; the number of workers is
configured):

* `Inductive`: `IInv` joins types, `AvailIsIdle`, `NoLeak`, `BusyIsBusy` (a thread is
  busy exactly as long as it has a job or has not yet told the pool), where each thread
  can be (`ThreadOK`), that a job is in one place (`JobOK`) and that what shutdown has
  waited for does not come back (`ShutOK`). None of the safety properties is inductive
  alone: that an available worker has no Runnable needs that a released one has reset
  it, and that the join is safe needs that busy is exact.
* `TypeCorrect`, `HandOverIsSafe`, `WorkersAreKept`, `JoinIsSafe` follow.
* `Implements`: `SimpleThreadPool` implements `ThreadPoolContract`.
* `PoolShowsView`: it implements `PoolView`. This needs that the busy threads are finite
  (`BusyIsFinite`: the jobs need not be, but each hand-over adds one thread), that an
  available worker is one that is not busy, hence that `avail` is empty exactly when as
  many threads are busy as there are workers (`BusyCount`, from `NoLeak`), and that a
  stranded thread is busy and never runs, so that a job that ends is never the last one.

`SchedulerThreads_proofs`, for pools of any size and any `Throwing`, from
`ConstantsAssumption` (a pool has at least one thread):

* `Inductive`: `IInv` joins types, `HandOverNeverWaits`, `PermitPlaces` (the permit said
  place by place), `OnlyHkAcquires`, and `StopOrder`: which threads have ended and which
  pools are closed at each stage of the stop. `ClosedIsQuiet` needs that order, because
  a pool that is closed stays without jobs only if its thread has ended before. Nine
  kinds of steps of the main loop only move the thread, and are proved by one lemma
  (`MovesStep`).
* `TypeCorrect`, `ShutdownIsQuiet`, `PermitIsConserved`, `HandOverIsFree` follow.
* `PoolsAreViews`: `ImplementsViews`. A pool is shut down once only, while it is open,
  which is `StopOrder`, and a hand-over finds a free worker (`HandOverNeverWaits`).
* `WaitsAreOrdered`: `NoCircularWait`. Given `IInv` and `WaitOrder` (who is paused, who
  depends on whom, which pools can have stranded a job, which thread is joined), every
  wait of a thread is one for a running job, for the main program that is still to
  unpause it, or, of house keeping, for an EQ thread that waits for one of these at most;
  or it is one of the ways to hang. That these waits do end is liveness.
* `ConsoleNeverZero`: `NeverZero`, which the web application violates, is true of the
  console program.

`ClientRegistration_proofs`, for any instances, services, brokers and number of faults,
from `ConstantsAssumption`:

* `Inductive`: `IInv` joins types, `ReadsMiss` (what is cached, and what is fetched and
  still to be cached, only misses rows), `RowsStay` (a request that has seen or made its
  row, and a registered client, have it) and `TemplateFollows` (where there is a row
  there is a template or a request about to set it). `RowsStay` rests on `ReadsMiss`,
  because requests decide by what they read; both rest on rows never changing, which is
  so because the update does not happen.
* `TypeCorrect`, `CacheIsHonest`, `ClientsAreServed` follow.

Only model-checked: liveness (`EverySettles`, `EveryJobEnds`, `CallerReturns`,
`ShutdownEnds`, `StopReturns`, `RoundsEnd`, `EventuallyUp`), which is beyond the proof
system. Every invariant, every action property and every refinement that a passing run
checks is proved.

## 5. Plan

Nothing of the plan is left. What could come next: that every thread of the pool that is
busy has a step to take, or is stranded, or waits for the lock of the join, as
`NoCircularWait` says of the scheduler threads; and an abstract registration (a client
is off, asking or served) that `ClientRegistration` implements.

## 6. Not modelled

* The monitor thread reads counters and logs them.
* The web pages, paging and administration are input and output. What the recover page
  does to the tables is in `RetryCenter`. That it takes the id of a message as an int
  (`RecoverController:45`) is listed as a hazard; there is no model in which an id grows
  beyond 2^31.
* The JavaScript of the pages is jQuery and a pagination plug-in, in five copies of the
  same build: third-party code without a state of this system.
* Serializers, the wire format and the generated thrift code are conversions. The fields
  that matter are those of `Copy` and `Request`.
* The mock callers of the client stand for the center in tests.
* MySQL, RabbitMQ, thrift and iBATIS are external, and modelled by what the code relies
  on: statements and transactions one at a time, queues that redeliver what was not
  acknowledged, calls whose reply may be lost, a cache that is flushed by an insert.
  That a DATETIME in a numeric context is a number of digits is MySQL's as well.
* Of the start of the center, filling the singletons is left out, because nothing runs
  before it ends.
