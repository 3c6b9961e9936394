--------------------------- MODULE SimpleThreadPool ---------------------------
(***************************************************************************)
(* The thread pool of the center's tasks (poll/SimpleThreadPool.java): a   *)
(* scheduler thread that hands jobs over with runInThread, the pool's      *)
(* threads, and one call of shutdown(true).                                *)
(*                                                                         *)
(* A block synchronized on nextRunnableLock is one step; the wait() of     *)
(* runInThread and of shutdown end such a step.  A worker runs its job     *)
(* under a lock of its own, so its steps are those between two locks.      *)
(* Every wait of the code has a timeout and re-reads its condition, hence  *)
(* a waiting thread is just an action with that condition as its guard.    *)
(* Which available worker comes first in the list is left open.            *)
(*                                                                         *)
(* A "seeded fault" is used by the mutants of PROJECT.json only.           *)
(***************************************************************************)
EXTENDS FiniteSets

CONSTANTS Worker,   \* the threads initialize() starts
          Job,      \* the Runnables handed over, each once
          NoJob     \* null

ASSUME ConstantsAssumption ==
  /\ Worker \cap Job = {}
  /\ NoJob \notin Job
  /\ IsFiniteSet(Worker)     \* the configured size of the pool

\* After the shutdown a job gets a thread of its own ("WorkerThread-LastJob"),
\* which is named after the job.
Thread == Worker \cup Job

VARIABLES
  avail,     \* availWorkers
  busy,      \* busyWorkers
  run,       \* [Thread -> BOOLEAN]: the flag of WorkerThread
  runnable,  \* [Thread -> Job \cup {NoJob}]
  pc,        \* [Thread -> where its run() is]
  waiting,   \* the job with which runInThread waits for a worker, or NoJob
  todo,      \* jobs not handed over yet
  finished,  \* history: jobs whose run() has returned or thrown
  shut       \* where shutdown(true) is: "none" before, "handoff" and "busy"
             \* waiting for these, "join" joining the threads, "done"

threads == <<run, runnable, pc>>
caller  == <<waiting, todo>>
vars    == <<avail, busy, threads, caller, finished, shut>>

Pc == {"new", "top", "inner", "work", "fin", "release", "exited"}

IsShutdown     == shut # "none"
HandoffPending == waiting # NoJob
LockFree       == shut # "join"     \* join() is called holding nextRunnableLock

Init ==
  /\ avail = Worker /\ busy = {}
  /\ run = [t \in Thread |-> TRUE]
  /\ runnable = [t \in Thread |-> NoJob]
  /\ pc = [t \in Thread |-> IF t \in Worker THEN "top" ELSE "new"]
  /\ waiting = NoJob /\ todo = Job
  /\ finished = {}
  /\ shut = "none"

-----------------------------------------------------------------------------
(***************************************************************************)
(* runInThread, called by the scheduler thread.                            *)
(***************************************************************************)

\* An available worker gets job j.
GiveToWorker(j) == \E w \in avail :
  /\ ~IsShutdown
  /\ avail' = avail \ {w}
  /\ busy' = busy \cup {w}
  /\ runnable' = [runnable EXCEPT ![w] = j]
  /\ UNCHANGED <<run, pc>>

\* Seeded fault: the new thread is not started.
GiveToLastJobUnstarted(j) ==
  /\ IsShutdown
  /\ busy' = busy \cup {j}
  /\ runnable' = [runnable EXCEPT ![j] = j]
  /\ UNCHANGED <<avail, run, pc>>

\* Job j gets a new thread.
GiveToLastJob(j) ==
  /\ IsShutdown
  /\ busy' = busy \cup {j}
  /\ runnable' = [runnable EXCEPT ![j] = j]
  /\ pc' = [pc EXCEPT ![j] = "top"]
  /\ UNCHANGED <<avail, run>>

Give(j) == LockFree /\ (GiveToWorker(j) \/ GiveToLastJob(j))

\* The call finds a worker, or the pool shut down.
RunNow(j) ==
  /\ ~HandoffPending /\ j \in todo
  /\ Give(j)
  /\ todo' = todo \ {j}
  /\ UNCHANGED <<waiting, finished, shut>>

\* The call finds neither and waits.
RunWaits(j) ==
  /\ ~HandoffPending /\ j \in todo
  /\ avail = {} /\ ~IsShutdown
  /\ waiting' = j
  /\ todo' = todo \ {j}
  /\ UNCHANGED <<avail, busy, threads, finished, shut>>

RunWakes ==
  /\ HandoffPending
  /\ Give(waiting)
  /\ waiting' = NoJob
  /\ UNCHANGED <<todo, finished, shut>>

-----------------------------------------------------------------------------
(***************************************************************************)
(* A thread of the pool.                                                   *)
(***************************************************************************)

Goes(t, from, to) == pc[t] = from /\ pc' = [pc EXCEPT ![t] = to]

\* The head of the loop: while (run.get()).
Top(t) ==
  /\ Goes(t, "top", IF run[t] THEN "inner" ELSE "exited")
  /\ UNCHANGED <<avail, busy, run, runnable, caller, finished, shut>>

\* The inner loop sees a Runnable and starts it ...
Starts(t) ==
  /\ runnable[t] # NoJob
  /\ Goes(t, "inner", "work")
  /\ UNCHANGED <<avail, busy, run, runnable, caller, finished, shut>>

\* ... or it sees that the thread shall terminate.
GivesUp(t) ==
  /\ runnable[t] = NoJob /\ ~run[t]
  /\ Goes(t, "inner", "top")
  /\ UNCHANGED <<avail, busy, run, runnable, caller, finished, shut>>

\* The job returns or throws, which is caught.
WorkEnds(t) ==
  /\ Goes(t, "work", "fin")
  /\ finished' = finished \cup {runnable[t]}
  /\ UNCHANGED <<avail, busy, run, runnable, caller, shut>>

\* Seeded fault: the Runnable is not reset.
FinKeepsRunnable(t) ==
  /\ Goes(t, "fin", "release")
  /\ run' = [run EXCEPT ![t] = @ /\ t \in Worker]
  /\ UNCHANGED <<avail, busy, runnable, caller, finished, shut>>

\* The finally block up to nextRunnableLock; runOnce is true of the LastJob
\* threads alone.
Fin(t) ==
  /\ Goes(t, "fin", "release")
  /\ runnable' = [runnable EXCEPT ![t] = NoJob]
  /\ run' = [run EXCEPT ![t] = @ /\ t \in Worker]
  /\ UNCHANGED <<avail, busy, caller, finished, shut>>

\* Seeded fault: every thread becomes available, even after the shutdown.
ReleaseAlways(t) ==
  /\ LockFree
  /\ Goes(t, "release", "top")
  /\ avail' = avail \cup {t}
  /\ busy' = busy \ {t}
  /\ UNCHANGED <<run, runnable, caller, finished, shut>>

\* Seeded fault: a worker that has run a job is not made available again.
ReleaseForgets(t) ==
  /\ LockFree
  /\ Goes(t, "release", "top")
  /\ busy' = busy \ {t}
  /\ UNCHANGED <<avail, run, runnable, caller, finished, shut>>

\* makeAvailable, or clearFromBusyWorkersList for a LastJob thread.
Release(t) ==
  /\ LockFree
  /\ Goes(t, "release", "top")
  /\ avail' = IF t \in Worker /\ ~IsShutdown THEN avail \cup {t} ELSE avail
  /\ busy' = busy \ {t}
  /\ UNCHANGED <<run, runnable, caller, finished, shut>>

ThreadStep(t) == Top(t) \/ Starts(t) \/ GivesUp(t) \/ WorkEnds(t) \/ Fin(t) \/ Release(t)

-----------------------------------------------------------------------------
(***************************************************************************)
(* shutdown(true), called once, when the center stops.                     *)
(***************************************************************************)

\* Seeded fault: shutdown does not wait for the busy workers.
NextWaitSkipsBusy == IF HandoffPending THEN "handoff" ELSE "join"

\* Seeded fault: shutdown does not wait for a pending hand-over.
NextWaitSkipsHandoff == IF busy # {} THEN "busy" ELSE "join"

\* What shutdown waits for next; it keeps the lock when it need not wait.
NextWait == IF HandoffPending THEN "handoff" ELSE IF busy # {} THEN "busy" ELSE "join"

\* Seeded fault: the workers are not signalled to terminate.
ShutdownBeginUnsignalled ==
  /\ shut = "none"
  /\ avail' = {}
  /\ shut' = NextWait
  /\ UNCHANGED <<busy, run, runnable, pc, caller, finished>>

\* Every worker is signalled and leaves the list of the available ones.
ShutdownBegin ==
  /\ shut = "none"
  /\ run' = [t \in Thread |-> run[t] /\ t \notin Worker]
  /\ avail' = {}
  /\ shut' = NextWait
  /\ UNCHANGED <<busy, runnable, pc, caller, finished>>

ShutdownHandoff ==
  /\ shut = "handoff" /\ ~HandoffPending
  /\ shut' = NextWait
  /\ UNCHANGED <<avail, busy, threads, caller, finished>>

ShutdownBusy ==
  /\ shut = "busy" /\ busy = {}
  /\ shut' = "join"
  /\ UNCHANGED <<avail, busy, threads, caller, finished>>

ShutdownJoin ==
  /\ shut = "join"
  /\ \A t \in Thread : pc[t] \in {"new", "exited"}
  /\ shut' = "done"
  /\ UNCHANGED <<avail, busy, threads, caller, finished>>

ShutdownWakes == ShutdownHandoff \/ ShutdownBusy \/ ShutdownJoin

Next ==
  \/ \E j \in Job : RunNow(j) \/ RunWaits(j)
  \/ RunWakes
  \/ \E t \in Thread : ThreadStep(t)
  \/ ShutdownBegin \/ ShutdownWakes

Spec == Init /\ [][Next]_vars

\* Threads that can go on do, the jobs end, and a thread in a timed wait reads
\* its condition again; nothing is asked of who submits jobs or calls shutdown.
Fairness ==
  /\ WF_vars(RunWakes)
  /\ \A t \in Thread : WF_vars(ThreadStep(t))
  /\ WF_vars(ShutdownWakes)

FairSpec == Spec /\ Fairness

-----------------------------------------------------------------------------
(***************************************************************************)
(* Properties.                                                             *)
(***************************************************************************)

\* Types.
TypeOK ==
  /\ avail \subseteq Worker /\ busy \subseteq Thread
  /\ run \in [Thread -> BOOLEAN]
  /\ runnable \in [Thread -> Job \cup {NoJob}]
  /\ pc \in [Thread -> Pc]
  /\ waiting \in Job \cup {NoJob} /\ todo \subseteq Job
  /\ finished \subseteq Job
  /\ shut \in {"none", "handoff", "busy", "join", "done"}

\* An available worker is idle: run(newRunnable) never finds a Runnable and never
\* throws "Already running a Runnable!".
AvailIsIdle == \A w \in avail :
  runnable[w] = NoJob /\ run[w] /\ pc[w] \in {"top", "inner"}

\* No worker leaks out of the two lists, or is in both: before the shutdown the
\* available and the busy workers are all of them, afterwards none is available.
NoLeak == IF IsShutdown THEN avail = {}
          ELSE avail \cap busy = {} /\ avail \cup busy = Worker

\* While shutdown joins the threads it holds nextRunnableLock: none of them may
\* still need that lock, or wait for a job that nobody can hand over any more.
JoinCannotDeadlock == shut = "join" => \A t \in Thread :
  /\ pc[t] \notin {"work", "fin", "release"}
  /\ pc[t] \in {"top", "inner"} => ~run[t] /\ runnable[t] = NoJob

\* Who is busy: a thread with a job, until it has told the pool that it is done.
BusyIsBusy == \A t \in Thread :
  t \in busy <=> (runnable[t] # NoJob \/ pc[t] \in {"work", "fin", "release"})

\* Where a thread is, against its Runnable and its flag.
ThreadOK(t) ==
  /\ pc[t] \in {"work", "fin"} => runnable[t] # NoJob
  /\ pc[t] = "release" => runnable[t] = NoJob
  /\ pc[t] = "exited" => ~run[t]
  /\ t \in Worker => pc[t] # "new" /\ (run[t] <=> ~IsShutdown)
  /\ t \in Job => CASE pc[t] = "new" -> runnable[t] = NoJob /\ run[t]
                     [] pc[t] \in {"top", "inner"} -> run[t] <=> runnable[t] # NoJob
                     [] pc[t] = "release" -> ~run[t]
                     [] OTHER -> TRUE

\* A job is in at most one place.
Held(j) == {t \in Thread : runnable[t] = j}

JobOK(j) ==
  /\ j \in todo \/ waiting = j => Held(j) = {} /\ j \notin finished /\ pc[j] = "new"
  /\ j \in todo => waiting # j
  /\ \A t, u \in Held(j) : t = u
  /\ \A t \in Held(j) : (j \in finished <=> pc[t] = "fin") /\ (t \in Job => t = j)

\* What shutdown has waited for does not come back.
ShutOK ==
  /\ shut \in {"busy", "join", "done"} => ~HandoffPending
  /\ shut = "join" => busy = {}

\* The inductive invariant.
IInv == /\ TypeOK /\ AvailIsIdle /\ NoLeak /\ BusyIsBusy
        /\ \A t \in Thread : ThreadOK(t)
        /\ \A j \in Job : JobOK(j)
        /\ ShutOK

\* A thread that has exited with a job in its hand.
Stranded(j) == \E t \in Thread : pc[t] = "exited" /\ runnable[t] = j

\* "Jobs currently in progress will complete": no thread terminates with a job
\* it was handed.
NoJobStranded == \A j \in Job : ~Stranded(j)

Running(j) == \E t \in Thread : runnable[t] = j /\ pc[t] = "work"
Given(j)   == waiting = j \/ \E t \in Thread : runnable[t] = j

\* SimpleThreadPool implements ThreadPoolContract: a job runs at most once, in
\* one thread, and shutdown(true) gets past its waits only when no job is
\* waiting, given or running.
Status(j) == IF Running(j) THEN "running"
             ELSE IF j \in finished THEN "finished"
             ELSE IF Given(j) THEN "given"
             ELSE "new"
Contract == INSTANCE ThreadPoolContract
              WITH status <- [j \in Job |-> Status(j)], closed <- shut \in {"join", "done"}
ImplementsContract == Contract!Spec

\* Thread t was told to terminate before it has seen the job it was handed.
Strands(t) == pc[t] \in {"top", "exited"} /\ runnable[t] # NoJob /\ ~run[t]

\* SimpleThreadPool implements PoolView: runInThread waits only when every worker
\* is busy, a job frees exactly one thread, and shutdown(true) gets past its
\* waits exactly when no job is left.
ViewOfPool == CASE shut = "none" -> "open"
                [] shut \in {"handoff", "busy"} -> "draining"
                [] shut \in {"join", "done"} -> "closed"
View == INSTANCE PoolView
          WITH Size <- Cardinality(Worker), jobs <- Cardinality(busy), pool <- ViewOfPool,
               stranded <- \E t \in Thread : Strands(t), pending <- HandoffPending
ImplementsView == View!Spec

\* A job given to the pool is run to its end, except that the shutdown may strand
\* it with the worker it was given to.
EveryJobEnds == \A j \in Job :
  Given(j) ~> (j \in finished \/ (IsShutdown /\ Stranded(j)))

\* runInThread returns: a worker becomes available, or the pool is shut down.
CallerReturns == HandoffPending ~> ~HandoffPending

\* shutdown(true) returns, unless a job is stranded.
ShutdownEnds == IsShutdown ~> (shut = "done" \/ \E j \in Job : Stranded(j))
=============================================================================
