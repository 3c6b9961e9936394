--------------------------- MODULE SchedulerThreads ---------------------------
(***************************************************************************)
(* The main loops of the center's three scheduler threads, their thread    *)
(* pools, the semaphore of house keeping, and the main program that starts *)
(* and stops them: the console program with PollTaskScheduler.shutDown, or *)
(* the web application, whose destroy shuts the pools and nothing else.    *)
(*                                                                         *)
(* A pool is a PoolView, which is what SimpleThreadPool shows of itself: a *)
(* hand-over takes one of its threads, or an additional one after its      *)
(* shutdown; its shutdown waits until no job is left; it may strand a job, *)
(* which then never ends.                                                  *)
(* The tasks themselves are RetryCenter's; here a round only has work to   *)
(* do or not.  A timed wait re-reads its condition.                        *)
(*                                                                         *)
(* A "seeded fault" is used by the mutants of PROJECT.json only.           *)
(***************************************************************************)
EXTENDS Naturals

Sched == {"eq", "hk", "ir"}    \* the thread of each task

CONSTANTS PoolSize,   \* [Sched -> Nat]: threads of the pool of each
          Throwing    \* whose constructPollTask may throw (as that of house
                      \* keeping does without a valid threshold)

ASSUME ConstantsAssumption ==
  /\ PoolSize \in [Sched -> Nat \ {0}]
  /\ Throwing \subseteq Sched

VARIABLES
  pc,         \* [Sched -> where its run() is]
  paused,     \* [Sched -> BOOLEAN]
  halted,     \* [Sched -> BOOLEAN]
  once,       \* [Sched -> BOOLEAN]: hasExecutedOnce
  jobs,       \* [Sched -> number of jobs its pool has not ended yet]
  pool,       \* [Sched -> state of its pool]
  stranded,   \* [Sched -> BOOLEAN]: the pool's shutdown has stranded a job
  permit,     \* coordinateSignal of house keeping: one permit
  lost,       \* history: the permit was taken and will not be released
  deployment, \* "console" or "webapp"
  stage, who  \* what the main program does next, and to which thread or pool

flags == <<paused, halted, once>>
pools == <<jobs, pool, stranded>>
sema  == <<permit, lost>>
main  == <<deployment, stage, who>>
vars  == <<pc, flags, pools, sema, main>>

Pc    == {"top", "dep", "pause", "ask", "zero", "construct", "acquire", "go", "run",
          "idle", "ended"}
Stage == {"unpause", "serve", "halt", "join", "close", "drain", "stopped"}

Init ==
  /\ pc = [s \in Sched |-> "top"]
  /\ paused = [s \in Sched |-> TRUE]
  /\ halted = [s \in Sched |-> FALSE]
  /\ once = [s \in Sched |-> FALSE]
  /\ jobs = [s \in Sched |-> 0]
  /\ pool = [s \in Sched |-> "open"]
  /\ stranded = [s \in Sched |-> FALSE]
  /\ permit = TRUE /\ lost = FALSE
  /\ deployment \in {"console", "webapp"}
  /\ stage = "unpause" /\ who = "eq"

-----------------------------------------------------------------------------
(***************************************************************************)
(* The main loop of a scheduler thread.                                    *)
(***************************************************************************)

Goes(s, from, to) == pc[s] = from /\ pc' = [pc EXCEPT ![s] = to]

\* while (!halted.get()); only house keeping depends on another thread.
Top(s) ==
  /\ Goes(s, "top", IF halted[s] THEN "ended" ELSE IF s = "hk" THEN "dep" ELSE "pause")
  /\ UNCHANGED <<flags, pools, sema, main>>

\* House keeping waits for the first round of the EQ thread, halted or not.
Depends(s) ==
  /\ once["eq"]
  /\ Goes(s, "dep", "pause")
  /\ UNCHANGED <<flags, pools, sema, main>>

\* The wait while paused.
Pause(s) ==
  /\ halted[s] \/ ~paused[s]
  /\ Goes(s, "pause", IF halted[s] THEN "ended" ELSE "ask")
  /\ UNCHANGED <<flags, pools, sema, main>>

\* Seeded fault: blockForAvailableThreads does not wait for a free worker.
AskIgnoresBusy(s) ==
  /\ Goes(s, "ask", IF pool[s] = "open" THEN "construct" ELSE "zero")
  /\ UNCHANGED <<flags, pools, sema, main>>

\* blockForAvailableThreads: it waits for a free worker, and returns 0 when the
\* pool is shut down.
Ask(s) ==
  /\ pool[s] = "open" => jobs[s] < PoolSize[s]
  /\ Goes(s, "ask", IF pool[s] = "open" THEN "construct" ELSE "zero")
  /\ UNCHANGED <<flags, pools, sema, main>>

\* "Should never happen": the loop continues at once.
Continue(s) ==
  /\ Goes(s, "zero", "top")
  /\ UNCHANGED <<flags, pools, sema, main>>

\* constructPollTask throws (anything may, after destroy has cleared the
\* resources): the loop continues at once, without a signal.
Throws(s) ==
  /\ s \in Throwing \/ (deployment = "webapp" /\ stage = "stopped")
  /\ Goes(s, "construct", "top")
  /\ UNCHANGED <<flags, pools, sema, main>>

\* It returns a task with work to do; house keeping acquires its semaphore
\* first.
FindsWork(s) ==
  /\ Goes(s, "construct", IF s = "hk" THEN "acquire" ELSE "go")
  /\ UNCHANGED <<flags, pools, sema, main>>

Acquire(s) ==
  /\ permit
  /\ Goes(s, "acquire", "go")
  /\ permit' = FALSE
  /\ UNCHANGED <<flags, pools, lost, main>>

Signal(s) == once' = [once EXCEPT ![s] = TRUE]

\* Seeded fault: the semaphore is acquired although there are no records.
FindsNothingAcquires(s) ==
  /\ s = "hk" => permit
  /\ Goes(s, "construct", "idle")
  /\ Signal(s)
  /\ permit' = (permit /\ s # "hk")
  /\ UNCHANGED <<paused, halted, pools, lost, main>>

\* Seeded fault: only a round with work signals the dependent thread.
FindsNothingUnsignalled(s) ==
  /\ Goes(s, "construct", "idle")
  /\ UNCHANGED <<flags, pools, sema, main>>

\* It returns a task without work: signal and idle wait.
FindsNothing(s) ==
  /\ Goes(s, "construct", "idle")
  /\ Signal(s)
  /\ UNCHANGED <<paused, halted, pools, sema, main>>

\* The time of the task has come, or the thread was halted: in that case the
\* task is thrown away, with the semaphore that house keeping has acquired.
GoAhead(s) ==
  \/ /\ ~halted[s]
     /\ Goes(s, "go", "run")
     /\ UNCHANGED <<flags, pools, sema, main>>
  \/ /\ halted[s]
     /\ Goes(s, "go", "top")
     /\ Signal(s)
     /\ lost' = (lost \/ s = "hk")
     /\ UNCHANGED <<paused, halted, pools, permit, main>>

\* runInThread, and the signal.
Run(s) ==
  /\ pool[s] = "open" => jobs[s] < PoolSize[s]
  /\ Goes(s, "run", "top")
  /\ jobs' = [jobs EXCEPT ![s] = @ + 1]
  /\ Signal(s)
  /\ UNCHANGED <<paused, halted, pool, stranded, sema, main>>

\* The idle wait ends: halt interrupts it no earlier than its timeout does.
Idle(s) ==
  /\ Goes(s, "idle", "top")
  /\ UNCHANGED <<flags, pools, sema, main>>

ThreadStep(s) ==
  \/ Top(s) \/ Depends(s) \/ Pause(s) \/ Ask(s) \/ Continue(s)
  \/ Throws(s) \/ FindsWork(s) \/ Acquire(s) \/ FindsNothing(s)
  \/ GoAhead(s) \/ Run(s) \/ Idle(s)

-----------------------------------------------------------------------------
(***************************************************************************)
(* The pools.                                                              *)
(***************************************************************************)

Running(s) == IF stranded[s] THEN jobs[s] > 1 ELSE jobs[s] > 0

\* Seeded fault: a worker reports the end of a job once too often.
JobEndsTwice(s) ==
  /\ jobs' = [jobs EXCEPT ![s] = @ - 1]
  /\ UNCHANGED <<pc, flags, pool, stranded, sema, main>>

\* A job ends.  That of house keeping releases the semaphore, unless it throws
\* something that is no DAOException.
JobEnds(s) ==
  /\ Running(s)
  /\ jobs' = [jobs EXCEPT ![s] = @ - 1]
  /\ IF s = "hk" THEN \/ permit' = TRUE /\ UNCHANGED lost
                      \/ lost' = TRUE /\ UNCHANGED permit
                 ELSE UNCHANGED sema
  /\ UNCHANGED <<pc, flags, pool, stranded, main>>

-----------------------------------------------------------------------------
(***************************************************************************)
(* The main program: PollTaskScheduler.start, and then either              *)
(* PollTaskScheduler.shutDown(true) from the shutdown hook of the console  *)
(* program, or clearAllResources from destroy of the web application.      *)
(***************************************************************************)

\* The three are always visited in this order.
NextWho == IF who = "eq" THEN "hk" ELSE "ir"

\* Do the stage `this` for the next of the three, or go on with `after`.
Proceed(this, after) ==
  /\ stage' = IF who = "ir" THEN after ELSE this
  /\ who' = IF who = "ir" THEN "eq" ELSE NextWho
  /\ UNCHANGED deployment

Unpause ==
  /\ stage = "unpause"
  /\ paused' = [paused EXCEPT ![who] = FALSE]
  /\ Proceed("unpause", "serve")
  /\ UNCHANGED <<pc, halted, once, pools, sema>>

\* The center is asked to stop.
Stop ==
  /\ stage = "serve"
  /\ stage' = IF deployment = "console" THEN "halt" ELSE "close"
  /\ UNCHANGED <<pc, flags, pools, sema, deployment, who>>

\* Seeded fault: halt does not set the flag.
HaltForgets ==
  /\ stage = "halt"
  /\ stage' = "join"
  /\ UNCHANGED <<pc, flags, pools, sema, deployment, who>>

\* halt(true): the flag, then the join.
Halt ==
  /\ stage = "halt"
  /\ halted' = [halted EXCEPT ![who] = TRUE]
  /\ stage' = "join"
  /\ UNCHANGED <<pc, paused, once, pools, sema, deployment, who>>

\* Seeded fault: the threads are halted but not joined.
JoinForgets ==
  /\ stage = "join"
  /\ Proceed("halt", "close")
  /\ UNCHANGED <<pc, flags, pools, sema>>

Join ==
  /\ stage = "join" /\ pc[who] = "ended"
  /\ Proceed("halt", "close")
  /\ UNCHANGED <<pc, flags, pools, sema>>

\* shutdown(true) of a pool; a job handed over just before may be stranded.
Close ==
  /\ stage = "close"
  /\ pool' = [pool EXCEPT ![who] = IF jobs[who] = 0 THEN "closed" ELSE "draining"]
  /\ \E b \in BOOLEAN : /\ b => jobs[who] > 0
                        /\ stranded' = [stranded EXCEPT ![who] = b]
  /\ IF jobs[who] = 0 THEN Proceed("close", "stopped")
                      ELSE stage' = "drain" /\ UNCHANGED <<who, deployment>>
  /\ UNCHANGED <<pc, flags, jobs, sema>>

Drain ==
  /\ stage = "drain" /\ jobs[who] = 0
  /\ pool' = [pool EXCEPT ![who] = "closed"]
  /\ Proceed("close", "stopped")
  /\ UNCHANGED <<pc, flags, jobs, stranded, sema>>

Next ==
  \/ \E s \in Sched : ThreadStep(s) \/ JobEnds(s)
  \/ Unpause \/ Stop \/ Halt \/ Join \/ Close \/ Drain

Spec == Init /\ [][Next]_vars

\* The threads and the main program go on when they can, and jobs end; nothing
\* is asked of Stop.
Fairness ==
  /\ \A s \in Sched : WF_vars(ThreadStep(s)) /\ WF_vars(JobEnds(s))
  /\ WF_vars(Unpause \/ Halt \/ Join \/ Close \/ Drain)

FairSpec == Spec /\ Fairness

-----------------------------------------------------------------------------
(***************************************************************************)
(* Properties.                                                             *)
(***************************************************************************)

\* Types.
TypeOK ==
  /\ pc \in [Sched -> Pc]
  /\ paused \in [Sched -> BOOLEAN] /\ halted \in [Sched -> BOOLEAN]
  /\ once \in [Sched -> BOOLEAN]
  /\ jobs \in [Sched -> Nat]
  /\ pool \in [Sched -> {"open", "draining", "closed"}]
  /\ stranded \in [Sched -> BOOLEAN]
  /\ permit \in BOOLEAN /\ lost \in BOOLEAN
  /\ deployment \in {"console", "webapp"}
  /\ stage \in Stage /\ who \in Sched

\* The console program shuts a pool down only when nobody hands anything over to
\* it any more, and has stopped only when no job is left.
ClosedIsQuiet ==
  deployment = "console" =>
    /\ \A s \in Sched : pool[s] # "open" => pc[s] = "ended"
    /\ stage = "stopped" => \A s \in Sched : pool[s] = "closed" /\ jobs[s] = 0

\* The semaphore of house keeping: its permit is in exactly one place - free, with
\* the scheduler thread, with a job, or lost.  Hence two batches are never moved
\* at the same time.
Holders == {x \in {"free", "thread", "job", "nobody"} :
              \/ x = "free"   /\ permit
              \/ x = "thread" /\ pc["hk"] \in {"go", "run"}
              \/ x = "job"    /\ jobs["hk"] > 0
              \/ x = "nobody" /\ lost}
PermitConserved ==
  /\ jobs["hk"] <= 1
  /\ Holders # {} /\ \A x, y \in Holders : x = y

\* The threads and the main program use each pool as PoolView allows, and never
\* make a hand-over wait.
Pool(s) == INSTANCE PoolView
             WITH Size <- PoolSize[s], jobs <- jobs[s], pool <- pool[s],
                  stranded <- stranded[s], pending <- FALSE
ImplementsViews ==
  /\ \A s \in Sched : Pool(s)!Init
  /\ [][\A s \in Sched : [Pool(s)!Next]_(Pool(s)!vars)]_vars

\* "Will always be true": once blockForAvailableThreads has returned, the hand-over
\* of the same round, however long the task waits for its time, does not wait
\* for a worker.
HandOverNeverWaits ==
  \A s \in Sched : pc[s] \in {"construct", "acquire", "go", "run"} /\ pool[s] = "open"
                     => jobs[s] < PoolSize[s]

\* "Should never happen, if threadPool.blockForAvailableThreads() follows contract".
NeverZero == \A s \in Sched : pc[s] # "zero"

\* How the stop of the center can hang: house keeping waits for the first round of
\* an EQ thread that has ended without one; it waits for a semaphore that nobody
\* will release; a pool waits for a stranded job.
DependencyStuck == pc["hk"] = "dep" /\ pc["eq"] = "ended" /\ ~once["eq"]
SemaphoreStuck  == pc["hk"] = "acquire" /\ lost
Hangs == DependencyStuck \/ SemaphoreStuck \/ \E s \in Sched : stranded[s]

\* Nobody waits in a circle: a thread waits for a job of its pool that runs, or for
\* the main program to unpause it, or, as house keeping does, for the EQ thread,
\* which waits for one of these at most; or it is one of the ways to hang.  And the
\* main program joins only threads that it has told to end.
Waits(s) ==
  \/ pc[s] = "dep" /\ ~once["eq"]
  \/ pc[s] = "pause" /\ paused[s] /\ ~halted[s]
  \/ pc[s] \in {"ask", "run"} /\ pool[s] = "open" /\ jobs[s] >= PoolSize[s]
  \/ pc[s] = "acquire" /\ ~permit
WaitWillEnd(s) ==
  \/ pc[s] = "pause" /\ stage = "unpause"
  \/ pc[s] \in {"ask", "acquire"} /\ Running(s)
NoCircularWait ==
  /\ \A s \in Sched : Waits(s) =>
       \/ WaitWillEnd(s) \/ Hangs
       \/ /\ s = "hk" /\ pc["hk"] = "dep" /\ pc["eq"] # "ended"
          /\ Waits("eq") => WaitWillEnd("eq")
  /\ stage = "join" => halted[who]

\* The stop of the center, shutDown(true) as well as destroy, returns, unless it
\* hangs in one of these ways.
StopReturns == (stage \notin {"unpause", "serve"}) ~> (stage = "stopped" \/ Hangs)

\* After destroy the EQ thread goes round and round without a signal, and house
\* keeping waits for its first round for ever.
NeverSignalled == pc["hk"] = "dep" /\ ~once["eq"] /\ pool["eq"] # "open"

\* Every round of every thread comes to its end, whatever the others do, unless
\* house keeping waits for what will not happen.
RoundsEnd == \A s \in Sched :
  (pc[s] # "top") ~> (pc[s] \in {"top", "ended"} \/ Hangs \/ NeverSignalled)
=============================================================================
