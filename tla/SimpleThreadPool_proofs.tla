------------------------ MODULE SimpleThreadPool_proofs ------------------------
(***************************************************************************)
(* Proofs about SimpleThreadPool, for any set of workers and of jobs.      *)
(*                                                                         *)
(* IInv is inductive: one lemma per action, one step per conjunct.  The    *)
(* safety properties are conjuncts of IInv or follow from it, and the      *)
(* refinements of ThreadPoolContract and PoolView need it at every step.   *)
(***************************************************************************)
EXTENDS SimpleThreadPool, TLAPS, FiniteSetTheorems

\* The initial state satisfies the inductive invariant.
LEMMA InvInit == Init => IInv
<1> SUFFICES ASSUME Init PROVE IInv
  OBVIOUS
<1> USE ConstantsAssumption DEF Init, Thread, IsShutdown, HandoffPending
<1>1. TypeOK
  BY DEF TypeOK, Pc
<1>2. AvailIsIdle /\ NoLeak /\ ShutOK
  BY DEF AvailIsIdle, NoLeak, ShutOK
<1>3. BusyIsBusy
  BY DEF BusyIsBusy
<1>4. \A t \in Thread : ThreadOK(t)
  BY DEF ThreadOK
<1>5. \A j \in Job : JobOK(j)
  BY DEF JobOK, Held
<1> QED BY <1>1, <1>2, <1>3, <1>4, <1>5 DEF IInv

\* A step that changes nothing.
LEMMA InvStutter == ASSUME IInv, UNCHANGED vars PROVE IInv'
  BY DEF IInv, vars, threads, caller, TypeOK, AvailIsIdle, NoLeak, BusyIsBusy, ThreadOK,
         JobOK, Held, ShutOK, IsShutdown, HandoffPending

\* runInThread hands a new job to an available worker or to a LastJob thread.
LEMMA InvRunNow ==
  ASSUME IInv, NEW j \in Job, RunNow(j)
  PROVE  IInv'
<1> USE ConstantsAssumption DEF IInv, Thread, IsShutdown, HandoffPending, LockFree,
                              threads, caller, RunNow, Give, GiveToWorker, GiveToLastJob
<1>1. TypeOK'
  BY DEF TypeOK, Pc
<1>2. AvailIsIdle'
  BY DEF TypeOK, AvailIsIdle, NoLeak, BusyIsBusy, ThreadOK, JobOK
<1>3. NoLeak'
  BY DEF TypeOK, NoLeak, BusyIsBusy, AvailIsIdle
<1>4. BusyIsBusy'
  BY DEF TypeOK, BusyIsBusy, AvailIsIdle, ThreadOK
<1>5. ASSUME NEW u \in Thread PROVE ThreadOK(u)'
  BY <1>5 DEF TypeOK, ThreadOK, AvailIsIdle, JobOK, BusyIsBusy
<1>6. ASSUME NEW k \in Job PROVE JobOK(k)'
  BY <1>6 DEF TypeOK, ThreadOK, JobOK, Held, AvailIsIdle
<1>7. ShutOK'
  BY DEF TypeOK, ShutOK
<1> QED BY <1>1, <1>2, <1>3, <1>4, <1>5, <1>6, <1>7

\* runInThread starts to wait for a worker.
LEMMA InvRunWaits ==
  ASSUME IInv, NEW j \in Job, RunWaits(j)
  PROVE  IInv'
<1> USE ConstantsAssumption DEF IInv, Thread, IsShutdown, HandoffPending, LockFree,
                              threads, caller, RunWaits
<1>1. TypeOK'
  BY DEF TypeOK, Pc
<1>2. AvailIsIdle'
  BY DEF TypeOK, AvailIsIdle, NoLeak, BusyIsBusy, ThreadOK, JobOK
<1>3. NoLeak'
  BY DEF TypeOK, NoLeak, BusyIsBusy, AvailIsIdle
<1>4. BusyIsBusy'
  BY DEF TypeOK, BusyIsBusy, AvailIsIdle, ThreadOK
<1>5. ASSUME NEW u \in Thread PROVE ThreadOK(u)'
  BY <1>5 DEF TypeOK, ThreadOK, AvailIsIdle, JobOK, BusyIsBusy
<1>6. ASSUME NEW k \in Job PROVE JobOK(k)'
  BY <1>6 DEF TypeOK, ThreadOK, JobOK, Held, AvailIsIdle
<1>7. ShutOK'
  BY DEF TypeOK, ShutOK
<1> QED BY <1>1, <1>2, <1>3, <1>4, <1>5, <1>6, <1>7

\* The waiting runInThread finds a worker, or the pool shut down.
LEMMA InvRunWakes ==
  ASSUME IInv, RunWakes
  PROVE  IInv'
<1> USE ConstantsAssumption DEF IInv, Thread, IsShutdown, HandoffPending, LockFree,
                              threads, caller, RunWakes, Give, GiveToWorker, GiveToLastJob
<1>1. TypeOK'
  BY DEF TypeOK, Pc
<1>2. AvailIsIdle'
  BY DEF TypeOK, AvailIsIdle, NoLeak, BusyIsBusy, ThreadOK, JobOK
<1>3. NoLeak'
  BY DEF TypeOK, NoLeak, BusyIsBusy, AvailIsIdle
<1>4. BusyIsBusy'
  BY DEF TypeOK, BusyIsBusy, AvailIsIdle, ThreadOK
<1>5. ASSUME NEW u \in Thread PROVE ThreadOK(u)'
  BY <1>5 DEF TypeOK, ThreadOK, AvailIsIdle, JobOK, BusyIsBusy
<1>6. ASSUME NEW k \in Job PROVE JobOK(k)'
  BY <1>6 DEF TypeOK, ThreadOK, JobOK, Held, AvailIsIdle
<1>7. ShutOK'
  BY DEF TypeOK, ShutOK
<1> QED BY <1>1, <1>2, <1>3, <1>4, <1>5, <1>6, <1>7

\* A thread at the head of its loop goes on or terminates.
LEMMA InvTop ==
  ASSUME IInv, NEW t \in Thread, Top(t)
  PROVE  IInv'
<1> USE ConstantsAssumption DEF IInv, Thread, IsShutdown, HandoffPending, LockFree,
                              threads, caller, Top, Goes
<1>1. TypeOK'
  BY DEF TypeOK, Pc
<1>2. AvailIsIdle'
  BY DEF TypeOK, AvailIsIdle, NoLeak, BusyIsBusy, ThreadOK, JobOK
<1>3. NoLeak'
  BY DEF TypeOK, NoLeak, BusyIsBusy, AvailIsIdle
<1>4. BusyIsBusy'
  BY DEF TypeOK, BusyIsBusy, AvailIsIdle, ThreadOK
<1>5. ASSUME NEW u \in Thread PROVE ThreadOK(u)'
  BY <1>5 DEF TypeOK, ThreadOK, AvailIsIdle, JobOK, BusyIsBusy
<1>6. ASSUME NEW k \in Job PROVE JobOK(k)'
  BY <1>6 DEF TypeOK, ThreadOK, JobOK, Held, AvailIsIdle
<1>7. ShutOK'
  BY DEF TypeOK, ShutOK
<1> QED BY <1>1, <1>2, <1>3, <1>4, <1>5, <1>6, <1>7

\* A thread starts the job it was handed.
LEMMA InvStarts ==
  ASSUME IInv, NEW t \in Thread, Starts(t)
  PROVE  IInv'
<1> USE ConstantsAssumption DEF IInv, Thread, IsShutdown, HandoffPending, LockFree,
                              threads, caller, Starts, Goes
<1>1. TypeOK'
  BY DEF TypeOK, Pc
<1>2. AvailIsIdle'
  BY DEF TypeOK, AvailIsIdle, NoLeak, BusyIsBusy, ThreadOK, JobOK
<1>3. NoLeak'
  BY DEF TypeOK, NoLeak, BusyIsBusy, AvailIsIdle
<1>4. BusyIsBusy'
  BY DEF TypeOK, BusyIsBusy, AvailIsIdle, ThreadOK
<1>5. ASSUME NEW u \in Thread PROVE ThreadOK(u)'
  BY <1>5 DEF TypeOK, ThreadOK, AvailIsIdle, JobOK, BusyIsBusy
<1>6. ASSUME NEW k \in Job PROVE JobOK(k)'
  BY <1>6 DEF TypeOK, ThreadOK, JobOK, Held, AvailIsIdle
<1>7. ShutOK'
  BY DEF TypeOK, ShutOK
<1> QED BY <1>1, <1>2, <1>3, <1>4, <1>5, <1>6, <1>7

\* A thread without a job sees that it shall terminate.
LEMMA InvGivesUp ==
  ASSUME IInv, NEW t \in Thread, GivesUp(t)
  PROVE  IInv'
<1> USE ConstantsAssumption DEF IInv, Thread, IsShutdown, HandoffPending, LockFree,
                              threads, caller, GivesUp, Goes
<1>1. TypeOK'
  BY DEF TypeOK, Pc
<1>2. AvailIsIdle'
  BY DEF TypeOK, AvailIsIdle, NoLeak, BusyIsBusy, ThreadOK, JobOK
<1>3. NoLeak'
  BY DEF TypeOK, NoLeak, BusyIsBusy, AvailIsIdle
<1>4. BusyIsBusy'
  BY DEF TypeOK, BusyIsBusy, AvailIsIdle, ThreadOK
<1>5. ASSUME NEW u \in Thread PROVE ThreadOK(u)'
  BY <1>5 DEF TypeOK, ThreadOK, AvailIsIdle, JobOK, BusyIsBusy
<1>6. ASSUME NEW k \in Job PROVE JobOK(k)'
  BY <1>6 DEF TypeOK, ThreadOK, JobOK, Held, AvailIsIdle
<1>7. ShutOK'
  BY DEF TypeOK, ShutOK
<1> QED BY <1>1, <1>2, <1>3, <1>4, <1>5, <1>6, <1>7

\* The job of a thread ends.
LEMMA InvWorkEnds ==
  ASSUME IInv, NEW t \in Thread, WorkEnds(t)
  PROVE  IInv'
<1> USE ConstantsAssumption DEF IInv, Thread, IsShutdown, HandoffPending, LockFree,
                              threads, caller, WorkEnds, Goes
<1>1. TypeOK'
  BY DEF TypeOK, Pc, ThreadOK
<1>2. AvailIsIdle'
  BY DEF TypeOK, AvailIsIdle, NoLeak, BusyIsBusy, ThreadOK, JobOK
<1>3. NoLeak'
  BY DEF TypeOK, NoLeak, BusyIsBusy, AvailIsIdle
<1>4. BusyIsBusy'
  BY DEF TypeOK, BusyIsBusy, AvailIsIdle, ThreadOK
<1>5. ASSUME NEW u \in Thread PROVE ThreadOK(u)'
  BY <1>5 DEF TypeOK, ThreadOK, AvailIsIdle, JobOK, BusyIsBusy
<1>6. ASSUME NEW k \in Job PROVE JobOK(k)'
  BY <1>6 DEF TypeOK, ThreadOK, JobOK, Held, AvailIsIdle
<1>7. ShutOK'
  BY DEF TypeOK, ShutOK
<1> QED BY <1>1, <1>2, <1>3, <1>4, <1>5, <1>6, <1>7

\* The finally block resets the Runnable.
LEMMA InvFin ==
  ASSUME IInv, NEW t \in Thread, Fin(t)
  PROVE  IInv'
<1> USE ConstantsAssumption DEF IInv, Thread, IsShutdown, HandoffPending, LockFree,
                              threads, caller, Fin, Goes
<1>1. TypeOK'
  BY DEF TypeOK, Pc
<1>2. AvailIsIdle'
  BY DEF TypeOK, AvailIsIdle, NoLeak, BusyIsBusy, ThreadOK, JobOK
<1>3. NoLeak'
  BY DEF TypeOK, NoLeak, BusyIsBusy, AvailIsIdle
<1>4. BusyIsBusy'
  BY DEF TypeOK, BusyIsBusy, AvailIsIdle, ThreadOK
<1>5. ASSUME NEW u \in Thread PROVE ThreadOK(u)'
  <2>1. /\ run' = [run EXCEPT ![t] = run[t] /\ t \in Worker]
        /\ u # t => run'[u] = run[u]
        /\ run'[t] = (run[t] /\ t \in Worker)
    BY DEF TypeOK
  <2>2. /\ runnable'[u] = IF u = t THEN NoJob ELSE runnable[u]
        /\ pc'[u] = IF u = t THEN "release" ELSE pc[u]
        /\ pc[t] = "fin" /\ shut' = shut
    BY DEF TypeOK
  <2>3. CASE u = t
    <3>1. t \in Worker => (run'[t] <=> shut = "none")
      BY <2>1 DEF ThreadOK
    <3>2. t \in Job => ~run'[t]
      BY <2>1
    <3> QED BY <2>2, <2>3, <3>1, <3>2 DEF ThreadOK
  <2>4. CASE u # t
    BY <1>5, <2>1, <2>2, <2>4 DEF ThreadOK
  <2> QED BY <2>3, <2>4
<1>6. ASSUME NEW k \in Job PROVE JobOK(k)'
  BY <1>6 DEF TypeOK, ThreadOK, JobOK, Held, AvailIsIdle
<1>7. ShutOK'
  BY DEF TypeOK, ShutOK
<1> QED BY <1>1, <1>2, <1>3, <1>4, <1>5, <1>6, <1>7

\* makeAvailable and clearFromBusyWorkersList.
LEMMA InvRelease ==
  ASSUME IInv, NEW t \in Thread, Release(t)
  PROVE  IInv'
<1> USE ConstantsAssumption DEF IInv, Thread, IsShutdown, HandoffPending, LockFree,
                              threads, caller, Release, Goes
<1>1. TypeOK'
  BY DEF TypeOK, Pc
<1>2. AvailIsIdle'
  BY DEF TypeOK, AvailIsIdle, NoLeak, BusyIsBusy, ThreadOK, JobOK
<1>3. NoLeak'
  BY DEF TypeOK, NoLeak, BusyIsBusy, AvailIsIdle
<1>4. BusyIsBusy'
  BY DEF TypeOK, BusyIsBusy, AvailIsIdle, ThreadOK
<1>5. ASSUME NEW u \in Thread PROVE ThreadOK(u)'
  BY <1>5 DEF TypeOK, ThreadOK, AvailIsIdle, JobOK, BusyIsBusy
<1>6. ASSUME NEW k \in Job PROVE JobOK(k)'
  BY <1>6 DEF TypeOK, ThreadOK, JobOK, Held, AvailIsIdle
<1>7. ShutOK'
  BY DEF TypeOK, ShutOK
<1> QED BY <1>1, <1>2, <1>3, <1>4, <1>5, <1>6, <1>7

\* shutdown(true) signals the workers.
LEMMA InvShutdownBegin ==
  ASSUME IInv, ShutdownBegin
  PROVE  IInv'
<1> USE ConstantsAssumption DEF IInv, Thread, IsShutdown, HandoffPending, LockFree,
                              threads, caller, ShutdownBegin, NextWait
<1>1. TypeOK'
  BY DEF TypeOK, Pc
<1>2. AvailIsIdle'
  BY DEF TypeOK, AvailIsIdle, NoLeak, BusyIsBusy, ThreadOK, JobOK
<1>3. NoLeak'
  BY DEF TypeOK, NoLeak, BusyIsBusy, AvailIsIdle
<1>4. BusyIsBusy'
  BY DEF TypeOK, BusyIsBusy, AvailIsIdle, ThreadOK
<1>5. ASSUME NEW u \in Thread PROVE ThreadOK(u)'
  BY <1>5 DEF TypeOK, ThreadOK, AvailIsIdle, JobOK, BusyIsBusy
<1>6. ASSUME NEW k \in Job PROVE JobOK(k)'
  BY <1>6 DEF TypeOK, ThreadOK, JobOK, Held, AvailIsIdle
<1>7. ShutOK'
  BY DEF TypeOK, ShutOK
<1> QED BY <1>1, <1>2, <1>3, <1>4, <1>5, <1>6, <1>7

\* A wait of shutdown(true) ends.
LEMMA InvShutdownWakes ==
  ASSUME IInv, ShutdownWakes
  PROVE  IInv'
<1> USE ConstantsAssumption DEF IInv, Thread, IsShutdown, HandoffPending, LockFree,
                              threads, caller, ShutdownWakes, ShutdownHandoff, ShutdownBusy, ShutdownJoin, NextWait
<1>1. TypeOK'
  BY DEF TypeOK, Pc
<1>2. AvailIsIdle'
  BY DEF TypeOK, AvailIsIdle, NoLeak, BusyIsBusy, ThreadOK, JobOK
<1>3. NoLeak'
  BY DEF TypeOK, NoLeak, BusyIsBusy, AvailIsIdle
<1>4. BusyIsBusy'
  BY DEF TypeOK, BusyIsBusy, AvailIsIdle, ThreadOK
<1>5. ASSUME NEW u \in Thread PROVE ThreadOK(u)'
  BY <1>5 DEF TypeOK, ThreadOK, AvailIsIdle, JobOK, BusyIsBusy
<1>6. ASSUME NEW k \in Job PROVE JobOK(k)'
  BY <1>6 DEF TypeOK, ThreadOK, JobOK, Held, AvailIsIdle
<1>7. ShutOK'
  BY DEF TypeOK, ShutOK
<1> QED BY <1>1, <1>2, <1>3, <1>4, <1>5, <1>6, <1>7

\* IInv is preserved by every step, and holds in every reachable state.
THEOREM Inductive == Spec => []IInv
<1>1. Init => IInv
  BY InvInit
<1>2. IInv /\ [Next]_vars => IInv'
  <2> SUFFICES ASSUME IInv, [Next]_vars PROVE IInv'
    OBVIOUS
  <2>1. CASE \E j \in Job : RunNow(j) \/ RunWaits(j)
    BY <2>1, InvRunNow, InvRunWaits
  <2>2. CASE RunWakes
    BY <2>2, InvRunWakes
  <2>3. CASE \E t \in Thread : ThreadStep(t)
    BY <2>3, InvTop, InvStarts, InvGivesUp, InvWorkEnds, InvFin, InvRelease DEF ThreadStep
  <2>4. CASE ShutdownBegin \/ ShutdownWakes
    BY <2>4, InvShutdownBegin, InvShutdownWakes
  <2>5. CASE UNCHANGED vars
    BY <2>5, InvStutter
  <2> QED BY <2>1, <2>2, <2>3, <2>4, <2>5 DEF Next
<1> QED BY <1>1, <1>2, PTL DEF Spec

\* Type correctness.
THEOREM TypeCorrect == Spec => []TypeOK
<1>1. IInv => TypeOK
  BY DEF IInv
<1> QED BY <1>1, Inductive, PTL

\* makeAvailable and runInThread only ever list workers without a job, hence
\* WorkerThread.run(newRunnable) never throws "Already running a Runnable!".
THEOREM HandOverIsSafe == Spec => []AvailIsIdle
<1>1. IInv => AvailIsIdle
  BY DEF IInv
<1> QED BY <1>1, Inductive, PTL

\* No worker is lost from, or is twice in, availWorkers and busyWorkers.
THEOREM WorkersAreKept == Spec => []NoLeak
<1>1. IInv => NoLeak
  BY DEF IInv
<1> QED BY <1>1, Inductive, PTL

\* shutdown(true), joining with nextRunnableLock held, joins no thread that may
\* still want that lock or a job.
THEOREM JoinIsSafe == Spec => []JoinCannotDeadlock
<1>1. IInv => JoinCannotDeadlock
  <2> SUFFICES ASSUME IInv, shut = "join", NEW t \in Thread
               PROVE  /\ pc[t] \notin {"work", "fin", "release"}
                      /\ pc[t] \in {"top", "inner"} => ~run[t] /\ runnable[t] = NoJob
    BY DEF JoinCannotDeadlock
  <2>1. busy = {}
    BY DEF IInv, ShutOK
  <2>2. runnable[t] = NoJob /\ pc[t] \notin {"work", "fin", "release"}
    BY <2>1 DEF IInv, BusyIsBusy
  <2>3. pc[t] \in {"top", "inner"} => ~run[t]
    BY <2>2 DEF IInv, ThreadOK, Thread, IsShutdown
  <2> QED BY <2>2, <2>3
<1> QED BY <1>1, Inductive, PTL

-----------------------------------------------------------------------------
(***************************************************************************)
(* The refinement of ThreadPoolContract.                                   *)
(***************************************************************************)

\* The mapped state: what ThreadPoolContract sees.
MClosed == shut \in {"join", "done"}

\* How the mapped status follows from who holds the job.
LEMMA StatusFacts ==
  ASSUME IInv, NEW j \in Job
  PROVE  /\ j \in todo => Status(j) = "new"
         /\ waiting = j => Status(j) = "given"
         /\ \A t \in Thread : runnable[t] = j =>
              Status(j) = IF pc[t] = "work" THEN "running"
                          ELSE IF pc[t] = "fin" THEN "finished" ELSE "given"
         /\ waiting # j /\ Held(j) = {} => Status(j) = IF j \in finished THEN "finished" ELSE "new"
<1>1. JobOK(j) /\ \A t \in Thread : ThreadOK(t)
  BY DEF IInv
<1>2. ASSUME j \in todo PROVE Status(j) = "new"
  BY <1>1, <1>2 DEF JobOK, Held, Status, Running, Given
<1>3. ASSUME waiting = j PROVE Status(j) = "given"
  BY <1>1, <1>3 DEF JobOK, Held, Status, Running, Given
<1>4. ASSUME NEW t \in Thread, runnable[t] = j
      PROVE  Status(j) = IF pc[t] = "work" THEN "running"
                         ELSE IF pc[t] = "fin" THEN "finished" ELSE "given"
  <2>1. \A u \in Thread : runnable[u] = j => u = t
    BY <1>1, <1>4 DEF JobOK, Held
  <2>2. j \in finished <=> pc[t] = "fin"
    BY <1>1, <1>4 DEF JobOK, Held
  <2> QED BY <1>4, <2>1, <2>2 DEF Status, Running, Given
<1>5. ASSUME waiting # j, Held(j) = {}
      PROVE  Status(j) = IF j \in finished THEN "finished" ELSE "new"
  BY <1>5 DEF Held, Status, Running, Given
<1> QED BY <1>2, <1>3, <1>4, <1>5

\* A step that leaves status and closed as they are.
LEMMA MapsToStutter ==
  ASSUME \A k \in Job : Status(k)' = Status(k), MClosed' = MClosed
  PROVE  UNCHANGED Contract!vars
  BY DEF Contract!vars, MClosed

\* A step that advances the status of one job.
LEMMA MapsToAdvance ==
  ASSUME NEW j \in Job, NEW from, NEW to, Status(j) = from,
         \A k \in Job : Status(k)' = IF k = j THEN to ELSE Status(k), MClosed' = MClosed
  PROVE  Contract!Advance(j, from, to)
  BY DEF Contract!Advance, MClosed


\* The initial state maps to the initial state of ThreadPoolContract.
LEMMA RefinesInit == Init => Contract!Init
<1> SUFFICES ASSUME Init PROVE Contract!Init
  OBVIOUS
<1>1. ASSUME NEW j \in Job PROVE Status(j) = "new"
  BY <1>1, ConstantsAssumption DEF Init, Status, Running, Given, Thread
<1>2. shut \notin {"join", "done"}
  BY DEF Init
<1> QED BY <1>1, <1>2 DEF Contract!Init

\* Job j gets a thread: it has been given, the other jobs are not touched.
LEMMA GiveMaps ==
  ASSUME IInv, NEW j \in Job, Held(j) = {}, j \notin finished, pc[j] = "new", Give(j),
         finished' = finished,
         (waiting' = waiting /\ waiting = NoJob) \/ (waiting = j /\ waiting' = NoJob)
  PROVE  \A k \in Job : Status(k)' = IF k = j THEN "given" ELSE Status(k)
<1> USE ConstantsAssumption DEF Thread
<1>1. PICK t \in Thread : /\ runnable' = [runnable EXCEPT ![t] = j]
                          /\ pc'[t] \in {"top", "inner"}
                          /\ \A u \in Thread : u # t => pc'[u] = pc[u]
                          /\ runnable[t] = NoJob /\ pc[t] # "work"
  <2>1. CASE GiveToWorker(j)
    BY <2>1 DEF GiveToWorker, IInv, TypeOK, AvailIsIdle
  <2>2. CASE GiveToLastJob(j)
    BY <2>2 DEF GiveToLastJob, IInv, TypeOK, ThreadOK
  <2> QED BY <2>1, <2>2 DEF Give
<1>2. runnable'[t] = j /\ \A u \in Thread : u # t => runnable'[u] = runnable[u]
  BY <1>1 DEF IInv, TypeOK
<1>3. Status(j)' = "given"
  BY <1>1, <1>2 DEF Held, Status, Running, Given
<1>4. ASSUME NEW k \in Job, k # j PROVE Status(k)' = Status(k)
  <2>1. Running(k)' <=> Running(k)
    BY <1>1, <1>2, <1>4 DEF Running
  <2>2. Given(k)' <=> Given(k)
    BY <1>1, <1>2, <1>4 DEF Given
  <2> QED BY <2>1, <2>2 DEF Status
<1> QED BY <1>3, <1>4

\* A call that finds a thread gives the job.
LEMMA RunNowMaps ==
  ASSUME IInv, NEW j \in Job, RunNow(j)
  PROVE  Contract!Give(j)
<1>1. Held(j) = {} /\ j \notin finished /\ pc[j] = "new" /\ Status(j) = "new"
  BY StatusFacts DEF RunNow, IInv, JobOK
<1>2. \A k \in Job : Status(k)' = IF k = j THEN "given" ELSE Status(k)
  BY <1>1, GiveMaps DEF RunNow, HandoffPending
<1> QED BY <1>1, <1>2, MapsToAdvance DEF RunNow, MClosed, Contract!Give

\* So does a call that has to wait ...
LEMMA RunWaitsMaps ==
  ASSUME IInv, NEW j \in Job, RunWaits(j)
  PROVE  Contract!Give(j)
<1>1. Held(j) = {} /\ j \notin finished /\ Status(j) = "new"
  BY StatusFacts DEF RunWaits, IInv, JobOK
<1>2. Status(j)' = "given"
  BY <1>1 DEF RunWaits, Held, Status, Running, Given, threads
<1>3. \A k \in Job : k # j => Status(k)' = Status(k)
  BY ConstantsAssumption
     DEF RunWaits, HandoffPending, Status, Running, Given, threads
<1> QED BY <1>1, <1>2, <1>3, MapsToAdvance DEF RunWaits, MClosed, Contract!Give

\* ... hence the end of the wait is not seen.
LEMMA RunWakesMaps ==
  ASSUME IInv, RunWakes
  PROVE  UNCHANGED Contract!vars
<1>1. PICK j \in Job : waiting = j
  BY DEF RunWakes, HandoffPending, IInv, TypeOK
<1>2. Held(j) = {} /\ j \notin finished /\ pc[j] = "new" /\ Status(j) = "given"
  BY <1>1, StatusFacts DEF IInv, JobOK
<1>3. \A k \in Job : Status(k)' = IF k = j THEN "given" ELSE Status(k)
  BY <1>1, <1>2, GiveMaps DEF RunWakes
<1> QED BY <1>2, <1>3, MapsToStutter DEF RunWakes, MClosed

\* The start of a job.
LEMMA StartsMaps ==
  ASSUME IInv, NEW t \in Thread, Starts(t)
  PROVE  \E j \in Job : Contract!Start(j)
<1>1. PICK j \in Job : j = runnable[t]
  BY DEF Starts, IInv, TypeOK
<1>2. pc' = [pc EXCEPT ![t] = "work"] /\ pc[t] = "inner" /\ pc'[t] = "work"
  BY DEF Starts, Goes, IInv, TypeOK
<1>3. Status(j) = "given"
  BY <1>1, <1>2, StatusFacts
<1>4. Status(j)' = "running"
  BY <1>1, <1>2 DEF Starts, Status, Running
<1>5. ASSUME NEW k \in Job, k # j PROVE Status(k)' = Status(k)
  <2>1. \A u \in Thread : runnable[u] = k => pc'[u] = pc[u]
    BY <1>1, <1>2, <1>5 DEF IInv, TypeOK
  <2> QED BY <2>1 DEF Starts, Status, Running, Given, caller
<1>6. Contract!Advance(j, "given", "running")
  BY <1>3, <1>4, <1>5, MapsToAdvance DEF Starts, MClosed
<1> QED BY <1>6 DEF Contract!Start

\* The end of a job.
LEMMA WorkEndsMaps ==
  ASSUME IInv, NEW t \in Thread, WorkEnds(t)
  PROVE  \E j \in Job : Contract!Finish(j)
<1>1. PICK j \in Job : j = runnable[t]
  BY DEF WorkEnds, Goes, IInv, TypeOK, ThreadOK
<1>2. pc' = [pc EXCEPT ![t] = "fin"] /\ pc[t] = "work" /\ pc'[t] = "fin"
  BY DEF WorkEnds, Goes, IInv, TypeOK
<1>3. Status(j) = "running"
  BY <1>1, <1>2, StatusFacts
<1>4. \A u \in Thread : runnable[u] = j => u = t
  BY <1>1 DEF IInv, JobOK, Held
<1>5. Status(j)' = "finished"
  BY <1>1, <1>2, <1>4 DEF WorkEnds, Status, Running
<1>6. ASSUME NEW k \in Job, k # j PROVE Status(k)' = Status(k)
  <2>1. \A u \in Thread : runnable[u] = k => pc'[u] = pc[u]
    BY <1>1, <1>2, <1>6 DEF IInv, TypeOK
  <2> QED BY <1>1, <1>6, <2>1 DEF WorkEnds, Status, Running, Given, caller
<1>7. Contract!Advance(j, "running", "finished")
  BY <1>3, <1>5, <1>6, MapsToAdvance DEF WorkEnds, MClosed
<1> QED BY <1>7 DEF Contract!Finish

\* The finally block drops a job that is finished already.
LEMMA FinMaps ==
  ASSUME IInv, NEW t \in Thread, Fin(t)
  PROVE  UNCHANGED Contract!vars
<1>1. PICK j \in Job : j = runnable[t]
  BY DEF Fin, Goes, IInv, TypeOK, ThreadOK
<1>2. /\ pc[t] = "fin" /\ pc'[t] = "release" /\ runnable'[t] = NoJob
      /\ \A u \in Thread : u # t => pc'[u] = pc[u] /\ runnable'[u] = runnable[u]
  BY DEF Fin, Goes, IInv, TypeOK
<1>3. j \in finished /\ Status(j) = "finished"
  BY <1>1, <1>2, StatusFacts DEF IInv, JobOK, Held
<1>4. \A u \in Thread : runnable[u] = j => u = t
  BY <1>1 DEF IInv, JobOK, Held
<1>5. Status(j)' = "finished"
  BY <1>1, <1>2, <1>3, <1>4 DEF Fin, Status, Running
<1>6. ASSUME NEW k \in Job, k # j PROVE Status(k)' = Status(k)
  BY <1>1, <1>2, <1>6, ConstantsAssumption DEF Fin, Status, Running, Given, caller
<1> QED BY <1>3, <1>5, <1>6, MapsToStutter DEF Fin, MClosed

\* Steps of a thread between its jobs.
LEMMA IdleMaps ==
  ASSUME IInv, NEW t \in Thread, Top(t) \/ GivesUp(t) \/ Release(t)
  PROVE  UNCHANGED Contract!vars
<1>1. /\ runnable' = runnable /\ waiting' = waiting /\ finished' = finished /\ shut' = shut
      /\ pc[t] # "work" /\ pc'[t] # "work"
      /\ \A u \in Thread : u # t => pc'[u] = pc[u]
  BY DEF Top, GivesUp, Release, Goes, caller, IInv, TypeOK
<1>2. \A k \in Job : Status(k)' = Status(k)
  BY <1>1 DEF Status, Running, Given
<1> QED BY <1>1, <1>2, MapsToStutter DEF MClosed

\* A step of shutdown stutters, or closes a pool without jobs.
LEMMA ShutdownMaps ==
  ASSUME IInv, IInv', ShutdownBegin \/ ShutdownWakes
  PROVE  [Contract!Next]_Contract!vars
<1>1. /\ runnable' = runnable /\ waiting' = waiting /\ finished' = finished /\ pc' = pc
      /\ busy' = busy
  BY DEF ShutdownBegin, ShutdownWakes, ShutdownHandoff, ShutdownBusy, ShutdownJoin,
         threads, caller
<1>2. \A k \in Job : Status(k)' = Status(k)
  BY <1>1 DEF Status, Running, Given
<1>3. CASE MClosed' = MClosed
  BY <1>2, <1>3, MapsToStutter
<1>4. CASE MClosed' # MClosed
  <2>1. ~MClosed /\ shut' = "join"
    BY <1>4 DEF MClosed, ShutdownBegin, ShutdownWakes, ShutdownHandoff, ShutdownBusy,
                ShutdownJoin, NextWait
  <2>2. busy = {} /\ waiting = NoJob
    BY <1>1, <2>1 DEF IInv, ShutOK, HandoffPending
  <2>3. ASSUME NEW j \in Job PROVE Status(j) \in {"new", "finished"}
    <3>1. Held(j) = {} /\ waiting # j
      BY <2>2, ConstantsAssumption DEF IInv, BusyIsBusy, Held
    <3> QED BY <3>1, StatusFacts
  <2>4. MClosed'
    BY <2>1 DEF MClosed
  <2>5. Contract!Close
    BY <1>2, <2>1, <2>3, <2>4 DEF Contract!Close, MClosed
  <2> QED BY <2>5 DEF Contract!Next
<1> QED BY <1>3, <1>4

\* SimpleThreadPool implements ThreadPoolContract: whatever the interleaving, a
\* job runs at most once and to its end, and shutdown(true) gets past its waits
\* only when no job is waiting, given or running.
THEOREM Implements == Spec => ImplementsContract
<1>1. Init => Contract!Init
  BY RefinesInit
<1>2. IInv /\ IInv' /\ [Next]_vars => [Contract!Next]_Contract!vars
  <2> SUFFICES ASSUME IInv, IInv', [Next]_vars PROVE [Contract!Next]_Contract!vars
    OBVIOUS
  <2>1. CASE \E j \in Job : RunNow(j) \/ RunWaits(j)
    BY <2>1, RunNowMaps, RunWaitsMaps DEF Contract!Next
  <2>2. CASE RunWakes
    BY <2>2, RunWakesMaps
  <2>3. CASE \E t \in Thread : ThreadStep(t)
    <3> PICK t \in Thread : ThreadStep(t)
      BY <2>3
    <3>1. CASE Starts(t)
      BY <3>1, StartsMaps DEF Contract!Next
    <3>2. CASE WorkEnds(t)
      BY <3>2, WorkEndsMaps DEF Contract!Next
    <3>3. CASE Fin(t)
      BY <3>3, FinMaps
    <3>4. CASE Top(t) \/ GivesUp(t) \/ Release(t)
      BY <3>4, IdleMaps
    <3> QED BY <3>1, <3>2, <3>3, <3>4 DEF ThreadStep
  <2>4. CASE ShutdownBegin \/ ShutdownWakes
    BY <2>4, ShutdownMaps
  <2>5. CASE UNCHANGED vars
    <3>1. (\A k \in Job : Status(k)' = Status(k)) /\ MClosed' = MClosed
      BY <2>5 DEF vars, threads, caller, Status, Running, Given, MClosed
    <3> QED BY <3>1, MapsToStutter
  <2> QED BY <2>1, <2>2, <2>3, <2>4, <2>5 DEF Next
<1> QED BY <1>1, <1>2, Inductive, PTL DEF Spec, ImplementsContract, Contract!Spec

-----------------------------------------------------------------------------
(***************************************************************************)
(* The refinement of PoolView: the busy workers are counted.               *)
(***************************************************************************)

\* There are finitely many of them: a step adds one at most.
LEMMA BusyIsFinite == Spec => []IsFiniteSet(busy)
<1>1. Init => IsFiniteSet(busy)
  BY FS_EmptySet DEF Init
<1>2. IsFiniteSet(busy) /\ [Next]_vars => IsFiniteSet(busy)'
  <2> SUFFICES ASSUME IsFiniteSet(busy), [Next]_vars PROVE IsFiniteSet(busy')
    OBVIOUS
  <2>1. busy' \subseteq busy \/ \E t : busy' = busy \cup {t}
    BY DEF Next, RunNow, RunWaits, RunWakes, Give, GiveToWorker, GiveToLastJob, ThreadStep,
           Top, Starts, GivesUp, WorkEnds, Fin, Release, ShutdownBegin, ShutdownWakes,
           ShutdownHandoff, ShutdownBusy, ShutdownJoin, vars
  <2> QED BY <2>1, FS_Subset, FS_AddElement
<1> QED BY <1>1, <1>2, PTL DEF Spec

\* Their number, against the size of the pool.
LEMMA BusyCount ==
  ASSUME IInv, IsFiniteSet(busy)
  PROVE  /\ Cardinality(busy) \in Nat /\ Cardinality(Worker) \in Nat
         /\ Cardinality(busy) = 0 <=> busy = {}
         /\ shut = "none" /\ avail = {} => Cardinality(busy) = Cardinality(Worker)
         /\ shut = "none" /\ avail # {} => Cardinality(busy) < Cardinality(Worker)
<1>1. IsFiniteSet(Worker)
  BY ConstantsAssumption
<1>2. Cardinality(busy) \in Nat /\ Cardinality(Worker) \in Nat
  BY <1>1, FS_CardinalityType
<1>3. Cardinality(busy) = 0 <=> busy = {}
  BY FS_EmptySet
<1>4. ASSUME shut = "none", avail = {} PROVE Cardinality(busy) = Cardinality(Worker)
  BY <1>4 DEF IInv, NoLeak, IsShutdown
<1>5. ASSUME shut = "none", avail # {} PROVE Cardinality(busy) < Cardinality(Worker)
  <2>1. busy \subseteq Worker /\ busy # Worker
    BY <1>5 DEF IInv, NoLeak, IsShutdown
  <2>2. /\ Cardinality(busy) <= Cardinality(Worker)
        /\ Cardinality(busy) = Cardinality(Worker) => busy = Worker
    BY <1>1, <2>1, FS_Subset
  <2> QED BY <1>2, <2>1, <2>2
<1> QED BY <1>2, <1>3, <1>4, <1>5

\* Whether the shutdown has stranded a job.
MStranded == \E t \in Thread : Strands(t)

\* Job j gets a thread: it is one more, of a pool that is shut down or has a
\* worker left, and the thread is not one that was told to terminate.
LEMMA GiveCounts ==
  ASSUME IInv, IsFiniteSet(busy), NEW j \in Job, Held(j) = {}, pc[j] = "new", Give(j)
  PROVE  /\ Cardinality(busy') = Cardinality(busy) + 1
         /\ ViewOfPool = "open" => Cardinality(busy) < Cardinality(Worker)
         /\ MStranded' = MStranded
<1>1. PICK t \in Thread : /\ t \notin busy /\ busy' = busy \cup {t}
                          /\ run[t] /\ run' = run
                          /\ \A u \in Thread : u # t =>
                               runnable'[u] = runnable[u] /\ pc'[u] = pc[u]
  <2>1. CASE GiveToWorker(j)
    BY <2>1 DEF GiveToWorker, IInv, TypeOK, AvailIsIdle, NoLeak, Thread
  <2>2. CASE GiveToLastJob(j)
    BY <2>2 DEF GiveToLastJob, IInv, TypeOK, ThreadOK, BusyIsBusy, Thread
  <2> QED BY <2>1, <2>2 DEF Give
<1>2. Cardinality(busy') = Cardinality(busy) + 1
  BY <1>1, FS_AddElement
<1>3. ASSUME ViewOfPool = "open" PROVE Cardinality(busy) < Cardinality(Worker)
  <2>1. shut = "none"
    BY <1>3 DEF ViewOfPool, IInv, TypeOK
  <2>2. avail # {}
    BY <2>1 DEF Give, GiveToWorker, GiveToLastJob, IsShutdown
  <2> QED BY <2>1, <2>2, BusyCount
<1>4. \A u \in Thread : Strands(u)' <=> Strands(u)
  BY <1>1 DEF Strands
<1>5. MStranded' = MStranded
  BY <1>4 DEF MStranded
<1> QED BY <1>2, <1>3, <1>5

\* The initial state maps to the initial state of PoolView.
LEMMA ViewInit == Init => View!Init
<1> SUFFICES ASSUME Init PROVE View!Init
  OBVIOUS
<1>1. Cardinality(busy) = 0
  BY FS_EmptySet DEF Init
<1>2. ViewOfPool = "open"
  BY DEF Init, ViewOfPool
<1>3. ~\E t \in Thread : Strands(t)
  BY DEF Init, Strands
<1> QED BY <1>1, <1>2, <1>3 DEF View!Init, Init, HandoffPending

\* runInThread finds a thread ...
LEMMA RunNowShows ==
  ASSUME IInv, IsFiniteSet(busy), NEW j \in Job, RunNow(j)
  PROVE  View!HandOver
<1>1. Held(j) = {} /\ pc[j] = "new" /\ Give(j)
  BY DEF RunNow, IInv, JobOK
<1>2. ViewOfPool' = ViewOfPool /\ HandoffPending' = HandoffPending /\ ~HandoffPending
  BY DEF RunNow, ViewOfPool, HandoffPending
<1> QED BY <1>1, <1>2, GiveCounts DEF View!HandOver, MStranded

\* ... or waits, when no worker is available ...
LEMMA RunWaitsShows ==
  ASSUME IInv, IsFiniteSet(busy), NEW j \in Job, RunWaits(j)
  PROVE  View!HandOverWaits
<1>1. Cardinality(busy) = Cardinality(Worker)
  BY BusyCount DEF RunWaits, IsShutdown
<1>2. ViewOfPool = "open" /\ ViewOfPool' = ViewOfPool
  BY DEF RunWaits, ViewOfPool, IsShutdown
<1>3. ~HandoffPending /\ HandoffPending' = TRUE
  BY ConstantsAssumption DEF RunWaits, HandoffPending
<1>4. MStranded' = MStranded /\ busy' = busy
  BY DEF RunWaits, MStranded, Strands, threads
<1> QED BY <1>1, <1>2, <1>3, <1>4 DEF View!HandOverWaits, MStranded

\* ... and wakes up when there is one.
LEMMA RunWakesShows ==
  ASSUME IInv, IsFiniteSet(busy), RunWakes
  PROVE  View!HandOverWakes
<1>1. PICK j \in Job : waiting = j
  BY DEF RunWakes, HandoffPending, IInv, TypeOK
<1>2. Held(j) = {} /\ pc[j] = "new" /\ Give(j)
  BY <1>1 DEF RunWakes, IInv, JobOK
<1>3. ViewOfPool' = ViewOfPool /\ HandoffPending /\ HandoffPending' = FALSE
  BY DEF RunWakes, ViewOfPool, HandoffPending
<1> QED BY <1>2, <1>3, GiveCounts DEF View!HandOverWakes, MStranded

\* makeAvailable and clearFromBusyWorkersList give back one thread, and not the
\* one of a stranded job.
LEMMA ReleaseShows ==
  ASSUME IInv, IsFiniteSet(busy), NEW t \in Thread, Release(t)
  PROVE  View!JobEnds
<1>1. /\ pc[t] = "release" /\ pc'[t] = "top" /\ runnable[t] = NoJob
      /\ busy' = busy \ {t} /\ t \in busy
      /\ runnable' = runnable /\ run' = run
      /\ \A u \in Thread : u # t => pc'[u] = pc[u]
  BY DEF Release, Goes, IInv, TypeOK, ThreadOK, BusyIsBusy
<1>2. IsFiniteSet(busy') /\ Cardinality(busy') = Cardinality(busy) - 1
  BY <1>1, FS_RemoveElement
<1>3. \A u \in Thread : Strands(u)' <=> Strands(u)
  BY <1>1 DEF Strands
<1>4. Cardinality(busy) \in Nat /\ Cardinality(busy') \in Nat
  BY <1>2, FS_CardinalityType
<1>5. Cardinality(busy) > 0
  BY <1>2, <1>4
<1>6. ASSUME MStranded PROVE Cardinality(busy) > 1
  <2>1. PICK u \in Thread : Strands(u)
    BY <1>6 DEF MStranded
  <2>2. u \in busy /\ u # t
    BY <1>1, <2>1 DEF Strands, IInv, BusyIsBusy
  <2>3. busy' # {}
    BY <1>1, <2>2
  <2>4. Cardinality(busy') # 0
    BY <1>2, <2>3, FS_EmptySet
  <2> QED BY <1>2, <1>4, <2>4
<1>7. ViewOfPool' = ViewOfPool /\ HandoffPending' = HandoffPending
  BY DEF Release, ViewOfPool, HandoffPending, caller
<1> QED BY <1>2, <1>3, <1>5, <1>6, <1>7 DEF View!JobEnds, MStranded

\* Between two jobs, and while it runs one, a thread is not seen.
LEMMA ThreadHides ==
  ASSUME IInv, NEW t \in Thread, Top(t) \/ Starts(t) \/ GivesUp(t) \/ WorkEnds(t) \/ Fin(t)
  PROVE  UNCHANGED View!vars
<1>1. busy' = busy /\ waiting' = waiting /\ shut' = shut
  BY DEF Top, Starts, GivesUp, WorkEnds, Fin, caller
<1>2. \A u \in Thread : u # t =>
        pc'[u] = pc[u] /\ runnable'[u] = runnable[u] /\ run'[u] = run[u]
  BY DEF Top, Starts, GivesUp, WorkEnds, Fin, Goes, IInv, TypeOK
<1>3. Strands(t)' <=> Strands(t)
  <2> USE DEF IInv, TypeOK, Goes, Strands
  <2>1. CASE Top(t)
    BY <2>1 DEF Top
  <2>2. CASE Starts(t)
    BY <2>2 DEF Starts
  <2>3. CASE GivesUp(t)
    BY <2>3 DEF GivesUp
  <2>4. CASE WorkEnds(t)
    BY <2>4 DEF WorkEnds
  <2>5. CASE Fin(t)
    BY <2>5 DEF Fin
  <2> QED BY <2>1, <2>2, <2>3, <2>4, <2>5
<1>4. \A u \in Thread : Strands(u)' <=> Strands(u)
  BY <1>2, <1>3 DEF Strands
<1> QED BY <1>1, <1>4 DEF View!vars, ViewOfPool, HandoffPending

\* shutdown(true) begins: what it strands are jobs that hold a worker.
LEMMA ShutdownShows ==
  ASSUME IInv, IsFiniteSet(busy), ShutdownBegin
  PROVE  View!Shutdown
<1>1. shut = "none" /\ shut' = NextWait /\ UNCHANGED <<busy, runnable, pc, waiting>>
  BY DEF ShutdownBegin, caller
<1>2. ViewOfPool = "open"
  BY <1>1 DEF ViewOfPool
<1>3. Cardinality(busy) = 0 <=> busy = {}
  BY BusyCount
<1>4. ViewOfPool' = IF Cardinality(busy) = 0 /\ ~HandoffPending THEN "closed" ELSE "draining"
  BY <1>1, <1>3 DEF ViewOfPool, NextWait
<1>5. Cardinality(busy) \in Nat
  BY BusyCount
<1>6. MStranded' => Cardinality(busy) > 0
  <2> SUFFICES ASSUME MStranded' PROVE Cardinality(busy) > 0
    OBVIOUS
  <2>1. PICK u \in Thread : runnable'[u] # NoJob
    BY DEF MStranded, Strands
  <2>2. u \in busy
    BY <1>1, <2>1 DEF IInv, BusyIsBusy
  <2> QED BY <1>3, <1>5, <2>2
<1>7. MStranded' \in BOOLEAN
  BY DEF MStranded
<1> QED BY <1>1, <1>2, <1>4, <1>6, <1>7 DEF View!Shutdown, MStranded, HandoffPending

\* A wait of shutdown(true) ends: the pool is closed, or it still waits.
LEMMA WaitShows ==
  ASSUME IInv, IInv', IsFiniteSet(busy), ShutdownWakes
  PROVE  View!Drained \/ UNCHANGED View!vars
<1>1. UNCHANGED <<busy, run, runnable, pc, waiting>>
  BY DEF ShutdownWakes, ShutdownHandoff, ShutdownBusy, ShutdownJoin, threads, caller
<1>2. MStranded' = MStranded /\ HandoffPending' = HandoffPending
  BY <1>1 DEF MStranded, Strands, HandoffPending
<1>3. CASE ViewOfPool' = ViewOfPool
  BY <1>1, <1>2, <1>3 DEF View!vars, MStranded
<1>4. CASE ViewOfPool' # ViewOfPool
  <2>1. shut \in {"handoff", "busy"} /\ shut' = "join"
    BY <1>4 DEF ViewOfPool, ShutdownWakes, ShutdownHandoff, ShutdownBusy, ShutdownJoin, NextWait
  <2>2. busy = {} /\ ~HandoffPending
    BY <1>1, <2>1 DEF IInv, ShutOK, HandoffPending
  <2>3. Cardinality(busy) = 0
    BY <2>2, BusyCount
  <2>4. ViewOfPool = "draining" /\ ViewOfPool' = "closed"
    BY <2>1 DEF ViewOfPool
  <2> QED BY <1>1, <1>2, <2>2, <2>3, <2>4 DEF View!Drained, MStranded
<1> QED BY <1>3, <1>4

\* SimpleThreadPool implements PoolView, for a pool of any size and any jobs: what
\* SchedulerThreads assumes of its three pools.
THEOREM PoolShowsView == Spec => ImplementsView
<1>1. Init => View!Init
  BY ViewInit
<1>2. IInv /\ IInv' /\ IsFiniteSet(busy) /\ [Next]_vars => [View!Next]_View!vars
  <2> SUFFICES ASSUME IInv, IInv', IsFiniteSet(busy), [Next]_vars
               PROVE  [View!Next]_View!vars
    OBVIOUS
  <2>1. CASE \E j \in Job : RunNow(j) \/ RunWaits(j)
    BY <2>1, RunNowShows, RunWaitsShows DEF View!Next
  <2>2. CASE RunWakes
    BY <2>2, RunWakesShows DEF View!Next
  <2>3. CASE \E t \in Thread : ThreadStep(t)
    <3> PICK t \in Thread : ThreadStep(t)
      BY <2>3
    <3>1. CASE Release(t)
      BY <3>1, ReleaseShows DEF View!Next
    <3>2. CASE Top(t) \/ Starts(t) \/ GivesUp(t) \/ WorkEnds(t) \/ Fin(t)
      BY <3>2, ThreadHides
    <3> QED BY <3>1, <3>2 DEF ThreadStep
  <2>4. CASE ShutdownBegin
    BY <2>4, ShutdownShows DEF View!Next
  <2>5. CASE ShutdownWakes
    BY <2>5, WaitShows DEF View!Next
  <2>6. CASE UNCHANGED vars
    BY <2>6 DEF vars, threads, caller, View!vars, ViewOfPool, Strands, HandoffPending
  <2> QED BY <2>1, <2>2, <2>3, <2>4, <2>5, <2>6 DEF Next
<1> QED BY <1>1, <1>2, Inductive, BusyIsFinite, PTL DEF Spec, ImplementsView, View!Spec
=============================================================================
