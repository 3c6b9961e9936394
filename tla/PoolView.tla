-------------------------------- MODULE PoolView --------------------------------
(***************************************************************************)
(* A thread pool as the scheduler thread and the main program see it: how  *)
(* many jobs it has not ended, whether it is open, and whether its         *)
(* shutdown has stranded a job.                                            *)
(*                                                                         *)
(* SimpleThreadPool implements this, and the three pools of                *)
(* SchedulerThreads do no other steps: this is where the two modules meet. *)
(***************************************************************************)
EXTENDS Naturals

CONSTANT Size       \* the number of workers

VARIABLES jobs,     \* number of jobs that still hold a thread of the pool
          pool,     \* "open", or its shutdown is "draining" it or has "closed" it
          stranded, \* a job was left with a worker that was told to terminate
          pending   \* a runInThread waits for a worker

vars == <<jobs, pool, stranded, pending>>

Init == jobs = 0 /\ pool = "open" /\ ~stranded /\ ~pending

\* runInThread finds a worker, or gets an additional thread after the shutdown.
HandOver ==
  /\ ~pending
  /\ pool = "open" => jobs < Size
  /\ jobs' = jobs + 1
  /\ UNCHANGED <<pool, stranded, pending>>

\* It waits when all workers are busy, and only then ...
HandOverWaits ==
  /\ ~pending /\ pool = "open" /\ jobs = Size
  /\ pending' = TRUE
  /\ UNCHANGED <<jobs, pool, stranded>>

\* ... until one is free, or the pool is shut down.
HandOverWakes ==
  /\ pending
  /\ pool = "open" => jobs < Size
  /\ jobs' = jobs + 1
  /\ pending' = FALSE
  /\ UNCHANGED <<pool, stranded>>

\* A job ends, but a stranded one never does.
JobEnds ==
  /\ IF stranded THEN jobs > 1 ELSE jobs > 0
  /\ jobs' = jobs - 1
  /\ UNCHANGED <<pool, stranded, pending>>

\* shutdown(true) begins, and has nothing to wait for if no job is left.
Shutdown ==
  /\ pool = "open"
  /\ pool' = IF jobs = 0 /\ ~pending THEN "closed" ELSE "draining"
  /\ stranded' \in BOOLEAN /\ (stranded' => jobs > 0)
  /\ UNCHANGED <<jobs, pending>>

\* It has seen the last job end.
Drained ==
  /\ pool = "draining" /\ jobs = 0 /\ ~pending
  /\ pool' = "closed"
  /\ UNCHANGED <<jobs, stranded, pending>>

Next == HandOver \/ HandOverWaits \/ HandOverWakes \/ JobEnds \/ Shutdown \/ Drained

Spec == Init /\ [][Next]_vars
=============================================================================
