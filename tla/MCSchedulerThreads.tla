-------------------------- MODULE MCSchedulerThreads --------------------------
(* Values of the constants of SchedulerThreads for TLC. *)
EXTENDS SchedulerThreads

Sizes == [s \in Sched |-> IF s = "ir" THEN 2 ELSE 1]
=============================================================================
