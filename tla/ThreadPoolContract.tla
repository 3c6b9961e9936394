-------------------------- MODULE ThreadPoolContract --------------------------
(***************************************************************************)
(* What a thread pool promises to the one who submits jobs: a job that was *)
(* given to the pool runs at most once, to its end, and a shutdown that    *)
(* waits for the jobs returns only when no job is given or running.        *)
(* SimpleThreadPool implements this.                                       *)
(***************************************************************************)

CONSTANT Job            \* Runnables

VARIABLES status,       \* [Job -> Status]
          closed        \* shutdown(true) has seen the last job end

vars == <<status, closed>>

Status == {"new", "given", "running", "finished"}

Init == /\ status = [j \in Job |-> "new"]
        /\ closed = FALSE

Advance(j, from, to) == /\ status[j] = from
                        /\ status' = [status EXCEPT ![j] = to]
                        /\ UNCHANGED closed

Give(j)   == Advance(j, "new", "given")
Start(j)  == Advance(j, "given", "running")
Finish(j) == Advance(j, "running", "finished")

Close == /\ ~closed
         /\ \A j \in Job : status[j] \in {"new", "finished"}
         /\ closed' = TRUE
         /\ UNCHANGED status

Next == Close \/ \E j \in Job : Give(j) \/ Start(j) \/ Finish(j)

Spec == Init /\ [][Next]_vars
=============================================================================
