---------------------------- MODULE RetryContract ----------------------------
(***************************************************************************)
(* What the framework promises for every business message, without saying  *)
(* how: a message stays in the care of the framework (it is retrying, or   *)
(* it is recoverable from the recover table) until its handler succeeds.   *)
(* A message may leave that care unhandled only when it is excused: an     *)
(* operator discarded its recover record, or the center lost it from the   *)
(* memory of its exception-queue task.  RetryCenter implements this.       *)
(***************************************************************************)

CONSTANT Msg            \* business messages

VARIABLES status,       \* [Msg -> Status]
          excused       \* messages that are allowed to vanish

vars == <<status, excused>>

Status == {"retrying", "recoverable", "handled", "vanished"}

Init == /\ status \in [Msg -> {"retrying", "handled"}]
        /\ excused = {}

\* The business handler accepts the message: final.
Handle(m) == status'[m] = "handled"

\* Retrying is given up (or timed out) and the message waits for an operator.
Park(m) == status[m] = "retrying" /\ status'[m] = "recoverable"

\* An excused message is no longer followed, except that handled is final.
Excuse(m) == m \in excused' /\ status[m] # "handled"

Keep(m) == status'[m] = status[m]

Next == /\ status' \in [Msg -> Status]
        /\ excused \subseteq excused'
        /\ \A m \in Msg : Keep(m) \/ Handle(m) \/ Park(m) \/ Excuse(m)

Spec == Init /\ [][Next]_vars
=============================================================================
