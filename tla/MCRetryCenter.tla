---------------------------- MODULE MCRetryCenter ----------------------------
(* Values of the constants of RetryCenter for TLC. *)
EXTENDS RetryCenter, TLC

CONSTANTS int, imm, dir,    \* messages, named after the mode of their queue
          switch, mix,      \* messages of queues that are being redeployed
          ever,             \* the same, from one infinite mode to the other
          w1, w2            \* pool threads

AtIntervalsOnce  == NewRetryQueueConfig(60, 1)
AtOnceTwice      == NewRetryQueueConfig(0, 2)
Direct           == NewRetryQueueConfig(-1, -1)
NoRetry          == NewRetryQueueConfig(0, 0)
Unsupported      == NewRetryQueueConfig(-5, 0)
ForEver          == NewRetryQueueConfig(60, -1)

Deployed == int :> {AtIntervalsOnce} @@ imm :> {AtOnceTwice} @@ dir :> {Direct}
            @@ switch :> {AtIntervalsOnce, Direct}
            @@ mix :> {NewRetryQueueConfig(0, 1), Unsupported, NoRetry}
            @@ ever :> {ForEver, NewRetryQueueConfig(0, -1)}
MCConfigs == [m \in Msg |-> Deployed[m]]
Infinite  == [m \in Msg |-> {ForEver}]

InHand == bizQ \cup {owner[i] : i \in 1 .. lastId} \cup {q.msg : q \in Pending}
          \cup {m \in Msg : retryQ[m] # << >>}

\* Only one of the messages fails at its first delivery.  One of a queue that is
\* being redeployed meets a fault or an operator, the others may meet both.
OneFailsSpec ==
  Init /\ Cardinality(bizQ) = 1
       /\ [][Next /\ (InHand \cap {mix, ever} = {} \/ faults' + ops' <= 1)]_vars

\* Two messages fail and nothing else does, or one does and there are faults.
TwoFailSpec ==
  Init /\ Cardinality(bizQ) \in 1 .. 2
       /\ [][Next /\ (faults' = faults \/ Cardinality(InHand) = 1)]_vars /\ Fairness

Symmetry == Permutations(EqWorker)
=============================================================================
