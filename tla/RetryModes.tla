------------------------------ MODULE RetryModes ------------------------------
(***************************************************************************)
(* What a retry queue's configuration means: the pure functions of         *)
(* RetryQueueConfigHelper on retryInterval and retryTimes.  The listeners  *)
(* (RetryCenter) ask them at every delivery.                               *)
(*                                                                         *)
(* The comments of the code say that a negative interval, or 0 retry       *)
(* times, means "don't retry" (MessageConstants:54, RetryQueueConfig:21).  *)
(* The code retries all of them but 0/0 (OnlyZeroZeroIsNotRetried).        *)
(***************************************************************************)
EXTENDS Integers

\* setRetryInterval and setRetryTimes: anything negative becomes -1.
Clamp(n) == IF n < 0 THEN -1 ELSE n
NewRetryQueueConfig(interval, times) ==
  [retryInterval |-> Clamp(interval), retryTimes |-> Clamp(times)]

RetryQueueConfig == [retryInterval : {-1} \cup Nat, retryTimes : {-1} \cup Nat]

GetMessageRetryMode(cfg) ==
  LET interval == cfg.retryInterval
      times    == cfg.retryTimes
  IN  CASE interval = -1 /\ times = -1 -> "DIRECT_TO_RECOVER"
        [] interval = 0 /\ times = 0   -> "NO_RETRY"
        [] interval = 0 /\ times < 0   -> "RETRY_IMMEDIATE_INFINITE"
        [] interval = 0 /\ times > 0   -> "RETRY_IMMEDIATE_FINITE"
        [] interval > 0 /\ times < 0   -> "RETRY_INTERVAL_INFINITE"
        [] interval > 0 /\ times > 0   -> "RETRY_INTERVAL_FINITE"
        [] OTHER                       -> "UNSUPPORTED_RETRY_MODE"

IsImmediate(cfg) == cfg.retryInterval = 0
IsInfinite(cfg)  == GetMessageRetryMode(cfg) \in
                      {"RETRY_IMMEDIATE_INFINITE", "RETRY_INTERVAL_INFINITE"}
ShouldRetryByConfig(cfg)    == GetMessageRetryMode(cfg) # "NO_RETRY"
ShouldDirectToRecover(cfg)  == GetMessageRetryMode(cfg) = "DIRECT_TO_RECOVER"

\* The retriedTimes that a queue of this configuration can cause.  The first
\* delivery is retried whatever the maximum, 0 included.
Retries(cfg) ==
  IF ShouldDirectToRecover(cfg) \/ ~ShouldRetryByConfig(cfg) THEN {}
  ELSE 1 .. (IF cfg.retryTimes = 0 THEN 1 ELSE cfg.retryTimes)
=============================================================================
