---------------------------- MODULE MCRetryTiming ----------------------------
(***************************************************************************)
(* Three queues: two intervals of 32 minutes and below, and one above.     *)
(* The behaviours begin at 22:28:00, from where an hour's end is 32        *)
(* minutes away; the clock shows every multiple of 640 seconds after that, *)
(* and the second that follows it.                                         *)
(***************************************************************************)
EXTENDS RetryTiming, TLC

CONSTANTS short, mid, long

MCInterval == (short :> 640) @@ (mid :> 1920) @@ (long :> 4480)
MCStart    == 22 * Hour + 28 * 60
MCMoments  == {MCStart + 640 * k : k \in 0 .. 11} \cup {MCStart + 1921, MCStart + 2561}
=============================================================================
