----------------------------- MODULE RetryTiming -----------------------------
(***************************************************************************)
(* The times of interval_retry records: when the poller sends a record,    *)
(* and when house keeping takes it for abandoned and parks it.  RetryCenter *)
(* says what can happen to a record in which order, this module when.      *)
(*                                                                         *)
(* Time is counted in whole seconds, as the columns of the table keep it,  *)
(* from midnight of some day.  What the center does takes no time, but for *)
(* its waits: the poller's wait for the next_exec_at of the record it has  *)
(* checked out, and the idle wait of house keeping.  The poller's idle     *)
(* wait (half a second) counts as none, and its pool always has a free     *)
(* thread.  Clients may take any time.                                     *)
(***************************************************************************)
EXTENDS Integers

CONSTANTS Msg,            \* business messages
          NoMsg,          \* not a message
          Interval,       \* [Msg -> Nat]: retryInterval of their queues, in seconds
          Longest,        \* the longest of these intervals
          TimeThreshold,  \* HouseKeepCheckoutTimeThreshold, in milliseconds
          HkIdle,         \* HouseKeepSchedulerThreadIdleWait, in seconds
          Start,          \* the time at which a behaviour begins
          Moments         \* bound: the times to which the clock may advance

ASSUME TimingAssumption ==
  /\ NoMsg \notin Msg
  /\ Longest \in Nat
  /\ Interval \in [Msg -> 0 .. Longest]
  /\ TimeThreshold \in Nat
  /\ HkIdle \in Nat \ {0}
  /\ Start \in Nat
  /\ Moments \subseteq Nat

VARIABLES
  now,      \* the time
  state,    \* [Msg -> state of its interval_retry record]; "PARKED": in recover
  due,      \* [Msg -> next_exec_at], 0 for none
  out,      \* [Msg -> checkout_at], 0 for none
  polled,   \* the record the poller holds: its message and next_exec_at
  client,   \* messages with a copy in a retry queue or in a listener
  hkAt      \* when house keeping reads the table again

table == <<state, due, out>>
vars  == <<now, table, polled, client, hkAt>>

Nothing == [msg |-> NoMsg, at |-> 0]

Init ==
  /\ now = Start
  /\ state = [m \in Msg |-> "NONE"]
  /\ due = [m \in Msg |-> 0]
  /\ out = [m \in Msg |-> 0]
  /\ polled = Nothing
  /\ client = Msg
  /\ hkAt = Start

-----------------------------------------------------------------------------
Day  == 86400
Hour == 3600

\* A DATETIME in a numeric context is the number YYYYMMDDHHMMSS; the day
\* stands for the date.
AsNumber(t) ==
  (t \div Day) * 1000000 + ((t % Day) \div Hour) * 10000 + ((t % Hour) \div 60) * 100
    + (t % 60)

\* Seeded fault: the milliseconds are not converted.
ThresholdRaw == TimeThreshold

\* The parameter of getIntervalRetriesOutOfThreshold.
Threshold == TimeThreshold \div 1000

\* Seeded fault: >= in the place of >.
OutOfThresholdOrEqual(o, t) == AsNumber(t) >= AsNumber(o) + Threshold

\* CURRENT_TIMESTAMP > (checkout_at + #value#)
OutOfThreshold(o, t) == AsNumber(t) > AsNumber(o) + Threshold

\* Seeded fault: the SELECT without its ORDER BY.
MostUrgentUnordered(m) == state[m] = "TO_RETRY"

\* getMostUrgentIntervalRetry(1): any of the first ones.
MostUrgent(m) ==
  /\ state[m] = "TO_RETRY"
  /\ \A n \in Msg : state[n] = "TO_RETRY" => due[m] <= due[n]

HasReachedTaskExecuteTime == polled.at <= now

Overdue == {m \in Msg : state[m] = "IN_RETRY" /\ OutOfThreshold(out[m], now)}

\* Seeded fault: the record is marked and not deleted.
DeleteKeepsTimes(S, how) ==
  /\ state' = [m \in Msg |-> IF m \in S THEN how ELSE state[m]]
  /\ UNCHANGED <<due, out>>

\* Records deleted from the table: what became of them.
Delete(S, how) ==
  /\ state' = [m \in Msg |-> IF m \in S THEN how ELSE state[m]]
  /\ due' = [m \in Msg |-> IF m \in S THEN 0 ELSE due[m]]
  /\ out' = [m \in Msg |-> IF m \in S THEN 0 ELSE out[m]]

-----------------------------------------------------------------------------
\* A failed message comes to the center: added at the first failure, else
\* checked in.  An update of a record that is gone has no effect.
DoIntervalMessageRetry(m) ==
  /\ m \in client
  /\ client' = client \ {m}
  /\ IF state[m] \in {"NONE", "IN_RETRY"}
     THEN /\ state' = [state EXCEPT ![m] = "TO_RETRY"]
          /\ due' = [due EXCEPT ![m] = now + Interval[m]]
          /\ out' = [out EXCEPT ![m] = 0]
     ELSE UNCHANGED table
  /\ UNCHANGED <<now, polled, hkAt>>

\* The retry succeeds, or was the last one: the record leaves the table.
LeaveTable(m) ==
  /\ m \in client /\ state[m] = "IN_RETRY"
  /\ client' = client \ {m}
  /\ Delete({m}, "LEFT")
  /\ UNCHANGED <<now, polled, hkAt>>

\* The poller reads the most urgent record and checks it out at once, also
\* when its time is still to come.
ConstructPollTask(m) ==
  /\ polled = Nothing
  /\ MostUrgent(m)
  /\ polled' = [msg |-> m, at |-> due[m]]
  /\ state' = [state EXCEPT ![m] = "IN_RETRY"]
  /\ out' = [out EXCEPT ![m] = now]
  /\ UNCHANGED <<now, due, client, hkAt>>

\* The time of the record has come: its copy is sent.
Execute ==
  /\ polled # Nothing
  /\ HasReachedTaskExecuteTime
  /\ client' = client \cup {polled.msg}
  /\ polled' = Nothing
  /\ UNCHANGED <<now, table, hkAt>>

\* House keeping parks the records out of the threshold and reads again;
\* when it finds none it waits.
HouseKeep ==
  /\ hkAt = now
  /\ IF Overdue # {}
     THEN Delete(Overdue, "PARKED") /\ UNCHANGED hkAt
     ELSE hkAt' = now + HkIdle /\ UNCHANGED table
  /\ UNCHANGED <<now, polled, client>>

\* The center goes down and is started again at once: the poller's record is
\* forgotten, house keeping begins with a read.
Restart ==
  /\ polled' = Nothing
  /\ hkAt' = now
  /\ UNCHANGED <<now, table, client>>

\* The time passes, but no wait of the center lasts longer than it should.
Tick(t) ==
  /\ now < t
  /\ polled = Nothing => \A m \in Msg : state[m] # "TO_RETRY"
  /\ polled # Nothing => t <= polled.at
  /\ t <= hkAt
  /\ now' = t
  /\ UNCHANGED <<table, polled, client, hkAt>>

Next ==
  \/ \E m \in Msg : DoIntervalMessageRetry(m) \/ LeaveTable(m) \/ ConstructPollTask(m)
  \/ Execute \/ HouseKeep \/ Restart
  \/ \E t \in Moments : Tick(t)

Spec == Init /\ [][Next]_vars

-----------------------------------------------------------------------------
States == {"NONE", "TO_RETRY", "IN_RETRY", "PARKED", "LEFT"}

\* Types of the variables.  A record that is gone has no times, one that is
\* checked out has the time of its check-out, no later than now.
TypeOK ==
  /\ now \in Nat
  /\ state \in [Msg -> States]
  /\ due \in [Msg -> Nat]
  /\ out \in [Msg -> Nat]
  /\ polled \in [msg : Msg, at : Nat] \cup {Nothing}
  /\ client \subseteq Msg
  /\ hkAt \in Nat /\ now <= hkAt
  /\ \A m \in Msg : /\ out[m] <= now
                    /\ state[m] \in {"NONE", "PARKED", "LEFT"} => due[m] = 0 /\ out[m] = 0

\* How late a retry can be.  The poller waits for the record it has checked
\* out (waitUntilAppropriateToExecute) and takes no other; a record stored
\* meanwhile waits too, beyond its own time, but no longer than the longest
\* interval from the moment it was stored.
LatenessBounded ==
  \A m \in Msg : state[m] = "TO_RETRY" => now <= due[m] + (Longest - Interval[m])

\* A record that is checked out stays so for less than an hour and one idle
\* wait of house keeping: what a lost copy or a restart leaves behind is
\* parked (mrf-center.properties:31-33 says two hours).
AbandonedIsParked ==
  \A m \in Msg : state[m] = "IN_RETRY" => now - out[m] < Hour + HkIdle

SameDay(s, t) == s \div Day = t \div Day

Parks(m) == state[m] = "IN_RETRY" /\ state'[m] = "PARKED"

\* What a record has been checked out for, in seconds, when it can be parked on
\* the day of its check-out.
LeastTime == 32 * 60 + 1

\* House keeping never parks a record in the clock hour of its check-out, and
\* on the day of its check-out not before 32 minutes and a second have passed.
ParkedInALaterHour ==
  [][\A m \in Msg : Parks(m) =>
       /\ out[m] \div Hour < now \div Hour
       /\ SameDay(out[m], now) => now - out[m] >= LeastTime]_vars

\* A record is checked out while it still waits for its time, and that wait
\* counts for house keeping: it parks the record the poller holds only if the
\* queue's interval is more than 32 minutes, or at midnight.
ShortWaitIsNotParked ==
  [][\A m \in Msg : Parks(m) /\ polled.msg = m /\ SameDay(out[m], now) =>
       Interval[m] >= LeastTime]_vars
=============================================================================
