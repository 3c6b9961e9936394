-------------------------- MODULE RetryTiming_proofs --------------------------
(***************************************************************************)
(* Theorems about RetryTiming, for any queues, intervals and idle wait:    *)
(* what the comparison of house keeping means in seconds, how late a retry *)
(* can be, and when a record is parked.  The ones about parking are for    *)
(* the threshold all configurations of the repository have, 7200000.       *)
(***************************************************************************)
EXTENDS RetryTiming, TLAPS

DefaultThreshold == TimeThreshold = 7200000

\* What a clock shows: a day, an hour, a minute and a second; and what that is as
\* a time and as the number of a DATETIME.
Clock     == [d : Nat, h : 0 .. 23, m : 0 .. 59, s : 0 .. 59]
Time(c)   == 86400 * c.d + 3600 * c.h + 60 * c.m + c.s
Number(c) == 1000000 * c.d + 10000 * c.h + 100 * c.m + c.s

\* The second number is more than 7200 above the first.
Beyond(c, e) == Number(e) > Number(c) + 7200

\* The second time is less than k seconds after the first.
Within(k, c, e) == Time(e) < Time(c) + k

\* The hands of a clock.
Hands(c) ==
  /\ c.d \in Nat /\ c.h \in Nat /\ c.m \in Nat /\ c.s \in Nat
  /\ c.h <= 23 /\ c.m <= 59 /\ c.s <= 59

\* The seconds since the full hour.
PastHour(c) == 60 * c.m + c.s

\* The hands of every clock are numbers.
LEMMA ClockHands == ASSUME NEW c \in Clock PROVE Hands(c)
BY DEF Clock, Hands

\* A time is its day, its hour and the seconds since.
LEMMA HourHand ==
  ASSUME NEW c \in Clock
  PROVE  /\ PastHour(c) \in Nat /\ PastHour(c) < 3600
         /\ Time(c) = 86400 * c.d + 3600 * c.h + PastHour(c)
BY ClockHands, SMT DEF Hands, PastHour, Time

\* Two times at least an hour apart: their numbers are more than 7200 apart.
LEMMA AnHourApart ==
  ASSUME NEW c \in Clock, NEW e \in Clock, ~Within(3600, c, e)
  PROVE  Beyond(c, e)
<1>0. Hands(c) /\ Hands(e)
  BY ClockHands
<1> USE <1>0
<1>1. \/ e.d > c.d
      \/ e.d = c.d /\ e.h > c.h + 1
      \/ e.d = c.d /\ e.h = c.h + 1 /\ PastHour(e) >= PastHour(c)
  <2>1. e.d >= c.d
    BY HourHand, SMT DEF Hands, Within
  <2>2. e.d = c.d => 3600 * e.h + PastHour(e) >= 3600 * c.h + PastHour(c) + 3600
    BY HourHand, SMT DEF Hands, Within
  <2> QED BY <2>1, <2>2, HourHand, SMT DEF Hands
<1>2. CASE e.d > c.d
  BY <1>2, SMT DEF Hands, Beyond, Number
<1>3. CASE e.d = c.d /\ e.h > c.h + 1
  BY <1>3, SMT DEF Hands, Beyond, Number
<1>4. CASE e.d = c.d /\ e.h = c.h + 1 /\ PastHour(e) >= PastHour(c)
  <2>1. e.m > c.m \/ (e.m = c.m /\ e.s >= c.s)
    BY <1>4, SMT DEF Hands, PastHour
  <2> QED BY <1>4, <2>1, SMT DEF Hands, Beyond, Number
<1> QED BY <1>1, <1>2, <1>3, <1>4

\* Two times no more than 32 minutes apart on one day: not more than 7200.
LEMMA HalfAnHourApart ==
  ASSUME NEW c \in Clock, NEW e \in Clock, c.d = e.d, Within(LeastTime, c, e)
  PROVE  ~Beyond(c, e)
<1>0. Hands(c) /\ Hands(e)
  BY ClockHands
<1> USE <1>0
<1>1. e.h <= c.h \/ (e.h = c.h + 1 /\ PastHour(e) + 1680 <= PastHour(c))
  <2>1. 3600 * e.h + PastHour(e) < 3600 * c.h + PastHour(c) + 1921
    BY HourHand, SMT DEF Hands, Within, LeastTime
  <2> QED BY <2>1, HourHand, SMT DEF Hands
<1>2. CASE e.h <= c.h
  BY <1>2, SMT DEF Hands, Beyond, Number
<1>3. CASE e.h = c.h + 1 /\ PastHour(e) + 1680 <= PastHour(c)
  <2>1. e.m + 28 < c.m \/ (e.m + 28 = c.m /\ e.s <= c.s)
    BY <1>3, SMT DEF Hands, PastHour
  <2> QED BY <1>3, <2>1, SMT DEF Hands, Beyond, Number
<1> QED BY <1>1, <1>2, <1>3

\* A time on a later day: more than 7200.
LEMMA DaysApart ==
  ASSUME NEW c \in Clock, NEW e \in Clock, e.d > c.d
  PROVE  Beyond(c, e)
BY ClockHands, SMT DEF Hands, Beyond, Number

\* What the clock shows at a time.
Shows(c, t) ==
  /\ Time(c) = t
  /\ AsNumber(t) = Number(c)
  /\ t \div Day = c.d
  /\ t \div Hour = 24 * c.d + c.h

\* It shows something at every time.
LEMMA ClockShows ==
  ASSUME NEW t \in Nat
  PROVE  \E c \in Clock : Shows(c, t)
<1> DEFINE d == t \div 86400
           r == t % 86400
           h == r \div 3600
           q == t % 3600
           m == q \div 60
           s == t % 60
           c == [d |-> d, h |-> h, m |-> m, s |-> s]
<1>1. d \in Nat /\ r \in Nat /\ r < 86400 /\ t = 86400 * d + r
  BY SMT
<1>2. h \in Nat /\ q \in Nat /\ q < 3600 /\ r = 3600 * h + q
  BY SMT
<1>3. m \in Nat /\ s \in Nat /\ s < 60 /\ q = 60 * m + s
  BY SMT
<1>4. t \div Day = d /\ t \div Hour = 24 * d + h
  BY SMT DEF Day, Hour
<1>5. AsNumber(t) = 1000000 * d + 10000 * h + 100 * m + s
  BY SMT DEF AsNumber, Day, Hour
<1> HIDE DEF d, r, h, q, m, s
<1>6. c \in Clock
  BY <1>1, <1>2, <1>3, SMT DEF Clock
<1>7. Time(c) = t
  BY <1>1, <1>2, <1>3, SMT DEF Time
<1>8. Shows(c, t)
  BY <1>4, <1>5, <1>7 DEF Shows, Number
<1> QED BY <1>6, <1>8

\* The parameter of the SELECT, in seconds.
LEMMA ThresholdIs == DefaultThreshold => Threshold = 7200
BY SMT DEF DefaultThreshold, Threshold

\* With it, the comparison is one of numbers.
LEMMA OutMeans ==
  ASSUME DefaultThreshold, NEW o, NEW t, NEW c \in Clock, NEW e \in Clock,
         Shows(c, o), Shows(e, t)
  PROVE  OutOfThreshold(o, t) <=> Beyond(c, e)
BY ThresholdIs DEF OutOfThreshold, Shows, Beyond

\* An hour after its check-out every record is out of the threshold, which
\* mrf-center.properties:31-33 describes as two hours.
THEOREM OutAfterAnHour ==
  ASSUME DefaultThreshold, NEW o \in Nat, NEW t \in Nat, t >= o + Hour
  PROVE  OutOfThreshold(o, t)
<1>1. PICK c \in Clock : Shows(c, o)
  BY ClockShows
<1>2. PICK e \in Clock : Shows(e, t)
  BY ClockShows
<1>3. ~Within(3600, c, e)
  BY <1>1, <1>2, SMT DEF Shows, Within, Hour
<1>4. Beyond(c, e)
  BY <1>3, AnHourApart
<1> QED BY <1>1, <1>2, <1>4, OutMeans

\* In the clock hour of its check-out no record is out of the threshold, and
\* on its day not before 32 minutes and a second have passed.
THEOREM WithinHalfAnHour ==
  ASSUME DefaultThreshold, NEW o \in Nat, NEW t \in Nat, o <= t, OutOfThreshold(o, t)
  PROVE  /\ o \div Hour < t \div Hour
         /\ SameDay(o, t) => t - o >= LeastTime
<1> USE ClockHands
<1>1. PICK c \in Clock : Shows(c, o)
  BY ClockShows
<1>2. PICK e \in Clock : Shows(e, t)
  BY ClockShows
<1>3. Beyond(c, e)
  BY <1>1, <1>2, OutMeans
<1>4. 24 * c.d + c.h # 24 * e.d + e.h
  <2>1. ASSUME 24 * c.d + c.h = 24 * e.d + e.h PROVE FALSE
    <3>1. c.d = e.d /\ c.h = e.h
      BY <2>1, SMT DEF Hands
    <3> QED BY <1>3, <3>1, SMT DEF Hands, Beyond, Number
  <2> QED BY <2>1
<1>5. 24 * c.d + c.h <= 24 * e.d + e.h
  BY <1>1, <1>2, SMT DEF Hands, Shows, Time
<1>6. o \div Hour < t \div Hour
  BY <1>1, <1>2, <1>4, <1>5, SMT DEF Hands, Shows
<1>7. ASSUME SameDay(o, t), t - o < LeastTime PROVE FALSE
  <2>1. c.d = e.d
    BY <1>1, <1>2, <1>7 DEF SameDay, Shows
  <2>2. Within(LeastTime, c, e)
    BY <1>1, <1>2, <1>7, SMT DEF Shows, Within, LeastTime
  <2> QED BY <1>3, <2>1, <2>2, HalfAnHourApart
<1> QED BY <1>6, <1>7, SMT DEF LeastTime

\* That bound is met: whatever is checked out in the last 32 minutes of an hour,
\* but for the last hour of a day, is out of the threshold then.
THEOREM OutAfterLeastTime ==
  ASSUME DefaultThreshold, NEW o \in Nat, o % Hour >= 28 * 60, SameDay(o, o + LeastTime)
  PROVE  OutOfThreshold(o, o + LeastTime)
<1>1. PICK t \in Nat : t = o + LeastTime /\ t = o + 1921
  BY DEF LeastTime
<1>2. PICK c \in Clock : Shows(c, o)
  BY ClockShows
<1>3. PICK e \in Clock : Shows(e, t)
  BY ClockShows
<1>0. Hands(c) /\ Hands(e)
  BY ClockHands
<1> USE <1>0
<1>4. c.d = e.d
  BY <1>1, <1>2, <1>3 DEF SameDay, Shows
<1>5. PastHour(c) >= 1680
  <2>1. o = 3600 * (24 * c.d + c.h) + PastHour(c)
    BY <1>2, HourHand, SMT DEF Hands, Shows
  <2>2. o % Hour = PastHour(c)
    BY <2>1, HourHand, SMT DEF Hands, Hour
  <2> QED BY <2>2
<1>6. 3600 * e.h + PastHour(e) = 3600 * c.h + PastHour(c) + 1921
  <2>1. Time(e) = Time(c) + 1921
    BY <1>1, <1>2, <1>3 DEF Shows
  <2> QED BY <1>2, <1>3, <1>4, <2>1, HourHand, SMT DEF Hands
<1>7. e.h = c.h + 1 /\ PastHour(e) + 1679 = PastHour(c)
  BY <1>5, <1>6, HourHand, SMT DEF Hands
<1>8. e.m + 28 > c.m \/ (e.m + 28 = c.m /\ e.s = c.s + 1)
  BY <1>7, SMT DEF Hands, PastHour
<1>9. Beyond(c, e)
  BY <1>4, <1>7, <1>8, SMT DEF Hands, Beyond, Number
<1> QED BY <1>1, <1>2, <1>3, <1>9, OutMeans

\* At midnight every record of the day before is out of the threshold, also
\* one that was checked out a second ago.
THEOREM OutAtMidnight ==
  ASSUME DefaultThreshold, NEW o \in Nat, NEW t \in Nat, o <= t, ~SameDay(o, t)
  PROVE  OutOfThreshold(o, t)
<1> USE ClockHands
<1>1. PICK c \in Clock : Shows(c, o)
  BY ClockShows
<1>2. PICK e \in Clock : Shows(e, t)
  BY ClockShows
<1>3. c.d # e.d
  BY <1>1, <1>2 DEF SameDay, Shows
<1>4. e.d > c.d
  BY <1>1, <1>2, <1>3, SMT DEF Hands, Shows, Time
<1>5. Beyond(c, e)
  BY <1>4, DaysApart
<1> QED BY <1>1, <1>2, <1>5, OutMeans

-----------------------------------------------------------------------------
\* What the poller holds falls due, for every record that waits meanwhile, no
\* later than the longest interval after that record was stored; and it waits
\* for no more than the interval of its queue.
PollerAhead ==
  /\ \A m \in Msg : state[m] = "TO_RETRY" => due[m] <= now + Interval[m]
  /\ polled # Nothing => polled.at <= now + Longest
  /\ \A m \in Msg : state[m] = "TO_RETRY" /\ polled # Nothing =>
       polled.at <= due[m] + (Longest - Interval[m])
  /\ \A m \in Msg : state[m] = "IN_RETRY" /\ polled.msg = m =>
       polled.at <= out[m] + Interval[m] /\ now <= out[m] + Interval[m]

\* House keeping has seen, at its last read, no record older than an hour.
HkSeen ==
  /\ hkAt <= now + HkIdle
  /\ \A m \in Msg : state[m] = "IN_RETRY" => hkAt < out[m] + HkIdle + Hour

\* The inductive invariant.
IInv == TypeOK /\ PollerAhead /\ LatenessBounded /\ HkSeen

\* The invariant holds before the first step.
LEMMA InitInv == Init => IInv
<1> SUFFICES ASSUME Init PROVE IInv
  OBVIOUS
<1> USE TimingAssumption
<1>1. TypeOK
  BY SMT DEF Init, TypeOK, States
<1>2. PollerAhead /\ LatenessBounded /\ HkSeen
  BY SMT DEF Init, PollerAhead, LatenessBounded, HkSeen, Nothing
<1> QED BY <1>1, <1>2 DEF IInv

\* Every message's interval is one of the bounded ones.
LEMMA Intervals ==
  \A m \in Msg : Interval[m] \in Nat /\ Interval[m] <= Longest /\ Longest \in Nat /\ m # NoMsg
BY TimingAssumption, SMT

\* A record stored while the poller waits for another.
LEMMA DoIntervalMessageRetryStep ==
  ASSUME IInv, NEW m \in Msg, DoIntervalMessageRetry(m) PROVE IInv'
<1> USE Intervals DEF DoIntervalMessageRetry, table
<1>1. TypeOK'
  BY SMT DEF IInv, TypeOK, States, Nothing
<1>2. PollerAhead'
  BY SMT DEF IInv, TypeOK, PollerAhead
<1>3. LatenessBounded'
  BY SMT DEF IInv, TypeOK, LatenessBounded
<1>4. HkSeen'
  BY SMT DEF IInv, TypeOK, HkSeen, Hour
<1> QED BY <1>1, <1>2, <1>3, <1>4 DEF IInv

\* Records that leave the table disturb nothing.
LEMMA DeleteStep ==
  ASSUME IInv, NEW S \in SUBSET Msg, NEW how \in {"LEFT", "PARKED"}, Delete(S, how),
         UNCHANGED <<now, polled>>, client' \subseteq client, UNCHANGED hkAt
  PROVE  IInv'
<1> USE Intervals DEF Delete
<1>1. TypeOK'
  BY SMT DEF IInv, TypeOK, States, Nothing
<1>2. PollerAhead'
  BY SMT DEF IInv, TypeOK, PollerAhead
<1>3. LatenessBounded' /\ HkSeen'
  BY SMT DEF IInv, TypeOK, LatenessBounded, HkSeen
<1> QED BY <1>1, <1>2, <1>3 DEF IInv

\* The poller takes the most urgent record.
LEMMA ConstructPollTaskStep ==
  ASSUME IInv, NEW m \in Msg, ConstructPollTask(m) PROVE IInv'
<1> USE Intervals DEF ConstructPollTask, MostUrgent
<1>1. TypeOK'
  BY SMT DEF IInv, TypeOK, States, Nothing
<1>2. PollerAhead'
  BY SMT DEF IInv, TypeOK, PollerAhead
<1>3. LatenessBounded'
  BY SMT DEF IInv, TypeOK, LatenessBounded
<1>4. HkSeen'
  BY TimingAssumption, SMT DEF IInv, TypeOK, HkSeen, Hour
<1> QED BY <1>1, <1>2, <1>3, <1>4 DEF IInv

\* The poller that has sent its record, or forgotten it, holds nothing.
LEMMA ReleaseStep ==
  ASSUME IInv, polled' = Nothing, UNCHANGED <<now, table>>, client' \subseteq Msg,
         hkAt' \in Nat, now <= hkAt', hkAt' <= hkAt
  PROVE  IInv'
<1> USE Intervals DEF table
<1>1. TypeOK'
  BY SMT DEF IInv, TypeOK, States
<1>2. PollerAhead'
  <2>1. \A m \in Msg : polled'.msg # m
    BY DEF Nothing
  <2> QED BY <2>1, SMT DEF IInv, TypeOK, PollerAhead
<1>3. LatenessBounded'
  BY SMT DEF IInv, TypeOK, LatenessBounded
<1>4. HkSeen'
  BY TimingAssumption, SMT DEF IInv, TypeOK, HkSeen, Hour
<1> QED BY <1>1, <1>2, <1>3, <1>4 DEF IInv

\* A read of house keeping: what it finds leaves the table; when it finds
\* nothing, no record is as old as an hour.
LEMMA HouseKeepStep ==
  ASSUME DefaultThreshold, IInv, HouseKeep PROVE IInv'
<1>1. CASE Overdue # {}
  <2>1. Overdue \subseteq Msg
    BY DEF Overdue
  <2> QED BY <1>1, <2>1, DeleteStep DEF HouseKeep
<1>2. CASE Overdue = {}
  <2> USE <1>2, Intervals DEF HouseKeep, table
  <2>1. \A m \in Msg : state[m] = "IN_RETRY" => now < out[m] + Hour
    <3> SUFFICES ASSUME NEW m \in Msg, state[m] = "IN_RETRY", now >= out[m] + Hour
                 PROVE  FALSE
      BY SMT DEF IInv, TypeOK, Hour
    <3>1. now \in Nat /\ out[m] \in Nat
      BY DEF IInv, TypeOK
    <3>2. OutOfThreshold(out[m], now)
      BY <3>1, OutAfterAnHour
    <3> QED BY <3>2 DEF Overdue
  <2>2. TypeOK'
    BY TimingAssumption, SMT DEF IInv, TypeOK, States
  <2>3. PollerAhead' /\ LatenessBounded'
    BY SMT DEF IInv, PollerAhead, LatenessBounded
  <2>4. HkSeen'
    BY <2>1, TimingAssumption, SMT DEF IInv, TypeOK, HkSeen, Hour
  <2> QED BY <2>2, <2>3, <2>4 DEF IInv
<1> QED BY <1>1, <1>2

\* Time passes, up to what the poller and house keeping wait for.
LEMMA TickStep ==
  ASSUME IInv, NEW t \in Moments, Tick(t) PROVE IInv'
<1> USE Intervals DEF Tick, table
<1>1. t \in Nat /\ now < t
  BY TimingAssumption
<1>2. TypeOK'
  BY <1>1, SMT DEF IInv, TypeOK, States
<1>3. PollerAhead'
  <2>1. \A m \in Msg : polled.msg = m => polled # Nothing
    BY DEF Nothing
  <2>2. polled # Nothing => polled.at \in Nat
    BY DEF IInv, TypeOK
  <2> QED BY <1>1, <2>1, <2>2, SMT DEF IInv, TypeOK, PollerAhead
<1>4. LatenessBounded'
  <2>1. polled # Nothing => polled.at \in Nat
    BY DEF IInv, TypeOK
  <2> QED BY <1>1, <2>1, SMT DEF IInv, TypeOK, PollerAhead, LatenessBounded
<1>5. HkSeen'
  BY <1>1, TimingAssumption, SMT DEF IInv, TypeOK, HkSeen, Hour
<1> QED BY <1>2, <1>3, <1>4, <1>5 DEF IInv

\* Every step keeps the invariant.
LEMMA NextInv ==
  ASSUME DefaultThreshold, IInv, [Next]_vars PROVE IInv'
<1>1. ASSUME NEW m \in Msg, DoIntervalMessageRetry(m) PROVE IInv'
  BY <1>1, DoIntervalMessageRetryStep
<1>2. ASSUME NEW m \in Msg, LeaveTable(m) PROVE IInv'
  BY <1>2, DeleteStep DEF LeaveTable
<1>3. ASSUME NEW m \in Msg, ConstructPollTask(m) PROVE IInv'
  BY <1>3, ConstructPollTaskStep
<1>4. CASE Execute
  <2>1. polled.msg \in Msg
    BY <1>4 DEF Execute, IInv, TypeOK
  <2>2. now <= hkAt /\ hkAt \in Nat /\ hkAt <= hkAt /\ client \cup {polled.msg} \subseteq Msg
    BY <2>1, SMT DEF IInv, TypeOK
  <2> QED BY <1>4, <2>2, ReleaseStep DEF Execute
<1>5. CASE HouseKeep
  BY <1>5, HouseKeepStep
<1>6. CASE Restart
  <2>1. now \in Nat /\ now <= now /\ now <= hkAt /\ client \subseteq Msg
    BY SMT DEF IInv, TypeOK
  <2> QED BY <1>6, <2>1, ReleaseStep DEF Restart
<1>7. ASSUME NEW t \in Moments, Tick(t) PROVE IInv'
  BY <1>7, TickStep
<1>8. CASE UNCHANGED vars
  BY <1>8 DEF vars, table, IInv, TypeOK, PollerAhead, LatenessBounded, HkSeen
<1> QED BY <1>1, <1>2, <1>3, <1>4, <1>5, <1>6, <1>7, <1>8 DEF Next

\* IInv holds in every state of every behaviour.
THEOREM Inductive ==
  ASSUME DefaultThreshold PROVE Spec => []IInv
BY InitInv, NextInv, PTL DEF Spec

\* The types of the variables, and which records have times.
THEOREM TypeCorrect ==
  ASSUME DefaultThreshold PROVE Spec => []TypeOK
<1>1. IInv => TypeOK
  BY DEF IInv
<1> QED BY <1>1, Inductive, PTL

\* A retry is late by no more than what the longest interval exceeds its own.
THEOREM LatenessIsBounded ==
  ASSUME DefaultThreshold PROVE Spec => []LatenessBounded
<1>1. IInv => LatenessBounded
  BY DEF IInv
<1> QED BY <1>1, Inductive, PTL

\* No record stays checked out for an hour and an idle wait of house keeping.
THEOREM AbandonedAreParked ==
  ASSUME DefaultThreshold PROVE Spec => []AbandonedIsParked
<1>1. IInv => AbandonedIsParked
  BY TimingAssumption, SMT DEF IInv, TypeOK, HkSeen, AbandonedIsParked, Hour
<1> QED BY <1>1, Inductive, PTL

\* House keeping alone parks, and only what is out of the threshold.
LEMMA ParksOverdue ==
  ASSUME IInv, Next, NEW m \in Msg, Parks(m)
  PROVE  out[m] <= now /\ out[m] \in Nat /\ now \in Nat /\ OutOfThreshold(out[m], now)
<1>1. out[m] <= now /\ out[m] \in Nat /\ now \in Nat
  BY DEF IInv, TypeOK
<1>2. m \in Overdue
  <2>1. ~(\E n \in Msg : DoIntervalMessageRetry(n) \/ LeaveTable(n) \/ ConstructPollTask(n))
    BY SMT DEF IInv, TypeOK, Parks, DoIntervalMessageRetry, LeaveTable, Delete,
       ConstructPollTask, table
  <2>2. ~Execute /\ ~Restart /\ \A t \in Moments : ~Tick(t)
    BY SMT DEF Parks, Execute, Restart, Tick, table
  <2>3. HouseKeep
    BY <2>1, <2>2 DEF Next
  <2> QED BY <2>3, SMT DEF HouseKeep, Delete, Parks, table
<1> QED BY <1>1, <1>2 DEF Overdue

\* No record is parked in the clock hour of its check-out, nor on that day
\* before 32 minutes and a second have passed.
THEOREM NothingIsParkedEarly ==
  ASSUME DefaultThreshold PROVE Spec => ParkedInALaterHour
<1>1. ASSUME IInv, Next, NEW m \in Msg, Parks(m)
      PROVE  /\ out[m] \div Hour < now \div Hour
             /\ SameDay(out[m], now) => now - out[m] >= LeastTime
  BY <1>1, ParksOverdue, WithinHalfAnHour
<1>2. IInv /\ [Next]_vars =>
        [\A m \in Msg : Parks(m) =>
           /\ out[m] \div Hour < now \div Hour
           /\ SameDay(out[m], now) => now - out[m] >= LeastTime]_vars
  BY <1>1
<1> QED BY <1>2, Inductive, PTL DEF Spec, ParkedInALaterHour

\* A record that waits in the poller for 32 minutes or less is not parked,
\* unless midnight comes.
THEOREM ShortWaitsAreSafe ==
  ASSUME DefaultThreshold PROVE Spec => ShortWaitIsNotParked
<1>1. ASSUME IInv, Next, NEW m \in Msg, Parks(m), polled.msg = m, SameDay(out[m], now)
      PROVE  Interval[m] >= LeastTime
  <2>1. now - out[m] >= LeastTime
    BY <1>1, ParksOverdue, WithinHalfAnHour
  <2>2. now <= out[m] + Interval[m] /\ now \in Nat /\ out[m] \in Nat
    BY <1>1 DEF IInv, TypeOK, PollerAhead, Parks
  <2> QED BY <2>1, <2>2, Intervals, SMT DEF LeastTime
<1>2. IInv /\ [Next]_vars =>
        [\A m \in Msg : Parks(m) /\ polled.msg = m /\ SameDay(out[m], now) =>
           Interval[m] >= LeastTime]_vars
  BY <1>1
<1> QED BY <1>2, Inductive, PTL DEF Spec, ShortWaitIsNotParked
=============================================================================
