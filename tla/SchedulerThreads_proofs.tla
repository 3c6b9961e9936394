------------------------ MODULE SchedulerThreads_proofs ------------------------
(***************************************************************************)
(* Theorems about SchedulerThreads, for pools of any size and any set of   *)
(* throwing tasks: type correctness, its three safety invariants, and that *)
(* the three pools are used as PoolView allows.                            *)
(***************************************************************************)
EXTENDS SchedulerThreads, TLAPS

\* s is visited before t by PollTaskScheduler.
Before(s, t) == \/ s = "eq" /\ t # "eq"
                \/ s = "hk" /\ t = "ir"

\* The main program has come past the join of s, past the shutdown of its pool.
Joined(s) == \/ stage \in {"close", "drain", "stopped"}
             \/ stage \in {"halt", "join"} /\ Before(s, who)
Shut(s)   == \/ stage = "stopped"
             \/ stage \in {"close", "drain"} /\ Before(s, who)

\* The order of shutDown: first all threads, then all pools, the EQ first.
StopOrder ==
  /\ stage = "serve" => who = "eq"
  /\ \A s \in Sched :
       /\ deployment = "console" /\ Joined(s) => pc[s] = "ended"
       /\ pool[s] # "open" => stage \in {"close", "drain", "stopped"}
       /\ Shut(s) => pool[s] = "closed"
       /\ stage \in {"close", "drain"} /\ ~Before(s, who) =>
            pool[s] = IF stage = "drain" /\ s = who THEN "draining" ELSE "open"
       /\ deployment = "console" /\ pool[s] = "closed" => jobs[s] = 0

\* The permit, said without the set of its holders.
PermitPlaces ==
  /\ jobs["hk"] <= 1
  /\ permit \/ pc["hk"] \in {"go", "run"} \/ jobs["hk"] = 1 \/ lost
  /\ permit => pc["hk"] \notin {"go", "run"} /\ jobs["hk"] = 0 /\ ~lost
  /\ lost => pc["hk"] \notin {"go", "run"} /\ jobs["hk"] = 0
  /\ pc["hk"] \in {"go", "run"} => jobs["hk"] = 0

\* Only house keeping is ever at its semaphore.
OnlyHkAcquires == \A s \in Sched : pc[s] = "acquire" => s = "hk"

\* The inductive invariant.
IInv == TypeOK /\ OnlyHkAcquires /\ StopOrder /\ PermitPlaces /\ HandOverNeverWaits

\* A step of a thread that changes nothing but the place it is at, and possibly
\* signals its first round: it leaves neither its end nor the semaphore alone.
Moves(s, p) ==
  /\ pc[s] \notin {"ended", "go", "run"} /\ pc' = [pc EXCEPT ![s] = p]
  /\ p \in Pc \ {"run"}
  /\ p = "acquire" => s = "hk" /\ pc[s] = "construct"
  /\ p = "go" => s # "hk" /\ pc[s] = "construct"
  /\ p = "construct" /\ pool[s] = "open" => jobs[s] < PoolSize[s]
  /\ once' \in [Sched -> BOOLEAN]
  /\ UNCHANGED <<paused, halted, pools, sema, main>>

-----------------------------------------------------------------------------

\* The invariant holds before the first step.
LEMMA InitInv == Init => IInv
<1> SUFFICES ASSUME Init PROVE IInv
  OBVIOUS
<1>1. TypeOK
  <2>1. permit \in BOOLEAN /\ lost \in BOOLEAN
    BY Zenon DEF Init
  <2> QED BY <2>1, SMT DEF Init, TypeOK, Sched, Pc, Stage
<1>2. OnlyHkAcquires /\ PermitPlaces /\ HandOverNeverWaits
  BY SMT DEF Init, OnlyHkAcquires, PermitPlaces, HandOverNeverWaits, Sched
<1>3. StopOrder
  BY SMT DEF Init, StopOrder, Shut, Joined, Before, Sched
<1> QED BY <1>1, <1>2, <1>3 DEF IInv

\* Such a step keeps the invariant.
LEMMA MovesStep ==
  ASSUME IInv, NEW s \in Sched, NEW p \in Pc, Moves(s, p)
  PROVE  IInv'
<1>1. TypeOK'
  BY SMT DEF IInv, TypeOK, Moves, pools, sema, main
<1>2. StopOrder'
  BY SMT DEF IInv, TypeOK, StopOrder, Joined, Shut, Before, Moves, pools, main
<1>3. PermitPlaces' /\ OnlyHkAcquires'
  BY SMT DEF IInv, TypeOK, PermitPlaces, OnlyHkAcquires, Moves, pools, sema, Sched
<1>4. HandOverNeverWaits'
  BY SMT DEF IInv, TypeOK, HandOverNeverWaits, Moves, pools
<1> QED BY <1>1, <1>2, <1>3, <1>4 DEF IInv

\* signalHasExecutedOnce sets a flag.
LEMMA SignalTyped ==
  ASSUME NEW s \in Sched, once \in [Sched -> BOOLEAN], Signal(s)
  PROVE  once' \in [Sched -> BOOLEAN]
  BY SMT DEF Signal

\* The steps of the main loop but for those that take, give up or hand over the
\* permit are such steps.
LEMMA LoopMoves ==
  ASSUME IInv, NEW s \in Sched,
         Top(s) \/ Depends(s) \/ Pause(s) \/ Ask(s) \/ Continue(s) \/ Throws(s)
           \/ FindsWork(s) \/ FindsNothing(s) \/ Idle(s)
  PROVE  \E p \in Pc : Moves(s, p)
<1> DEFINE Keeps == UNCHANGED <<flags, pools, sema, main>>
<1>1. ASSUME NEW from \in Pc \ {"ended", "go", "run"}, NEW p \in Pc \ {"run"},
             Goes(s, from, p), Keeps,
             p = "acquire" => s = "hk" /\ from = "construct",
             p = "go" => s # "hk" /\ from = "construct",
             p = "construct" /\ pool[s] = "open" => jobs[s] < PoolSize[s]
      PROVE  Moves(s, p)
  BY <1>1, SMT DEF Moves, Goes, flags, IInv, TypeOK
<1> HIDE DEF Keeps
<1>2. CASE Top(s)
  <2>1. Keeps BY <1>2 DEF Top, Keeps
  <2>2. Goes(s, "top", "ended") \/ Goes(s, "top", "dep") \/ Goes(s, "top", "pause")
    BY <1>2, Zenon DEF Top
  <2> QED BY <1>1, <2>1, <2>2, SMT DEF Pc
<1>3. CASE Depends(s)
  BY <1>1, <1>3, SMT DEF Depends, Keeps, Pc
<1>4. CASE Pause(s)
  <2>1. Keeps BY <1>4 DEF Pause, Keeps
  <2>2. Goes(s, "pause", "ended") \/ Goes(s, "pause", "ask") BY <1>4, Zenon DEF Pause
  <2> QED BY <1>1, <2>1, <2>2, SMT DEF Pc
<1>5. CASE Ask(s)
  <2>1. Keeps BY <1>5 DEF Ask, Keeps
  <2>2. CASE pool[s] = "open"
    <3>1. Goes(s, "ask", "construct") /\ jobs[s] < PoolSize[s] BY <1>5, <2>2, Zenon DEF Ask
    <3> QED BY <1>1, <2>1, <3>1, SMT DEF Pc
  <2>3. CASE pool[s] # "open"
    <3>1. Goes(s, "ask", "zero") BY <1>5, <2>3, Zenon DEF Ask
    <3> QED BY <1>1, <2>1, <3>1, SMT DEF Pc
  <2> QED BY <2>2, <2>3
<1>6. CASE Continue(s)
  BY <1>1, <1>6, SMT DEF Continue, Keeps, Pc
<1>7. CASE Throws(s)
  BY <1>1, <1>7, SMT DEF Throws, Keeps, Pc
<1>8. CASE FindsWork(s)
  <2>1. Keeps BY <1>8 DEF FindsWork, Keeps
  <2>2. \/ s = "hk" /\ Goes(s, "construct", "acquire")
        \/ s # "hk" /\ Goes(s, "construct", "go")
    BY <1>8, Zenon DEF FindsWork
  <2> QED BY <1>1, <2>1, <2>2, SMT DEF Pc
<1>9. CASE FindsNothing(s)
  <2>1. once' \in [Sched -> BOOLEAN] BY <1>9, SignalTyped DEF FindsNothing, IInv, TypeOK
  <2>2. Moves(s, "idle") BY <2>1, <1>9, SMT DEF FindsNothing, Moves, Goes, Pc
  <2> QED BY <2>2 DEF Pc
<1>10. CASE Idle(s)
  BY <1>1, <1>10, SMT DEF Idle, Keeps, Pc
<1> QED BY <1>2, <1>3, <1>4, <1>5, <1>6, <1>7, <1>8, <1>9, <1>10

\* House keeping takes the permit.
LEMMA AcquireStep ==
  ASSUME IInv, NEW s \in Sched, Acquire(s)
  PROVE  IInv'
<1> USE DEF IInv, TypeOK, Acquire, Goes, flags, pools, main
<1>1. s = "hk" BY SMT DEF OnlyHkAcquires
<1>2. TypeOK'
  <2>1. permit' \in BOOLEAN BY Zenon
  <2> QED BY <2>1, SMT DEF Pc
<1>3. StopOrder' BY SMT DEF StopOrder, Joined, Shut, Before
<1>4. PermitPlaces' /\ OnlyHkAcquires' BY <1>1, SMT DEF PermitPlaces, OnlyHkAcquires
<1>5. HandOverNeverWaits' BY SMT DEF HandOverNeverWaits
<1> QED BY <1>2, <1>3, <1>4, <1>5

\* A task goes ahead or is thrown away.
LEMMA GoAheadStep ==
  ASSUME IInv, NEW s \in Sched, GoAhead(s)
  PROVE  IInv'
<1> USE DEF IInv, TypeOK, GoAhead, Goes, flags, pools, sema, main
<1>1. TypeOK'
  <2>1. lost' \in BOOLEAN BY Zenon
  <2>2. once' \in [Sched -> BOOLEAN] BY SignalTyped
  <2>3. pc' \in [Sched -> Pc] BY SMT DEF Pc
  <2>4. UNCHANGED <<paused, halted, pools, permit, main>> BY Zenon
  <2> QED BY <2>1, <2>2, <2>3, <2>4 DEF Pc
<1>2. StopOrder' BY SMT DEF StopOrder, Joined, Shut, Before
<1>3. PermitPlaces' /\ OnlyHkAcquires' BY SMT DEF PermitPlaces, OnlyHkAcquires, Sched
<1>4. HandOverNeverWaits' BY SMT DEF HandOverNeverWaits
<1> QED BY <1>1, <1>2, <1>3, <1>4

\* A task is handed over to the pool: its thread is not at its end, so that the
\* console program has not shut the pool down.
LEMMA RunStep ==
  ASSUME IInv, NEW s \in Sched, Run(s)
  PROVE  IInv'
<1> USE DEF IInv, TypeOK, Run, Goes, Signal, sema, main
<1>1. TypeOK' BY SMT DEF Pc
<1>2. StopOrder' BY SMT DEF StopOrder, Joined, Shut, Before
<1>3. PermitPlaces' /\ OnlyHkAcquires' BY SMT DEF PermitPlaces, OnlyHkAcquires, Sched
<1>4. HandOverNeverWaits' BY SMT DEF HandOverNeverWaits
<1> QED BY <1>1, <1>2, <1>3, <1>4

\* The size of a pool is a number.
LEMMA SizesAreNumbers == \A s \in Sched : PoolSize[s] \in Nat
  BY ConstantsAssumption

\* A job ends, and gives the permit back or loses it.
LEMMA JobStep ==
  ASSUME IInv, NEW s \in Sched, JobEnds(s)
  PROVE  IInv'
<1> USE DEF IInv, TypeOK, JobEnds, Running, flags, sema, main
<1>1. jobs[s] \in Nat /\ jobs[s] > 0 BY SMT
<1>2. TypeOK'
  <2>1. permit' \in BOOLEAN /\ lost' \in BOOLEAN BY Zenon
  <2> QED BY <1>1, <2>1, SMT
<1>3. StopOrder' BY <1>1, SMT DEF StopOrder, Joined, Shut, Before
<1>4. PermitPlaces' /\ OnlyHkAcquires' BY <1>1, SMT DEF PermitPlaces, OnlyHkAcquires, Sched
<1>5. HandOverNeverWaits'
  <2> QED BY <1>1, SizesAreNumbers, SMT DEF HandOverNeverWaits
<1> QED BY <1>2, <1>3, <1>4, <1>5

\* The steps of the main program.  They touch no thread's place and no permit.
LEMMA MainStep ==
  ASSUME IInv, Unpause \/ Stop \/ Halt \/ Join \/ Close \/ Drain
  PROVE  IInv'
<1> USE DEF IInv, TypeOK
<1>1. UNCHANGED <<pc, jobs, permit, lost>>
  BY SMT DEF Unpause, Stop, Halt, Join, Close, Drain, flags, pools, sema
<1>2. \A s \in Sched : pool'[s] = "open" => pool[s] = "open"
  BY SMT DEF Unpause, Stop, Halt, Join, Close, Drain, pools
<1>3. TypeOK'
  <2> USE DEF Proceed, NextWho, flags, pools, sema, Stage, Sched
  <2>1. CASE Unpause BY <2>1, SMT DEF Unpause
  <2>2. CASE Stop    BY <2>2, SMT DEF Stop
  <2>3. CASE Halt    BY <2>3, SMT DEF Halt
  <2>4. CASE Join    BY <2>4, SMT DEF Join
  <2>5. CASE Close   BY <2>5, SMT DEF Close
  <2>6. CASE Drain   BY <2>6, SMT DEF Drain
  <2> QED BY <2>1, <2>2, <2>3, <2>4, <2>5, <2>6
<1>4. StopOrder'
  <2> USE DEF StopOrder, Joined, Shut, Before, Proceed, NextWho, pools, Sched
  <2>1. CASE Unpause BY <2>1, SMT DEF Unpause
  <2>2. CASE Stop
    <3> USE <2>2 DEF Stop
    <3>1. CASE deployment = "console" BY <3>1, SMT
    <3>2. CASE deployment # "console" BY <3>2, SMT
    <3> QED BY <3>1, <3>2
  <2>3. CASE Halt    BY <2>3, SMT DEF Halt
  <2>4. CASE Join    BY <2>4, SMT DEF Join
  <2>5. CASE Close
    <3> USE <2>5 DEF Close
    <3>1. CASE jobs[who] = 0 BY <3>1, SMT
    <3>2. CASE jobs[who] # 0 BY <3>2, SMT
    <3> QED BY <3>1, <3>2
  <2>6. CASE Drain   BY <2>6, SMT DEF Drain
  <2> QED BY <2>1, <2>2, <2>3, <2>4, <2>5, <2>6
<1>5. PermitPlaces' /\ OnlyHkAcquires'
  BY <1>1, SMT DEF PermitPlaces, OnlyHkAcquires
<1>6. HandOverNeverWaits'
  BY <1>1, <1>2, SMT DEF HandOverNeverWaits
<1> QED BY <1>3, <1>4, <1>5, <1>6

\* The inductive invariant holds in every reachable state: one case per action.
THEOREM Inductive == Spec => []IInv
<1>1. Init => IInv BY InitInv
<1>2. IInv /\ [Next]_vars => IInv'
  <2> SUFFICES ASSUME IInv, [Next]_vars PROVE IInv'
    OBVIOUS
  <2>1. CASE \E s \in Sched : ThreadStep(s)
    <3> PICK s \in Sched : ThreadStep(s) BY <2>1
    <3>1. CASE Acquire(s) BY <3>1, AcquireStep
    <3>2. CASE GoAhead(s) BY <3>2, GoAheadStep
    <3>3. CASE Run(s)     BY <3>3, RunStep
    <3>4. CASE \/ Top(s) \/ Depends(s) \/ Pause(s) \/ Ask(s) \/ Continue(s) \/ Throws(s)
               \/ FindsWork(s) \/ FindsNothing(s) \/ Idle(s)
      <4>1. PICK p \in Pc : Moves(s, p) BY <3>4, LoopMoves
      <4> QED BY <4>1, MovesStep
    <3> QED BY <3>1, <3>2, <3>3, <3>4 DEF ThreadStep
  <2>2. CASE \E s \in Sched : JobEnds(s) BY <2>2, JobStep
  <2>3. CASE Unpause \/ Stop \/ Halt \/ Join \/ Close \/ Drain BY <2>3, MainStep
  <2>4. CASE UNCHANGED vars
    BY <2>4, SMT
    DEF vars, flags, pools, sema, main, IInv, TypeOK, StopOrder, Joined, Shut, Before,
        PermitPlaces, OnlyHkAcquires, HandOverNeverWaits
  <2> QED BY <2>1, <2>2, <2>3, <2>4 DEF Next
<1> QED BY <1>1, <1>2, PTL DEF Spec

-----------------------------------------------------------------------------

\* Type correctness.
THEOREM TypeCorrect == Spec => []TypeOK
<1>1. IInv => TypeOK BY DEF IInv
<1> QED BY <1>1, Inductive, PTL

\* shutDown of the console program closes a pool only after its thread has ended,
\* and is through only when no job is left.
THEOREM ShutdownIsQuiet == Spec => []ClosedIsQuiet
<1>1. IInv => ClosedIsQuiet
  BY SMT DEF IInv, StopOrder, Joined, Shut, ClosedIsQuiet
<1> QED BY <1>1, Inductive, PTL

\* The permit of house keeping is in exactly one place, lost included.
THEOREM PermitIsConserved == Spec => []PermitConserved
<1>1. IInv => PermitConserved
  <2> SUFFICES ASSUME IInv PROVE PermitConserved
    OBVIOUS
  <2> USE DEF IInv, TypeOK, PermitPlaces, Sched
  <2>1. jobs["hk"] > 0 <=> jobs["hk"] = 1 BY SMT
  <2>2. \/ "free" \in Holders \/ "thread" \in Holders
        \/ "job" \in Holders \/ "nobody" \in Holders
    BY <2>1, SMT DEF Holders
  <2>3. \A x, y \in Holders : x = y
    BY <2>1, SMT DEF Holders
  <2> QED BY <2>2, <2>3 DEF PermitConserved
<1> QED BY <1>1, Inductive, PTL

\* A task that blockForAvailableThreads has let through finds its worker free.
THEOREM HandOverIsFree == Spec => []HandOverNeverWaits
<1>1. IInv => HandOverNeverWaits BY DEF IInv
<1> QED BY <1>1, Inductive, PTL

-----------------------------------------------------------------------------
(***************************************************************************)
(* The refinement of PoolView.                                             *)
(***************************************************************************)

\* A step of another pool is not seen.
LEMMA PoolUntouched ==
  ASSUME NEW s \in Sched, jobs'[s] = jobs[s], pool'[s] = pool[s], stranded'[s] = stranded[s]
  PROVE  UNCHANGED Pool(s)!vars
  BY DEF Pool!vars

\* runInThread of a scheduler thread; it never waits.
LEMMA RunShows ==
  ASSUME IInv, NEW s \in Sched, Run(s), NEW u \in Sched
  PROVE  [Pool(u)!Next]_(Pool(u)!vars)
<1>1. /\ jobs' = [jobs EXCEPT ![s] = jobs[s] + 1] /\ pool' = pool /\ stranded' = stranded
      /\ pool[s] = "open" => jobs[s] < PoolSize[s]
  BY DEF Run
<1>2. CASE u = s
  <2>1. jobs'[u] = jobs[u] + 1
    BY <1>1, <1>2 DEF IInv, TypeOK
  <2>2. Pool(u)!HandOver
    BY <1>1, <1>2, <2>1 DEF Pool!HandOver
  <2> QED BY <2>2 DEF Pool!Next
<1>3. CASE u # s
  BY <1>1, <1>3, PoolUntouched DEF IInv, TypeOK
<1> QED BY <1>2, <1>3

\* A job ends, but for a stranded one.
LEMMA JobEndsShows ==
  ASSUME IInv, NEW s \in Sched, JobEnds(s), NEW u \in Sched
  PROVE  [Pool(u)!Next]_(Pool(u)!vars)
<1>1. /\ jobs' = [jobs EXCEPT ![s] = jobs[s] - 1] /\ pool' = pool /\ stranded' = stranded
      /\ IF stranded[s] THEN jobs[s] > 1 ELSE jobs[s] > 0
  BY DEF JobEnds, Running
<1>2. CASE u = s
  <2>1. jobs'[u] = jobs[u] - 1
    BY <1>1, <1>2 DEF IInv, TypeOK
  <2>2. Pool(u)!JobEnds
    BY <1>1, <1>2, <2>1 DEF Pool!JobEnds
  <2> QED BY <2>2 DEF Pool!Next
<1>3. CASE u # s
  BY <1>1, <1>3, PoolUntouched DEF IInv, TypeOK
<1> QED BY <1>2, <1>3

\* The main program begins the shutdown of a pool, which is open.
LEMMA CloseShows ==
  ASSUME IInv, Close, NEW u \in Sched
  PROVE  [Pool(u)!Next]_(Pool(u)!vars)
<1>1. PICK b \in BOOLEAN : /\ b => jobs[who] > 0
                           /\ stranded' = [stranded EXCEPT ![who] = b]
  BY DEF Close
<1>2. /\ pool' = [pool EXCEPT ![who] = IF jobs[who] = 0 THEN "closed" ELSE "draining"]
      /\ jobs' = jobs
  BY DEF Close
<1>3. CASE u = who
  <2>1. stranded'[u] = b /\ pool'[u] = IF jobs[u] = 0 THEN "closed" ELSE "draining"
    BY <1>1, <1>2, <1>3 DEF IInv, TypeOK
  <2>2. pool[u] = "open"
    BY <1>3 DEF Close, IInv, StopOrder, Before
  <2>3. Pool(u)!Shutdown
    BY <1>1, <1>2, <1>3, <2>1, <2>2 DEF Pool!Shutdown
  <2> QED BY <2>3 DEF Pool!Next
<1>4. CASE u # who
  BY <1>1, <1>2, <1>4, PoolUntouched DEF IInv, TypeOK
<1> QED BY <1>3, <1>4

\* The shutdown of a pool ends.
LEMMA DrainShows ==
  ASSUME IInv, Drain, NEW u \in Sched
  PROVE  [Pool(u)!Next]_(Pool(u)!vars)
<1>1. /\ pool' = [pool EXCEPT ![who] = "closed"] /\ jobs' = jobs /\ stranded' = stranded
      /\ jobs[who] = 0
  BY DEF Drain
<1>2. CASE u = who
  <2>1. pool'[u] = "closed"
    BY <1>1, <1>2 DEF IInv, TypeOK
  <2>2. pool[u] = "draining"
    BY <1>2 DEF Drain, IInv, StopOrder, Before
  <2>3. Pool(u)!Drained
    BY <1>1, <1>2, <2>1, <2>2 DEF Pool!Drained
  <2> QED BY <2>3 DEF Pool!Next
<1>3. CASE u # who
  BY <1>1, <1>3, PoolUntouched DEF IInv, TypeOK
<1> QED BY <1>2, <1>3

\* The scheduler threads and the main program do nothing to a pool that PoolView,
\* which SimpleThreadPool implements, does not allow.
THEOREM PoolsAreViews == Spec => ImplementsViews
<1>1. Init => \A s \in Sched : Pool(s)!Init
  BY DEF Init, Pool!Init
<1>2. IInv /\ [Next]_vars => \A s \in Sched : [Pool(s)!Next]_(Pool(s)!vars)
  <2> SUFFICES ASSUME IInv, [Next]_vars, NEW u \in Sched
               PROVE  [Pool(u)!Next]_(Pool(u)!vars)
    OBVIOUS
  <2>1. CASE \E s \in Sched : Run(s) \/ JobEnds(s)
    BY <2>1, RunShows, JobEndsShows
  <2>2. CASE Close
    BY <2>2, CloseShows
  <2>3. CASE Drain
    BY <2>3, DrainShows
  <2>4. CASE UNCHANGED pools
    BY <2>4, PoolUntouched DEF pools
  <2>5. [Next]_vars => \/ \E s \in Sched : Run(s) \/ JobEnds(s)
                       \/ Close \/ Drain \/ UNCHANGED pools
    BY DEF Next, ThreadStep, Top, Depends, Pause, Ask, Continue, Throws, FindsWork, Acquire,
           FindsNothing, GoAhead, Idle, Unpause, Stop, Halt, Join, vars
  <2> QED BY <2>1, <2>2, <2>3, <2>4, <2>5
<1>3. Spec /\ []IInv => [][\A s \in Sched : [Pool(s)!Next]_(Pool(s)!vars)]_vars
  BY <1>2, PTL DEF Spec
<1>4. Spec => \A s \in Sched : Pool(s)!Init
  BY <1>1, PTL DEF Spec
<1> QED BY <1>3, <1>4, Inductive, PTL DEF ImplementsViews

-----------------------------------------------------------------------------
(***************************************************************************)
(* Who waits for whom.                                                     *)
(***************************************************************************)

\* Only threads that the main program has still to unpause are paused, only house
\* keeping depends on another thread, only a shutdown strands a job, and a thread
\* is joined after it was told to end.  The console program shuts a pool down
\* when its thread cannot ask for a worker any more.
WaitOrder ==
  /\ \A s \in Sched : /\ paused[s] => stage = "unpause" /\ ~Before(s, who)
                      /\ pc[s] = "dep" => s = "hk"
                      /\ stranded[s] => pool[s] # "open"
                      /\ deployment = "console" => pc[s] # "zero"
  /\ stage = "join" => halted[who]

LEMMA WaitOrderInit == Init => WaitOrder
  BY DEF Init, WaitOrder, Sched, Before

\* The steps of a thread.
LEMMA WaitOrderThread ==
  ASSUME IInv, WaitOrder, NEW s \in Sched, ThreadStep(s)
  PROVE  WaitOrder'
<1>1. UNCHANGED <<paused, halted, pool, stranded, main>>
  BY DEF ThreadStep, Top, Depends, Pause, Ask, Continue, Throws, FindsWork, Acquire,
         FindsNothing, GoAhead, Run, Idle, flags, pools
<1>2. /\ \A u \in Sched : u # s => pc'[u] = pc[u]
      /\ pc'[s] = "dep" => s = "hk"
      /\ pc'[s] = "zero" => pc[s] = "ask" /\ pool[s] # "open"
  <2> USE DEF IInv, TypeOK, Goes
  <2>1. CASE Top(s)
    BY <2>1 DEF Top
  <2>2. CASE Pause(s)
    BY <2>2 DEF Pause
  <2>3. CASE Ask(s)
    BY <2>3 DEF Ask
  <2>4. CASE FindsWork(s)
    BY <2>4 DEF FindsWork
  <2>5. CASE GoAhead(s)
    BY <2>5 DEF GoAhead
  <2>6. CASE \/ Depends(s) \/ Continue(s) \/ Throws(s) \/ Acquire(s) \/ FindsNothing(s)
             \/ Run(s) \/ Idle(s)
    BY <2>6 DEF Depends, Continue, Throws, Acquire, FindsNothing, Run, Idle
  <2> QED BY <2>1, <2>2, <2>3, <2>4, <2>5, <2>6 DEF ThreadStep
<1>3. ASSUME deployment = "console", pool[s] # "open" PROVE pc[s] = "ended"
  BY <1>3 DEF IInv, StopOrder, Joined
<1> QED BY <1>1, <1>2, <1>3 DEF WaitOrder, main

\* The steps of the main program.
LEMMA WaitOrderMain ==
  ASSUME IInv, WaitOrder, Unpause \/ Stop \/ Halt \/ Join \/ Close \/ Drain
  PROVE  WaitOrder'
<1> USE DEF IInv, TypeOK, WaitOrder, Before, Proceed, NextWho, flags, pools, Sched
<1>1. CASE Unpause
  BY <1>1 DEF Unpause
<1>2. CASE Stop
  BY <1>2 DEF Stop
<1>3. CASE Halt
  BY <1>3 DEF Halt
<1>4. CASE Join
  BY <1>4 DEF Join
<1>5. CASE Close
  BY <1>5 DEF Close
<1>6. CASE Drain
  BY <1>6 DEF Drain
<1> QED BY <1>1, <1>2, <1>3, <1>4, <1>5, <1>6

\* It holds in every reachable state.
LEMMA WaitOrderInductive == Spec => []WaitOrder
<1>1. IInv /\ WaitOrder /\ [Next]_vars => WaitOrder'
  <2> SUFFICES ASSUME IInv, WaitOrder, [Next]_vars PROVE WaitOrder'
    OBVIOUS
  <2>1. CASE \E s \in Sched : ThreadStep(s)
    BY <2>1, WaitOrderThread
  <2>2. CASE Unpause \/ Stop \/ Halt \/ Join \/ Close \/ Drain
    BY <2>2, WaitOrderMain
  <2>3. CASE (\E s \in Sched : JobEnds(s)) \/ UNCHANGED vars
    BY <2>3 DEF JobEnds, vars, flags, pools, main, WaitOrder, Before
  <2> QED BY <2>1, <2>2, <2>3 DEF Next
<1> QED BY <1>1, WaitOrderInit, Inductive, PTL DEF Spec

\* What the EQ and the interval-retry thread can wait for.
LEMMA OwnWait ==
  ASSUME IInv, WaitOrder, NEW s \in Sched, Waits(s), pc[s] # "dep", pc[s] # "acquire"
  PROVE  WaitWillEnd(s)
<1>1. CASE pc[s] = "pause"
  BY <1>1 DEF Waits, WaitOrder, WaitWillEnd
<1>2. CASE pc[s] \in {"ask", "run"}
  <2>1. pool[s] = "open" /\ jobs[s] >= PoolSize[s]
    BY <1>2 DEF Waits
  <2>2. pc[s] = "ask"
    <3>1. jobs[s] \in Nat /\ PoolSize[s] \in Nat
      BY SizesAreNumbers DEF IInv, TypeOK
    <3> QED BY <1>2, <2>1, <3>1 DEF IInv, HandOverNeverWaits
  <2>3. jobs[s] > 0 /\ ~stranded[s]
    <3>1. jobs[s] \in Nat /\ PoolSize[s] \in Nat \ {0}
      BY ConstantsAssumption DEF IInv, TypeOK
    <3> QED BY <2>1, <3>1 DEF WaitOrder
  <2> QED BY <2>2, <2>3 DEF WaitWillEnd, Running
<1> QED BY <1>1, <1>2 DEF Waits

\* No thread waits in a circle, and the join waits for a thread that ends.
THEOREM WaitsAreOrdered == Spec => []NoCircularWait
<1>1. IInv /\ WaitOrder => NoCircularWait
  <2> SUFFICES ASSUME IInv, WaitOrder, NEW s \in Sched, Waits(s)
               PROVE  \/ WaitWillEnd(s) \/ Hangs
                      \/ /\ s = "hk" /\ pc["hk"] = "dep" /\ pc["eq"] # "ended"
                         /\ Waits("eq") => WaitWillEnd("eq")
    BY DEF NoCircularWait, WaitOrder
  <2>1. CASE pc[s] = "dep"
    <3>1. s = "hk" /\ "eq" \in Sched
      BY <2>1 DEF WaitOrder, Sched
    <3>2. pc["eq"] # "dep" /\ pc["eq"] # "acquire"
      BY <3>1 DEF WaitOrder, IInv, OnlyHkAcquires
    <3>3. CASE pc["eq"] = "ended"
      BY <2>1, <3>1, <3>3 DEF Waits, Hangs, DependencyStuck
    <3>4. CASE pc["eq"] # "ended"
      BY <2>1, <3>1, <3>2, <3>4, OwnWait
    <3> QED BY <3>3, <3>4
  <2>2. CASE pc[s] = "acquire"
    <3>1. s = "hk" /\ ~permit
      BY <2>2 DEF Waits, IInv, OnlyHkAcquires
    <3>2. jobs["hk"] = 1 \/ lost
      BY <2>2, <3>1 DEF IInv, PermitPlaces
    <3>3. CASE lost
      BY <2>2, <3>1, <3>3 DEF Hangs, SemaphoreStuck
    <3>4. CASE jobs["hk"] = 1 /\ stranded["hk"]
      BY <3>1, <3>4 DEF Hangs
    <3>5. CASE jobs["hk"] = 1 /\ ~stranded["hk"]
      BY <2>2, <3>1, <3>5 DEF WaitWillEnd, Running
    <3> QED BY <3>2, <3>3, <3>4, <3>5
  <2>3. CASE pc[s] # "dep" /\ pc[s] # "acquire"
    BY <2>3, OwnWait
  <2> QED BY <2>1, <2>2, <2>3
<1> QED BY <1>1, Inductive, WaitOrderInductive, PTL

\* "Should never happen": blockForAvailableThreads never returns 0 in the console
\* program.  (In the web application it does, see NeverZero.)
THEOREM ConsoleNeverZero == Spec => [](deployment = "console" => NeverZero)
<1>1. WaitOrder => (deployment = "console" => NeverZero)
  BY DEF WaitOrder, NeverZero
<1> QED BY <1>1, WaitOrderInductive, PTL
=============================================================================
