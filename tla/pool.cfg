CONSTANTS
  Worker = {w1, w2}
  Job = {j1, j2, j3}
  NoJob = NoJob
SPECIFICATION FairSpec
INVARIANTS TypeOK AvailIsIdle NoLeak JoinCannotDeadlock
PROPERTIES ImplementsContract ImplementsView EveryJobEnds CallerReturns ShutdownEnds
CHECK_DEADLOCK FALSE
