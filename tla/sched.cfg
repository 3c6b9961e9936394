CONSTANTS
  PoolSize <- Sizes
  Throwing = {"hk"}
SPECIFICATION FairSpec
INVARIANTS TypeOK ClosedIsQuiet PermitConserved HandOverNeverWaits NoCircularWait
PROPERTIES ImplementsViews StopReturns RoundsEnd
CHECK_DEADLOCK FALSE
