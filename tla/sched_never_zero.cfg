CONSTANTS
  PoolSize <- Sizes
  Throwing = {"hk"}
SPECIFICATION Spec
INVARIANT NeverZero
CHECK_DEADLOCK FALSE
