CONSTANTS
  int = int
  imm = imm
  dir = dir
  switch = switch
  mix = mix
  ever = ever
  w1 = w1
  w2 = w2
  Msg = {int, imm, dir, mix, ever}
  NoMsg = NoMsg
  Configs <- MCConfigs
  EqWorker = {w1, w2}
  SendWorker = {w1}
  WebThread = {w1}
  MaxId = 3
  MaxFaults = 1
  MaxOps = 1
SPECIFICATION OneFailsSpec
SYMMETRY Symmetry
INVARIANTS TypeOK IdsMatch NothingVanishes OneTable RetriedBounded IntervalLock RecoveryNotMultiplied
PROPERTIES ImplementsContract InfiniteParkedByKeeper StrandedByFault
CHECK_DEADLOCK FALSE
