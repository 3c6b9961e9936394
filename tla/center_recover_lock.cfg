CONSTANTS
  int = int
  imm = imm
  dir = dir
  switch = switch
  mix = mix
  ever = ever
  w1 = w1
  w2 = w2
  Msg = {int}
  NoMsg = NoMsg
  Configs <- MCConfigs
  EqWorker = {w1}
  SendWorker = {w1}
  WebThread = {w1, w2}
  MaxId = 2
  MaxFaults = 0
  MaxOps = 2
SPECIFICATION Spec
INVARIANT RecoverLock
CHECK_DEADLOCK FALSE
