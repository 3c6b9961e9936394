CONSTANTS
  int = int
  imm = imm
  dir = dir
  switch = switch
  mix = mix
  ever = ever
  w1 = w1
  w2 = w2
  Msg = {int, dir, switch}
  NoMsg = NoMsg
  Configs <- MCConfigs
  EqWorker = {w1}
  SendWorker = {w1}
  WebThread = {w1}
  MaxId = 3
  MaxFaults = 1
  MaxOps = 0
SPECIFICATION TwoFailSpec
PROPERTIES EverySettles ImplementsContract
CHECK_DEADLOCK FALSE
