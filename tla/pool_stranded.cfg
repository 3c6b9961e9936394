CONSTANTS
  Worker = {w1, w2}
  Job = {j1, j2}
  NoJob = NoJob
SPECIFICATION Spec
INVARIANT NoJobStranded
CHECK_DEADLOCK FALSE
