SPECIFICATION Spec
CONSTANTS
  EnvCap = 0
  Session = {s1}
  Job = {j1}
  Checkpoint = {c1}
  None = None
  MaxBatches = 1
  SpawnCanFail = FALSE
PROPERTY StopIsFinal

