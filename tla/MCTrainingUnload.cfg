SPECIFICATION Spec
CONSTANTS
  EnvCap = 0
  Session = {s1}
  Job = {j1}
  Checkpoint = {}
  None = None
  MaxBatches = 1
  SpawnCanFail = FALSE
INVARIANT UnloadIsFinal

