SPECIFICATION Spec
CONSTANTS
  None = None
  EnvCap = 1
  Session = {s1, s2}
  Job = {j1}
  Run = {r1}
  Checkpoint = {}
  MaxBatches = 1
  MaxNodes = 1
  SpawnCanFail = TRUE
SYMMETRY Symmetry
INVARIANTS
  TypeOK
  SlotAccounting
PROPERTIES
  TrainingImplemented
  PipelineImplemented
  DisconnectIsFinal
CHECK_DEADLOCK FALSE
