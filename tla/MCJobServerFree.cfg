SPECIFICATION FairSpec
CONSTANTS
  None = None
  EnvCap = 2
  Session = {s1}
  Job = {j1}
  Run = {r1}
  Checkpoint = {c1}
  MaxBatches = 0
  MaxNodes = 0
  SpawnCanFail = TRUE
PROPERTIES
  DisconnectFreesSlots
  BusyIsTemporary
CHECK_DEADLOCK FALSE
