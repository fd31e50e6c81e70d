SPECIFICATION Spec
CONSTANTS
  None = None
  EnvCap = 0
  Session = {s1}
  Job = {j1, j2}
  Checkpoint = {c1}
  MaxBatches = 2
  SpawnCanFail = TRUE
SYMMETRY Symmetry
INVARIANTS
  TypeOK
  RunsAreTracked
  OneRunPerSession
  HistoryOfOneRun
  HeardInOrder
  SlotAccounting
PROPERTIES
  SlotsImplemented
