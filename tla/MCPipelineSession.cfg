SPECIFICATION Spec
CONSTANTS
  None = None
  EnvCap = 0
  Session = {s1}
  Run = {r1, r2, r3}
  MaxNodes = 1
  SpawnCanFail = TRUE
SYMMETRY Symmetry
INVARIANTS
  TypeOK
  LostOnlyAfterFailure
  SlotAccounting
PROPERTIES
  SlotsImplemented
