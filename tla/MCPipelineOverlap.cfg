SPECIFICATION Spec
CONSTANTS
  EnvCap = 3
  Session = {s1}
  Run = {r1, r2, r3}
  None = None
  MaxNodes = 1
  SpawnCanFail = FALSE
SYMMETRY Symmetry
INVARIANT OneRunPerSession
