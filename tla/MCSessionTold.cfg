SPECIFICATION Spec
CONSTANTS
  None = None
  Config = {c1, c2}
  Stream = {t1, t2}
  InboxMax = 1
  StreamMayRaise = FALSE
SYMMETRY Symmetry
CHECK_DEADLOCK FALSE
INVARIANT
  RunStateIsTrue
