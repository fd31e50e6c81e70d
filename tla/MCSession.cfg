SPECIFICATION FairSpec
CONSTANTS
  None = None
  Config = {c1, c2}
  Stream = {t1, t2}
  InboxMax = 1
  StreamMayRaise = TRUE
CHECK_DEADLOCK FALSE
INVARIANTS
  TypeOK
  OneStream
  StoppedIsStopped
  StreamShowsEngine
  CancelIsOwn
  PreparedIsOnDisk
  ChildIsSupervised
PROPERTIES
  CancelFreesDispatcher
  DisconnectEnds
