SPECIFICATION Spec
CONSTANTS
  p1 = p1
  p2 = p2
  a1 = a1
  a2 = a2
  t1 = t1
  t2 = t2
  Procs = {p1, p2}
  MaxVersion = 2
  UrlFile <- MCUrlFile
  PinFile = 1
  Tries = 3
  MaxFaults = 2
  Admins = {a1, a2}
  Models = {"m1", "m2"}
  Active = {"m1", "m2"}
  Compatible = {"m1"}
  Registered <- MCRegistered
  MaxKills = 1
  Threads = {t1, t2}
  Sids = {"a", "b"}
  MaxFrames = 2
  MaxSteps = 2
  MaxCalls = 3
  MaxDepth = 2
  Names = {1, 2, 3}
  MaxNodes = 3
  MaxEdges = 3
  Stages = {"s1", "s2", "s3"}
  Entry = "s1"
  Pools = {"s1", "s2"}
  MaxLinks = 4
  Steps = 3
  RateBurst = 3
  RateWindowSeconds = 2
  InboxMaxsize = 2
  MaxClock = 6
SYMMETRY Symmetric
INVARIANTS
  TypeOK
  IndexIsWhole
  EtagNotAhead
  PromotedIsPublished
  StagesAreEarned
  PromotionSurvives
  StepsAreCounted
  OrderIsTopological
  CycleIsReal
  PlanIsExecutable
  PlanAgrees
  RewriteAgrees
  BurstBound
CHECK_DEADLOCK FALSE
