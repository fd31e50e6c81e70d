SPECIFICATION HubSpec
CONSTANTS
  Procs = {p1}
  MaxVersion = 2
  UrlFile <- MCUrlFile
  PinFile = 1
  Tries = 2
  MaxFaults = 0
INVARIANT PullGetsLatest
CHECK_DEADLOCK FALSE
