CONSTANTS
  Execution = {e1, e2, e3}
  UntilCurrent = {e1}
  Targeted = {e1}
  None = None
  Start = 0
  Delay = 1
  Overlap = 2
  MaxWindow = 3
  LeaseTTL = 3
  JobTimeout = 2
  MaxAttempts = 1
  Lateness <- MCLateness
  LastStart = 6
  MaxTime = 8
  MaxFaults = 1
SPECIFICATION Spec
INVARIANTS TypeOK NoLateEventLost
SYMMETRY Symmetric
CHECK_DEADLOCK FALSE
