CONSTANTS
  Execution = {e1, e2}
  UntilCurrent = {e1}
  Targeted = {e1}
  None = None
  Start = 0
  Delay = 1
  Overlap = 1
  MaxWindow = 2
  LeaseTTL = 3
  JobTimeout = 2
  MaxAttempts = 2
  Lateness <- MCLateness
  LastStart = 4
  MaxTime = 6
  MaxFaults = 2
SPECIFICATION Spec
INVARIANTS LeaseHeldThroughRun SuccessIsDurable
PROPERTIES LeaseDiscipline PublishesInChain
CHECK_DEADLOCK FALSE
