CONSTANTS
  Execution = {e1, e2}
  UntilCurrent = {e1}
  Targeted = {e1}
  None = None
  Start = 0
  Delay = 1
  Overlap = 1
  MaxWindow = 2
  LeaseTTL = 3
  JobTimeout = 2
  MaxAttempts = 1
  Lateness <- MCLateness
  LastStart = 4
  MaxTime = 9
  MaxFaults = 1
SPECIFICATION FairSpec
PROPERTIES LeaseRecovers CatchUpReachesTarget
CHECK_DEADLOCK FALSE
