CONSTANTS
  Job = {j1, j2}
  UntilCurrent = {j1}
  Config = {0, 1}
  None = None
  Delay = 1
  Overlap = 1
  MaxWindow = 2
  LeaseTTL = 3
  JobTimeout = 2
  MaxChat = 2
  LastStart = 3
  MaxTime = 4
  MaxFaults = 2
  t1 = t1
  t2 = t2
  Turn = {t1, t2}
  Day <- TurnDay
  Nobody = Nobody
  Untraced = {t1}
  Placeholder = {t1}
  Skewed = {t2}
  Straddling = {t2}
  Operator = {b1}
  MaxRuns = 2
  MaxBindings = 1
SPECIFICATION WritersSpec
INVARIANTS WritersTypeOK RunRowsAreTrue RecordsHold
PROPERTIES NewsPublishesInChain PublicationIsAnchored 
CHECK_DEADLOCK FALSE
