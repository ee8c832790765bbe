CONSTANTS
  a = a
  b = b
  c = c
  r1 = r1
  r2 = r2
  Intent = {a, b, c}
  Revision = {r0, r1, r2}
  Target <- Candidates
  Old = r0
  Run = {p, q}
  None = None
  Operator = {p, q}
  Activator = {p, q}
  NoIntent = NoIntent
  Nothing = Nothing
  After <- PauseAfter
  Timeout <- RequestTimeout
  First = v1
  a1 = a1
  d1 = d1
  d2 = d2
  Activation = {a1}
  Pause = {d1, d2}
  MinRuns = 2
  MaxFlights = 2
  MaxPending = 1
  v1 = v1
  v2 = v2
  v3 = v3
  Version = {v1, v2, v3}
  Sample = {s}
  Path = {f}
  MaxTime = 3
  MaxMoves = 2
  MaxRequests = 1
SPECIFICATION ReleaseSpec
INVARIANTS ReleaseTypeOK OneWorker CutoverInOrder EnforcementIsTrue
PROPERTIES MovesRecordedTraffic FinalIsTruthful OnlyFinalUnlocks
SYMMETRY ReleaseSymmetry
CHECK_DEADLOCK FALSE
