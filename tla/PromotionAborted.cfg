CONSTANTS
  a = a
  b = b
  c = c
  r1 = r1
  r2 = r2
  Intent = {a, b, c}
  Revision = {r0, r1, r2}
  Target <- Candidates
  Old = r0
  Run = {p, q}
  None = None
SPECIFICATION Spec
INVARIANT AbortedForGood
CHECK_DEADLOCK FALSE
