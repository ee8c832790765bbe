CONSTANTS
  Thread = {t1, t2, t3}
  pointer = pointer
  small = small
  large = large
  Key = {pointer, small, large}
  Retained = {small, large}
  Size <- MCSize
  MaxEntries = 2
  MaxBytes = 2
  None = None
  MaxVersion = 1
SPECIFICATION FairSpec
INVARIANTS TypeOK AccountsForBytes OneLoadPerKey PointersAreFresh
PROPERTIES EveryReadEnds
CHECK_DEADLOCK FALSE
