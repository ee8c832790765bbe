CONSTANTS
  e1 = e1
  e2 = e2
  x = x
  l1 = l1
  l2 = l2
  n1 = n1
  n2 = n2
  r1 = r1
  r2 = r2
  Email = {e1, e2}
  Id = {e1, e2, x}
  Label = {l1, l2}
  Name = {n1, n2}
  Admin = {a1, a2}
  Root = {r1, r2}
  RootEmail <- OwnEmails
  LegacyUsers <- OldUsers
  LegacyLabel <- LegacyName
  None = None
  MaxWrites = 3
SPECIFICATION Spec
INVARIANTS TypeOK NoDuplicates ClaimsExact UsedLabelsExist
PROPERTIES NoLostUpdate
SYMMETRY Symmetry
CHECK_DEADLOCK FALSE
