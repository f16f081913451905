SPECIFICATION Spec
CONSTANTS
  p1 = p1
  p2 = p2
  p3 = p3
  a1 = a1
  a2 = a2
  o1 = o1
  Providers = {p1, p2, p3}
  Account <- TheAccounts
  Projects = {o1}
  Few = {p1, p3}
  MaxSerial = 4
  MaxOverlaps = 1
  Modes <- TheModes
  None = None
CHECK_DEADLOCK FALSE
INVARIANTS Inv ProvidersProvisioned
PROPERTIES RootStays
