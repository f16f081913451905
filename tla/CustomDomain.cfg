SPECIFICATION Spec
CONSTANTS
  a = a
  b = b
  c = c
  Projects = {a, b, c}
  p = p
  q = q
  Providers = {p, q}
  MaxDomains = 2
  MaxOverlaps = 1
  Modes <- Mixed
  None = None
SYMMETRY Symmetry
INVARIANTS Inv
PROPERTIES LostOnlyToProof
