SPECIFICATION Spec
CONSTANTS
  e = e
  Events = {e}
  hook = hook
  Endpoints = {hook}
  Matches <- AllMatch
  r1 = r1
  None = None
  Done = Done
  Requests = {r1}
  s1 = s1
  s2 = s2
  Rotations = {s1, s2}
  Modes <- ManagedOrNot
  batch = batch
  reclaim = reclaim
  Lanes = {batch, reclaim}
  MaxAttempts = 2
  MaxClaims = 2
  MaxRunning = 2
SYMMETRY Symmetry
CHECK_DEADLOCK FALSE
INVARIANTS Inv OnlyAbandonedWorkIsStranded
PROPERTIES LiveClaimIsKept
