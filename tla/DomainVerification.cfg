SPECIFICATION VerificationSpec
CHECK_DEADLOCK FALSE
CONSTANTS
  i = i
  j = j
  Identities = {i, j}
  r = r
  s = s
  Starts <- OneOrBoth
  Records = {r, s}
  Domain = Domain
  Claim = Claim
  Page = Page
  MaxAttempts = 2
  PendingBase = 1
  PendingMax = 1
  VerifiedInterval = 2
  MaxBackoffLevel = 1
  MaxOverlaps = 1
  MaxMishaps = 2
  MayMeet <- Mixed
  Absent = Absent
INVARIANTS VerificationInv ChecksContinue ChecksKeepPace
PROPERTIES EventuallyVerified
