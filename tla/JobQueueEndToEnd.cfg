SPECIFICATION Spec
CONSTANTS
  a = a
  b = b
  Jobs = {a, b}
  Transactional = {a}
  DelayUntil = {b}
  Malformed = {b}
  w1 = w1
  Workers = {w1}
  None = None
  MaxAttempts = 1
  BatchSize = 1
  OutboxBatchSize = 1
  MaxEntries = 2
  MaxLapses = 1
INVARIANTS NoAcceptedJobLost
PROPERTIES AtLeastOnceContract
