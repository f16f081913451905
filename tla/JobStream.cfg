SPECIFICATION FairStreamSpec
CONSTANTS
  a = a
  Jobs = {a}
  DelayUntil = {}
  Malformed = {}
  w1 = w1
  Workers = {w1}
  MaxAttempts = 2
  BatchSize = 1
  MaxEntries = 3
INVARIANTS StreamInv NoJobLost
PROPERTIES AcknowledgedLast EveryJobSettles
