SPECIFICATION FairOutboxSpec
CONSTANTS
  a = a
  b = b
  Jobs = {a, b}
  w1 = w1
  w2 = w2
  Workers = {w1, w2}
  None = None
  OutboxBatchSize = 2
  MaxLapses = 2
INVARIANTS OutboxInv
PROPERTIES OnlyTheHolderWrites EveryRowPublished
