SPECIFICATION Spec
CONSTANTS
  d1 = d1
  Deliveries = {d1}
  primary = primary
  standby = standby
  Providers = {primary, standby}
  Order <- PrimaryFirst
  KindOf <- MixedKinds
  batch = batch
  reclaim = reclaim
  Lanes = {batch, reclaim}
  MaxAttempts = 2
  Threshold = 1
  MaxSends = 3
  Modes <- Faulty
  None = None
SYMMETRY Symmetry
INVARIANTS Inv EveryAcceptanceAccountedFor
PROPERTIES OutcomeIsFinal
