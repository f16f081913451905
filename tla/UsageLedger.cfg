SPECIFICATION LedgerSpec
CONSTANTS
  d1 = d1
  d2 = d2
  d3 = d3
  Deliveries = {d1, d2, d3}
  managed = managed
  byo = byo
  Kinds = {managed, byo}
  day = day
  Days = {day}
  month = month
  cycle = cycle
  Periods = {month, cycle}
  free = free
  signal = signal
  Policies = {free, signal}
  Limit <- ChangingLimit
  PeriodOf <- PeriodPerPlan
  Unlimited = Unlimited
  NoReservation = NoReservation
SYMMETRY Symmetry
INVARIANTS LedgerInv QuotaHeld
PROPERTIES FinalizedOnce OnlyOwnPlaceFreed
