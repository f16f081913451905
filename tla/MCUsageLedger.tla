--------------------------- MODULE MCUsageLedger ---------------------------
EXTENDS UsageLedger, TLC

CONSTANTS managed, byo, free, signal

\* FREE meters days and periods, SIGNAL periods only: a daily counter is
\* charged under one plan and not under the other, a monthly one under both.
ChangingLimit ==
  [x \in {free, signal} \X {managed, byo} \X Spans |->
     IF x[1] = signal /\ x[3] = "daily" THEN Unlimited
     ELSE IF x[2] = managed THEN 1 ELSE 2]

\* Subscribing replaces the anniversary period by the subscription's.
PeriodPerPlan ==
  CHOOSE f \in [Policies -> Periods] : \A p, q \in Policies : p # q => f[p] # f[q]

Symmetry == Permutations(Deliveries)
=============================================================================
