-------------------------- MODULE MCEmailDelivery --------------------------
EXTENDS EmailDelivery, TLC

CONSTANTS primary, standby

PrimaryFirst == <<primary, standby>>
\* The primary is a managed backend, the standby the Project's own.
MixedKinds == [p \in Providers |-> IF p = primary THEN "managed" ELSE "byo"]

\* Everything that fails, with overlap, a changing Domain or suppressions.
Faulty   == {{"faults", "overlap"}, {"faults", "changes"}, {"faults", "suppressions"}}
Symmetry == Permutations(Lanes)
=============================================================================
