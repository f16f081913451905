--------------------------- MODULE MCCustomDomain ---------------------------
EXTENDS CustomDomain, TLC

\* Sequences with Deliveries, with retractions, with failures, with overlap.
Mixed   == {{"deliveries"}, {"retraction"}, {"failures"}, {"overlap"}}

Symmetry == Permutations(Projects) \cup Permutations(Providers)
=============================================================================
