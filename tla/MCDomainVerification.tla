------------------------ MODULE MCDomainVerification ------------------------
EXTENDS DomainVerification

CONSTANTS i, j

\* By symmetry it does not matter which identity is the first.
OneOrBoth == {{i}, {i, j}}

\* Sequences of jobs with removals, with failures, with a claim, with the
\* page; and two executions that interleave.
Mixed     == {{}, {"removal"}, {"failures"}, {"claim", "failures"},
              {"claim", "refresh", "drift"}, {"overlap"}, {"drift"}}
=============================================================================
