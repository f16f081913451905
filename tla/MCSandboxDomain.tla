--------------------------- MODULE MCSandboxDomain ---------------------------
(* Three Providers of two vendor accounts, and one Project. *)
EXTENDS SandboxDomain, TLC

CONSTANTS p1, p2, p3, a1, a2

TheAccounts == p1 :> a1 @@ p2 :> a1 @@ p3 :> a2
TheModes    == {{"pairing"}, {"drift"}, {"failures"}, {"overlap"}}
=============================================================================
