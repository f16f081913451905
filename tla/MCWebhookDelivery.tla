------------------------- MODULE MCWebhookDelivery -------------------------
EXTENDS WebhookDelivery, TLC

AllMatch == Events \X Endpoints

ManagedOrNot == {{}, {"managed"}}

Symmetry == Permutations(Lanes) \cup Permutations(Rotations)
=============================================================================
