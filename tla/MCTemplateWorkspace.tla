----------------------- MODULE MCTemplateWorkspace ------------------------
EXTENDS TemplateWorkspace, TLC

CONSTANTS o1, o2, o3, welcome, offer

MCChanges == {<<offer, "write">>, <<welcome, "delete">>, <<Manifest, "write">>, <<Manifest, "delete">>}
MCModes == {{}, {"faults"}, {"lapses"}}
Symmetry == Permutations(Ops)
=============================================================================
