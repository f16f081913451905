--------------------------- MODULE MCWorkspaceIde ---------------------------
EXTENDS WorkspaceIde, TLC

CONSTANTS welcome, offer, t1, t2, t3, r1, r2, greeting

MCVersions == Version
MCPosition == welcome :> 2 @@ offer :> 1
\* Both intents, with and without the entry of the slug; an author who does
\* not wait for files to load is left out, as he is by the properties.
MCModes == {{}, {"failures"}, {"saving"}, {"slow"}, {"others"}, {"templates"}, {"catalog"},
            {"manage"}, {"manage", "again"}, {"manage", "again", "failures"},
            {"manage", "again", "others"}}
Symmetry == Permutations({t2, t3})
=============================================================================
