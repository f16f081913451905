------------------------- MODULE MCDeliverability --------------------------
EXTENDS Deliverability, TLC

CONSTANTS r1, r2, r3, key, a, b, own, box

\* Two requests with one key and one without; recipients in common.
MCKeyOf == r1 :> key @@ r2 :> key @@ r3 :> None
MCTo == r1 :> {a, b} @@ r2 :> {a, b} @@ r3 :> {b}
MCFrom == r1 :> own @@ r2 :> own @@ r3 :> box
\* A bounce of one recipient, a complaint of both, and a delivery.
MCNotices == {<<r1, "bounced", {a}>>, <<r1, "complained", {a, b}>>, <<r3, "delivered", {b}>>}
MCModes == {{}, {"aborts"}, {"outages"}, {"interrupts"}, {"domains"}, {"notices"}}
=============================================================================
