-------------------------- MODULE MCForwarderInit ---------------------------
\* ForwarderInit for TLC.  Profile none has no policy, two has policies of
\* layers 2 and 4 on the same LAN; three has one of layer 3 and another LAN
\* besides, so that the others are accepted after it and refused before.
EXTENDS ForwarderInit, TLC

CONSTANTS none, three, two, x, y, w, w2, hx, hy

MCLansOf == none :> <<y>> @@ three :> <<x, y>> @@ two :> <<y>>
MCLayers == none :> {} @@ three :> {"l3"} @@ two :> {"l2", "l4"}
MCHomeOf == hx :> x @@ hy :> y
MCWans == <<w, w2>>
=============================================================================
