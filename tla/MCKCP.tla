------------------------------- MODULE MCKCP -------------------------------
(* Instances of KCP for TLC: the functions the configurations give. *)
EXTENDS KCP

MCEach(a, b) == [p \in Peer |-> IF p = Client THEN a ELSE b]

\* Wnd: equal windows, and the larger one at the client.
Wnd21 == MCEach(2, 1)
Wnd22 == MCEach(2, 2)

\* MaxSegs: one way, and both ways.
Segs30 == MCEach(3, 0)
Segs61 == MCEach(6, 1)

\* NetCap: two packets under way to the client, those that acknowledge.
Net11 == MCEach(1, 1)
Net21 == MCEach(2, 1)
=============================================================================
