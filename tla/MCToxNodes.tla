----------------------------- MODULE MCToxNodes -----------------------------
(* Instances of ToxNodes for TLC. *)
EXTENDS ToxNodes

\* A server that is also in the file, a row for UDP only, four other addresses.
MCThird   == {"t1"}
MCScanned == {"n1", "n2", "n3", "n4", "n5"}
MCTcp     == {"t1", "n1", "n2", "n3", "n4"}
MCAddr    == [n \in {"t1"} \cup MCScanned |-> IF n = "t1" THEN "n1" ELSE n]
=============================================================================
