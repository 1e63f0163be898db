----------------------------- MODULE MCSessions -----------------------------
(* Instances of Sessions for TLC. *)
EXTENDS Sessions, TLC

MCSymmetry == Permutations(Chans) \cup Permutations(Convs)
=============================================================================
