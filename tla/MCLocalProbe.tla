---------------------------- MODULE MCLocalProbe -----------------------------
(* The instances of LocalProbe that are model-checked. *)
EXTENDS LocalProbe, TLC

Symmetry == Permutations(Caller) \cup Permutations(Run)
==============================================================================
