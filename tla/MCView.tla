------------------------------- MODULE MCView -------------------------------
(* SituationView for TLC: situations symmetric in their identifiers.       *)
EXTENDS SituationView, TLC

Symmetry == Permutations(Cluster)
=============================================================================
