------------------------------ MODULE MCStore ------------------------------
(* SituationStore for TLC: situations symmetric in their identifiers.      *)
EXTENDS SituationStoreProperties, TLC

Symmetry == Permutations(Cluster)
=============================================================================
