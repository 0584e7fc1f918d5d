------------------------------ MODULE MCForest ------------------------------
(* SituationForest for TLC: four situations, symmetric in their            *)
(* identifiers.                                                            *)
EXTENDS SituationForestProperties, TLC

Symmetry == Permutations(Cluster)
=============================================================================
