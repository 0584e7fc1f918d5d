---------------------------- MODULE MCNarratives ----------------------------
(* Narratives for TLC: situations symmetric in their identifiers.          *)
EXTENDS Narratives, TLC

Symmetry == Permutations(Situation)
=============================================================================
