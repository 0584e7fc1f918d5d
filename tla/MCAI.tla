-------------------------------- MODULE MCAI --------------------------------
(* SituationAI for TLC: situations symmetric in their identifiers.  Left   *)
(* out of what tells two states apart, because no guard can ever meet it   *)
(* again: a rejection that names a situation that is gone, or a situation  *)
(* with itself, and a merge of this tick that names one that is gone.      *)
EXTENDS SituationAIProperties, TLC

Symmetry == Permutations(Cluster)

Standing == {r \in rejected : r \subseteq live /\ Cardinality(r) = 2}
Heard == {m \in merged : {m[1], m[2]} \subseteq live}
View == <<live, used, parent, Standing, tick, stage, pass, Heard, titling, audits, batches, applying>>
=============================================================================
