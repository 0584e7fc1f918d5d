------------------------------ MODULE MCSearch ------------------------------
(* WebSearch for TLC.  No symmetry: the runs check liveness.               *)
EXTENDS WebSearchProperties, TLC
=============================================================================
