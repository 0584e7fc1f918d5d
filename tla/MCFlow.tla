------------------------------- MODULE MCFlow -------------------------------
(* EventFlow for TLC: two copies of one article, one of another.           *)
EXTENDS EventFlow, TLC

CONSTANTS a1, a2, k1, k2, k3

MCOf == k1 :> a1 @@ k2 :> a1 @@ k3 :> a2
=============================================================================
