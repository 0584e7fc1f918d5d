------------------------- MODULE EnrichmentContract -------------------------
(***************************************************************************)
(* What enrichment promises of every copy of an article that the pipeline  *)
(* receives: it goes into the situation graph as it came and, if it was    *)
(* enriched, may go into the graph once more; it is shown once, enriched   *)
(* if it was enriched.  The second time in the graph and the showing come  *)
(* in any order.  A copy that was not heard, because the pipeline lagged,  *)
(* does nothing of that.                                                   *)
(***************************************************************************)
EXTENDS Naturals

CONSTANT Copy

VARIABLES ingested,   \* how often a copy went into the graph: 0, 1, 2
          enriched,   \* the copies that were enriched
          shown       \* "no", "raw", "enriched"

contract == <<ingested, enriched, shown>>

Init ==
    /\ ingested = [k \in Copy |-> 0]
    /\ enriched = {}
    /\ shown = [k \in Copy |-> "no"]

(* A copy is received; it may be shown at once.                            *)
Hear(k, how) ==
    /\ ingested[k] = 0 /\ shown[k] = "no"
    /\ how \in {"no", "raw"}
    /\ ingested' = [ingested EXCEPT ![k] = 1]
    /\ shown' = [shown EXCEPT ![k] = how]
    /\ UNCHANGED enriched

Enrich(k) ==
    /\ ingested[k] = 1 /\ shown[k] = "no" /\ k \notin enriched
    /\ enriched' = enriched \cup {k}
    /\ UNCHANGED <<ingested, shown>>

Show(k) ==
    /\ ingested[k] > 0 /\ shown[k] = "no"
    /\ shown' = [shown EXCEPT ![k] = IF k \in enriched THEN "enriched" ELSE "raw"]
    /\ UNCHANGED <<ingested, enriched>>

(* Enriched copies go into the graph, several at once if they waited.      *)
Upgrade(group) ==
    /\ \A k \in group : ingested[k] = 1 /\ k \in enriched
    /\ ingested' = [k \in Copy |-> IF k \in group THEN 2 ELSE ingested[k]]
    /\ UNCHANGED <<enriched, shown>>

Next ==
    \/ \E k \in Copy, how \in {"no", "raw"} : Hear(k, how)
    \/ \E k \in Copy : Enrich(k) \/ Show(k)
    \/ \E group \in SUBSET Copy : Upgrade(group)

Spec == Init /\ [][Next]_contract
=============================================================================
