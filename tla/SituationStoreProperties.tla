---------------------- MODULE SituationStoreProperties ----------------------
(***************************************************************************)
(* What a restart may make of the hierarchy.                               *)
(***************************************************************************)
EXTENDS SituationStore

TypeOKStore ==
    /\ live \subseteq used /\ used \subseteq Cluster
    /\ restored \in [Cluster -> used \cup {NoParent}]
    /\ now \in Nat /\ restarts \in Nat
    /\ writes \subseteq [id : used, tick : 1..now, parent : used \cup {NoParent}]
    /\ rows \in [Cluster -> [tick : 1..now, parent : used \cup {NoParent}] \cup {NoRow}]
    /\ shown \in [Cluster -> 0..now]
    /\ muddled \subseteq Cluster
    /\ caught \subseteq [id : used, tick : 1..now]

(* No situation hangs under one that does not exist, whatever part of      *)
(* the rows a restart finds.                                               *)
RestoredClosed == Tree!IsClosed(live, restored)

(* A row shows the last view its situation was in, unless writes of that   *)
(* row failed or overlapped; the next publication that meets no unfinished *)
(* write puts it right.                                                    *)
RowsFollowView ==
    \A c \in Cluster \ muddled :
        Outstanding(c) = {} =>
            IF rows[c] = NoRow THEN shown[c] = 0 ELSE rows[c].tick = shown[c]

(* A cycle in what is restored passes through rows of two different ticks, *)
(* which contradict each other, or through a situation that was caught in  *)
(* a cycle already when its row was published.  A restart that finds the   *)
(* rows of one tick only, of a graph that was a forest, restores a forest. *)
CyclesMixTicks ==
    [][ restarts' # restarts =>
          \A S \in SUBSET live' :
              (S # {} /\ \A c \in S : restored'[c] \in S)
                  => \/ \E c, d \in S : rows[c].tick # rows[d].tick
                     \/ \E c \in S : [id |-> c, tick |-> rows[c].tick] \in caught ]_vars

(* A row is of a situation the graph had.                                  *)
StoredAreUsed == \A c \in Cluster : rows[c] # NoRow => c \in used

(* What is stored and what is on its way of one tick comes from one view:  *)
(* two levels, unless one of them was caught in a cycle.                   *)
Entries(c) == {Upserted(w) : w \in Outstanding(c)} \cup ({rows[c]} \ {NoRow})

TicksFlat ==
    \A c, d \in Cluster : \A e \in Entries(c), f \in Entries(d) :
        e.tick = f.tick /\ e.parent = d =>
           \/ f.parent = NoParent
           \/ [id |-> c, tick |-> e.tick] \in caught
           \/ [id |-> d, tick |-> f.tick] \in caught

(* Unless its writes are muddled, a situation has at most one outstanding, *)
(* of the last view it was in.                                             *)
OneWriteEach ==
    \A w \in writes : w.id \notin muddled =>
        /\ w.tick = shown[w.id]
        /\ Outstanding(w.id) = {w}

(* The inductive invariant.                                                *)
IInv ==
    /\ TypeOKStore
    /\ StoredAreUsed
    /\ RestoredClosed
    /\ TicksFlat
    /\ OneWriteEach
    /\ RowsFollowView
=============================================================================
