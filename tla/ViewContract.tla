---------------------------- MODULE ViewContract ----------------------------
(***************************************************************************)
(* What the published view, and so the rows of one tick, may look like for *)
(* a hierarchy no deeper than find_root climbs: module SituationView shows *)
(* that active_clusters keeps to it, module SituationStore builds on it.   *)
(***************************************************************************)
CONSTANTS Cluster, NoParent

(* A slip: children handed from one situation to another stay where they   *)
(* are put.                                                                *)
ViewsUnflattened(live, parent) ==
    {v \in [out : SUBSET live, up : [Cluster -> live \cup {NoParent}]] :
        /\ \A c \in Cluster \ v.out : v.up[c] = NoParent
        /\ \A c \in v.out : parent[c] = NoParent => v.up[c] = NoParent}

(* The situations on a cycle of two or more, and those below one: up from  *)
(* them there is always another parent.                                    *)
Tangled(live, parent) ==
    UNION {S \in SUBSET live : \A c \in S : parent[c] \in S \ {c}}

(* Some of the situations, in two levels, except where the parents close a *)
(* cycle.  The view gives no parent to a situation that has none; the      *)
(* parent it gives may be missing from the view itself.                    *)
Views(live, parent) ==
    {v \in [out : SUBSET live, up : [Cluster -> live \cup {NoParent}]] :
        /\ \A c \in Cluster \ v.out : v.up[c] = NoParent
        /\ \A c \in v.out :
              /\ parent[c] = NoParent => v.up[c] = NoParent
              /\ \/ c \in Tangled(live, parent)
                 \/ /\ v.up[c] = c => parent[c] = c
                    /\ v.up[c] \in v.out => v.up[v.up[c]] \in {NoParent, v.up[c]}}
=============================================================================
