--------------------- MODULE SituationForestProperties ---------------------
(***************************************************************************)
(* The properties of SituationForest, and the invariant that proves them.  *)
(***************************************************************************)
EXTENDS SituationForest

Tree == INSTANCE SituationTree WITH
    Cluster <- Cluster, NoParent <- NoParent,
    live <- live, used <- used, parent <- parent

(* Types, and the bookkeeping each pass relies on: only what exists is     *)
(* live, a pass works on situations that still exist.                      *)
TypeOK ==
    /\ live \subseteq used /\ used \subseteq Cluster
    /\ parent \in Parentage
    /\ rejected \subseteq Pairs
    /\ tick \in 0..3
    /\ stage \in Stages
    /\ snap \in Parentage
    /\ rank \in [Cluster -> Nat]
    /\ todo \subseteq live

(* No situation is ever its own ancestor, at any point of a tick: a        *)
(* situation on a cycle has no top-level ancestor, so it is not published, *)
(* not pruned and not merged again.  merge_overlapping is where this could *)
(* fail: it applies pairs collected earlier without looking at the         *)
(* parent's own parent again.                                              *)
Acyclic == Tree!IsForest(live, parent)

(* parent_id never names a situation that was pruned or swept away         *)
(* (prune_stale_with_cache and sweep remove situations that have           *)
(* children).                                                              *)
NoDanglingParent == Tree!IsClosed(live, parent)

(* The hierarchy changes only as SituationTree allows: forests throughout, *)
(* identifiers never reused, no child taken from a parent that keeps its   *)
(* place.                                                                  *)
TreeSpec == Tree!Spec

(* A parent that gains a child in this step ends with at most n.           *)
CappedAt(n) ==
    \A p \in Cluster :
        \/ Kids(parent', p) \subseteq Kids(parent, p)
        \/ Cardinality(Kids(parent', p)) <= n

(* No parent that gains a child ends above max_children_per_parent, but    *)
(* for the one extra that a child with children of its own is allowed.     *)
JoinCap(p) ==
    IF \E c \in Kids(parent', p) \ Kids(parent, p) : Kids(snap, c) # {}
    THEN MaxChildren + 1 ELSE MaxChildren

JoinsWithinCap ==
    \A p \in Cluster :
        \/ Kids(parent', p) \subseteq Kids(parent, p)
        \/ Cardinality(Kids(parent', p)) <= JoinCap(p)

(* The merge passes keep max_children_per_parent: a parent ends above it   *)
(* only by one, and only by taking in a child that was a parent when the   *)
(* pass began.  The cap is tested against counts taken in several ways:    *)
(* the snapshot, running counters, the snapshot's children of the child.   *)
MergesRespectCap ==
    [][(stage \in {"merge", "topic", "country"}) => JoinsWithinCap]_vars

(* What an earlier pass detached as unrelated is not put back by the       *)
(* passes that honour merge_rejections: a top-level situation joins a      *)
(* parent under a standing rejection in no merge.                          *)
RejectionsHold ==
    [][ \A c \in live \cap live' :
          parent[c] = NoParent /\ parent'[c] # NoParent
              => {c, parent'[c]} \notin rejected' ]_vars

(* merge_overlapping makes the larger of two the parent: while it          *)
(* rewrites the hierarchy, every situation it found at the top level       *)
(* hangs, if at all, under a larger one that it also found there.          *)
PassOrder ==
    stage = "merge" =>
        \A c \in todo : parent[c] # NoParent =>
            /\ parent[c] \in todo
            /\ rank[c] < rank[parent[c]]

(* consolidate_by_topic: what it found at the top level had no parent in   *)
(* its snapshot, its snapshot names only situations that exist, and the    *)
(* snapshot's children of a situation still at the top level are still its *)
(* children, so that the pass may move them up without looking again.      *)
SnapTop ==
    stage = "topic" =>
        /\ \A c \in todo : snap[c] = NoParent
        /\ \A c \in Cluster : snap[c] # NoParent =>
              /\ c \in live
              /\ snap[c] \in live
              /\ parent[snap[c]] = NoParent => parent[c] = snap[c]

(* Theaters, divergent groups: what is still to be visited by the country  *)
(* sweep and by split_divergent is at the top level.                       *)
TodoTop == stage \in {"country", "split"} => \A c \in todo : parent[c] = NoParent

(* What a pass decided from its snapshot still fits the hierarchy when it  *)
(* is applied.                                                             *)
SnapshotsFit == PassOrder /\ SnapTop /\ TodoTop

(* The inductive invariant behind Acyclic and the refinement.              *)
IInv ==
    /\ TypeOK
    /\ NoDanglingParent
    /\ Acyclic
    /\ SnapshotsFit
=============================================================================
