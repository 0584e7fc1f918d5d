--------------------------- MODULE SituationTree ---------------------------
(***************************************************************************)
(* What the situation graph promises of its hierarchy, whatever pass runs: *)
(* the situations form a forest, an identifier is never used twice, and a  *)
(* situation changes hands only in the ways named below.  A child never    *)
(* jumps to an unrelated parent: it is released to the top level first,    *)
(* unless its own parent is adopted and takes it along.                    *)
(***************************************************************************)
EXTENDS Naturals

CONSTANTS Cluster, NoParent

VARIABLES live, used, parent

tree == <<live, used, parent>>

(* Every nonempty set of situations has a member whose parent lies outside *)
(* it: following parents always leads out, so there is no cycle.           *)
IsForest(nodes, par) ==
    \A S \in (SUBSET nodes) \ {{}} : {c \in S : par[c] \notin S} # {}

(* No situation hangs under one that does not exist.                       *)
IsClosed(nodes, par) ==
    \A c \in Cluster :
        IF c \in nodes THEN par[c] \in nodes \cup {NoParent} ELSE par[c] = NoParent

Init ==
    /\ live = {} /\ used = {}
    /\ parent = [c \in Cluster |-> NoParent]

(* New top-level situations.                                               *)
Open(born) ==
    /\ live' = live \cup born
    /\ used' = used \cup born
    /\ parent' = parent

(* New situations split off under the one they came from.                  *)
Split(c, born) ==
    /\ c \in live
    /\ live' = live \cup born
    /\ used' = used \cup born
    /\ parent' = [x \in Cluster |-> IF x \in born THEN c ELSE parent[x]]

(* Top-level situations become children of p, some of their own children   *)
(* moving up with them.                                                    *)
Adopt(p, kids, moved) ==
    /\ p \in live \ (kids \cup moved)
    /\ \A c \in kids : c \in live /\ parent[c] = NoParent
    /\ \A c \in moved : c \in live /\ parent[c] \in kids
    /\ parent' = [x \in Cluster |-> IF x \in kids \cup moved THEN p ELSE parent[x]]
    /\ IsForest(live, parent')
    /\ UNCHANGED <<live, used>>

(* Situations are dropped; their children, and others, return to the top.  *)
Release(gone, freed) ==
    /\ live' = live \ gone
    /\ used' = used
    /\ {c \in live' : parent[c] \in gone} \subseteq freed
    /\ parent' = [x \in Cluster |-> IF x \in gone \cup freed THEN NoParent ELSE parent[x]]

Next ==
    \/ \E born \in SUBSET (Cluster \ used) : Open(born)
    \/ \E born \in SUBSET (Cluster \ used), c \in Cluster : Split(c, born)
    \/ \E kids, moved \in SUBSET live, p \in live : Adopt(p, kids, moved)
    \/ \E gone, freed \in SUBSET live : Release(gone, freed)

Spec == Init /\ [][Next]_tree
=============================================================================
