--------------------------- MODULE SituationView ---------------------------
(***************************************************************************)
(* The published view of the situation graph: the passes of                *)
(* active_clusters (pipeline/src/situation_graph/dto.rs) over a hierarchy  *)
(* chosen at the start.  The view is what the browser shows and what is    *)
(* written to the database.                                                *)
(*                                                                         *)
(* Every pass removes rows or rewrites parent_id and child_ids of rows.    *)
(* Which situations have garbage titles, equal titles or titles that are   *)
(* nearly the same, which are natural disasters or routine events, and how *)
(* many events they have is data: every outcome is allowed.                *)
(*                                                                         *)
(* Before some helpers stands a variant of theirs with a plausible slip,   *)
(* which the specification does not use.                                   *)
(***************************************************************************)
EXTENDS Naturals, FiniteSets

CONSTANTS
    Cluster, NoParent,
    DisasterAlone, DisasterParents,   \* quality.nd_standalone_cap, nd_parent_cap
    RoutineAlone, RoutineParents,     \* quality.routine_standalone_cap, ...
    MaxHops                           \* find_root climbs so many parents: 10

ASSUME ViewAssumption ==
    /\ NoParent \notin Cluster
    /\ IsFiniteSet(Cluster)
    /\ {DisasterAlone, DisasterParents, RoutineAlone, RoutineParents, MaxHops} \subseteq Nat

VARIABLES
    stage,     \* the pass that runs next
    parent,    \* parent_id in the graph, which no pass changes
    strong,    \* rows with min_events_standalone events and two kinds of source
    garbage,   \* situations with a garbage title
    out,       \* the rows of dtos
    up,        \* parent_id of the rows
    listed,    \* child_ids of the rows
    root,      \* how far find_root has climbed from the parent of each row
    hops,      \* in so many turns of its loop
    size,      \* event_count of the rows at the top level, as far as compared
    similar,   \* pairs of them with nearly the same title
    todo,      \* the ones whose turn as first of a pair is still to come
    lost       \* merge_into: the row a duplicate is merged into

inputs == <<parent, strong, garbage>>
climb  == <<root, hops>>
dedupe == <<size, similar, todo, lost>>
vars   == <<stage, inputs, out, up, listed, climb, dedupe>>

Stages == {"filter", "collapse", "flatten", "caps", "cleanup", "dedupe", "final", "done"}
Nobody == [c \in Cluster |-> NoParent]
Row    == Cluster \cup {NoParent}

-----------------------------------------------------------------------------
Kids(p) == {c \in Cluster : parent[c] = p}
Top == {c \in out : up[c] = NoParent}

(* Rows whose parent is not among the rows.  A row that could stand alone  *)
(* is promoted, any other is dropped; one look decides, and the children   *)
(* of a row dropped by it are not looked at again.                         *)
HomelessForgotten(rows, par) == {}
Homeless(rows, par) == {c \in rows : par[c] \notin rows \cup {NoParent}}

Promoted(par, rows, promote) ==
    [c \in Cluster |-> IF c \notin rows \/ c \in promote THEN NoParent ELSE par[c]]
Only(f, rows, none) == [c \in Cluster |-> IF c \in rows THEN f[c] ELSE none]

(* find_root, one turn of its loop: from a row to its parent, if that is a *)
(* row too.                                                                *)
StandsStill(x) == x
Above(x) == IF x \in out /\ up[x] \in out THEN up[x] ELSE x
Arrived == hops = MaxHops \/ \A c \in out : Above(root[c]) = root[c]

(* The sets of rows that may lose their place to the first few of their    *)
(* kind, be they childless or not: a cap is full before anything goes.     *)
Crowded(rows, cap) == {gone \in SUBSET rows : gone # {} => Cardinality(rows \ gone) >= cap}

OverCap(rows, alone, parents) ==
    LET single == {c \in rows : listed[c] = {}}
    IN  {gone \in SUBSET rows : /\ gone \cap single \in Crowded(single, alone)
                                /\ gone \ single \in Crowded(rows \ single, parents)}
-----------------------------------------------------------------------------
(* Any parents: AI results make situations their own parent and close      *)
(* longer cycles (see SituationAI), which their rows bring back after a    *)
(* restart (see SituationStore).                                           *)
Init ==
    /\ stage = "filter"
    /\ parent \in [Cluster -> Row]
    /\ strong \in SUBSET Cluster /\ garbage \in SUBSET Cluster
    /\ out = {} /\ up = Nobody
    /\ listed = [c \in Cluster |-> {}]
    /\ root = Nobody /\ hops = 0
    /\ size = [c \in Cluster |-> 0]
    /\ similar = {} /\ todo = {} /\ lost = Nobody

(* The quality gate, then the check of every child whose parent it kept    *)
(* out.  A situation with children passes unless its title is garbage; a   *)
(* leaf with a parent needs few events, one without a parent many, of two  *)
(* kinds of source, and a proper title.                                    *)
Filter ==
    /\ stage = "filter"
    /\ stage' = "collapse"
    /\ \E leaves \in SUBSET {c \in Cluster : Kids(c) = {}} :
          LET parents  == {c \in Cluster : Kids(c) # {}}
              rows     == leaves \cup (parents \ garbage)
              homeless == Homeless(rows, parent)
          IN  /\ \A c \in leaves : parent[c] = NoParent => c \in strong \ garbage
              /\ out' = rows \ (homeless \ strong)
              /\ up' = Promoted(parent, out', homeless)
              /\ listed' = [c \in Cluster |-> IF c \in out' THEN Kids(c) ELSE {}]
    /\ UNCHANGED <<inputs, climb, dedupe>>

(* collapse_single_child: the only child of a row at the top level goes    *)
(* if it has the same title.  The child may have children of its own.      *)
CollapseSingleChild ==
    /\ stage = "collapse"
    /\ stage' = "flatten"
    /\ \E gone \in SUBSET {c \in out \ garbage : \E p \in Top : listed[p] = {c}} :
          /\ out' = out \ gone
          /\ up' = Only(up, out', NoParent)
          /\ listed' = [c \in Cluster |-> IF c \in out' THEN listed[c] \ gone ELSE {}]
    /\ root' = up' /\ hops' = 0
    /\ UNCHANGED <<inputs, dedupe>>

(* flatten_hierarchy: the climb from the parent of every row.  Where the   *)
(* parents close a cycle, it goes round until its turns are used up.       *)
Climb ==
    /\ stage = "flatten" /\ ~Arrived
    /\ hops' = hops + 1
    /\ root' = [c \in Cluster |-> Above(root[c])]
    /\ UNCHANGED <<stage, inputs, out, up, listed, dedupe>>

(* Then every row moves to where the climb ended; rows without a parent    *)
(* are promoted or dropped.                                                *)
Flatten ==
    /\ stage = "flatten" /\ Arrived
    /\ stage' = "caps"
    /\ LET homeless == Homeless(out, up)
           moved    == {c \in out : root[c] # up[c]}
       IN  /\ out' = out \ (homeless \ strong)
           /\ up' = Promoted(root, out', homeless)
           /\ listed' = [c \in Cluster |->
                 IF c \in out'
                 THEN {k \in listed[c] \cup moved : k \in moved => root[k] = c}
                 ELSE {}]
    /\ root' = Nobody /\ hops' = 0
    /\ UNCHANGED <<inputs, dedupe>>

(* cap_category_counts: of the natural disasters at the top level, then of *)
(* the routine events, the first few without children and the first few    *)
(* with children stay.                                                     *)
CapCategoryCounts ==
    /\ stage = "caps"
    /\ stage' = "cleanup"
    /\ \E disasters \in OverCap(Top, DisasterAlone, DisasterParents) :
          \E routine \in OverCap(Top \ disasters, RoutineAlone, RoutineParents) :
              out' = out \ (disasters \cup routine)
    /\ up' = Only(up, out', NoParent)
    /\ listed' = Only(listed, out', {})
    /\ UNCHANGED <<inputs, climb, dedupe>>

(* cleanup_orphans, once more; then the order of deduplicate: the data it  *)
(* compares.                                                               *)
CleanupOrphans ==
    /\ stage = "cleanup"
    /\ stage' = "dedupe"
    /\ LET homeless == Homeless(out, up)
       IN  /\ out' = out \ (homeless \ strong)
           /\ up' = Promoted(up, out', homeless)
    /\ listed' = Only(listed, out', {})
    /\ todo' = {c \in out' : up'[c] = NoParent}
    /\ size' \in [Cluster -> 0..Cardinality(todo')]
    /\ \A c \in Cluster : (size'[c] = 0) <=> (c \notin todo')
    /\ similar' \in SUBSET {pair \in SUBSET todo' : Cardinality(pair) = 2}
    /\ UNCHANGED <<inputs, climb, lost>>
-----------------------------------------------------------------------------
(* deduplicate_near_duplicates, one turn of its outer loop: a, unless it   *)
(* has lost already, is compared with every later row that has not; the    *)
(* one with fewer events loses.  A row that loses during its own turn goes *)
(* on comparing, and its last defeat counts.  The rows are visited by the  *)
(* time of their last event, that is in any order.                         *)
HasLost(c) == lost[c] # NoParent
Outweighs(a, b) == size[a] >= size[b]

Compare(a, last) ==
    /\ stage = "dedupe"
    /\ a \in todo
    /\ todo' = todo \ {a}
    /\ LET rivals == {b \in todo \ {a} : {a, b} \in similar /\ ~HasLost(b) /\ ~HasLost(a)}
           beaten == {b \in rivals : Outweighs(a, b)}
       IN  /\ IF rivals \subseteq beaten THEN last = NoParent ELSE last \in rivals \ beaten
           /\ lost' = [c \in Cluster |->
                 IF c \in beaten THEN a
                 ELSE IF c = a /\ last # NoParent THEN last ELSE lost[c]]
    /\ UNCHANGED <<stage, inputs, out, up, listed, climb, size, similar>>

(* The winners take over the children of the losers, which go.  A winner   *)
(* may have lost to another itself; the children given to it are not       *)
(* passed on.                                                              *)
NotHandedOver(c) == c
Heir(c) == IF c \in Cluster /\ lost[c] # NoParent THEN lost[c] ELSE c

MergeDuplicates ==
    /\ stage = "dedupe" /\ todo = {}
    /\ stage' = "final"
    /\ out' = {c \in out : ~HasLost(c)}
    /\ up' = [c \in Cluster |-> IF c \in out' THEN Heir(up[c]) ELSE NoParent]
    /\ listed' = [c \in Cluster |->
          IF c \in out'
          THEN listed[c] \cup UNION {listed[x] : x \in {y \in Cluster : lost[y] = c}}
          ELSE {}]
    /\ UNCHANGED <<inputs, climb, dedupe>>

(* The last filter: rows at the top level with a garbage title.            *)
FinalFilter ==
    /\ stage = "final"
    /\ stage' = "done"
    /\ out' = out \ (Top \cap garbage)
    /\ up' = Only(up, out', NoParent)
    /\ listed' = Only(listed, out', {})
    /\ UNCHANGED <<inputs, climb, dedupe>>

Next ==
    \/ Filter
    \/ CollapseSingleChild
    \/ Climb
    \/ Flatten
    \/ CapCategoryCounts
    \/ CleanupOrphans
    \/ \E a \in Cluster, last \in Row : Compare(a, last)
    \/ MergeDuplicates
    \/ FinalFilter

Spec == Init /\ [][Next]_vars
-----------------------------------------------------------------------------
Contract == INSTANCE ViewContract WITH Cluster <- Cluster, NoParent <- NoParent

(* Published children whose parent is not published.                       *)
Stranded == {c \in out : up[c] \notin out \cup {NoParent}}

Flattened == stage \in {"dedupe", "final", "done"}

(* Two levels: once flattened, the parent of a published child has no      *)
(* parent, and nothing gets a parent that had none.  The situations whose  *)
(* parents are their own or close a cycle are excepted, and those below a  *)
(* cycle.  Four passes drop rows around the one that flattens, and the     *)
(* removal of duplicates rewrites parents after it.                        *)
TwoLevels ==
    Flattened => [out |-> out, up |-> up] \in Contract!Views(Cluster, parent)

(* The two directions agree: of two published rows, one lists the other    *)
(* exactly if it is its parent.  The browser builds its tree from both.    *)
ParentsAndListsAgree ==
    Flattened =>
        \A c, d \in out : c \in listed[d] <=> up[c] = d

(* What is published is a hierarchy of two levels, told twice.             *)
ViewConsistent == TwoLevels /\ ParentsAndListsAgree

(* After the cleanup every published child has a published parent.  Later  *)
(* steps take parents away in two ways only: a duplicate that won and then *)
(* lost itself, and a row promoted with a garbage title.                   *)
OrphanedOnlyBy ==
    Flattened =>
        \A c \in Stranded :
            \/ stage # "dedupe" /\ HasLost(up[c]) /\ \E x \in Cluster : lost[x] = up[c]
            \/ stage = "done" /\ up[c] \in garbage
=============================================================================
