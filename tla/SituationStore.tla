--------------------------- MODULE SituationStore ---------------------------
(***************************************************************************)
(* Situations in memory and in the database: what a tick publishes is      *)
(* written row by row by tasks that run in any order, a restart loads the  *)
(* rows back and repairs the hierarchy they describe                       *)
(* (pipeline/src/pipeline.rs, restore_clusters in situation_graph/mod.rs). *)
(*                                                                         *)
(* The hierarchy in memory is taken for what it is at its worst: merges by *)
(* AI results may make a situation its own parent and close longer cycles  *)
(* (see SituationAI), so parents are only known to exist.  The rows of a   *)
(* tick are what SituationView may publish of it.  The rest of a row is    *)
(* data, its age and phase too, which say whether it is loaded.            *)
(*                                                                         *)
(* Before some helpers stands a variant of theirs with a plausible slip,   *)
(* which the specification does not use.                                   *)
(***************************************************************************)
EXTENDS Naturals, FiniteSets

CONSTANTS
    Cluster, NoParent,
    NoRow,          \* no row in table situations
    MaxChildren,    \* cluster_caps.max_children_per_parent
    Significant,    \* a child with this many children is detached: 3
    MaxTicks, MaxRestarts   \* bounds of the instance

ASSUME StoreAssumption ==
    /\ NoParent \notin Cluster
    /\ IsFiniteSet(Cluster)
    /\ {MaxChildren, Significant, MaxTicks, MaxRestarts} \subseteq Nat
    /\ NoRow \notin [tick : Nat, parent : Cluster \cup {NoParent}]

VARIABLES
    live, used,   \* the situations in memory, and those there ever were
    restored,   \* their parents, as a restart leaves them, until the next tick
    now,        \* the ticks so far; a row and a write carry the tick they are of
    restarts,
    writes,     \* the upserts spawned and not finished
    rows,       \* table situations, as far as the hierarchy goes
    shown,      \* history: the last tick that published a situation
    muddled,    \* history: a write of its row failed or overtook another
    caught      \* history: on a cycle of parents or below one, at a tick

graph   == <<live, used, restored>>
history == <<shown, muddled, caught>>
vars    == <<graph, now, restarts, writes, rows, history>>

Tree == INSTANCE SituationTree WITH live <- live, used <- used, parent <- restored
View == INSTANCE ViewContract WITH Cluster <- Cluster, NoParent <- NoParent

Entry  == [tick : Nat, parent : Cluster \cup {NoParent}]
Nobody == [c \in Cluster |-> NoParent]
Outstanding(c) == {w \in writes : w.id = c}
-----------------------------------------------------------------------------
Init ==
    /\ Tree!Init
    /\ now = 0 /\ restarts = 0
    /\ writes = {}
    /\ rows = [c \in Cluster |-> NoRow]
    /\ shown = [c \in Cluster |-> 0] /\ muddled = {} /\ caught = {}

(* What ingestion, the passes of a tick and AI results can make of the     *)
(* hierarchy: any parents that exist.                                      *)
Hierarchies(nodes) ==
    {par \in [Cluster -> Cluster \cup {NoParent}] : Tree!IsClosed(nodes, par)}

Caught(nodes, par) == View!Tangled(nodes, par) \cup {c \in nodes : par[c] = c}

(* A tick up to the end of tick_situations: one task per situation that is *)
(* published.  Of the hierarchy it has made, the view is kept.             *)
Tick ==
    /\ now < MaxTicks
    /\ \E born \in SUBSET (Cluster \ used), gone \in SUBSET live :
          /\ live' = (live \ gone) \cup born
          /\ used' = used \cup born
    /\ restored' = Nobody
    /\ now' = now + 1
    /\ \E parent \in Hierarchies(live') : \E view \in View!Views(live', parent) :
          /\ caught' = caught \cup
                {[id |-> c, tick |-> now'] : c \in view.out \cap Caught(live', parent)}
          /\ writes' = writes \cup
                {[id |-> c, tick |-> now', parent |-> view.up[c]] : c \in view.out}
          /\ shown' = [c \in Cluster |-> IF c \in view.out THEN now' ELSE shown[c]]
          /\ muddled' = (muddled \ view.out) \cup {c \in view.out : Outstanding(c) # {}}
    /\ UNCHANGED <<restarts, rows>>

(* upsert_situation: whichever task comes first, INSERT ... ON CONFLICT DO *)
(* UPDATE replaces what is there.                                          *)
KeepsFirst(w) == IF rows[w.id] # NoRow THEN rows[w.id] ELSE [tick |-> w.tick, parent |-> w.parent]
Upserted(w) == [tick |-> w.tick, parent |-> w.parent]

WriteRow(w) ==
    /\ w \in writes
    /\ writes' = writes \ {w}
    /\ rows' = [rows EXCEPT ![w.id] = Upserted(w)]
    /\ UNCHANGED <<graph, now, restarts, history>>

(* A statement fails: the task logs it and ends.                           *)
WriteFails(w) ==
    /\ w \in writes
    /\ writes' = writes \ {w}
    /\ muddled' = muddled \cup {w.id}
    /\ UNCHANGED <<graph, now, restarts, rows, shown, caught>>
-----------------------------------------------------------------------------
Kids(par, p) == {c \in Cluster : par[c] = p}
Detach(par, cut) == [c \in Cluster |-> IF c \in cut THEN NoParent ELSE par[c]]

(* restore_clusters, from the rows of some situations: a parent that was   *)
(* not loaded is forgotten, ...                                            *)
LoadedUnchecked(ids) ==
    [c \in Cluster |-> IF c \in ids THEN rows[c].parent ELSE NoParent]
Loaded(ids) ==
    [c \in Cluster |-> IF c \in ids /\ rows[c].parent \in ids THEN rows[c].parent ELSE NoParent]

(* ... then the children above the cap are released, those unrelated to    *)
(* their parent, and those that have many children of their own.           *)
Exceeding(par) ==
    {cut \in SUBSET {c \in Cluster : par[c] # NoParent} :
        \A p \in Cluster :
            LET left == Kids(par, p) \ cut
            IN  IF cut \cap Kids(par, p) = {} THEN Cardinality(left) <= MaxChildren
                ELSE Cardinality(left) = MaxChildren}

Established(par) ==
    {c \in Cluster : par[c] # NoParent /\ Cardinality(Kids(par, c)) >= Significant}

(* The process ends, whatever was outstanding is lost, and starts again    *)
(* with the rows that load_persisted_clusters selects.                     *)
Restart(ids) ==
    /\ restarts < MaxRestarts
    /\ restarts' = restarts + 1
    /\ ids \subseteq {c \in Cluster : rows[c] # NoRow}
    /\ live' = ids
    /\ \E cut \in Exceeding(Loaded(ids)) :
          LET capped == Detach(Loaded(ids), cut)
          IN  \E unrelated \in SUBSET {c \in ids : capped[c] # NoParent} :
                LET related == Detach(capped, unrelated)
                IN  restored' = Detach(related, Established(related))
    /\ writes' = {}
    /\ shown' = [c \in Cluster |-> IF rows[c] = NoRow THEN 0 ELSE rows[c].tick]
    /\ muddled' = {}
    /\ UNCHANGED <<used, now, rows, caught>>

Next ==
    \/ Tick
    \/ \E w \in writes : WriteRow(w)
    \/ \E w \in writes : WriteFails(w)
    \/ \E ids \in SUBSET Cluster : Restart(ids)

Spec == Init /\ [][Next]_vars
=============================================================================
