------------------------ MODULE SituationStore_proof ------------------------
(***************************************************************************)
(* Proofs about SituationStore, for any finite set of situations, any caps *)
(* and any number of ticks and restarts.                                   *)
(***************************************************************************)
EXTENDS SituationStoreProperties, TLAPS

LEMMA InitIInv == Init => IInv
<1> SUFFICES ASSUME Init PROVE IInv
    OBVIOUS
<1>1. TypeOKStore
    BY DEF Init, Tree!Init, TypeOKStore
<1>2. RestoredClosed
    BY DEF Init, Tree!Init, RestoredClosed, Tree!IsClosed
<1>3. TicksFlat
    BY DEF Init, TicksFlat, Entries, Outstanding
<1>4. OneWriteEach /\ RowsFollowView
    BY DEF Init, OneWriteEach, RowsFollowView, Outstanding
<1>5. StoredAreUsed
    BY DEF Init, StoredAreUsed
<1> QED BY <1>1, <1>2, <1>3, <1>4, <1>5 DEF IInv

(* What a view of the new hierarchy looks like: two levels, unless a       *)
(* situation is caught in a cycle.                                         *)
LEMMA ViewShape ==
    ASSUME NEW nodes \in SUBSET Cluster, NEW par \in Hierarchies(nodes),
           NEW view \in View!Views(nodes, par)
    PROVE  /\ view.out \subseteq nodes
           /\ view.up \in [Cluster -> nodes \cup {NoParent}]
           /\ \A c, d \in view.out : view.up[c] = d =>
                 view.up[d] = NoParent \/ {c, d} \cap Caught(nodes, par) # {}
<1>1. /\ view \in [out : SUBSET nodes, up : [Cluster -> nodes \cup {NoParent}]]
      /\ \A c \in view.out :
            \/ c \in View!Tangled(nodes, par)
            \/ /\ view.up[c] = c => par[c] = c
               /\ view.up[c] \in view.out => view.up[view.up[c]] \in {NoParent, view.up[c]}
    BY DEF View!Views
<1>2. ASSUME NEW c \in view.out, NEW d \in view.out, view.up[c] = d,
             view.up[d] # NoParent, c \notin Caught(nodes, par)
      PROVE  d \in Caught(nodes, par)
    <2>1. c \notin View!Tangled(nodes, par)
        BY <1>2 DEF Caught
    <2>2. view.up[d] = d /\ d \in nodes
        BY <1>1, <1>2, <2>1
    <2> QED BY <1>1, <2>2 DEF Caught
<1> QED BY <1>1, <1>2
-----------------------------------------------------------------------------
(* A tick.                                                                 *)
LEMMA TickStep ==
    ASSUME IInv, Tick
    PROVE  IInv'
<1> USE StoreAssumption
<1>0. PICK parent \in Hierarchies(live') : \E view \in View!Views(live', parent) :
          /\ caught' = caught \cup
                {[id |-> c, tick |-> now'] : c \in view.out \cap Caught(live', parent)}
          /\ writes' = writes \cup
                {[id |-> c, tick |-> now', parent |-> view.up[c]] : c \in view.out}
          /\ shown' = [c \in Cluster |-> IF c \in view.out THEN now' ELSE shown[c]]
          /\ muddled' = (muddled \ view.out) \cup {c \in view.out : Outstanding(c) # {}}
    BY DEF Tick
<1>1. PICK view \in View!Views(live', parent) :
          /\ caught' = caught \cup
                {[id |-> c, tick |-> now'] : c \in view.out \cap Caught(live', parent)}
          /\ writes' = writes \cup
                {[id |-> c, tick |-> now', parent |-> view.up[c]] : c \in view.out}
          /\ shown' = [c \in Cluster |-> IF c \in view.out THEN now' ELSE shown[c]]
          /\ muddled' = (muddled \ view.out) \cup {c \in view.out : Outstanding(c) # {}}
    BY <1>0
<1>2. /\ live' \subseteq used' /\ used \subseteq used' /\ used' \subseteq Cluster
      /\ restored' = Nobody
      /\ now' = now + 1 /\ now \in Nat
      /\ rows' = rows /\ restarts' = restarts
    BY DEF Tick, IInv, TypeOKStore
<1>3. /\ view.out \subseteq live'
      /\ view.up \in [Cluster -> live' \cup {NoParent}]
      /\ \A c, d \in view.out : view.up[c] = d =>
            view.up[d] = NoParent \/ {c, d} \cap Caught(live', parent) # {}
    <2>1. live' \in SUBSET Cluster
        BY <1>2
    <2> QED BY <2>1, <1>0, ViewShape
<1>4. restored' \in [Cluster -> used' \cup {NoParent}] /\ RestoredClosed'
    BY <1>2 DEF Nobody, Tree!IsClosed, RestoredClosed
<1> DEFINE fresh == {[id |-> c, tick |-> now', parent |-> view.up[c]] : c \in view.out}
<1>5. fresh \subseteq [id : used', tick : 1..now', parent : used' \cup {NoParent}]
    BY <1>2, <1>3
<1>6. TypeOKStore'
    <2>1. writes' \subseteq [id : used', tick : 1..now', parent : used' \cup {NoParent}]
        BY <1>1, <1>2, <1>5 DEF IInv, TypeOKStore
    <2>2. rows' \in [Cluster -> [tick : 1..now', parent : used' \cup {NoParent}] \cup {NoRow}]
        BY <1>2 DEF IInv, TypeOKStore
    <2>3. shown' \in [Cluster -> 0..now']
        BY <1>1, <1>2 DEF IInv, TypeOKStore
    <2>4. muddled' \subseteq Cluster
        BY <1>1, <1>2, <1>3 DEF IInv, TypeOKStore
    <2>5. restarts' \in Nat /\ now' \in Nat
        BY <1>2, <1>4 DEF IInv, TypeOKStore
    <2>6. caught' \subseteq [id : used', tick : 1..now']
        BY <1>1, <1>2, <1>3 DEF IInv, TypeOKStore
    <2> QED BY <1>2, <1>4, <2>1, <2>2, <2>3, <2>4, <2>5, <2>6 DEF TypeOKStore
<1>7. \A c \in Cluster : \A e \in Entries(c)' :
          \/ e \in Entries(c) /\ e.tick \in 1..now
          \/ e.tick = now' /\ c \in view.out /\ e.parent = view.up[c]
    <2> SUFFICES ASSUME NEW c \in Cluster, NEW e \in Entries(c)'
                 PROVE  \/ e \in Entries(c) /\ e.tick \in 1..now
                        \/ e.tick = now' /\ c \in view.out /\ e.parent = view.up[c]
        OBVIOUS
    <2>1. CASE e \in {rows'[c]} \ {NoRow}
        BY <2>1, <1>2 DEF Entries, IInv, TypeOKStore
    <2>2. CASE e \notin {rows'[c]} \ {NoRow}
        <3>1. PICK w \in writes' : w.id = c /\ e = [tick |-> w.tick, parent |-> w.parent]
            BY <2>2 DEF Entries, Outstanding, Upserted
        <3>2. CASE w \in writes
            BY <3>1, <3>2 DEF Entries, Outstanding, Upserted, IInv, TypeOKStore
        <3>3. CASE w \in fresh
            BY <3>1, <3>3
        <3> QED BY <1>1, <3>2, <3>3
    <2> QED BY <2>1, <2>2
<1>8. TicksFlat'
    <2> SUFFICES ASSUME NEW c \in Cluster, NEW d \in Cluster,
                        NEW e \in Entries(c)', NEW f \in Entries(d)',
                        e.tick = f.tick, e.parent = d
                 PROVE  \/ f.parent = NoParent
                        \/ [id |-> c, tick |-> e.tick] \in caught'
                        \/ [id |-> d, tick |-> f.tick] \in caught'
        BY DEF TicksFlat
    <2>1. CASE e.tick \in 1..now
        <3>1. e \in Entries(c) /\ f \in Entries(d)
            BY <2>1, <1>2, <1>7
        <3> QED BY <1>1, <3>1 DEF IInv, TicksFlat
    <2>2. CASE e.tick \notin 1..now
        <3>1. c \in view.out /\ e.parent = view.up[c] /\ d \in view.out /\ f.parent = view.up[d]
              /\ e.tick = now' /\ f.tick = now'
            BY <2>2, <1>7
        <3>2. CASE c \in Caught(live', parent)
            <4>1. [id |-> c, tick |-> now'] \in caught'
                BY <1>1, <3>1, <3>2
            <4> QED BY <3>1, <4>1
        <3>3. CASE d \in Caught(live', parent)
            <4>1. [id |-> d, tick |-> now'] \in caught'
                BY <1>1, <3>1, <3>3
            <4> QED BY <3>1, <4>1
        <3>4. view.up[c] = d
            BY <3>1
        <3>5. view.up[d] = NoParent \/ {c, d} \cap Caught(live', parent) # {}
            BY <1>3, <3>1, <3>4
        <3> QED BY <3>1, <3>2, <3>3, <3>5
    <2> QED BY <2>1, <2>2
<1>9. OneWriteEach'
    <2> SUFFICES ASSUME NEW w \in writes', w.id \notin muddled'
                 PROVE  w.tick = shown'[w.id] /\ Outstanding(w.id)' = {w}
        BY DEF OneWriteEach
    <2>1. CASE w.id \in view.out
        <3>1. Outstanding(w.id) = {} /\ w.id \in Cluster
            BY <2>1, <1>1, <1>2, <1>3
        <3>2. w \in fresh
            BY <3>1, <1>1 DEF Outstanding
        <3>3. \A v \in fresh : v.id = w.id => v = w
            BY <3>2
        <3>4. Outstanding(w.id)' = {w}
            BY <3>1, <3>2, <3>3, <1>1 DEF Outstanding
        <3> QED BY <3>1, <3>2, <3>4, <2>1, <1>1
    <2>2. CASE w.id \notin view.out
        <3>1. w \in writes /\ w.id \notin muddled
            BY <2>2, <1>1
        <3>2. w.tick = shown[w.id] /\ Outstanding(w.id) = {w} /\ w.id \in Cluster
            BY <3>1 DEF IInv, OneWriteEach, TypeOKStore
        <3>3. Outstanding(w.id)' = Outstanding(w.id)
            BY <2>2, <1>1 DEF Outstanding
        <3> QED BY <3>2, <3>3, <2>2, <1>1
    <2> QED BY <2>1, <2>2
<1>10. RowsFollowView'
    <2> SUFFICES ASSUME NEW c \in Cluster \ muddled', Outstanding(c)' = {}
                 PROVE  IF rows[c] = NoRow THEN shown'[c] = 0 ELSE rows[c].tick = shown'[c]
        BY <1>2 DEF RowsFollowView
    <2>1. c \notin view.out
        <3> SUFFICES ASSUME c \in view.out PROVE FALSE
            OBVIOUS
        <3>1. [id |-> c, tick |-> now', parent |-> view.up[c]] \in writes'
            BY <1>1
        <3> QED BY <3>1 DEF Outstanding
    <2>2. c \notin muddled /\ Outstanding(c) = {} /\ shown'[c] = shown[c]
        BY <2>1, <1>1 DEF Outstanding
    <2> QED BY <2>2 DEF IInv, RowsFollowView
<1>11. StoredAreUsed'
    BY <1>2 DEF IInv, StoredAreUsed
<1> QED BY <1>4, <1>6, <1>8, <1>9, <1>10, <1>11 DEF IInv

(* A write ends, done or failed: its entry was there before.               *)
LEMMA EntriesShrink ==
    ASSUME TypeOKStore, NEW w \in writes, writes' = writes \ {w},
           rows' = rows \/ rows' = [rows EXCEPT ![w.id] = Upserted(w)]
    PROVE  \A c \in Cluster : Entries(c)' \subseteq Entries(c)
BY DEF TypeOKStore, Entries, Outstanding, Upserted

LEMMA WriteStep ==
    ASSUME IInv, NEW w \in writes, WriteRow(w) \/ WriteFails(w)
    PROVE  IInv'
<1> USE StoreAssumption
<1>1. /\ writes' = writes \ {w}
      /\ UNCHANGED <<live, used, restored, now, restarts, shown, caught>>
      /\ muddled \subseteq muddled'
    BY DEF WriteRow, WriteFails, graph, history
<1>2. w.id \in Cluster /\ Upserted(w) \in [tick : 1..now, parent : used \cup {NoParent}]
    BY DEF IInv, TypeOKStore, Upserted
<1>3. rows' = rows \/ rows' = [rows EXCEPT ![w.id] = Upserted(w)]
    BY DEF WriteRow, WriteFails
<1>4. TypeOKStore'
    <2>1. rows' \in [Cluster -> [tick : 1..now, parent : used \cup {NoParent}] \cup {NoRow}]
        BY <1>2, <1>3 DEF IInv, TypeOKStore
    <2>2. muddled' \subseteq Cluster
        BY <1>2 DEF IInv, TypeOKStore, WriteRow, WriteFails, history
    <2> QED BY <1>1, <2>1, <2>2 DEF IInv, TypeOKStore
<1>5. RestoredClosed'
    BY <1>1 DEF IInv, RestoredClosed, Tree!IsClosed
<1>6. TicksFlat'
    BY <1>1, <1>3, EntriesShrink DEF IInv, TicksFlat
<1>7. OneWriteEach'
    BY <1>1 DEF IInv, OneWriteEach, Outstanding
<1>8. RowsFollowView'
    <2> SUFFICES ASSUME NEW c \in Cluster \ muddled', Outstanding(c)' = {}
                 PROVE  IF rows'[c] = NoRow THEN shown[c] = 0 ELSE rows'[c].tick = shown[c]
        BY <1>1 DEF RowsFollowView
    <2>1. CASE c = w.id
        <3>1. WriteRow(w)
            BY <2>1 DEF WriteFails
        <3>2. rows'[c] = Upserted(w)
            BY <3>1, <2>1, <1>2 DEF WriteRow, IInv, TypeOKStore
        <3>3. w.tick = shown[c]
            BY <2>1, <1>1 DEF IInv, OneWriteEach
        <3>4. rows'[c] # NoRow
            <4>1. Upserted(w) \in [tick : Nat, parent : Cluster \cup {NoParent}]
                BY <1>2 DEF IInv, TypeOKStore
            <4> QED BY <3>2, <4>1
        <3> QED BY <3>2, <3>3, <3>4 DEF Upserted
    <2>2. CASE c # w.id
        <3>1. Outstanding(c) = {} /\ rows'[c] = rows[c] /\ c \notin muddled
            BY <2>2, <1>1, <1>3 DEF Outstanding, IInv, TypeOKStore
        <3> QED BY <3>1 DEF IInv, RowsFollowView
    <2> QED BY <2>1, <2>2
<1>9. StoredAreUsed'
    BY <1>1, <1>3 DEF IInv, StoredAreUsed, TypeOKStore
<1> QED BY <1>4, <1>5, <1>6, <1>7, <1>8, <1>9 DEF IInv

(* A restart: every parent it leaves is the one in the row, and loaded.    *)
LEMMA RestartParents ==
    ASSUME TypeOKStore, NEW ids \in SUBSET Cluster, Restart(ids)
    PROVE  /\ restored' \in [Cluster -> Cluster \cup {NoParent}]
           /\ \A c \in Cluster : restored'[c] # NoParent =>
                 c \in ids /\ restored'[c] \in ids /\ restored'[c] = rows[c].parent
<1>1. PICK cut \in Exceeding(Loaded(ids)) :
         \E unrelated \in SUBSET {c \in ids : Detach(Loaded(ids), cut)[c] # NoParent} :
            LET related == Detach(Detach(Loaded(ids), cut), unrelated)
            IN  restored' = Detach(related, Established(related))
    BY DEF Restart
<1>2. PICK unrelated \in SUBSET Cluster :
            LET related == Detach(Detach(Loaded(ids), cut), unrelated)
            IN  restored' = Detach(related, Established(related))
    BY <1>1
<1> DEFINE capped  == Detach(Loaded(ids), cut)
           related == Detach(capped, unrelated)
<1>3. restored' = [c \in Cluster |-> IF c \in Established(related) THEN NoParent ELSE related[c]]
    BY <1>2 DEF Detach
<1>4. related = [c \in Cluster |-> IF c \in unrelated THEN NoParent ELSE capped[c]]
    BY DEF Detach
<1>5. capped = [c \in Cluster |-> IF c \in cut THEN NoParent ELSE Loaded(ids)[c]]
    BY DEF Detach
<1>6. Loaded(ids) = [c \in Cluster |->
          IF c \in ids /\ rows[c].parent \in ids THEN rows[c].parent ELSE NoParent]
    BY DEF Loaded
<1> HIDE DEF capped, related
<1>7. \A c \in Cluster : restored'[c] # NoParent =>
          c \in ids /\ rows[c].parent \in ids /\ restored'[c] = rows[c].parent
    BY <1>3, <1>4, <1>5, <1>6
<1>8. \A c \in Cluster : restored'[c] \in Cluster \cup {NoParent}
    BY <1>7
<1> QED BY <1>3, <1>7, <1>8

LEMMA RestartStep ==
    ASSUME IInv, NEW ids \in SUBSET Cluster, Restart(ids)
    PROVE  IInv'
<1> USE StoreAssumption
<1>1. /\ writes' = {} /\ muddled' = {} /\ live' = ids
      /\ restarts' = restarts + 1
      /\ UNCHANGED <<used, now, rows, caught>>
      /\ ids \subseteq {c \in Cluster : rows[c] # NoRow}
      /\ shown' = [c \in Cluster |-> IF rows[c] = NoRow THEN 0 ELSE rows[c].tick]
    BY DEF Restart
<1>2. /\ restored' \in [Cluster -> Cluster \cup {NoParent}]
      /\ \A c \in Cluster : restored'[c] # NoParent =>
            c \in ids /\ restored'[c] \in ids /\ restored'[c] = rows[c].parent
    BY RestartParents DEF IInv
<1>3. TypeOKStore
    BY DEF IInv
<1>4. TypeOKStore'
    <2>1. ids \subseteq used
        BY <1>1, <1>3 DEF IInv, TypeOKStore, StoredAreUsed
    <2>2. restored' \in [Cluster -> used' \cup {NoParent}]
        BY <1>1, <1>2, <2>1
    <2>3. shown' \in [Cluster -> 0..now']
        BY <1>1, <1>3 DEF TypeOKStore
    <2> QED BY <1>1, <1>3, <2>1, <2>2, <2>3 DEF TypeOKStore
<1>5. RestoredClosed'
    BY <1>1, <1>2 DEF RestoredClosed, Tree!IsClosed
<1>6. \A c \in Cluster : Entries(c)' \subseteq Entries(c)
    BY <1>1 DEF Entries, Outstanding
<1>7. TicksFlat'
    BY <1>1, <1>6 DEF IInv, TicksFlat
<1>8. OneWriteEach' /\ RowsFollowView'
    BY <1>1 DEF OneWriteEach, RowsFollowView, Outstanding
<1>9. StoredAreUsed'
    BY <1>1 DEF IInv, StoredAreUsed
<1> QED BY <1>4, <1>5, <1>7, <1>8, <1>9 DEF IInv
-----------------------------------------------------------------------------
LEMMA NextIInv == IInv /\ [Next]_vars => IInv'
<1> SUFFICES ASSUME IInv, [Next]_vars PROVE IInv'
    OBVIOUS
<1>1. CASE Tick
    BY <1>1, TickStep
<1>2. CASE \E w \in writes : WriteRow(w)
    BY <1>2, WriteStep
<1>3. CASE \E w \in writes : WriteFails(w)
    BY <1>3, WriteStep
<1>4. CASE \E ids \in SUBSET Cluster : Restart(ids)
    BY <1>4, RestartStep
<1>5. CASE UNCHANGED vars
    BY <1>5 DEF vars, graph, history, IInv, TypeOKStore, RestoredClosed, Tree!IsClosed, TicksFlat,
                Entries, OneWriteEach, RowsFollowView, Outstanding, StoredAreUsed
<1> QED BY <1>1, <1>2, <1>3, <1>4, <1>5 DEF Next

(* The inductive invariant holds throughout.                               *)
THEOREM Invariance == Spec => []IInv
<1>1. Init => IInv
    BY InitIInv
<1>2. IInv /\ [Next]_vars => IInv'
    BY NextIInv
<1> QED BY <1>1, <1>2, PTL DEF Spec

(* Types of the graph, the writes and the rows.                            *)
THEOREM TypeCorrect == Spec => []TypeOKStore
<1>1. IInv => TypeOKStore
    BY DEF IInv
<1> QED BY <1>1, Invariance, PTL

(* restore_clusters leaves no situation under one that was not loaded.     *)
THEOREM AlwaysClosed == Spec => []RestoredClosed
<1>1. IInv => RestoredClosed
    BY DEF IInv
<1> QED BY <1>1, Invariance, PTL

(* A row is behind its situation's last view only after a failed or an     *)
(* overlapping write.                                                      *)
THEOREM RowsAlwaysFollow == Spec => []RowsFollowView
<1>1. IInv => RowsFollowView
    BY DEF IInv
<1> QED BY <1>1, Invariance, PTL

(* A cycle among restored situations passes through rows of two ticks, or  *)
(* through a situation that was caught in one when its row was published.  *)
LEMMA RestartCycles ==
    ASSUME IInv, NEW ids \in SUBSET Cluster, Restart(ids),
           NEW S \in SUBSET live', S # {}, \A c \in S : restored'[c] \in S
    PROVE  \/ \E c, d \in S : rows[c].tick # rows[d].tick
           \/ \E c \in S : [id |-> c, tick |-> rows[c].tick] \in caught
<1> USE StoreAssumption
<1>1. /\ live' = ids
      /\ ids \subseteq {c \in Cluster : rows[c] # NoRow}
    BY DEF Restart
<1>2. \A c \in S : c \in Cluster /\ restored'[c] = rows[c].parent /\ rows[c].parent # NoParent
    BY <1>1, RestartParents DEF IInv
<1>3. PICK c \in S : TRUE
    OBVIOUS
<1>4. PICK d \in S : rows[c].parent = d
    BY <1>2, <1>3
<1>5. rows[c] \in Entries(c) /\ rows[d] \in Entries(d)
    BY <1>1 DEF Entries
<1>6. \/ rows[c].tick # rows[d].tick
      \/ [id |-> c, tick |-> rows[c].tick] \in caught
      \/ [id |-> d, tick |-> rows[d].tick] \in caught
    BY <1>2, <1>4, <1>5 DEF IInv, TicksFlat
<1> QED BY <1>6

(* Whatever AI results have made of the hierarchy, and whatever the writes *)
(* and the restart: restore_clusters brings back no cycle that was not     *)
(* published as one, other than from rows of different ticks.              *)
THEOREM CyclesAlwaysMixTicks == Spec => CyclesMixTicks
<1>1. IInv /\ [Next]_vars => [restarts' # restarts =>
          \A S \in SUBSET live' :
              (S # {} /\ \A c \in S : restored'[c] \in S)
                  => \/ \E c, d \in S : rows[c].tick # rows[d].tick
                     \/ \E c \in S : [id |-> c, tick |-> rows[c].tick] \in caught]_vars
    <2> SUFFICES ASSUME IInv, Next, restarts' # restarts,
                        NEW S \in SUBSET live', S # {}, \A c \in S : restored'[c] \in S
                 PROVE  \/ \E c, d \in S : rows[c].tick # rows[d].tick
                        \/ \E c \in S : [id |-> c, tick |-> rows[c].tick] \in caught
        BY DEF vars, graph, history
    <2>1. PICK ids \in SUBSET Cluster : Restart(ids)
        BY DEF Next, Tick, WriteRow, WriteFails
    <2> QED BY <2>1, RestartCycles
<1> QED BY <1>1, Invariance, PTL DEF Spec, CyclesMixTicks
=============================================================================
