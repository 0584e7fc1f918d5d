----------------------- MODULE SituationForest_proof -----------------------
(***************************************************************************)
(* Proofs about the hierarchy of situations, for any number of situations  *)
(* and any caps.  Of SituationForest: its inductive invariant, hence that  *)
(* the hierarchy is a forest at every step of every pass, and that it      *)
(* implements SituationTree.  Of SituationAI, which adds the results of    *)
(* the AI requests: what those can break, and what they cannot.            *)
(***************************************************************************)
EXTENDS SituationAIProperties, FiniteSetTheorems, TLAPS

(***************************************************************************)
(* What each kind of rewriting does to a forest.                           *)
(***************************************************************************)

(* Dropping situations, or returning some to the top level, keeps it.      *)
LEMMA ReleaseForest ==
    ASSUME NEW nodes \in SUBSET Cluster, NEW rest \in SUBSET nodes,
           NEW par \in Parentage, NEW par2 \in Parentage,
           Tree!IsForest(nodes, par),
           \A c \in rest : par2[c] \in {par[c], NoParent}
    PROVE  Tree!IsForest(rest, par2)
BY ForestAssumption DEF Tree!IsForest

(* Adding situations that nothing names yet keeps it.                      *)
LEMMA GrowForest ==
    ASSUME NEW nodes \in SUBSET Cluster, NEW born \in SUBSET Cluster,
           born \cap nodes = {},
           NEW par \in Parentage, NEW par2 \in Parentage,
           Tree!IsForest(nodes, par), Tree!IsClosed(nodes, par),
           \A c \in nodes : par2[c] = par[c],
           \A c \in born : par2[c] \in nodes \cup {NoParent}
    PROVE  Tree!IsForest(nodes \cup born, par2)
<1> SUFFICES ASSUME NEW S \in SUBSET (nodes \cup born), S # {}
             PROVE  \E c \in S : par2[c] \notin S
    BY DEF Tree!IsForest
<1>1. CASE S \cap nodes = {}
    BY <1>1, ForestAssumption
<1>2. CASE S \cap nodes # {}
    <2>1. PICK c \in S \cap nodes : par[c] \notin S \cap nodes
        BY <1>2 DEF Tree!IsForest
    <2>2. par2[c] \in nodes \cup {NoParent}
        BY <2>1 DEF Tree!IsClosed
    <2> QED BY <2>1, <2>2, ForestAssumption
<1> QED BY <1>1, <1>2

(* A top-level situation may take any others under it.                     *)
LEMMA AdoptAtRoot ==
    ASSUME NEW nodes \in SUBSET Cluster,
           NEW par \in Parentage, NEW par2 \in Parentage,
           Tree!IsForest(nodes, par),
           NEW p \in nodes, par2[p] = NoParent,
           \A c \in nodes : par2[c] \in {par[c], p}
    PROVE  Tree!IsForest(nodes, par2)
BY ForestAssumption DEF Tree!IsForest

(* A situation p that may have a parent takes the top-level c, when every  *)
(* ancestor of p is ranked above p and c is ranked below.                  *)
LEMMA AdoptByRank ==
    ASSUME NEW nodes \in SUBSET Cluster, NEW ids \in SUBSET nodes,
           NEW par \in Parentage, NEW ord \in [Cluster -> Nat],
           Tree!IsForest(nodes, par),
           \A x \in ids : par[x] # NoParent =>
               par[x] \in ids /\ ord[x] < ord[par[x]],
           NEW p \in ids, NEW c \in ids, ord[c] < ord[p], par[c] = NoParent
    PROVE  Tree!IsForest(nodes, Attach(par, {c}, p))
<1> DEFINE par2 == Attach(par, {c}, p)
<1> SUFFICES ASSUME NEW S \in SUBSET nodes, S # {},
                    \A x \in S : par2[x] \in S
             PROVE  FALSE
    BY DEF Tree!IsForest
<1>1. \A x \in Cluster : par2[x] = IF x = c THEN p ELSE par[x]
    BY DEF Attach
<1> HIDE DEF par2
<1>2. p \in S
    <2>1. PICK x \in S : par[x] \notin S
        BY DEF Tree!IsForest
    <2> QED BY <2>1, <1>1
<1> DEFINE T == {x \in S \cap ids : x = p \/ ord[p] < ord[x]}
<1>3. PICK x \in T : par[x] \notin T
    BY <1>2 DEF Tree!IsForest
<1>4. x # c
    BY <1>3
<1>5. par[x] \in S /\ par[x] # NoParent
    BY <1>1, <1>3, <1>4, ForestAssumption
<1>6. par[x] \in ids /\ ord[x] < ord[par[x]]
    BY <1>3, <1>5
<1>7. ord[p] < ord[par[x]]
    BY <1>3, <1>6
<1> QED BY <1>3, <1>5, <1>6, <1>7

(***************************************************************************)
(* The invariant holds initially, and every step of Next preserves it.     *)
(***************************************************************************)

(* What the passes keep, be the hierarchy a forest or not: the results of   *)
(* the AI requests may have left it with a cycle.                           *)
Base == TypeOK /\ NoDanglingParent /\ SnapshotsFit

LEMMA BaseOf == IInv => Base
BY DEF IInv, Base

LEMMA InitIInv == Init => IInv
BY ForestAssumption
   DEF Init, IInv, TypeOK, NoDanglingParent, Acyclic, SnapshotsFit, PassOrder,
       SnapTop, TodoTop, Tree!IsForest, Tree!IsClosed, Nobody, Unranked,
       Parentage, Stages

(* Orders are rankings.                                                    *)
LEMMA OrdersType ==
    ASSUME NEW S, NEW r \in Orders(S)
    PROVE  r \in [Cluster -> Nat]
BY DEF Orders

LEMMA IngestStep == Base /\ Ingest => Base' /\ (Acyclic => Acyclic')
<1> SUFFICES ASSUME Base, Ingest PROVE Base' /\ (Acyclic => Acyclic')
    OBVIOUS
<1> USE DEF Base, Ingest
<1>1. PICK c \in Fresh : live' = live \cup {c} /\ used' = used \cup {c}
    OBVIOUS
<1>2. TypeOK'
    BY <1>1 DEF TypeOK, Fresh, pass
<1>3. NoDanglingParent'
    BY <1>1 DEF NoDanglingParent, Tree!IsClosed
<1>4. parent[c] = NoParent
    BY <1>1 DEF NoDanglingParent, Tree!IsClosed, TypeOK, Fresh
<1>5. ASSUME Acyclic PROVE Acyclic'
    <2>1. /\ parent' = parent /\ parent \in Parentage
          /\ live \in SUBSET Cluster /\ {c} \in SUBSET Cluster /\ {c} \cap live = {}
        BY <1>1 DEF TypeOK, Fresh
    <2>2. /\ \A x \in live : parent[x] = parent[x]
          /\ \A x \in {c} : parent[x] \in live \cup {NoParent}
          /\ Tree!IsForest(live, parent) /\ Tree!IsClosed(live, parent)
        BY <1>4, <1>5 DEF Acyclic, NoDanglingParent
    <2>3. Tree!IsForest(live \cup {c}, parent)
        BY <2>1, <2>2, GrowForest
    <2> QED BY <1>1, <2>1, <2>3 DEF Acyclic
<1>6. SnapshotsFit'
    BY DEF SnapshotsFit, PassOrder, SnapTop, TodoTop, pass
<1> QED BY <1>2, <1>3, <1>5, <1>6

LEMMA StartTickStep == Base /\ StartTick => Base' /\ (Acyclic => Acyclic')
<1> SUFFICES ASSUME Base, StartTick PROVE Base' /\ (Acyclic => Acyclic')
    OBVIOUS
<1> USE DEF Base
<1>1. PICK stale \in SUBSET live, kept \in SUBSET rejected :
          LET par == Detach(parent, stale \cup Orphans(parent, stale))
              top == {c \in live \ stale : par[c] = NoParent}
          IN  /\ live' = live \ stale
              /\ rejected' = kept
              /\ parent' = par
              /\ IF tick' % 2 = 0
                 THEN \E r \in Orders(top) : Enter("merge", par, top, r)
                 ELSE Enter("flush", Nobody, {}, Unranked)
    BY DEF StartTick, Unexpired
<1> DEFINE top == {c \in live \ stale : parent'[c] = NoParent}
<1>2. used' = used /\ tick' = (tick + 1) % 4
    BY DEF StartTick, Unexpired
<1>3. /\ parent' \in Parentage
      /\ \A c \in Cluster :
            parent'[c] = IF c \in stale \/ (c \in live /\ parent[c] \in stale)
                         THEN NoParent ELSE parent[c]
    BY <1>1 DEF TypeOK, Detach, Parentage, Orphans
<1>4. \/ \E r \in Orders(top) : Enter("merge", parent', top, r)
      \/ Enter("flush", Nobody, {}, Unranked)
    BY <1>1
<1>5. /\ stage' \in {"merge", "flush"} /\ snap' \in Parentage
      /\ rank' \in [Cluster -> Nat] /\ todo' \subseteq top
      /\ stage' = "merge" => todo' = top
    <2>1. CASE \E r \in Orders(top) : Enter("merge", parent', top, r)
        <3> HIDE DEF top
        <3> QED BY <1>3, <2>1, OrdersType DEF Enter
    <2>2. CASE Enter("flush", Nobody, {}, Unranked)
        BY <2>2 DEF Enter, Nobody, Unranked, Parentage
    <2> QED BY <1>4, <2>1, <2>2
<1>6. TypeOK'
    <2>1. tick' \in 0..3
        BY <1>2 DEF TypeOK
    <2> QED BY <1>1, <1>2, <1>3, <1>5, <2>1 DEF TypeOK, Stages
<1>7. NoDanglingParent'
    BY <1>1, <1>3, ForestAssumption DEF TypeOK, NoDanglingParent, Tree!IsClosed
<1>8. ASSUME Acyclic PROVE Acyclic'
    <2>1. live' \subseteq live /\ live \subseteq Cluster
        BY <1>1 DEF TypeOK
    <2>2. \A c \in live' : parent'[c] \in {parent[c], NoParent}
        BY <1>3, <2>1
    <2>3. parent \in Parentage /\ Tree!IsForest(live, parent)
        BY <1>8 DEF TypeOK, Acyclic
    <2> HIDE DEF Base, StartTick, Unexpired, top
    <2> QED BY <1>3, <2>1, <2>2, <2>3, ReleaseForest DEF Acyclic
<1>9. SnapshotsFit'
    BY <1>5 DEF SnapshotsFit, PassOrder, SnapTop, TodoTop
<1> QED BY <1>6, <1>7, <1>8, <1>9

LEMMA MergePairStep ==
    ASSUME Base, NEW p \in Cluster, NEW c \in Cluster, MergePair(p, c)
    PROVE  Base' /\ (Acyclic => Acyclic')
<1> USE DEF Base, MergePair, Collected, Absorbs, Unowned
<1>1. /\ parent' = Attach(parent, {c}, p) /\ parent' \in Parentage
      /\ \A x \in Cluster : parent'[x] = IF x = c THEN p ELSE parent[x]
    BY DEF TypeOK, Attach, Parentage
<1>2. TypeOK'
    BY <1>1 DEF TypeOK, pass
<1>3. NoDanglingParent'
    BY <1>1 DEF TypeOK, NoDanglingParent, Tree!IsClosed
<1>4. ASSUME Acyclic PROVE Acyclic'
    BY <1>1, <1>4, AdoptByRank DEF TypeOK, Acyclic, PassOrder, SnapshotsFit
<1>5. SnapshotsFit'
    BY <1>1 DEF TypeOK, SnapshotsFit, PassOrder, SnapTop, TodoTop, pass
<1> QED BY <1>2, <1>3, <1>4, <1>5

LEMMA EndMergeStep == Base /\ EndMerge => Base' /\ (Acyclic => Acyclic')
<1> SUFFICES ASSUME Base, EndMerge PROVE Base' /\ (Acyclic => Acyclic')
    OBVIOUS
<1> USE DEF Base, EndMerge
<1>1. PICK cut \in SUBSET live :
          /\ parent' = Detach(parent, cut)
          /\ Enter("topic", Detach(parent, cut),
                   {c \in live : Detach(parent, cut)[c] = NoParent}, Unranked)
    OBVIOUS
<1>2. /\ parent' \in Parentage
      /\ \A x \in Cluster : parent'[x] = IF x \in cut THEN NoParent ELSE parent[x]
    BY <1>1 DEF TypeOK, Detach, Parentage
<1>3. /\ stage' = "topic" /\ snap' = parent' /\ rank' = Unranked
      /\ todo' = {c \in live : parent'[c] = NoParent}
    BY <1>1 DEF Enter
<1>4. TypeOK'
    BY <1>2, <1>3 DEF TypeOK, Unranked, Stages
<1>5. NoDanglingParent'
    BY <1>2, ForestAssumption DEF TypeOK, NoDanglingParent, Tree!IsClosed
<1>6. ASSUME Acyclic PROVE Acyclic'
    <2>1. \A c \in live : parent'[c] \in {parent[c], NoParent}
        BY <1>2 DEF TypeOK
    <2>2. live' = live /\ live \subseteq Cluster
        BY DEF TypeOK
    <2>3. parent \in Parentage /\ Tree!IsForest(live, parent)
        BY <1>6 DEF TypeOK, Acyclic
    <2> HIDE DEF Base, EndMerge
    <2> QED BY <1>2, <2>1, <2>2, <2>3, ReleaseForest DEF Acyclic
<1>7. SnapshotsFit'
    BY <1>3, <1>4, <1>5, ForestAssumption
    DEF TypeOK, SnapshotsFit, PassOrder, SnapTop, TodoTop, NoDanglingParent,
        Tree!IsClosed
<1> QED BY <1>4, <1>5, <1>6, <1>7

LEMMA TopicMergeStep ==
    ASSUME Base, NEW p \in Cluster, NEW c \in Cluster, TopicMerge(p, c)
    PROVE  Base' /\ (Acyclic => Acyclic')
<1> USE DEF Base, TopicMerge, Candidates, Considered, MovesUp, Unowned
<1>1. PICK moved \in SUBSET Kids(snap, c) :
          parent' = Attach(parent, {c} \cup moved, p)
    OBVIOUS
<1>2. /\ parent' \in Parentage
      /\ \A x \in Cluster :
            parent'[x] = IF x = c \/ x \in moved THEN p ELSE parent[x]
    BY <1>1 DEF TypeOK, Attach, Parentage
<1>3. p \in live /\ c \in live /\ \A x \in moved : x \in live /\ snap[x] = c
    BY <1>1, ForestAssumption DEF TypeOK, SnapshotsFit, SnapTop, Kids
<1>4. parent'[p] = NoParent
    BY <1>2, <1>3, ForestAssumption DEF TypeOK, SnapshotsFit, SnapTop
<1>5. TypeOK'
    BY <1>2 DEF TypeOK, pass
<1>6. NoDanglingParent'
    BY <1>2, <1>3 DEF TypeOK, NoDanglingParent, Tree!IsClosed
<1>7. ASSUME Acyclic PROVE Acyclic'
    <2>1. \A x \in live : parent'[x] \in {parent[x], p}
        BY <1>2 DEF TypeOK
    <2> QED BY <1>2, <1>3, <1>4, <1>7, <2>1, AdoptAtRoot DEF TypeOK, Acyclic
<1>8. SnapshotsFit'
    <2>1. /\ stage = "topic" /\ stage' = stage /\ snap' = snap /\ todo' = todo
          /\ live' = live /\ SnapTop
        BY DEF pass, SnapshotsFit
    <2>2. \A x \in Cluster : snap[x] # NoParent /\ parent'[snap[x]] = NoParent =>
              parent'[x] = snap[x]
        <3> SUFFICES ASSUME NEW x \in Cluster, snap[x] # NoParent,
                            parent'[snap[x]] = NoParent
                     PROVE  parent'[x] = snap[x]
            OBVIOUS
        <3>1. snap[x] \in Cluster /\ parent'[c] = p /\ p # NoParent
            BY <1>2, ForestAssumption DEF TypeOK, Parentage
        <3>2. parent[snap[x]] = NoParent /\ snap[x] # c
            BY <1>2, <3>1
        <3>3. x # c /\ x \notin moved
            BY <1>3, <2>1, <3>2 DEF SnapTop
        <3> QED BY <1>2, <2>1, <3>2, <3>3 DEF SnapTop
    <2>3. SnapTop'
        BY <2>1, <2>2 DEF SnapTop
    <2> QED BY <2>1, <2>3 DEF SnapshotsFit, PassOrder, TodoTop
<1> QED BY <1>5, <1>6, <1>7, <1>8

LEMMA EndTopicStep == Base /\ EndTopic => Base' /\ (Acyclic => Acyclic')
BY DEF Base, EndTopic, Enter, TypeOK, NoDanglingParent, Acyclic, SnapshotsFit,
       PassOrder, SnapTop, TodoTop, TopLevel, hierarchy, Nobody, Unranked,
       Parentage, Stages

LEMMA CountryMergeStep ==
    ASSUME Base, NEW group \in SUBSET Cluster, NEW p \in Cluster,
           CountryMerge(group, p)
    PROVE  Base' /\ (Acyclic => Acyclic')
<1> USE DEF Base, CountryMerge, Theater
<1>1. PICK kids \in SUBSET (group \ {p}) :
          /\ parent' = Attach(parent, kids, p)
          /\ rejected' = rejected \ {{p, k} : k \in kids}
    OBVIOUS
<1>2. /\ parent' \in Parentage
      /\ \A x \in Cluster : parent'[x] = IF x \in kids THEN p ELSE parent[x]
    BY <1>1 DEF TypeOK, Attach, Parentage
<1>3. p \in live /\ kids \subseteq live /\ p \notin kids /\ parent[p] = NoParent
    BY DEF TypeOK, SnapshotsFit, TodoTop
<1>4. /\ live' = live /\ used' = used /\ todo' = todo \ group
      /\ stage = "country" /\ stage' = stage
    OBVIOUS
<1>5. TypeOK'
    BY <1>1, <1>2 DEF TypeOK
<1>6. NoDanglingParent'
    BY <1>2, <1>3, <1>4 DEF TypeOK, NoDanglingParent, Tree!IsClosed
<1>7. ASSUME Acyclic PROVE Acyclic'
    <2>1. \A x \in live : parent'[x] \in {parent[x], p}
        BY <1>2 DEF TypeOK
    <2>2. parent'[p] = NoParent
        BY <1>2, <1>3
    <2> QED BY <1>2, <1>3, <1>4, <1>7, <2>1, <2>2, AdoptAtRoot DEF TypeOK, Acyclic
<1>8. SnapshotsFit'
    <2>1. \A x \in todo' : parent'[x] = NoParent
        BY <1>2, <1>4 DEF TypeOK, SnapshotsFit, TodoTop
    <2> QED BY <1>4, <2>1 DEF SnapshotsFit, PassOrder, SnapTop, TodoTop
<1> QED BY <1>5, <1>6, <1>7, <1>8

LEMMA EndCountryStep == Base /\ EndCountry => Base' /\ (Acyclic => Acyclic')
BY DEF Base, EndCountry, Enter, TypeOK, NoDanglingParent, Acyclic, SnapshotsFit,
       PassOrder, SnapTop, TodoTop, TopLevel, hierarchy, Nobody, Unranked,
       Parentage, Stages

(* The two splits have this in common: new situations under a live one.    *)
LEMMA SplitForest ==
    ASSUME Base, NEW c \in live, NEW born \in SUBSET Fresh,
           parent' = Attach(parent, born, c),
           live' = live \cup born, used' = used \cup born
    PROVE  /\ parent' \in Parentage
           /\ \A x \in Cluster : parent'[x] = IF x \in born THEN c ELSE parent[x]
           /\ born \cap used = {}
           /\ live' \subseteq used' /\ used' \subseteq Cluster
           /\ NoDanglingParent'
           /\ Acyclic => Acyclic'
<1> USE DEF Base
<1>1. /\ c \in Cluster /\ born \in SUBSET Cluster /\ born \cap live = {}
      /\ born \cap used = {} /\ live \in SUBSET Cluster
      /\ parent \in Parentage
    BY DEF TypeOK, Fresh
<1>2. /\ parent' \in Parentage
      /\ \A x \in Cluster : parent'[x] = IF x \in born THEN c ELSE parent[x]
    BY <1>1 DEF Attach, Parentage
<1>3. NoDanglingParent'
    BY <1>1, <1>2 DEF NoDanglingParent, Tree!IsClosed
<1>4. ASSUME Acyclic PROVE Tree!IsForest(live \cup born, parent')
    <2>1. /\ \A x \in live : parent'[x] = parent[x]
          /\ \A x \in born : parent'[x] \in live \cup {NoParent}
          /\ Tree!IsForest(live, parent) /\ Tree!IsClosed(live, parent)
        BY <1>1, <1>2, <1>4 DEF Acyclic, NoDanglingParent
    <2>2. \A before, after \in Parentage :
             /\ \A x \in live : after[x] = before[x]
             /\ \A x \in born : after[x] \in live \cup {NoParent}
             /\ Tree!IsForest(live, before) /\ Tree!IsClosed(live, before)
             => Tree!IsForest(live \cup born, after)
        <3> HIDE DEF Base
        <3>1. live \in SUBSET Cluster /\ born \in SUBSET Cluster /\ born \cap live = {}
            BY <1>1
        <3> QED BY ONLY <3>1, GrowForest
    <2> QED BY <1>1, <1>2, <2>1, <2>2
<1> QED BY <1>1, <1>2, <1>3, <1>4 DEF Acyclic, TypeOK

LEMMA SplitDivergentStep ==
    ASSUME Base, NEW c \in Cluster, NEW born \in SUBSET Cluster,
           SplitDivergent(c, born)
    PROVE  Base' /\ (Acyclic => Acyclic')
<1>1. /\ c \in live /\ born \in SUBSET Fresh
      /\ parent' = Attach(parent, born, c)
      /\ live' = live \cup born /\ used' = used \cup born
      /\ todo' = todo \ {c} /\ stage = "split"
      /\ UNCHANGED <<rejected, tick, stage, snap, rank>>
    BY DEF SplitDivergent, Base, TypeOK
<1>2. /\ parent' \in Parentage
      /\ \A x \in Cluster : parent'[x] = IF x \in born THEN c ELSE parent[x]
      /\ born \cap used = {}
      /\ live' \subseteq used' /\ used' \subseteq Cluster
      /\ NoDanglingParent'
      /\ Acyclic => Acyclic'
    BY <1>1, SplitForest
<1>3. TypeOK'
    BY <1>1, <1>2 DEF Base, TypeOK
<1>4. SnapshotsFit'
    BY <1>1, <1>2 DEF Base, TypeOK, SnapshotsFit, PassOrder, SnapTop, TodoTop
<1> QED BY <1>2, <1>3, <1>4 DEF Base

LEMMA EndSplitStep == Base /\ EndSplit => Base' /\ (Acyclic => Acyclic')
BY DEF Base, EndSplit, Enter, TypeOK, NoDanglingParent, Acyclic, SnapshotsFit,
       PassOrder, SnapTop, TodoTop, hierarchy, Nobody, Unranked, Parentage, Stages

LEMMA SweepOrphansStep == Base /\ SweepOrphans => Base' /\ (Acyclic => Acyclic')
<1> SUFFICES ASSUME Base, SweepOrphans PROVE Base' /\ (Acyclic => Acyclic')
    OBVIOUS
<1>1. PICK gone \in SUBSET live, cut \in SUBSET live,
           unrelated \in SUBSET live :
          LET par == Detach(Detach(parent, gone), cut)
              homeless == Orphans(par, gone)
          IN  /\ parent' = Detach(par, homeless \cup unrelated)
              /\ rejected' = rejected \cup {{c, par[c]} : c \in unrelated}
              /\ \A c \in unrelated : par[c] \in live
              /\ live' = live \ gone
              /\ Enter("coherence", Nobody, live', Unranked)
    BY DEF SweepOrphans, Unrelated
<1>2. used' = used /\ tick' = tick /\ stage = "sweep"
    BY DEF SweepOrphans, Unrelated
<1> USE DEF Base
<1> DEFINE par == Detach(Detach(parent, gone), cut)
<1>3. /\ par \in Parentage
      /\ \A x \in Cluster :
            par[x] = IF x \in gone \cup cut THEN NoParent ELSE parent[x]
    BY DEF TypeOK, Detach, Parentage
<1>4. /\ parent' \in Parentage
      /\ \A x \in Cluster :
            parent'[x] = IF \/ x \in gone \cup cut \cup unrelated
                            \/ x \in live /\ parent[x] \in gone
                         THEN NoParent ELSE parent[x]
    <2>1. parent' = Detach(par, Orphans(par, gone) \cup unrelated)
        BY <1>1
    <2> HIDE DEF par
    <2> QED BY <1>3, <2>1, ForestAssumption DEF TypeOK, Detach, Parentage, Orphans
<1>5. /\ stage' = "coherence" /\ snap' = Nobody /\ rank' = Unranked
      /\ todo' = live' /\ live' = live \ gone
    BY <1>1 DEF Enter
<1>6. TypeOK'
    <2>1. rejected' \subseteq Pairs
        <3>1. rejected' = rejected \cup {{c, par[c]} : c \in unrelated}
            BY <1>1
        <3>2. \A c \in unrelated : par[c] \in Cluster /\ c \in Cluster
            BY <1>1 DEF TypeOK
        <3> QED BY <3>1, <3>2 DEF TypeOK, Pairs
    <2> QED BY <1>2, <1>4, <1>5, <2>1
            DEF TypeOK, Nobody, Unranked, Parentage, Stages
<1>7. NoDanglingParent'
    BY <1>4, <1>5, ForestAssumption DEF TypeOK, NoDanglingParent, Tree!IsClosed
<1>8. ASSUME Acyclic PROVE Acyclic'
    <2>1. live' \subseteq live /\ live \subseteq Cluster
        BY <1>5 DEF TypeOK
    <2>2. \A c \in live' : parent'[c] \in {parent[c], NoParent}
        BY <1>4, <2>1
    <2>3. parent \in Parentage /\ Tree!IsForest(live, parent)
        BY <1>8 DEF TypeOK, Acyclic
    <2> HIDE DEF Base, SweepOrphans, Unrelated
    <2> QED BY <1>4, <2>1, <2>2, <2>3, ReleaseForest DEF Acyclic
<1>9. SnapshotsFit'
    BY <1>5 DEF SnapshotsFit, PassOrder, SnapTop, TodoTop
<1> QED BY <1>6, <1>7, <1>8, <1>9

LEMMA SplitByCoherenceStep ==
    ASSUME Base, NEW c \in Cluster, NEW n \in Cluster, SplitByCoherence(c, n)
    PROVE  Base' /\ (Acyclic => Acyclic')
<1>1. /\ c \in live /\ {n} \in SUBSET Fresh
      /\ parent' = Attach(parent, {n}, c)
      /\ live' = live \cup {n} /\ used' = used \cup {n}
      /\ stage = "coherence"
      /\ UNCHANGED <<rejected, tick, stage, snap, rank, todo>>
    BY DEF SplitByCoherence, FallsApart, Sampled, Base, TypeOK, pass
<1>2. /\ parent' \in Parentage
      /\ live' \subseteq used' /\ used' \subseteq Cluster
      /\ NoDanglingParent'
      /\ Acyclic => Acyclic'
    BY <1>1, SplitForest
<1>3. TypeOK'
    BY <1>1, <1>2 DEF Base, TypeOK
<1>4. SnapshotsFit'
    BY <1>1 DEF SnapshotsFit, PassOrder, SnapTop, TodoTop
<1> QED BY <1>2, <1>3, <1>4 DEF Base

LEMMA EndSweepStep == Base /\ EndSweep => Base' /\ (Acyclic => Acyclic')
BY DEF Base, EndSweep, Enter, TypeOK, NoDanglingParent, Acyclic, SnapshotsFit,
       PassOrder, SnapTop, TodoTop, hierarchy, Nobody, Unranked, Parentage, Stages

LEMMA FlushPendingStep == Base /\ FlushPending => Base' /\ (Acyclic => Acyclic')
<1> SUFFICES ASSUME Base, FlushPending PROVE Base' /\ (Acyclic => Acyclic')
    OBVIOUS
<1> USE DEF Base
<1>1. PICK born \in SUBSET Fresh : live' = live \cup born /\ used' = used \cup born
    BY DEF FlushPending
<1>2. /\ parent' = parent /\ rejected' = rejected /\ tick' = tick
      /\ stage' = "idle" /\ snap' = Nobody /\ todo' = {} /\ rank' = Unranked
    BY DEF FlushPending, Enter
<1>3. /\ parent \in Parentage /\ live \in SUBSET Cluster
      /\ born \in SUBSET Cluster /\ born \cap live = {}
    BY DEF TypeOK, Fresh
<1>4. TypeOK'
    BY <1>1, <1>2, <1>3 DEF TypeOK, Nobody, Unranked, Parentage, Stages
<1>5. NoDanglingParent'
    BY <1>1, <1>2, <1>3 DEF NoDanglingParent, Tree!IsClosed
<1>6. ASSUME Acyclic PROVE Acyclic'
    <2>1. /\ \A x \in live : parent[x] = parent[x]
          /\ \A x \in born : parent[x] \in live \cup {NoParent}
          /\ Tree!IsForest(live, parent) /\ Tree!IsClosed(live, parent)
        BY <1>3, <1>6 DEF Acyclic, NoDanglingParent, Tree!IsClosed
    <2>2. Tree!IsForest(live \cup born, parent)
        BY <1>3, <2>1, GrowForest
    <2> QED BY <1>1, <1>2, <2>2 DEF Acyclic
<1>7. SnapshotsFit'
    BY <1>2 DEF SnapshotsFit, PassOrder, SnapTop, TodoTop
<1> QED BY <1>4, <1>5, <1>6, <1>7

LEMMA StutterStep == Base /\ UNCHANGED vars => Base' /\ (Acyclic => Acyclic')
BY DEF Base, vars, TypeOK, NoDanglingParent, Acyclic, SnapshotsFit, PassOrder,
       SnapTop, TodoTop

LEMMA NextBase == Base /\ [Next]_vars => Base' /\ (Acyclic => Acyclic')
<1> SUFFICES ASSUME Base, [Next]_vars PROVE Base' /\ (Acyclic => Acyclic')
    OBVIOUS
<1>1. CASE Ingest
    BY <1>1, IngestStep
<1>2. CASE StartTick
    BY <1>2, StartTickStep
<1>3. CASE \E p, c \in Cluster : MergePair(p, c)
    BY <1>3, MergePairStep
<1>4. CASE EndMerge
    BY <1>4, EndMergeStep
<1>5. CASE \E p, c \in Cluster : TopicMerge(p, c)
    BY <1>5, TopicMergeStep
<1>6. CASE EndTopic
    BY <1>6, EndTopicStep
<1>7. CASE \E group \in SUBSET Cluster, p \in Cluster : CountryMerge(group, p)
    BY <1>7, CountryMergeStep
<1>8. CASE EndCountry
    BY <1>8, EndCountryStep
<1>9. CASE \E c \in Cluster, born \in SUBSET Cluster : SplitDivergent(c, born)
    BY <1>9, SplitDivergentStep
<1>10. CASE EndSplit
    BY <1>10, EndSplitStep
<1>11. CASE SweepOrphans
    BY <1>11, SweepOrphansStep
<1>12. CASE \E c, n \in Cluster : SplitByCoherence(c, n)
    BY <1>12, SplitByCoherenceStep
<1>13. CASE EndSweep
    BY <1>13, EndSweepStep
<1>14. CASE FlushPending
    BY <1>14, FlushPendingStep
<1>15. CASE UNCHANGED vars
    BY <1>15, StutterStep
<1> QED
    BY <1>1, <1>2, <1>3, <1>4, <1>5, <1>6, <1>7, <1>8, <1>9, <1>10, <1>11,
       <1>12, <1>13, <1>14, <1>15 DEF Next

LEMMA NextStep == IInv /\ [Next]_vars => IInv'
BY NextBase DEF IInv, Base

(* The inductive invariant holds in every reachable state.                 *)
THEOREM Invariance == Spec => []IInv
<1>1. Init => IInv
    BY InitIInv
<1>2. IInv /\ [Next]_vars => IInv'
    BY NextStep
<1> QED BY <1>1, <1>2, PTL DEF Spec

(* Types, and that a pass only works on situations that still exist.       *)
THEOREM TypeCorrect == Spec => []TypeOK
<1>1. IInv => TypeOK
    BY DEF IInv
<1> QED BY <1>1, Invariance, PTL

(* The hierarchy is a forest at every step of every pass.                  *)
THEOREM AlwaysAcyclic == Spec => []Acyclic
<1>1. IInv => Acyclic
    BY DEF IInv
<1> QED BY <1>1, Invariance, PTL

(* Removing situations, by pruning or in the sweep, leaves no child under  *)
(* a parent that is gone.                                                  *)
THEOREM NeverDangling == Spec => []NoDanglingParent
<1>1. IInv => NoDanglingParent
    BY DEF IInv
<1> QED BY <1>1, Invariance, PTL

(* What merge_overlapping, consolidate_by_topic, the country sweep and     *)
(* split_divergent decided from their snapshots fits when they apply it.   *)
THEOREM SnapshotsAlwaysFit == Spec => []SnapshotsFit
<1>1. IInv => SnapshotsFit
    BY DEF IInv
<1> QED BY <1>1, Invariance, PTL

(***************************************************************************)
(* SituationForest implements SituationTree.                               *)
(***************************************************************************)

LEMMA InitTree == Init => Tree!Init
BY DEF Init, Nobody, Tree!Init

(* A step that only opens situations.                                      *)
LEMMA OpenImplements ==
    ASSUME NEW born \in SUBSET (Cluster \ used),
           live' = live \cup born, used' = used \cup born, parent' = parent
    PROVE  Tree!Next
BY DEF Tree!Next, Tree!Open

(* A step that only returns situations to the top level or drops them.     *)
LEMMA ReleaseImplements ==
    ASSUME NEW gone \in SUBSET live, NEW freed \in SUBSET live,
           live' = live \ gone, used' = used,
           \A c \in live' : parent[c] \in gone => c \in freed,
           parent' = Detach(parent, gone \cup freed)
    PROVE  Tree!Next
BY DEF Tree!Next, Tree!Release, Detach

(* A step that attaches top-level situations and their own children.       *)
LEMMA AdoptImplements ==
    ASSUME Acyclic', NEW p \in live,
           NEW kids \in SUBSET live, NEW moved \in SUBSET live,
           p \notin kids \cup moved,
           \A c \in kids : parent[c] = NoParent,
           \A c \in moved : parent[c] \in kids,
           live' = live, used' = used,
           parent' = Attach(parent, kids \cup moved, p)
    PROVE  Tree!Next
<1>1. Tree!Adopt(p, kids, moved)
    BY DEF Tree!Adopt, Attach, Acyclic
<1> QED BY <1>1 DEF Tree!Next

LEMMA StartTickImplements == IInv /\ StartTick => Tree!Next
<1> SUFFICES ASSUME IInv, StartTick PROVE Tree!Next
    OBVIOUS
<1>1. PICK stale \in SUBSET live :
          /\ live' = live \ stale
          /\ parent' = Detach(parent, stale \cup Orphans(parent, stale))
    BY DEF StartTick, Unexpired
<1> DEFINE freed == {c \in live : parent[c] \in stale}
<1>2. /\ freed \in SUBSET live /\ used' = used
      /\ \A c \in live' : parent[c] \in stale => c \in freed
      /\ parent' = Detach(parent, stale \cup freed)
    BY <1>1 DEF StartTick, Unexpired, Orphans
<1> HIDE DEF freed
<1> QED BY <1>1, <1>2, ReleaseImplements

LEMMA EndMergeImplements == IInv /\ EndMerge => Tree!Next
<1> SUFFICES ASSUME IInv, EndMerge PROVE Tree!Next
    OBVIOUS
<1>1. PICK cut \in SUBSET live : parent' = Detach(parent, cut)
    BY DEF EndMerge
<1> DEFINE gone == {}
<1>2. /\ gone \in SUBSET live /\ live' = live \ gone /\ used' = used
      /\ \A c \in live' : parent[c] \in gone => c \in cut
      /\ parent' = Detach(parent, gone \cup cut)
    BY <1>1 DEF EndMerge
<1> HIDE DEF gone
<1> QED BY <1>2, ReleaseImplements

LEMMA SweepOrphansImplements == IInv /\ SweepOrphans => Tree!Next
<1> SUFFICES ASSUME IInv, SweepOrphans PROVE Tree!Next
    OBVIOUS
<1>1. PICK gone \in SUBSET live, cut \in SUBSET live, unrelated \in SUBSET live :
          LET par == Detach(Detach(parent, gone), cut)
          IN  /\ parent' = Detach(par, Orphans(par, gone) \cup unrelated)
              /\ live' = live \ gone
    BY DEF SweepOrphans, Unrelated
<1> DEFINE freed == cut \cup unrelated \cup {c \in live : parent[c] \in gone}
           par   == Detach(Detach(parent, gone), cut)
<1>2. /\ par \in Parentage
      /\ \A x \in Cluster :
            par[x] = IF x \in gone \cup cut THEN NoParent ELSE parent[x]
    BY DEF IInv, TypeOK, Detach, Parentage
<1>3. parent' = Detach(parent, gone \cup freed)
    <2>1. parent' = Detach(par, Orphans(par, gone) \cup unrelated)
        BY <1>1
    <2> HIDE DEF par
    <2>2. \A x \in Cluster :
              Detach(par, Orphans(par, gone) \cup unrelated)[x]
                = Detach(parent, gone \cup freed)[x]
        BY <1>2, ForestAssumption DEF IInv, TypeOK, Detach, Orphans
    <2> QED BY <2>1, <2>2 DEF Detach
<1>4. freed \in SUBSET live /\ used' = used
      /\ \A c \in live' : parent[c] \in gone => c \in freed
    BY <1>1 DEF SweepOrphans, Unrelated
<1> HIDE DEF freed, par
<1> QED BY <1>1, <1>3, <1>4, ReleaseImplements

LEMMA MergePairImplements ==
    ASSUME IInv, IInv', NEW p \in Cluster, NEW c \in Cluster, MergePair(p, c)
    PROVE  Tree!Next
<1> DEFINE kids == {c}  moved == {}
<1>1. /\ p \in live /\ kids \in SUBSET live /\ moved \in SUBSET live
      /\ p \notin kids \cup moved
      /\ \A x \in kids : parent[x] = NoParent
      /\ \A x \in moved : parent[x] \in kids
      /\ live' = live /\ used' = used
      /\ parent' = Attach(parent, kids \cup moved, p)
    BY DEF IInv, TypeOK, MergePair, Collected, Absorbs, Unowned
<1> HIDE DEF kids, moved
<1> QED BY <1>1, AdoptImplements DEF IInv

LEMMA TopicMergeImplements ==
    ASSUME IInv, IInv', NEW p \in Cluster, NEW c \in Cluster, TopicMerge(p, c)
    PROVE  Tree!Next
<1>1. PICK moved \in SUBSET Kids(snap, c) :
          parent' = Attach(parent, {c} \cup moved, p)
    BY DEF TopicMerge, Candidates, Considered, MovesUp
<1>2. \A x \in moved : x \in Cluster /\ snap[x] = c
    BY <1>1 DEF Kids
<1>3. /\ p \in live /\ c \in live /\ p # c
      /\ parent[c] = NoParent /\ snap[p] = NoParent
      /\ \A x \in moved : x \in live /\ parent[x] = c /\ x # p
    BY <1>2, ForestAssumption DEF IInv, TypeOK, TopicMerge, Candidates, Considered, MovesUp, Unowned, SnapshotsFit, SnapTop
<1> DEFINE kids == {c}
<1>4. /\ p \in live /\ kids \in SUBSET live /\ moved \in SUBSET live
      /\ p \notin kids \cup moved
      /\ \A x \in kids : parent[x] = NoParent
      /\ \A x \in moved : parent[x] \in kids
      /\ live' = live /\ used' = used
      /\ parent' = Attach(parent, kids \cup moved, p)
    BY <1>1, <1>3 DEF TopicMerge, Candidates, Considered, MovesUp
<1> HIDE DEF kids
<1> QED BY <1>4, AdoptImplements DEF IInv

LEMMA CountryMergeImplements ==
    ASSUME IInv, IInv', NEW group \in SUBSET Cluster, NEW p \in Cluster,
           CountryMerge(group, p)
    PROVE  Tree!Next
<1>1. PICK kids \in SUBSET (group \ {p}) : parent' = Attach(parent, kids, p)
    BY DEF CountryMerge, Theater
<1> DEFINE moved == {}
<1>2. /\ p \in live /\ kids \in SUBSET live /\ moved \in SUBSET live
      /\ p \notin kids \cup moved
      /\ \A x \in kids : parent[x] = NoParent
      /\ \A x \in moved : parent[x] \in kids
      /\ live' = live /\ used' = used
      /\ parent' = Attach(parent, kids \cup moved, p)
    BY <1>1 DEF IInv, TypeOK, CountryMerge, Theater, SnapshotsFit, TodoTop
<1> HIDE DEF moved
<1> QED BY <1>2, AdoptImplements DEF IInv

LEMMA StepImplements == IInv /\ IInv' /\ [Next]_vars => [Tree!Next]_(Tree!tree)
<1> SUFFICES ASSUME IInv, IInv', [Next]_vars
             PROVE  Tree!Next \/ UNCHANGED Tree!tree
    OBVIOUS
<1>1. CASE Ingest
    <2>1. PICK c \in Fresh : live' = live \cup {c} /\ used' = used \cup {c}
        BY <1>1 DEF Ingest
    <2>2. {c} \in SUBSET (Cluster \ used) /\ parent' = parent
        BY <1>1, <2>1 DEF Ingest, Fresh
    <2> QED BY <2>1, <2>2, OpenImplements
<1>2. CASE StartTick
    BY <1>2, StartTickImplements
<1>3. CASE \E p, c \in Cluster : MergePair(p, c)
    BY <1>3, MergePairImplements
<1>4. CASE EndMerge
    BY <1>4, EndMergeImplements
<1>5. CASE \E p, c \in Cluster : TopicMerge(p, c)
    BY <1>5, TopicMergeImplements
<1>6. CASE \E group \in SUBSET Cluster, p \in Cluster : CountryMerge(group, p)
    BY <1>6, CountryMergeImplements
<1>7. CASE \E c \in Cluster, born \in SUBSET Cluster : SplitDivergent(c, born)
    <2>1. PICK c \in Cluster, born \in SUBSET Cluster : SplitDivergent(c, born)
        BY <1>7
    <2>2. Tree!Split(c, born) /\ born \in SUBSET (Cluster \ used)
        BY <2>1 DEF SplitDivergent, Attach, Fresh, Tree!Split, IInv, TypeOK
    <2> QED BY <2>2 DEF Tree!Next
<1>8. CASE SweepOrphans
    BY <1>8, SweepOrphansImplements
<1>9. CASE \E c, n \in Cluster : SplitByCoherence(c, n)
    <2>1. PICK c \in Cluster, n \in Cluster : SplitByCoherence(c, n)
        BY <1>9
    <2>2. Tree!Split(c, {n}) /\ {n} \in SUBSET (Cluster \ used)
        BY <2>1 DEF SplitByCoherence, FallsApart, Sampled, Attach, Fresh, Tree!Split, IInv, TypeOK
    <2> QED BY <2>2 DEF Tree!Next
<1>10. CASE FlushPending
    <2>1. PICK born \in SUBSET Fresh : live' = live \cup born /\ used' = used \cup born
        BY <1>10 DEF FlushPending
    <2>2. born \in SUBSET (Cluster \ used) /\ parent' = parent
        BY <1>10, <2>1 DEF FlushPending, Fresh
    <2> QED BY <2>1, <2>2, OpenImplements
<1>11. CASE EndTopic \/ EndCountry \/ EndSplit \/ EndSweep \/ UNCHANGED vars
    BY <1>11 DEF EndTopic, EndCountry, EndSplit, EndSweep, hierarchy, vars, Tree!tree
<1> QED
    BY <1>1, <1>2, <1>3, <1>4, <1>5, <1>6, <1>7, <1>8, <1>9, <1>10, <1>11 DEF Next

(* Every behaviour of the passes is one the abstract specification allows: *)
(* no identifier is reused and no child is taken from a standing parent.   *)
THEOREM ImplementsTree == Spec => TreeSpec
<1>1. Init => Tree!Init
    BY InitTree
<1>2. IInv /\ IInv' /\ [Next]_vars => [Tree!Next]_(Tree!tree)
    BY StepImplements
<1> QED BY <1>1, <1>2, Invariance, PTL DEF Spec, TreeSpec, Tree!Spec

(***************************************************************************)
(* What the merge passes may not do.                                       *)
(***************************************************************************)

(* A merge pass takes top-level situations under a parent only where no    *)
(* rejection stands, in any of the three ways it joins situations.         *)
LEMMA StepHonoursRejections ==
    ASSUME Base, [Next]_vars, NEW c \in live \cap live',
           parent[c] = NoParent, parent'[c] # NoParent
    PROVE  {c, parent'[c]} \notin rejected'
<1>1. c \in Cluster /\ parent \in Parentage /\ c \notin Fresh
    BY DEF Base, TypeOK, Fresh
<1>2. CASE \E p, d \in Cluster : MergePair(p, d)
    <2>1. PICK p \in Cluster, d \in Cluster : MergePair(p, d)
        BY <1>2
    <2>2. c = d /\ parent'[c] = p
        BY <1>1, <2>1 DEF MergePair, Collected, Attach
    <2> QED BY <2>1, <2>2 DEF MergePair, Collected, Rejected
<1>3. CASE \E p, d \in Cluster : TopicMerge(p, d)
    <2>1. PICK p \in Cluster, d \in Cluster : TopicMerge(p, d)
        BY <1>3
    <2>2. PICK moved \in SUBSET Kids(snap, d) :
              parent' = Attach(parent, {d} \cup moved, p)
        BY <2>1 DEF TopicMerge, Candidates, Considered, MovesUp
    <2>3. \A x \in moved : parent[x] = d /\ d # NoParent
        BY <2>1, ForestAssumption DEF TopicMerge, Candidates, Considered, MovesUp, Unowned, Base, SnapshotsFit, SnapTop, Kids
    <2>4. c = d /\ parent'[c] = p
        BY <1>1, <2>2, <2>3 DEF Attach
    <2> QED BY <2>1, <2>4 DEF TopicMerge, Candidates, Considered, MovesUp, Rejected
<1>4. CASE \E group \in SUBSET Cluster, p \in Cluster : CountryMerge(group, p)
    <2>1. PICK group \in SUBSET Cluster, p \in Cluster : CountryMerge(group, p)
        BY <1>4
    <2>2. PICK kids \in SUBSET (group \ {p}) :
              /\ parent' = Attach(parent, kids, p)
              /\ rejected' = rejected \ {{p, k} : k \in kids}
        BY <2>1 DEF CountryMerge, Theater
    <2>3. c \in kids /\ parent'[c] = p
        BY <1>1, <2>2 DEF Attach
    <2> QED BY <2>2, <2>3
<1>5. CASE \/ \E d \in Cluster, born \in SUBSET Cluster : SplitDivergent(d, born)
           \/ \E d, n \in Cluster : SplitByCoherence(d, n)
    BY <1>1, <1>5 DEF SplitDivergent, SplitByCoherence, FallsApart, Sampled, Attach, Fresh
<1>6. CASE StartTick \/ EndMerge \/ SweepOrphans
    BY <1>1, <1>6 DEF StartTick, Unexpired, EndMerge, SweepOrphans, Unrelated, Detach
<1>7. CASE \/ Ingest \/ FlushPending \/ EndTopic \/ EndCountry \/ EndSplit
           \/ EndSweep \/ UNCHANGED vars
    BY <1>7 DEF Ingest, FlushPending, EndTopic, EndCountry, EndSplit, EndSweep,
                hierarchy, vars
<1> QED BY <1>2, <1>3, <1>4, <1>5, <1>6, <1>7 DEF Next

(* What an earlier pass tore apart is not joined again while the rejection *)
(* stands.                                                                 *)
THEOREM RejectionsAlwaysHold == Spec => RejectionsHold
<1>1. IInv /\ [Next]_vars =>
        [\A c \in live \cap live' :
            parent[c] = NoParent /\ parent'[c] # NoParent
                => {c, parent'[c]} \notin rejected']_vars
    BY BaseOf, StepHonoursRejections
<1> QED BY <1>1, Invariance, PTL DEF Spec, RejectionsHold

(* Children joined to those a parent has.                                  *)
LEMMA KidsAfterAttach ==
    ASSUME NEW par \in Parentage, NEW kids \in SUBSET Cluster, NEW p \in Cluster
    PROVE  /\ \A q \in Cluster \ {p} : Kids(Attach(par, kids, p), q) \subseteq Kids(par, q)
           /\ Kids(Attach(par, kids, p), p) = Kids(par, p) \cup kids
BY DEF Kids, Attach, Parentage

(* Their number is at most the sum, and is a number.                       *)
LEMMA CountAfterAttach ==
    ASSUME NEW par \in Parentage, NEW kids \in SUBSET Cluster, NEW p \in Cluster
    PROVE  /\ Cardinality(Kids(par, p)) \in Nat
           /\ Cardinality(kids) \in Nat
           /\ Cardinality(Kids(Attach(par, kids, p), p)) \in Nat
           /\ Cardinality(Kids(Attach(par, kids, p), p))
                 <= Cardinality(Kids(par, p)) + Cardinality(kids)
<1>1. IsFiniteSet(Kids(par, p)) /\ IsFiniteSet(kids)
    BY ForestAssumption, FS_Subset DEF Kids
<1>2. Kids(Attach(par, kids, p), p) = Kids(par, p) \cup kids
    BY KidsAfterAttach
<1>3. IsFiniteSet(Kids(par, p) \cap kids)
    BY <1>1, FS_Intersection
<1>4. /\ Cardinality(Kids(par, p)) \in Nat /\ Cardinality(kids) \in Nat
      /\ Cardinality(Kids(par, p) \cap kids) \in Nat
    BY <1>1, <1>3, FS_CardinalityType
<1>5. Cardinality(Kids(par, p) \cup kids)
        = Cardinality(Kids(par, p)) + Cardinality(kids) - Cardinality(Kids(par, p) \cap kids)
    BY <1>1, FS_Union
<1>6. Cardinality(Kids(par, p) \cup kids) \in Nat
    BY <1>1, FS_Union, FS_CardinalityType
<1> QED BY <1>2, <1>4, <1>5, <1>6

(* The cap a step is held to, when it attaches kids under p.               *)
LEMMA CapOfJoin ==
    ASSUME NEW p \in Cluster, NEW kids \in SUBSET Cluster, NEW c \in kids,
           parent \in Parentage, parent[c] = NoParent,
           parent' = Attach(parent, kids, p)
    PROVE  /\ JoinCap(p) >= EffectiveCap(c)
           /\ JoinCap(p) \in Nat /\ JoinCap(p) >= MaxChildren
<1>1. c \in Kids(parent', p) \ Kids(parent, p)
    BY ForestAssumption DEF Kids, Attach, Parentage
<1> QED BY <1>1, ForestAssumption DEF JoinCap, EffectiveCap

(* No merge leaves its parent with more children than it may have.         *)
LEMMA StepRespectsCap ==
    ASSUME Base, [Next]_vars, stage \in {"merge", "topic", "country"}
    PROVE  JoinsWithinCap
<1>0. parent \in Parentage /\ MaxChildren \in Nat
    BY ForestAssumption DEF Base, TypeOK
<1>1. CASE \E p, c \in Cluster : MergePair(p, c)
    <2>1. PICK p \in Cluster, c \in Cluster : MergePair(p, c)
        BY <1>1
    <2>2. /\ parent' = Attach(parent, {c}, p) /\ {c} \in SUBSET Cluster
          /\ Cardinality(Kids(parent, p)) < EffectiveCap(c)
          /\ Cardinality({c}) = 1 /\ parent[c] = NoParent
        BY <2>1, FS_Singleton DEF MergePair, Collected, Unowned
    <2>3. EffectiveCap(c) \in Nat /\ EffectiveCap(c) <= JoinCap(p) /\ JoinCap(p) \in Nat
        BY <1>0, <2>2, CapOfJoin DEF EffectiveCap
    <2>4. Cardinality(Kids(parent', p)) <= JoinCap(p)
        BY <1>0, <2>2, <2>3, CountAfterAttach
    <2> QED BY <1>0, <2>2, <2>4, KidsAfterAttach DEF JoinsWithinCap
<1>2. CASE \E p, c \in Cluster : TopicMerge(p, c)
    <2>1. PICK p \in Cluster, c \in Cluster : TopicMerge(p, c)
        BY <1>2
    <2> DEFINE n == Cardinality(Kids(parent, p))
               m == Cardinality(Kids(snap, c))
    <2>2. PICK moved \in SUBSET Kids(snap, c) :
              /\ Cardinality(moved) = AtMost(m, Room(n + 1))
              /\ parent' = Attach(parent, {c} \cup moved, p)
        BY <2>1 DEF TopicMerge, Candidates, Considered, MovesUp
    <2>3. IsFiniteSet(moved) /\ moved \in SUBSET Cluster /\ m \in Nat
        BY ForestAssumption, FS_Subset, FS_CardinalityType DEF Kids
    <2>4. n \in Nat /\ n < EffectiveCap(c) /\ EffectiveCap(c) \in Nat
        BY <1>0, <2>1, CountAfterAttach DEF TopicMerge, Candidates, Considered, MovesUp, EffectiveCap
    <2>5. Cardinality(moved) \in Nat /\ Cardinality(moved) <= Room(n + 1)
        BY <1>0, <2>2, <2>3, <2>4, FS_CardinalityType DEF AtMost, Room
    <2>6. /\ {c} \cup moved \in SUBSET Cluster
          /\ Cardinality({c} \cup moved) \in Nat
          /\ Cardinality({c} \cup moved) <= Cardinality(moved) + 1
        <3>1. moved \cup {c} = {c} \cup moved
            OBVIOUS
        <3>2. Cardinality(moved \cup {c})
                 = IF c \in moved THEN Cardinality(moved) ELSE Cardinality(moved) + 1
            BY <2>3, FS_AddElement
        <3>3. {c} \cup moved \in SUBSET Cluster
            BY ONLY <2>3
        <3>4. \/ Cardinality({c} \cup moved) = Cardinality(moved)
              \/ Cardinality({c} \cup moved) = Cardinality(moved) + 1
            BY ONLY <3>1, <3>2
        <3> QED BY ONLY <2>5, <3>3, <3>4
    <2>7. EffectiveCap(c) <= JoinCap(p) /\ MaxChildren <= JoinCap(p) /\ JoinCap(p) \in Nat
        <3>1. parent[c] = NoParent
            BY <2>1 DEF TopicMerge, Candidates, Considered, MovesUp, Unowned
        <3> HIDE DEF n, m
        <3> QED BY <1>0, <2>2, <2>6, <3>1, CapOfJoin
    <2>8. Cardinality(Kids(parent', p)) <= JoinCap(p)
        <3>1. /\ Cardinality(Kids(parent', p)) \in Nat
              /\ Cardinality(Kids(parent', p)) <= n + Cardinality({c} \cup moved)
            BY <1>0, <2>2, <2>6, CountAfterAttach
        <3>2. n + 1 + Room(n + 1) <= JoinCap(p) /\ Room(n + 1) \in Nat
            BY <1>0, <2>4, <2>7 DEF Room
        <3> HIDE DEF n
        <3> QED BY <1>0, <2>4, <2>5, <2>6, <2>7, <3>1, <3>2
    <2> QED BY <1>0, <2>2, <2>6, <2>8, KidsAfterAttach DEF JoinsWithinCap
<1>3. CASE \E group \in SUBSET Cluster, p \in Cluster : CountryMerge(group, p)
    <2>1. PICK group \in SUBSET Cluster, p \in Cluster : CountryMerge(group, p)
        BY <1>3
    <2> DEFINE n == Cardinality(Kids(parent, p))
               m == Cardinality(group \ {p})
    <2>2. PICK kids \in SUBSET (group \ {p}) :
              /\ Cardinality(kids) = AtMost(m, Room(n))
              /\ parent' = Attach(parent, kids, p)
        BY <2>1 DEF CountryMerge, Theater
    <2>3. kids \in SUBSET Cluster /\ IsFiniteSet(kids) /\ m \in Nat /\ n \in Nat
        BY <1>0, ForestAssumption, FS_Subset, FS_CardinalityType, CountAfterAttach
    <2>4. Room(n) \in Nat /\ Cardinality(kids) \in Nat /\ Cardinality(kids) <= Room(n)
        BY <1>0, <2>2, <2>3, FS_CardinalityType DEF AtMost, Room
    <2>5. CASE n < MaxChildren
        <3>1. Cardinality(Kids(parent', p)) \in Nat
              /\ Cardinality(Kids(parent', p)) <= n + Cardinality(kids)
            BY <1>0, <2>2, <2>3, CountAfterAttach
        <3>2. JoinCap(p) \in Nat /\ MaxChildren <= JoinCap(p)
            BY <1>0 DEF JoinCap
        <3>3. Cardinality(Kids(parent', p)) <= JoinCap(p)
            BY <1>0, <2>3, <2>4, <2>5, <3>1, <3>2 DEF Room
        <3> QED BY <1>0, <2>2, <2>3, <3>3, KidsAfterAttach DEF JoinsWithinCap
    <2>6. CASE ~(n < MaxChildren)
        <3>1. Cardinality(kids) = 0
            BY <2>4, <2>6 DEF Room
        <3>2. kids = {}
            BY <2>3, <3>1, FS_EmptySet
        <3>3. parent' = parent
            BY <1>0, <2>2, <3>2 DEF Attach, Parentage
        <3> QED BY <3>3 DEF JoinsWithinCap
    <2> QED BY <2>5, <2>6
<1>4. CASE EndMerge
    <2>1. PICK cut \in SUBSET live : parent' = Detach(parent, cut)
        BY <1>4 DEF EndMerge
    <2>2. \A p \in Cluster : Kids(parent', p) \subseteq Kids(parent, p)
        BY <1>0, <2>1, ForestAssumption DEF Kids, Detach
    <2> QED BY <2>2 DEF JoinsWithinCap
<1>5. CASE EndTopic \/ EndCountry \/ UNCHANGED vars
    BY <1>5 DEF EndTopic, EndCountry, hierarchy, vars, JoinsWithinCap
<1>6. CASE \/ Ingest \/ StartTick \/ EndSplit \/ SweepOrphans \/ EndSweep \/ FlushPending
           \/ \E c \in Cluster, born \in SUBSET Cluster : SplitDivergent(c, born)
           \/ \E c, n \in Cluster : SplitByCoherence(c, n)
    BY <1>6 DEF Ingest, StartTick, Unexpired, EndSplit, SweepOrphans, Unrelated, EndSweep, FlushPending,
                SplitDivergent, SplitByCoherence, FallsApart, Sampled
<1> QED BY <1>1, <1>2, <1>3, <1>4, <1>5, <1>6 DEF Next

(* In every merge pass the cap of max_children_per_parent is exceeded by   *)
(* at most one, and only for a child that is a parent, however many        *)
(* situations there are.                                                   *)
THEOREM MergesAlwaysRespectCap == Spec => MergesRespectCap
<1>1. IInv /\ [Next]_vars =>
        [(stage \in {"merge", "topic", "country"}) => JoinsWithinCap]_vars
    BY BaseOf, StepRespectsCap
<1> QED BY <1>1, Invariance, PTL DEF Spec, MergesRespectCap
(***************************************************************************)
(* The results of the AI requests, applied between two ticks.              *)
(***************************************************************************)

(* Groups are applied between ticks, when no snapshot is in use.           *)
AIInv == Base /\ (applying # {} => stage = "idle")

LEMMA InitAIInv == InitAI => AIInv
BY InitIInv, BaseOf DEF InitAI, AIInv

(* What a result does to the hierarchy between two ticks: nothing that was *)
(* not there becomes a parent or a child.                                  *)
LEMMA BetweenTicks ==
    ASSUME Base, stage = "idle",
           UNCHANGED <<live, used, tick, stage, pass>>, rejected' \subseteq Pairs,
           parent' \in Parentage,
           \A c \in Cluster : \/ parent'[c] = parent[c] \/ parent'[c] = NoParent
                              \/ c \in live /\ parent'[c] \in live
    PROVE  Base'
<1>1. TypeOK'
    BY DEF Base, TypeOK, pass
<1>2. NoDanglingParent'
    BY ForestAssumption DEF Base, TypeOK, NoDanglingParent, Tree!IsClosed
<1>3. SnapshotsFit'
    BY DEF SnapshotsFit, PassOrder, SnapTop, TodoTop
<1> QED BY <1>1, <1>2, <1>3 DEF Base

(* A title: one of two is taken by the other with its children, of which   *)
(* the other may be one.                                                   *)
LEMMA TitleFacts ==
    ASSUME Base, NEW c \in Cluster, NEW dup \in Cluster, NEW winner \in Cluster,
           TitleDuplicate(c, dup, winner)
    PROVE  /\ Base' /\ stage = "idle" /\ live' = live
           /\ c \in titling /\ c \notin titling' /\ dup \in TopLevel
           /\ parent[c] = NoParent \/ winner = dup => (Acyclic => Acyclic')
           /\ parent[c] # NoParent /\ winner # dup => parent'[dup] = c
<1> DEFINE loser == IF winner = c THEN dup ELSE c
           taken == {loser} \cup Kids(parent, loser)
<1>1. /\ stage = "idle" /\ c \in live /\ dup \in live /\ parent[dup] = NoParent /\ dup # c
      /\ winner \in {c, dup} /\ parent' = Attach(parent, taken, winner)
      /\ UNCHANGED <<live, used, rejected, tick, stage, pass>>
      /\ c \in titling /\ titling' = titling \ {c} /\ dup \in TopLevel
    BY DEF TitleDuplicate, Others, Waiting, Known, TopLevel
<1>2. parent \in Parentage /\ rejected \subseteq Pairs /\ live \subseteq Cluster
    BY DEF Base, TypeOK
<1>3. loser \in live /\ winner \in live /\ winner # loser
    BY <1>1
<1>4. taken \subseteq live
    BY <1>2, <1>3, ForestAssumption DEF Kids, Base, NoDanglingParent, Tree!IsClosed
<1>5. /\ parent' \in Parentage
      /\ \A x \in Cluster : parent'[x] = IF x \in taken THEN winner ELSE parent[x]
    BY <1>1, <1>2 DEF Attach, Parentage
<1>6. Base'
    <2>1. \A x \in Cluster : \/ parent'[x] = parent[x] \/ parent'[x] = NoParent
                             \/ x \in live /\ parent'[x] \in live
        BY <1>3, <1>4, <1>5
    <2> QED BY <1>1, <1>2, <1>5, <2>1, BetweenTicks
<1>7. ASSUME parent[c] = NoParent \/ winner = dup, Acyclic
      PROVE  Acyclic'
    <2>1. parent[winner] = NoParent
        BY <1>1, <1>7
    <2>2. winner \notin taken
        BY <1>2, <1>3, <2>1, ForestAssumption DEF Kids
    <2>3. \A x \in live : parent'[x] \in {parent[x], winner}
        BY <1>2, <1>5
    <2>4. parent'[winner] = NoParent
        BY <1>3, <1>5, <2>1, <2>2
    <2>5. Tree!IsForest(live, parent) /\ winner \in live /\ parent' \in Parentage
        BY <1>3, <1>5, <1>7 DEF Acyclic
    <2>6. Tree!IsForest(live, parent')
        BY ONLY <1>2, <2>3, <2>4, <2>5, AdoptAtRoot
    <2> QED BY <1>1, <2>6 DEF Acyclic
<1>8. parent[c] # NoParent /\ winner # dup => parent'[dup] = c
    BY <1>1, <1>5
<1> QED BY <1>1, <1>6, <1>7, <1>8

(* unmerge.                                                                *)
LEMMA RejectFacts ==
    ASSUME Base, NEW p \in Cluster, NEW c \in Cluster, AuditRejects(p, c)
    PROVE  Base' /\ stage = "idle" /\ live' = live /\ (Acyclic => Acyclic')
<1>1. /\ stage = "idle" /\ UNCHANGED <<live, used, tick, stage, pass>>
      /\ parent' = parent \/ parent' = Detach(parent, {c})
      /\ rejected' = rejected \/ rejected' = rejected \cup {{p, c}}
    BY DEF AuditRejects, Waiting
<1>2. parent \in Parentage /\ rejected \subseteq Pairs /\ live \subseteq Cluster
    BY DEF Base, TypeOK
<1>3. /\ parent' \in Parentage
      /\ \A x \in Cluster : parent'[x] \in {parent[x], NoParent}
    BY <1>1, <1>2 DEF Detach, Parentage
<1>4. rejected' \subseteq Pairs
    BY <1>1, <1>2 DEF Pairs
<1>5. Base'
    BY <1>1, <1>3, <1>4, BetweenTicks
<1>6. Acyclic => Acyclic'
    BY <1>1, <1>2, <1>3, ReleaseForest DEF Acyclic
<1> QED BY <1>1, <1>5, <1>6

(* One group of a consolidation: the largest takes others of its kind, and *)
(* itself only if it is named twice.                                       *)
LEMMA GroupFacts ==
    ASSUME AIInv, NEW group \in SUBSET Cluster, NEW p \in Cluster, NEW twice \in BOOLEAN,
           ApplyGroup(group, p, twice)
    PROVE  /\ Base' /\ applying # {} /\ live' = live
           /\ Acyclic => Acyclic' \/ Twisted' # {}
           /\ CappedAt(MaxChildren)
<1> DEFINE n == Cardinality(Kids(parent, p))
<1>1. PICK kids \in SUBSET live :
          /\ kids # {} /\ p \in live /\ parent[p] = NoParent
          /\ Cardinality(kids) <= Room(n)
          /\ parent' = Attach(parent, kids, p)
          /\ rejected' = rejected \ {{p, k} : k \in kids}
    BY DEF ApplyGroup, Known, Unowned
<1>2. /\ UNCHANGED <<live, used, tick, stage, pass>> /\ applying # {} /\ stage = "idle" /\ Base
    BY DEF ApplyGroup, AIInv
<1>3. /\ parent \in Parentage /\ rejected \subseteq Pairs /\ live \subseteq Cluster /\ MaxChildren \in Nat
    BY <1>2, ForestAssumption DEF Base, TypeOK
<1>4. /\ parent' \in Parentage
      /\ \A x \in Cluster : parent'[x] = IF x \in kids THEN p ELSE parent[x]
    BY <1>1, <1>3 DEF Attach, Parentage
<1>5. Base'
    <2>1. \A x \in Cluster : \/ parent'[x] = parent[x] \/ parent'[x] = NoParent
                             \/ x \in live /\ parent'[x] \in live
        BY <1>1, <1>4
    <2> QED BY <1>1, <1>2, <1>3, <1>4, <2>1, BetweenTicks
<1>6. ASSUME Acyclic, p \notin kids
      PROVE  Acyclic'
    <2>1. \A x \in live : parent'[x] \in {parent[x], p}
        BY <1>3, <1>4
    <2>2. parent'[p] = NoParent
        BY <1>1, <1>4, <1>6
    <2> QED BY <1>1, <1>2, <1>3, <1>4, <1>6, <2>1, <2>2, AdoptAtRoot DEF Acyclic
<1>7. p \in kids => Twisted' # {}
    BY <1>1, <1>2, <1>4 DEF Twisted
<1>8. CappedAt(MaxChildren)
    <2>1. kids \in SUBSET Cluster /\ IsFiniteSet(kids)
        BY <1>1, <1>3, ForestAssumption, FS_Subset
    <2>2. /\ n \in Nat /\ Cardinality(kids) \in Nat
          /\ Cardinality(Kids(parent', p)) \in Nat
          /\ Cardinality(Kids(parent', p)) <= n + Cardinality(kids)
        BY <1>1, <1>3, <2>1, CountAfterAttach
    <2>3. Cardinality(kids) # 0
        BY <1>1, <2>1, FS_EmptySet
    <2>4. Cardinality(Kids(parent', p)) <= MaxChildren
        <3> HIDE DEF n
        <3> QED BY <1>1, <1>3, <2>2, <2>3 DEF Room
    <2>5. \A q \in Cluster \ {p} : Kids(parent', q) \subseteq Kids(parent, q)
        BY <1>1, <1>3, <2>1, KidsAfterAttach
    <2> QED BY <2>4, <2>5 DEF CappedAt
<1> QED BY <1>2, <1>5, <1>6, <1>7, <1>8

(* A step in which the hierarchy stays as it is.                           *)
LEMMA IdleFacts ==
    ASSUME AIInv, UNCHANGED vars
    PROVE  Base' /\ (Acyclic => Acyclic') /\ CappedAt(MaxChildren)
BY StutterStep DEF AIInv, vars, CappedAt

(* A clustering step or the end of a tick is a step of SituationForest.    *)
LEMMA TickFacts ==
    ASSUME AIInv, Clustering \/ Dispatch
    PROVE  [Next]_vars /\ applying = {} /\ applying' = {}
BY DEF AIInv, Clustering, Dispatch, Untitled, Components, FlushPending, Next

(* A request answered without consequences: only requests change.          *)
Unheard ==
    \/ \E c \in Cluster : TitleRefused(c) \/ TitleReceived(c)
    \/ \E p, c \in Cluster : AuditConfirms(p, c)
    \/ \E b \in SUBSET Cluster : GroupsReceived(b)
    \/ GroupsDone
    \/ UNCHANGED aivars

LEMMA UnheardFacts ==
    ASSUME AIInv, Unheard
    PROVE  UNCHANGED vars /\ (applying' # {} => stage = "idle")
BY DEF AIInv, Unheard, TitleReceived, TitleRefused, TitleBack, AuditConfirms, GroupsReceived, GroupsDone,
       Waiting, aivars, requests, vars

LEMMA NextAIInv == AIInv /\ [NextAI]_aivars => AIInv'
<1> SUFFICES ASSUME AIInv, [NextAI]_aivars PROVE AIInv'
    OBVIOUS
<1>1. CASE Clustering \/ Dispatch
    BY <1>1, TickFacts, NextBase DEF AIInv
<1>2. CASE Unheard
    BY <1>2, UnheardFacts, IdleFacts DEF AIInv, vars
<1>3. CASE \E c, dup, winner \in Cluster : TitleDuplicate(c, dup, winner)
    <2>1. PICK c \in Cluster, dup \in Cluster, winner \in Cluster :
              TitleDuplicate(c, dup, winner)
        BY <1>3
    <2> QED BY <2>1, TitleFacts DEF AIInv, TitleDuplicate, Others, pass
<1>4. CASE \E p, c \in Cluster : AuditRejects(p, c)
    <2>1. PICK p \in Cluster, c \in Cluster : AuditRejects(p, c)
        BY <1>4
    <2> QED BY <2>1, RejectFacts DEF AIInv, AuditRejects, pass
<1>5. CASE \E group \in SUBSET Cluster, p \in Cluster, twice \in BOOLEAN :
              ApplyGroup(group, p, twice)
    <2>1. PICK group \in SUBSET Cluster, p \in Cluster, twice \in BOOLEAN :
              ApplyGroup(group, p, twice)
        BY <1>5
    <2> QED BY <2>1, GroupFacts DEF AIInv, ApplyGroup, pass
<1> QED BY <1>1, <1>2, <1>3, <1>4, <1>5 DEF NextAI, Unheard

THEOREM AIInvariance == SpecAI => []AIInv
BY InitAIInv, NextAIInv, PTL DEF SpecAI

(* However titles, audits and grouping answers are delayed and reordered,  *)
(* a result that names a situation which is gone by now leaves nothing     *)
(* hanging under it.                                                       *)
THEOREM StaleResultsNeverHarm == SpecAI => []StaleResultsHarmless
<1>1. AIInv => StaleResultsHarmless
    BY DEF AIInv, Base, StaleResultsHarmless
<1> QED BY <1>1, AIInvariance, PTL

(* The only two ways into a cycle of the hierarchy.                        *)
LEMMA StepBreaksOnlyBy ==
    ASSUME AIInv, [NextAI]_aivars, Acyclic, ~Acyclic'
    PROVE  \/ \E c \in titling \ titling', dup \in TopLevel :
                 parent[c] # NoParent /\ parent'[dup] = c
           \/ applying # {} /\ Twisted' # {}
<1>1. CASE Clustering \/ Dispatch
    BY <1>1, TickFacts, NextBase DEF AIInv
<1>2. CASE Unheard
    BY <1>2, UnheardFacts, IdleFacts
<1>3. CASE \E c, dup, winner \in Cluster : TitleDuplicate(c, dup, winner)
    <2>1. PICK c \in Cluster, dup \in Cluster, winner \in Cluster :
              TitleDuplicate(c, dup, winner)
        BY <1>3
    <2> QED BY <2>1, TitleFacts DEF AIInv
<1>4. CASE \E p, c \in Cluster : AuditRejects(p, c)
    BY <1>4, RejectFacts DEF AIInv
<1>5. CASE \E group \in SUBSET Cluster, p \in Cluster, twice \in BOOLEAN :
              ApplyGroup(group, p, twice)
    BY <1>5, GroupFacts
<1> QED BY <1>1, <1>2, <1>3, <1>4, <1>5 DEF NextAI, Unheard

(* Whichever results are applied to whichever hierarchy, only a title that *)
(* makes a situation the duplicate of one above it, and a group that names *)
(* its largest situation twice, can put a cycle into a forest.             *)
THEOREM ForestAlwaysBrokenOnlyBy == SpecAI => ForestBrokenOnlyBy
<1>1. AIInv /\ [NextAI]_aivars =>
        [ Forest /\ ~Forest' =>
             \/ \E c \in titling \ titling', dup \in TopLevel :
                   parent[c] # NoParent /\ parent'[dup] = c
             \/ applying # {} /\ Twisted' # {} ]_aivars
    BY StepBreaksOnlyBy DEF Forest, Acyclic
<1> QED BY <1>1, AIInvariance, PTL DEF SpecAI, ForestBrokenOnlyBy

(* The caps and the rejections, step by step.                              *)
LEMMA StepKeepsLimits ==
    ASSUME AIInv, [NextAI]_aivars
    PROVE  /\ stage \in {"merge", "topic", "country"} =>
                 /\ JoinsWithinCap
                 /\ \A c \in live :
                       parent[c] = NoParent /\ parent'[c] # NoParent
                           => {c, parent'[c]} \notin rejected'
           /\ applying # {} => CappedAt(MaxChildren)
<1>1. CASE Clustering \/ Dispatch
    <2>1. Base /\ [Next]_vars /\ applying = {} /\ Base'
        BY <1>1, TickFacts, NextBase DEF AIInv
    <2>2. \A c \in live : parent'[c] # NoParent => c \in live'
        BY <2>1 DEF Base, TypeOK, NoDanglingParent, Tree!IsClosed
    <2> QED BY <2>1, <2>2, StepRespectsCap, StepHonoursRejections
<1>2. CASE Unheard
    <2>1. /\ UNCHANGED vars
          /\ CappedAt(MaxChildren)
          /\ \A p \in Cluster : Kids(parent', p) \subseteq Kids(parent, p)
        BY <1>2, UnheardFacts, IdleFacts DEF vars
    <2> QED BY <2>1 DEF JoinsWithinCap, vars
<1>3. CASE \E c, dup, winner \in Cluster : TitleDuplicate(c, dup, winner)
    BY <1>3 DEF TitleDuplicate, Others, Waiting
<1>4. CASE \E p, c \in Cluster : AuditRejects(p, c)
    BY <1>4 DEF AuditRejects, Waiting
<1>5. CASE \E group \in SUBSET Cluster, p \in Cluster, twice \in BOOLEAN :
              ApplyGroup(group, p, twice)
    BY <1>5, GroupFacts DEF AIInv
<1> QED BY <1>1, <1>2, <1>3, <1>4, <1>5 DEF NextAI, Unheard

(* The caps and the standing rejections hold in the merge passes whatever  *)
(* the results did before, and an applied grouping respects the cap.       *)
THEOREM LimitsAlwaysHonoured == SpecAI => LimitsHonoured
<1>1. AIInv /\ [NextAI]_aivars =>
        [ /\ stage \in {"merge", "topic", "country"} =>
                /\ JoinsWithinCap
                /\ \A c \in live :
                      parent[c] = NoParent /\ parent'[c] # NoParent
                          => {c, parent'[c]} \notin rejected'
          /\ applying # {} => CappedAt(MaxChildren) ]_aivars
    BY StepKeepsLimits
<1> QED BY <1>1, AIInvariance, PTL DEF SpecAI, LimitsHonoured
=============================================================================
