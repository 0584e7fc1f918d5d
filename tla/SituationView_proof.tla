------------------------ MODULE SituationView_proof ------------------------
(***************************************************************************)
(* Proofs about the published view, for any number of situations, any      *)
(* parents, cycles among them included, any caps and every outcome of the  *)
(* passes.  One condition on the parents is needed: find_root climbs       *)
(* MaxHops of them and no further, so above a deeper line of situations    *)
(* the view keeps more than two levels.                                    *)
(* At the end, about the phase and severity it shows of a situation.       *)
(***************************************************************************)
EXTENDS SituationView, SituationLifecycle, FiniteSetTheorems, TLAPS

(* p and the rows above it, parent by parent.                              *)
Upward(rows, par, S) == \A y \in S : par[y] \in rows => par[y] \in S
Line(rows, par, p) ==
    {x \in rows : \A S \in SUBSET rows : p \in S /\ Upward(rows, par, S) => x \in S}

(* No situation has more than MaxHops + 1 others above it.                 *)
Shallow ==
    \A p \in Cluster :
        Kids(p) # {} => Cardinality(Line(Cluster, parent, p)) <= MaxHops + 1

TypeOK ==
    /\ stage \in Stages
    /\ parent \in [Cluster -> Row]
    /\ strong \subseteq Cluster /\ garbage \subseteq Cluster
    /\ out \subseteq Cluster
    /\ up \in [Cluster -> Row]
    /\ listed \in [Cluster -> SUBSET Cluster]
    /\ root \in [Cluster -> Row] /\ hops \in Nat
    /\ size \in [Cluster -> Nat]
    /\ similar \subseteq SUBSET Cluster
    /\ todo \subseteq Cluster
    /\ lost \in [Cluster -> Row]

(* What is not a row has neither parent nor children.                      *)
Unlinked == \A c \in Cluster \ out : up[c] = NoParent /\ listed[c] = {}

(* Until the hierarchy is flattened a row has its parent of the graph.     *)
Traced ==
    stage \in {"collapse", "flatten"} =>
        \A c \in out : up[c] \in {parent[c], NoParent}

(* The two directions agree after every pass, not only in the end.         *)
Agreed == \A c, d \in out : c \in listed[d] <=> up[c] = d

(* The rows above which there is always another row.                       *)
Endless == UNION {S \in SUBSET out : \A c \in S : up[c] \in S}

(* Two levels, from flattening on, but for the tangled situations; and who *)
(* is listed under a row that has a parent itself, is so for good.         *)
Tangle == Contract!Tangled(Cluster, parent)

Flat ==
    stage \in {"caps", "cleanup", "dedupe", "final", "done"} =>
        \A c \in out :
            /\ parent[c] = NoParent => up[c] = NoParent
            /\ \/ c \in Tangle
               \/ /\ up[c] = c => parent[c] = c
                  /\ up[c] \in out => up[up[c]] \in {NoParent, up[c]}
            /\ up[c] \in out => up[up[c]] = NoParent \/ up[c] \in Endless

(* While find_root climbs: from rows with a top above them, it comes one   *)
(* row nearer to it with each turn; the others it never leads out of their *)
(* cycle.                                                                  *)
Knot == Contract!Tangled(out, up)

Climbing ==
    stage = "flatten" =>
        /\ hops <= MaxHops
        /\ \A c \in Cluster : up[c] \notin out => root[c] = up[c]
        /\ \A c \in out : up[c] \in out =>
              /\ root[c] \in out
              /\ c \in Knot => root[c] \in Knot
              /\ c \notin Knot =>
                    /\ root[c] \notin Knot
                    /\ \/ Above(root[c]) = root[c]
                       \/ Cardinality(Line(out, up, root[c])) + hops <= MaxHops + 1
              /\ up[c] = c => root[c] = c

(* Only rows at the top level lose, and only to such rows.                 *)
Duels ==
    /\ stage \in {"filter", "collapse", "flatten", "caps", "cleanup"} => lost = Nobody
    /\ stage = "dedupe" =>
          /\ todo \subseteq Top
          /\ \A c \in Cluster : lost[c] # NoParent => {c, lost[c]} \subseteq Top

IInv ==
    /\ TypeOK /\ Shallow
    /\ Unlinked /\ Traced /\ Agreed /\ Climbing /\ Flat /\ Duels
    /\ OrphanedOnlyBy
-----------------------------------------------------------------------------
(***************************************************************************)
(* The line of rows above a row, and its end.                              *)
(***************************************************************************)

LEMMA LineFacts ==
    ASSUME NEW rows \in SUBSET Cluster, NEW par \in [Cluster -> Row], NEW p \in rows
    PROVE  /\ Line(rows, par, p) \subseteq rows
           /\ p \in Line(rows, par, p)
           /\ Upward(rows, par, Line(rows, par, p))
BY DEF Line, Upward

(* Where there is no way up, the line ends; and the other way round.       *)
LEMMA LineOfOne ==
    ASSUME NEW rows \in SUBSET Cluster, NEW par \in [Cluster -> Row], NEW p \in rows
    PROVE  Cardinality(Line(rows, par, p)) = 1 <=> par[p] \notin rows \/ par[p] = p
<1> DEFINE L == Line(rows, par, p)
<1>1. L \subseteq rows /\ p \in L /\ Upward(rows, par, L)
    BY LineFacts
<1>2. IsFiniteSet(L)
    BY <1>1, ViewAssumption, FS_Subset
<1>3. ASSUME par[p] \notin rows \/ par[p] = p
      PROVE  L = {p}
    <2>1. Upward(rows, par, {p})
        BY <1>3 DEF Upward
    <2> QED BY <1>1, <2>1 DEF Line
<1>4. ASSUME L = {p}
      PROVE  par[p] \notin rows \/ par[p] = p
    BY <1>1, <1>4 DEF Upward
<1>5. Cardinality(L) = 1 <=> L = {p}
    BY <1>1, <1>2, FS_Singleton
<1> QED BY <1>3, <1>4, <1>5

(* The rows above a row are above it in the graph.                         *)
LEMMA LineInGraph ==
    ASSUME NEW rows \in SUBSET Cluster, NEW par \in [Cluster -> Row], NEW p \in rows,
           parent \in [Cluster -> Row],
           \A c \in rows : par[c] \in {parent[c], NoParent}
    PROVE  Line(rows, par, p) \subseteq Line(Cluster, parent, p)
<1> SUFFICES ASSUME NEW x \in Line(rows, par, p), NEW S \in SUBSET Cluster,
                    p \in S, Upward(Cluster, parent, S)
             PROVE  x \in S
    BY LineFacts DEF Line
<1>1. Upward(rows, par, S \cap rows)
    BY ViewAssumption DEF Upward
<1> QED BY <1>1 DEF Line

LEMMA LineMinimal ==
    ASSUME NEW rows, NEW par, NEW p, NEW S \in SUBSET rows, p \in S, Upward(rows, par, S)
    PROVE  Line(rows, par, p) \subseteq S
BY DEF Line

(* What is above x is x itself and what is above its parent.               *)
LEMMA LineSplit ==
    ASSUME NEW rows \in SUBSET Cluster, NEW par \in [Cluster -> Row], NEW x \in rows,
           par[x] \in rows
    PROVE  Line(rows, par, x) = {x} \cup Line(rows, par, par[x])
<1> DEFINE M == Line(rows, par, par[x])
<1>1. M \subseteq rows /\ par[x] \in M /\ Upward(rows, par, M)
    BY LineFacts
<1>2. Line(rows, par, x) \subseteq {x} \cup M
    <2>1. Upward(rows, par, {x} \cup M)
        BY <1>1 DEF Upward
    <2> QED BY <1>1, <2>1, LineMinimal
<1>3. x \in Line(rows, par, x) /\ par[x] \in Line(rows, par, x)
      /\ Line(rows, par, x) \subseteq rows /\ Upward(rows, par, Line(rows, par, x))
    BY LineFacts DEF Upward
<1>4. M \subseteq Line(rows, par, x)
    BY <1>3, LineMinimal
<1> QED BY <1>2, <1>3, <1>4

(* The tangled rows: closed, and whose parent is tangled is so itself.     *)
LEMMA KnotFacts ==
    ASSUME NEW rows \in SUBSET Cluster, NEW par \in [Cluster -> Row]
    PROVE  /\ Contract!Tangled(rows, par) \subseteq rows
           /\ \A c \in Contract!Tangled(rows, par) :
                 par[c] \in Contract!Tangled(rows, par) \ {c}
           /\ \A S \in SUBSET rows :
                 (\A c \in S : par[c] \in S \ {c}) => S \subseteq Contract!Tangled(rows, par)
           /\ \A c \in rows : par[c] # c /\ par[c] \in Contract!Tangled(rows, par) =>
                 c \in Contract!Tangled(rows, par)
<1> DEFINE K == Contract!Tangled(rows, par)
<1>1. K \subseteq rows /\ \A c \in K : par[c] \in K \ {c}
    BY DEF Contract!Tangled
<1>2. \A S \in SUBSET rows : (\A c \in S : par[c] \in S \ {c}) => S \subseteq K
    BY DEF Contract!Tangled
<1>3. ASSUME NEW c \in rows, par[c] # c, par[c] \in K
      PROVE  c \in K
    <2>1. K \cup {c} \in SUBSET rows /\ \A x \in K \cup {c} : par[x] \in (K \cup {c}) \ {x}
        BY <1>1, <1>3
    <2> QED BY <1>2, <2>1
<1> QED BY <1>1, <1>2, <1>3

(* One parent up, the line is shorter, unless it leads round a cycle.      *)
LEMMA LineShorter ==
    ASSUME NEW rows \in SUBSET Cluster, NEW par \in [Cluster -> Row], NEW x \in rows,
           par[x] \in rows, par[x] # x, x \notin Contract!Tangled(rows, par)
    PROVE  Cardinality(Line(rows, par, par[x])) + 1 = Cardinality(Line(rows, par, x))
<1> DEFINE M == Line(rows, par, par[x])
<1>1. M \subseteq rows /\ par[x] \in M /\ Upward(rows, par, M)
    BY LineFacts
<1>2. x \notin M
    <2> SUFFICES ASSUME x \in M PROVE FALSE
        OBVIOUS
    <2> DEFINE Q == {z \in M : x \in Line(rows, par, z)}
    <2>1. ASSUME NEW z \in Q
          PROVE  par[z] \in Q \ {z}
        <3>1. z \in rows /\ z \in M /\ x \in Line(rows, par, z)
            BY <1>1
        <3>2. CASE z = x
            <4>1. x \in Line(rows, par, par[x])
                OBVIOUS
            <4> QED BY <1>1, <3>2, <4>1
        <3>3. CASE z # x
            <4>1. ASSUME par[z] \notin rows \/ par[z] = z
                  PROVE  FALSE
                <5>1. Upward(rows, par, {z})
                    BY <4>1 DEF Upward
                <5>2. Line(rows, par, z) \subseteq {z}
                    BY <3>1, <5>1, LineMinimal
                <5> QED BY <3>1, <3>3, <5>2
            <4>2. par[z] \in M
                BY <1>1, <3>1, <4>1 DEF Upward
            <4>3. Line(rows, par, z) = {z} \cup Line(rows, par, par[z])
                BY <3>1, <4>1, LineSplit
            <4> QED BY <3>1, <3>3, <4>1, <4>2, <4>3
        <3> QED BY <3>2, <3>3
    <2>2. x \in Q
        BY LineFacts
    <2>3. Q \in SUBSET rows
        BY <1>1
    <2> HIDE DEF Q
    <2> QED BY <2>1, <2>2, <2>3, KnotFacts
<1>3. Line(rows, par, x) = M \cup {x}
    BY LineSplit
<1>4. IsFiniteSet(M)
    BY <1>1, ViewAssumption, FS_Subset
<1> HIDE DEF M
<1>5. Cardinality(M \cup {x}) = Cardinality(M) + 1
    BY <1>2, <1>4, FS_AddElement
<1> QED BY <1>3, <1>5 DEF M

(* find_root has climbed to a row with nothing above it, or goes round.    *)
LEMMA RootFacts ==
    ASSUME TypeOK, Climbing, stage = "flatten", Arrived, NEW c \in out, up[c] \in out
    PROVE  /\ root[c] \in out
           /\ up[c] = c => root[c] = c
           /\ \/ c \in Knot /\ root[c] \in Knot
              \/ /\ c \notin Knot
                 /\ up[root[c]] \notin out \/ up[root[c]] = root[c]
<1>1. /\ out \in SUBSET Cluster /\ up \in [Cluster -> Row] /\ hops \in Nat
      /\ root[c] \in out /\ (up[c] = c => root[c] = c)
      /\ c \in Knot => root[c] \in Knot
      /\ c \notin Knot =>
            \/ Above(root[c]) = root[c]
            \/ Cardinality(Line(out, up, root[c])) + hops <= MaxHops + 1
    BY DEF TypeOK, Climbing
<1>2. CASE Above(root[c]) = root[c]
    BY <1>1, <1>2 DEF Above
<1>3. CASE c \notin Knot /\ hops = MaxHops /\ Above(root[c]) # root[c]
    <2>1. /\ root[c] \in Line(out, up, root[c])
          /\ IsFiniteSet(Line(out, up, root[c]))
        BY <1>1, LineFacts, ViewAssumption, FS_Subset
    <2>2. Cardinality(Line(out, up, root[c])) \in Nat \ {0}
        BY <2>1, FS_CardinalityType, FS_EmptySet
    <2>3. Cardinality(Line(out, up, root[c])) = 1
        BY <1>1, <1>3, <2>2, ViewAssumption
    <2> QED BY <1>1, <1>3, <2>3, LineOfOne
<1> QED BY <1>1, <1>2, <1>3 DEF Arrived
-----------------------------------------------------------------------------
(***************************************************************************)
(* The passes, one by one.                                                 *)
(***************************************************************************)

LEMMA InitIInv == Init /\ Shallow => IInv
<1> SUFFICES ASSUME Init, Shallow PROVE IInv
    OBVIOUS
<1>1. TypeOK
    BY ViewAssumption DEF Init, TypeOK, Stages, Nobody, Row
<1>2. Unlinked /\ Traced /\ Agreed /\ Climbing /\ Flat /\ Duels /\ OrphanedOnlyBy
    BY DEF Init, Unlinked, Traced, Agreed, Climbing, Flat, Duels, OrphanedOnlyBy, Flattened,
           Nobody
<1> QED BY <1>1, <1>2 DEF IInv

(* What no pass changes.                                                   *)
LEMMA Given ==
    ASSUME IInv, UNCHANGED inputs
    PROVE  /\ parent' \in [Cluster -> Row]
           /\ strong' \subseteq Cluster /\ garbage' \subseteq Cluster
           /\ Shallow' /\ Tangle' = Tangle
BY DEF IInv, TypeOK, inputs, Shallow, Kids, Tangle

LEMMA FilterStep == IInv /\ Filter => IInv'
<1> SUFFICES ASSUME IInv, Filter PROVE IInv'
    OBVIOUS
<1>1. PICK leaves \in SUBSET {c \in Cluster : Kids(c) = {}} :
          LET parents  == {c \in Cluster : Kids(c) # {}}
              rows     == leaves \cup (parents \ garbage)
              homeless == Homeless(rows, parent)
          IN  /\ out' = rows \ (homeless \ strong)
              /\ up' = Promoted(parent, out', homeless)
              /\ listed' = [c \in Cluster |-> IF c \in out' THEN Kids(c) ELSE {}]
    BY DEF Filter
<1> DEFINE rows == leaves \cup ({c \in Cluster : Kids(c) # {}} \ garbage)
           homeless == Homeless(rows, parent)
<1>2. /\ stage = "filter" /\ stage' = "collapse" /\ UNCHANGED inputs /\ UNCHANGED <<climb, dedupe>>
      /\ parent \in [Cluster -> Row] /\ lost = Nobody
    BY DEF Filter, IInv, TypeOK, Duels
<1>3. /\ out' = rows \ (homeless \ strong) /\ out' \subseteq rows /\ rows \subseteq Cluster
      /\ \A c \in Cluster : Kids(c) \subseteq Cluster
      /\ \A c, d \in Cluster : c \in Kids(d) <=> parent[c] = d
    BY <1>1 DEF Kids
<1>4. /\ up' \in [Cluster -> Row]
      /\ \A c \in Cluster :
            up'[c] = IF c \notin out' \/ c \in homeless THEN NoParent ELSE parent[c]
    BY <1>1, <1>2 DEF Promoted, Row
<1>5. /\ listed' \in [Cluster -> SUBSET Cluster]
      /\ \A c \in Cluster : listed'[c] = IF c \in out' THEN Kids(c) ELSE {}
    BY <1>1, <1>3
<1>6. TypeOK'
    <2>1. size' \in [Cluster -> Nat] /\ similar' \subseteq SUBSET Cluster /\ todo' \subseteq Cluster
          /\ lost' \in [Cluster -> Row] /\ root' \in [Cluster -> Row] /\ hops' \in Nat
        BY <1>2 DEF IInv, TypeOK, climb, dedupe
    <2> QED BY <1>2, <1>3, <1>4, <1>5, <2>1, Given DEF TypeOK, Stages
<1>7. Unlinked'
    BY <1>4, <1>5 DEF Unlinked
<1>8. Traced'
    BY <1>2, <1>3, <1>4 DEF Traced, inputs
<1>9. Agreed'
    <2> SUFFICES ASSUME NEW c \in out', NEW d \in out'
                 PROVE  c \in listed'[d] <=> up'[c] = d
        BY DEF Agreed
    <2>1. c \in Cluster /\ d \in Cluster /\ d \in rows /\ c \in rows /\ d # NoParent
        BY <1>3, ViewAssumption
    <2>2. c \in listed'[d] <=> parent[c] = d
        <3>1. d \in out'
            OBVIOUS
        <3> HIDE DEF rows, homeless
        <3>2. listed'[d] = Kids(d)
            BY <1>5, <2>1, <3>1
        <3> QED BY <1>3, <2>1, <3>2
    <2>3. c \in homeless => parent[c] # d
        BY <2>1 DEF Homeless
    <2> QED BY <1>4, <2>1, <2>2, <2>3
<1>10. Climbing' /\ Flat' /\ Duels' /\ OrphanedOnlyBy'
    BY <1>2 DEF Climbing, Flat, Duels, OrphanedOnlyBy, Flattened, dedupe, Nobody
<1> QED BY <1>2, <1>6, <1>7, <1>8, <1>9, <1>10, Given DEF IInv

(* The climb begins at the parent, above which there are no more rows than *)
(* situations in the graph.                                                *)
LEMMA StartHere ==
    TypeOK /\ Shallow /\ Traced /\ stage = "flatten" /\ root = up /\ hops = 0 => Climbing
<1> SUFFICES ASSUME TypeOK, Shallow, Traced, stage = "flatten", root = up, hops = 0
             PROVE  Climbing
    OBVIOUS
<1> SUFFICES ASSUME NEW c \in out, up[c] \in out
             PROVE  /\ c \in Knot => up[c] \in Knot
                    /\ c \notin Knot =>
                          /\ up[c] \notin Knot
                          /\ \/ Above(up[c]) = up[c]
                             \/ Cardinality(Line(out, up, up[c])) <= MaxHops + 1
    <2>1. \A n \in Nat : n + 0 = n
        OBVIOUS
    <2>2. MaxHops \in Nat
        BY ViewAssumption
    <2>3. \A c \in out : up[c] \in out => Cardinality(Line(out, up, up[c])) \in Nat
        <3>1. ASSUME NEW c \in out, up[c] \in out
              PROVE  IsFiniteSet(Line(out, up, up[c]))
            BY <3>1, LineFacts, ViewAssumption, FS_Subset DEF TypeOK
        <3> QED BY <3>1, FS_CardinalityType
    <2> QED BY <2>1, <2>2, <2>3 DEF Climbing
<1> DEFINE p == up[c]
<1>1. /\ out \in SUBSET Cluster /\ up \in [Cluster -> Row] /\ parent \in [Cluster -> Row]
      /\ p \in out /\ p \in Cluster /\ c \in Cluster
      /\ \A x \in out : up[x] \in {parent[x], NoParent}
    BY DEF TypeOK, Traced
<1>2. Cardinality(Line(out, up, p)) <= MaxHops + 1
    <2>1. c \in Kids(p)
        BY <1>1, ViewAssumption DEF Kids
    <2>2. Cardinality(Line(Cluster, parent, p)) <= MaxHops + 1
        BY <1>1, <2>1 DEF Shallow
    <2>3. Line(out, up, p) \subseteq Line(Cluster, parent, p)
        BY <1>1, LineInGraph
    <2>4. IsFiniteSet(Line(Cluster, parent, p))
        BY <1>1, ViewAssumption, FS_Subset DEF Line
    <2>5. /\ Cardinality(Line(out, up, p)) \in Nat
          /\ Cardinality(Line(Cluster, parent, p)) \in Nat
          /\ Cardinality(Line(out, up, p)) <= Cardinality(Line(Cluster, parent, p))
        BY <2>3, <2>4, FS_Subset, FS_CardinalityType
    <2> QED BY <2>2, <2>5, ViewAssumption
<1>3. c \in Knot => p \in Knot
    BY <1>1, KnotFacts DEF Knot
<1>4. p \in Knot /\ p # c => c \in Knot
    BY <1>1, KnotFacts DEF Knot
<1> QED BY <1>2, <1>3, <1>4

LEMMA CollapseStep == IInv /\ CollapseSingleChild => IInv'
<1> SUFFICES ASSUME IInv, CollapseSingleChild PROVE IInv'
    OBVIOUS
<1>1. PICK gone \in SUBSET out :
          /\ out' = out \ gone
          /\ up' = Only(up, out', NoParent)
          /\ listed' = [c \in Cluster |-> IF c \in out' THEN listed[c] \ gone ELSE {}]
    BY DEF CollapseSingleChild
<1>2. /\ stage = "collapse" /\ stage' = "flatten" /\ UNCHANGED inputs /\ UNCHANGED dedupe
      /\ root' = up' /\ hops' = 0
      /\ out \subseteq Cluster /\ out' \subseteq out
      /\ up \in [Cluster -> Row] /\ listed \in [Cluster -> SUBSET Cluster] /\ lost = Nobody
    BY <1>1 DEF CollapseSingleChild, IInv, TypeOK, Duels
<1>3. /\ up' \in [Cluster -> Row]
      /\ \A c \in Cluster : up'[c] = IF c \in out' THEN up[c] ELSE NoParent
    BY <1>1, <1>2 DEF Only, Row
<1>4. /\ listed' \in [Cluster -> SUBSET Cluster]
      /\ \A c \in Cluster : listed'[c] = IF c \in out' THEN listed[c] \ gone ELSE {}
    BY <1>1, <1>2
<1>5. TypeOK'
    <2>1. size' \in [Cluster -> Nat] /\ similar' \subseteq SUBSET Cluster /\ todo' \subseteq Cluster
          /\ lost' \in [Cluster -> Row] /\ root' \in [Cluster -> Row] /\ hops' \in Nat
        BY <1>2, <1>3 DEF IInv, TypeOK, dedupe
    <2> QED BY <1>2, <1>3, <1>4, <2>1, Given DEF TypeOK, Stages
<1>6. Unlinked'
    BY <1>3, <1>4 DEF Unlinked
<1>7. Traced'
    BY <1>2, <1>3 DEF Traced, inputs, IInv
<1>8. Agreed'
    <2> SUFFICES ASSUME NEW c \in out', NEW d \in out'
                 PROVE  c \in listed'[d] <=> up'[c] = d
        BY DEF Agreed
    <2>1. /\ c \in out /\ d \in out /\ c \in Cluster /\ d \in Cluster /\ c \notin gone
          /\ c \in listed[d] <=> up[c] = d
        BY <1>1, <1>2 DEF Agreed, IInv
    <2>2. listed'[d] = listed[d] \ gone /\ up'[c] = up[c]
        BY <1>3, <1>4, <2>1
    <2> QED BY <2>1, <2>2
<1>9. Flat' /\ Duels' /\ OrphanedOnlyBy'
    BY <1>2 DEF Flat, Duels, OrphanedOnlyBy, Flattened, dedupe, Nobody
<1>10. Climbing'
    <2>1. out' \in SUBSET Cluster /\ TypeOK' /\ Shallow' /\ Traced' /\ stage' = "flatten"
        BY <1>2, <1>5, <1>7, Given
    <2>2. (TypeOK /\ Shallow /\ Traced /\ stage = "flatten" /\ root = up /\ hops = 0
              => Climbing)'
        BY StartHere, PTL
    <2> QED BY <1>2, <2>1, <2>2
<1> QED BY <1>2, <1>5, <1>6, <1>7, <1>8, <1>9, <1>10, Given DEF IInv

(* A turn of the climb.                                                    *)
LEMMA ClimbStep == IInv /\ Climb => IInv'
<1> SUFFICES ASSUME IInv, Climb PROVE IInv'
    OBVIOUS
<1>1. /\ stage = "flatten" /\ UNCHANGED <<stage, inputs, out, up, listed, dedupe>>
      /\ hops' = hops + 1 /\ root' = [c \in Cluster |-> Above(root[c])] /\ hops # MaxHops
    BY DEF Climb, Arrived
<1>2. /\ out \in SUBSET Cluster /\ up \in [Cluster -> Row] /\ root \in [Cluster -> Row]
      /\ hops \in Nat /\ hops <= MaxHops /\ MaxHops \in Nat /\ Climbing
    BY <1>1, ViewAssumption DEF IInv, TypeOK, Climbing
<1>3. \A x \in Row : Above(x) \in Row
    BY <1>2 DEF Above
<1>4. TypeOK' /\ Unlinked' /\ Traced' /\ Agreed' /\ Flat' /\ Duels' /\ OrphanedOnlyBy'
    <2>1. root' \in [Cluster -> Row] /\ hops' \in Nat
        BY <1>1, <1>2, <1>3
    <2>2. TypeOK'
        BY <1>1, <2>1 DEF IInv, TypeOK, inputs, dedupe
    <2> QED BY <1>1, <2>2 DEF IInv, Unlinked, Traced, Agreed, Flat, Duels, OrphanedOnlyBy,
                Flattened, inputs, dedupe
<1>5. ASSUME NEW c \in Cluster, up[c] \notin out
      PROVE  root'[c] = up[c]
    BY <1>1, <1>2, <1>5 DEF Climbing, Above
<1>6. ASSUME NEW c \in out, up[c] \in out
      PROVE  /\ root'[c] \in out
             /\ c \in Knot => root'[c] \in Knot
             /\ c \notin Knot =>
                   /\ root'[c] \notin Knot
                   /\ \/ Above(root'[c]) = root'[c]
                      \/ Cardinality(Line(out, up, root'[c])) + hops' <= MaxHops + 1
             /\ up[c] = c => root'[c] = c
    <2> DEFINE x == root[c]
    <2>1. /\ c \in Cluster /\ root'[c] = Above(x) /\ x \in out
          /\ c \in Knot => x \in Knot
          /\ c \notin Knot =>
                /\ x \notin Knot
                /\ \/ Above(x) = x
                   \/ Cardinality(Line(out, up, x)) + hops <= MaxHops + 1
          /\ up[c] = c => x = c
        BY <1>1, <1>2, <1>6 DEF Climbing
    <2>2. Above(x) \in out /\ (up[c] = c => Above(x) = c)
        BY <2>1 DEF Above
    <2>3. c \in Knot => Above(x) \in Knot
        BY <1>2, <2>1, KnotFacts DEF Above, Knot
    <2>4. CASE c \notin Knot /\ Above(x) # x
        <3>1. Above(x) = up[x] /\ up[x] \in out /\ up[x] # x /\ x \notin Knot
            BY <2>1, <2>4 DEF Above
        <3>2. up[x] \notin Knot
            BY <1>2, <2>1, <3>1, KnotFacts DEF Knot
        <3>3. Cardinality(Line(out, up, up[x])) + 1 = Cardinality(Line(out, up, x))
            BY <1>2, <2>1, <3>1, LineShorter DEF Knot
        <3>4. IsFiniteSet(Line(out, up, up[x]))
            BY <1>2, <3>1, LineFacts, ViewAssumption, FS_Subset
        <3>5. Cardinality(Line(out, up, up[x])) \in Nat
            BY <3>4, FS_CardinalityType
        <3>6. Cardinality(Line(out, up, x)) + hops <= MaxHops + 1
            BY <2>1, <2>4
        <3>7. Cardinality(Line(out, up, up[x])) + (hops + 1) <= MaxHops + 1
            BY <1>2, <3>3, <3>5, <3>6
        <3> QED BY <1>1, <2>1, <2>2, <2>4, <3>1, <3>2, <3>7
    <2>5. CASE c \notin Knot /\ Above(x) = x
        BY <2>1, <2>2, <2>5
    <2> QED BY <2>1, <2>2, <2>3, <2>4, <2>5
<1>7. Climbing'
    <2>1. Knot' = Knot /\ \A x : Above(x)' = Above(x)
        BY <1>1 DEF Knot, Above
    <2>2. hops' <= MaxHops
        BY <1>1, <1>2
    <2> QED BY <1>1, <1>2, <1>5, <1>6, <2>1, <2>2 DEF Climbing, Knot, Above
<1>8. Shallow'
    BY <1>1, Given
<1> QED BY <1>4, <1>7, <1>8 DEF IInv

LEMMA FlattenStep == IInv /\ Flatten => IInv'
<1> SUFFICES ASSUME IInv, Flatten PROVE IInv'
    OBVIOUS
<1> DEFINE homeless == Homeless(out, up)
           moved    == {c \in out : root[c] # up[c]}
<1>1. /\ stage = "flatten" /\ stage' = "caps" /\ UNCHANGED inputs /\ UNCHANGED dedupe
      /\ out' = out \ (homeless \ strong)
      /\ up' = Promoted(root, out', homeless)
      /\ listed' = [c \in Cluster |->
             IF c \in out'
             THEN {k \in listed[c] \cup moved : k \in moved => root[k] = c}
             ELSE {}]
      /\ root' = Nobody /\ hops' = 0 /\ Arrived
    BY DEF Flatten
<1>2. /\ out \subseteq Cluster /\ out' \subseteq out
      /\ parent \in [Cluster -> Row]
      /\ up \in [Cluster -> Row] /\ root \in [Cluster -> Row]
      /\ listed \in [Cluster -> SUBSET Cluster] /\ lost = Nobody
      /\ \A c \in out : up[c] \in {parent[c], NoParent}
    BY <1>1 DEF IInv, TypeOK, Duels, Traced
<1>3. \A c \in out : up[c] \in out =>
          /\ root[c] \in out
          /\ up[c] = c => root[c] = c
          /\ \/ c \in Knot /\ root[c] \in Knot
             \/ /\ c \notin Knot
                /\ up[root[c]] \notin out \/ up[root[c]] = root[c]
    BY <1>1, RootFacts DEF IInv
<1>4. \A c \in Cluster : up[c] \notin out => root[c] = up[c]
    BY <1>1 DEF IInv, Climbing
<1>5. \A c \in moved : up[c] \in out
    BY <1>2, <1>4
<1>6. \A c \in out : c \in homeless <=> up[c] \notin out /\ up[c] # NoParent
    BY DEF Homeless
<1>7. \A c \in out : c \notin moved => root[c] = up[c]
    OBVIOUS
<1>17. moved \subseteq out
    OBVIOUS
<1> HIDE DEF moved, homeless
<1>8. /\ up' \in [Cluster -> Row]
      /\ \A c \in Cluster :
            up'[c] = IF c \notin out' \/ c \in homeless THEN NoParent ELSE root[c]
    BY <1>1, <1>2 DEF Promoted, Row
<1>9. /\ listed' \in [Cluster -> SUBSET Cluster]
      /\ \A c \in Cluster :
            listed'[c] = IF c \in out'
                         THEN {k \in listed[c] \cup moved : k \in moved => root[k] = c}
                         ELSE {}
    BY <1>1, <1>2, <1>17
<1>10. TypeOK'
    <2>1. size' \in [Cluster -> Nat] /\ similar' \subseteq SUBSET Cluster /\ todo' \subseteq Cluster
          /\ lost' \in [Cluster -> Row]
        BY <1>1 DEF IInv, TypeOK, dedupe
    <2>2. root' \in [Cluster -> Row] /\ hops' \in Nat
        BY <1>1 DEF Nobody, Row
    <2> QED BY <1>1, <1>2, <1>8, <1>9, <2>1, <2>2, Given DEF TypeOK, Stages
<1>11. Unlinked'
    BY <1>8, <1>9 DEF Unlinked
<1>12. Traced' /\ Climbing' /\ Duels' /\ OrphanedOnlyBy'
    BY <1>1, <1>2 DEF Traced, Climbing, Duels, OrphanedOnlyBy, Flattened, dedupe, Nobody
<1>13. Agreed'
    <2> SUFFICES ASSUME NEW c \in out', NEW d \in out'
                 PROVE  c \in listed'[d] <=> up'[c] = d
        BY DEF Agreed
    <2>1. /\ c \in out /\ d \in out /\ c \in Cluster /\ d \in Cluster /\ d # NoParent
          /\ c \in listed[d] <=> up[c] = d
        BY <1>2, ViewAssumption DEF Agreed, IInv
    <2>2. CASE c \in moved
        BY <1>5, <1>6, <1>8, <1>9, <2>1, <2>2
    <2>3. CASE c \notin moved
        BY <1>6, <1>7, <1>8, <1>9, <2>1, <2>3
    <2> QED BY <2>2, <2>3
<1>14. Knot \subseteq Endless'
    <2>1. Knot \subseteq out /\ \A c \in Knot : up[c] \in Knot
        BY <1>2, KnotFacts DEF Knot
    <2>2. ASSUME NEW c \in Knot
          PROVE  c \in out' /\ up'[c] \in Knot
        <3>1. c \in out /\ c \in Cluster /\ up[c] \in out /\ c \notin homeless
            BY <1>2, <1>6, <2>1
        <3>2. c \in out' /\ up'[c] = root[c]
            BY <1>1, <1>8, <3>1
        <3>3. root[c] \in Knot
            BY <1>3, <3>1
        <3> QED BY <3>2, <3>3
    <2>3. Knot \in SUBSET out'
        BY <2>2
    <2> HIDE DEF Knot
    <2> QED BY <2>2, <2>3 DEF Endless
<1>15. Knot \subseteq Tangle'
    <2>1. Knot \subseteq out /\ \A c \in Knot : up[c] \in Knot \ {c}
        BY <1>2, KnotFacts DEF Knot
    <2>2. \A c \in Knot : parent[c] \in Knot \ {c}
        BY <1>2, <2>1, ViewAssumption
    <2>3. Knot \in SUBSET Cluster
        BY <1>2, <2>1
    <2>4. Knot \subseteq Tangle
        BY <1>2, <2>2, <2>3, KnotFacts DEF Tangle
    <2> QED BY <1>1, <2>4, Given
<1>16. Flat'
    <2> SUFFICES ASSUME NEW c \in out'
                 PROVE  /\ parent[c] = NoParent => up'[c] = NoParent
                        /\ \/ c \in Tangle'
                           \/ /\ up'[c] = c => parent[c] = c
                              /\ up'[c] \in out' => up'[up'[c]] \in {NoParent, up'[c]}
                        /\ up'[c] \in out' => up'[up'[c]] = NoParent \/ up'[c] \in Endless'
        BY <1>1 DEF Flat, inputs
    <2>1. /\ c \in out /\ c \in Cluster /\ c # NoParent
          /\ NoParent \notin out /\ NoParent \notin out'
        BY <1>2, ViewAssumption
    <2>2. CASE up[c] \in out /\ c \in Knot
        <3>1. up'[c] = root[c] /\ root[c] \in Endless' /\ c \in Tangle'
            BY <1>3, <1>6, <1>8, <1>14, <1>15, <2>1, <2>2
        <3>2. parent[c] # NoParent
            BY <1>2, <2>1, <2>2
        <3> QED BY <3>1, <3>2
    <2>3. CASE up[c] \in out /\ c \notin Knot
        <3>1. /\ up'[c] = root[c] /\ parent[c] = up[c]
              /\ root[c] \in out /\ root[c] \in Cluster /\ root[c] # NoParent
              /\ up[root[c]] \notin out \/ up[root[c]] = root[c]
            BY <1>2, <1>3, <1>6, <1>8, <2>1, <2>3
        <3>2. root[c] = c => up[c] = c
            BY <2>1, <2>3, <3>1
        <3>3. ASSUME root[c] \in out'
              PROVE  \/ up'[root[c]] = NoParent
                     \/ up'[root[c]] = root[c]
            <4>1. CASE up[root[c]] = root[c]
                <5>1. root[root[c]] = root[c]
                    BY <1>3, <3>1, <4>1
                <5> QED BY <1>8, <3>1, <5>1
            <4>2. CASE up[root[c]] \notin out
                <5>1. root[root[c]] = up[root[c]]
                    BY <1>4, <3>1, <4>2
                <5> QED BY <1>6, <1>8, <3>1, <3>3, <4>2, <5>1
            <4> QED BY <3>1, <4>1, <4>2
        <3>4. ASSUME root[c] \in out', up'[root[c]] = root[c]
              PROVE  root[c] \in Endless'
            <4>1. {root[c]} \in SUBSET out' /\ \A x \in {root[c]} : up'[x] \in {root[c]}
                BY <3>4
            <4> QED BY <4>1 DEF Endless
        <3> QED BY <2>1, <2>3, <3>1, <3>2, <3>3, <3>4
    <2>4. CASE up[c] \notin out
        <3>1. up'[c] = NoParent
            BY <1>4, <1>6, <1>8, <2>1, <2>4
        <3> QED BY <2>1, <3>1
    <2> QED BY <2>2, <2>3, <2>4
<1> QED BY <1>1, <1>10, <1>11, <1>12, <1>13, <1>16, Given DEF IInv

(* Dropping rows after flattening.                                         *)
LEMMA DropRows ==
    ASSUME IInv, UNCHANGED inputs,
           stage \in {"caps", "cleanup", "dedupe", "final", "done"},
           out' \subseteq out,
           up' \in [Cluster -> Row],
           \A c \in Cluster : up'[c] \in IF c \in out' THEN {up[c], NoParent} ELSE {NoParent},
           \A c \in out' : up[c] \in out' => up'[c] = up[c],
           \A c \in out \ out' : up[c] \notin out,
           listed' = Only(listed, out', {})
    PROVE  Unlinked' /\ Agreed' /\ Flat' /\ listed' \in [Cluster -> SUBSET Cluster]
<1>1. /\ out \subseteq Cluster /\ parent' = parent /\ parent \in [Cluster -> Row]
      /\ listed \in [Cluster -> SUBSET Cluster] /\ up \in [Cluster -> Row]
    BY DEF IInv, TypeOK, inputs
<1>2. /\ listed' \in [Cluster -> SUBSET Cluster]
      /\ \A c \in Cluster : listed'[c] = IF c \in out' THEN listed[c] ELSE {}
    BY <1>1 DEF Only
<1>3. Unlinked'
    BY <1>2 DEF Unlinked
<1>4. Agreed'
    <2> SUFFICES ASSUME NEW c \in out', NEW d \in out'
                 PROVE  c \in listed'[d] <=> up'[c] = d
        BY DEF Agreed
    <2>1. /\ c \in out /\ d \in out /\ c \in Cluster /\ d \in Cluster /\ d # NoParent
          /\ c \in listed[d] <=> up[c] = d
        BY <1>1, ViewAssumption DEF Agreed, IInv
    <2> QED BY <1>2, <2>1
<1>5. Endless \subseteq Endless'
    <2>1. Endless \subseteq out /\ \A c \in Endless : up[c] \in Endless
        BY DEF Endless
    <2>2. Endless \in SUBSET out' /\ \A c \in Endless : up'[c] \in Endless
        BY <2>1
    <2> HIDE DEF Endless
    <2>3. \A S \in SUBSET out' : (\A c \in S : up'[c] \in S) => S \subseteq Endless'
        BY DEF Endless
    <2> QED BY <2>2, <2>3
<1>6. Flat'
    <2> SUFFICES ASSUME NEW c \in out'
                 PROVE  /\ parent[c] = NoParent => up'[c] = NoParent
                        /\ \/ c \in Tangle
                           \/ /\ up'[c] = c => parent[c] = c
                              /\ up'[c] \in out' => up'[up'[c]] \in {NoParent, up'[c]}
                        /\ up'[c] \in out' => up'[up'[c]] = NoParent \/ up'[c] \in Endless'
        BY <1>1, Given DEF Flat
    <2>1. /\ c \in out /\ c \in Cluster /\ c # NoParent /\ NoParent \notin out'
          /\ up'[c] \in {up[c], NoParent}
          /\ parent[c] = NoParent => up[c] = NoParent
          /\ \/ c \in Tangle
             \/ /\ up[c] = c => parent[c] = c
                /\ up[c] \in out => up[up[c]] \in {NoParent, up[c]}
          /\ up[c] \in out => up[up[c]] = NoParent \/ up[c] \in Endless
        BY <1>1, ViewAssumption DEF Flat, IInv
    <2>2. ASSUME up'[c] \in out'
          PROVE  /\ up[c] \in out /\ up[c] \in Cluster /\ up'[c] = up[c]
                 /\ up'[up[c]] \in {up[up[c]], NoParent}
        BY <1>1, <2>1, <2>2
    <2> QED BY <1>5, <2>1, <2>2
<1> QED BY <1>2, <1>3, <1>4, <1>6

LEMMA CapsStep == IInv /\ CapCategoryCounts => IInv'
<1> SUFFICES ASSUME IInv, CapCategoryCounts PROVE IInv'
    OBVIOUS
<1>1. /\ stage = "caps" /\ stage' = "cleanup" /\ UNCHANGED inputs /\ UNCHANGED <<climb, dedupe>>
      /\ out' \subseteq out /\ lost = Nobody
      /\ \A c \in out \ out' : up[c] = NoParent
      /\ up' = Only(up, out', NoParent) /\ listed' = Only(listed, out', {})
    <2>1. \A rows, alone, parents : OverCap(rows, alone, parents) \subseteq SUBSET rows
        BY DEF OverCap
    <2>2. PICK disasters \in OverCap(Top, DisasterAlone, DisasterParents) :
              \E routine \in OverCap(Top \ disasters, RoutineAlone, RoutineParents) :
                  out' = out \ (disasters \cup routine)
        BY DEF CapCategoryCounts
    <2>3. disasters \subseteq Top
        BY <2>1
    <2>4. out' \subseteq out /\ out \ out' \subseteq Top
        BY <2>1, <2>2, <2>3
    <2> QED BY <2>4 DEF CapCategoryCounts, IInv, Duels, Top
<1>2. /\ up' \in [Cluster -> Row] /\ out \subseteq Cluster
      /\ \A c \in Cluster : up'[c] = IF c \in out' THEN up[c] ELSE NoParent
    BY <1>1 DEF Only, Row, IInv, TypeOK
<1>3. Unlinked' /\ Agreed' /\ Flat' /\ listed' \in [Cluster -> SUBSET Cluster]
    BY <1>1, <1>2, DropRows, ViewAssumption
<1>4. TypeOK'
    <2>1. size' \in [Cluster -> Nat] /\ similar' \subseteq SUBSET Cluster /\ todo' \subseteq Cluster
          /\ lost' \in [Cluster -> Row] /\ root' \in [Cluster -> Row] /\ hops' \in Nat
        BY <1>1 DEF IInv, TypeOK, climb, dedupe
    <2> QED BY <1>1, <1>2, <1>3, <2>1, Given DEF TypeOK, Stages
<1>5. Traced' /\ Climbing' /\ Duels' /\ OrphanedOnlyBy'
    BY <1>1 DEF Traced, Climbing, Duels, OrphanedOnlyBy, Flattened, dedupe, Nobody
<1> QED BY <1>1, <1>3, <1>4, <1>5, Given DEF IInv

(* The cleanup leaves no row without its parent: what it drops is nobody's *)
(* parent any more, the hierarchy being flat.                              *)
LEMMA CleanupStep == IInv /\ CleanupOrphans => IInv'
<1> SUFFICES ASSUME IInv, CleanupOrphans PROVE IInv'
    OBVIOUS
<1> DEFINE homeless == Homeless(out, up)
<1>1. /\ stage = "cleanup" /\ stage' = "dedupe" /\ UNCHANGED <<inputs, climb>> /\ lost' = lost
      /\ out' = out \ (homeless \ strong) /\ up' = Promoted(up, out', homeless)
      /\ listed' = Only(listed, out', {})
      /\ todo' = {c \in out' : up'[c] = NoParent}
      /\ size' \in [Cluster -> 0..Cardinality(todo')]
      /\ similar' \in SUBSET {pair \in SUBSET todo' : Cardinality(pair) = 2}
      /\ lost = Nobody
    BY DEF CleanupOrphans, IInv, Duels
<1>2. /\ out \subseteq Cluster /\ out' \subseteq out /\ up \in [Cluster -> Row]
      /\ \A c \in out : c \in homeless <=> up[c] \notin out \cup {NoParent}
    BY <1>1 DEF IInv, TypeOK, Homeless
<1>3. /\ up' \in [Cluster -> Row]
      /\ \A c \in Cluster :
            up'[c] = IF c \notin out' \/ c \in homeless THEN NoParent ELSE up[c]
    BY <1>1, <1>2 DEF Promoted, Row
<1> HIDE DEF homeless
<1>4. Unlinked' /\ Agreed' /\ Flat' /\ listed' \in [Cluster -> SUBSET Cluster]
    BY <1>1, <1>2, <1>3, DropRows
<1>5. TypeOK'
    <2>1. size' \in [Cluster -> Nat]
        <3>1. \A n : 0..n \subseteq Nat
            OBVIOUS
        <3> QED BY <1>1, <3>1
    <2>2. similar' \subseteq SUBSET Cluster /\ todo' \subseteq Cluster /\ lost' \in [Cluster -> Row]
          /\ root' \in [Cluster -> Row] /\ hops' \in Nat
        BY <1>1, <1>2 DEF IInv, TypeOK, climb
    <2> QED BY <1>1, <1>2, <1>3, <1>4, <2>1, <2>2, Given DEF TypeOK, Stages
<1>6. Duels'
    BY <1>1, <1>2 DEF Duels, Top, Nobody
<1>7. Stranded' = {}
    <2> SUFFICES ASSUME NEW c \in out', up'[c] \notin out', up'[c] # NoParent
                 PROVE  FALSE
        BY DEF Stranded
    <2>1. /\ c \in out /\ c \in Cluster /\ c \notin homeless /\ up'[c] = up[c]
        BY <1>2, <1>3
    <2>2. up[c] \in out /\ up[c] \in Cluster /\ NoParent \notin out
        BY <1>2, <2>1, ViewAssumption
    <2>3. up[up[c]] = NoParent \/ up[c] \in Endless
        BY <1>1, <2>1, <2>2 DEF IInv, Flat
    <2>4. up[c] \notin homeless
        <3>1. up[c] \in Endless => up[up[c]] \in out
            BY DEF Endless
        <3> QED BY <1>2, <2>2, <2>3, <3>1
    <2> QED BY <1>1, <2>1, <2>2, <2>4
<1>8. Traced' /\ Climbing' /\ OrphanedOnlyBy'
    BY <1>1, <1>7 DEF Traced, Climbing, OrphanedOnlyBy
<1> QED BY <1>1, <1>4, <1>5, <1>6, <1>8, Given DEF IInv

LEMMA CompareStep ==
    ASSUME IInv, NEW a \in Cluster, NEW last \in Row, Compare(a, last)
    PROVE  IInv'
<1> DEFINE rivals == {b \in todo \ {a} : {a, b} \in similar /\ ~HasLost(b) /\ ~HasLost(a)}
           beaten == {b \in rivals : Outweighs(a, b)}
<1>1. /\ stage = "dedupe" /\ stage' = stage /\ a \in todo /\ todo' = todo \ {a}
      /\ last = NoParent \/ last \in todo
      /\ UNCHANGED <<inputs, out, up, listed, climb, size, similar>>
    BY DEF Compare
<1>2. lost' = [c \in Cluster |->
          IF c \in beaten THEN a
          ELSE IF c = a /\ last # NoParent THEN last ELSE lost[c]]
    BY DEF Compare
<1>3. /\ todo \subseteq Top /\ Top' = Top /\ beaten \subseteq todo
      /\ \A c \in Cluster : lost[c] # NoParent => {c, lost[c]} \subseteq Top
      /\ lost \in [Cluster -> Row]
    BY <1>1 DEF IInv, Duels, Top, TypeOK
<1> HIDE DEF beaten, rivals
<1>4. /\ lost' \in [Cluster -> Row]
      /\ \A c \in Cluster :
            lost'[c] = IF c \in beaten THEN a
                       ELSE IF c = a /\ last # NoParent THEN last ELSE lost[c]
    BY <1>2, <1>3 DEF Row
<1>5. Duels'
    <2>1. todo' \subseteq Top'
        BY <1>1, <1>3
    <2>2. \A c \in Cluster : lost'[c] # NoParent => {c, lost'[c]} \subseteq Top'
        BY <1>1, <1>3, <1>4
    <2> QED BY <1>1, <2>1, <2>2 DEF Duels
<1>6. TypeOK'
    BY <1>1, <1>4 DEF IInv, TypeOK, inputs, climb
<1>7. Unlinked' /\ Traced' /\ Agreed' /\ Climbing' /\ Flat'
    BY <1>1 DEF IInv, Unlinked, Traced, Agreed, Climbing, Flat, Tangle, Endless, inputs
<1>8. OrphanedOnlyBy'
    <2>1. Stranded = {}
        BY <1>1 DEF IInv, OrphanedOnlyBy, Flattened
    <2>2. Stranded' = {}
        BY <1>1, <2>1 DEF Stranded
    <2> QED BY <2>2 DEF OrphanedOnlyBy
<1> QED BY <1>1, <1>5, <1>6, <1>7, <1>8, Given DEF IInv

(* Losers and winners stand at the top level, so handing children over     *)
(* keeps two levels, and a child loses its parent only if the winner goes  *)
(* too.                                                                    *)
LEMMA MergeStep == IInv /\ MergeDuplicates => IInv'
<1> SUFFICES ASSUME IInv, MergeDuplicates PROVE IInv'
    OBVIOUS
<1>1. /\ stage = "dedupe" /\ stage' = "final" /\ UNCHANGED inputs /\ UNCHANGED <<climb, dedupe>>
      /\ out' = {c \in out : ~HasLost(c)}
      /\ up' = [c \in Cluster |-> IF c \in out' THEN Heir(up[c]) ELSE NoParent]
      /\ listed' = [c \in Cluster |->
            IF c \in out'
            THEN listed[c] \cup UNION {listed[x] : x \in {y \in Cluster : lost[y] = c}}
            ELSE {}]
    BY DEF MergeDuplicates
<1>2. /\ out \subseteq Cluster /\ out' \subseteq out /\ NoParent \notin Cluster
      /\ parent' = parent /\ lost' = lost
      /\ parent \in [Cluster -> Row] /\ up \in [Cluster -> Row] /\ lost \in [Cluster -> Row]
      /\ listed \in [Cluster -> SUBSET Cluster]
      /\ \A c \in out : c \in out' <=> lost[c] = NoParent
    BY <1>1, ViewAssumption DEF IInv, TypeOK, inputs, dedupe, HasLost
<1>3. \A c \in Cluster : lost[c] # NoParent =>
          /\ c \in out /\ up[c] = NoParent
          /\ lost[c] \in out /\ up[lost[c]] = NoParent
    BY <1>1 DEF IInv, Duels, Top
<1>4. /\ Heir(NoParent) = NoParent
      /\ \A c \in Cluster : /\ Heir(c) = IF lost[c] # NoParent THEN lost[c] ELSE c
                            /\ Heir(c) \in Cluster
    BY <1>2 DEF Heir, Row
<1>5. /\ up' \in [Cluster -> Row]
      /\ \A c \in Cluster : up'[c] = IF c \in out' THEN Heir(up[c]) ELSE NoParent
    BY <1>1, <1>2, <1>4 DEF Row
<1>6. /\ listed' \in [Cluster -> SUBSET Cluster]
      /\ \A c \in Cluster \ out' : listed'[c] = {}
      /\ \A c \in Cluster, d \in out' :
            c \in listed'[d] <=> c \in listed[d] \/ \E x \in Cluster : lost[x] = d /\ c \in listed[x]
    <2>1. \A S : UNION {listed[x] : x \in {y \in Cluster : lost[y] = S}} \subseteq Cluster
        BY <1>2
    <2>2. \A d \in Cluster : listed'[d] \subseteq Cluster
        BY <1>1, <1>2, <2>1
    <2> QED BY <1>1, <1>2, <2>2
<1>7. TypeOK'
    <2>1. size' \in [Cluster -> Nat] /\ similar' \subseteq SUBSET Cluster /\ todo' \subseteq Cluster
          /\ lost' \in [Cluster -> Row] /\ root' \in [Cluster -> Row] /\ hops' \in Nat
        BY <1>1 DEF IInv, TypeOK, climb, dedupe
    <2> QED BY <1>1, <1>2, <1>5, <1>6, <2>1, Given DEF TypeOK, Stages
<1>8. Unlinked' /\ Traced' /\ Climbing' /\ Duels'
    BY <1>1, <1>5, <1>6 DEF Unlinked, Traced, Climbing, Duels
<1>9. Agreed'
    <2> SUFFICES ASSUME NEW c \in out', NEW d \in out'
                 PROVE  c \in listed'[d] <=> up'[c] = d
        BY DEF Agreed
    <2>1. /\ c \in out /\ d \in out /\ c \in Cluster /\ d \in Cluster /\ d # NoParent
          /\ lost[d] = NoParent
        BY <1>2
    <2>2. \A x \in out : c \in listed[x] <=> up[c] = x
        BY <2>1 DEF IInv, Agreed
    <2>3. c \in listed'[d] <=> up[c] = d \/ (up[c] \in Cluster /\ lost[up[c]] = d)
        BY <1>3, <1>6, <2>1, <2>2
    <2>4. Heir(up[c]) = d <=> up[c] = d \/ (up[c] \in Cluster /\ lost[up[c]] = d)
        BY <1>2, <1>4, <2>1 DEF Row
    <2> QED BY <1>5, <2>1, <2>3, <2>4
<1>10. Endless \subseteq Endless'
    <2>1. /\ Endless \subseteq out /\ \A c \in Endless : up[c] \in Endless
          /\ \A S \in SUBSET out' : (\A c \in S : up'[c] \in S) => S \subseteq Endless'
        BY DEF Endless
    <2> HIDE DEF Endless
    <2>2. \A c \in Endless : c \in out' /\ up'[c] \in Endless
        BY <1>2, <1>3, <1>4, <1>5, <2>1
    <2>3. Endless \in SUBSET out'
        BY <2>2
    <2> QED BY <2>1, <2>2, <2>3
<1>12. Flat'
    <2> SUFFICES ASSUME NEW c \in out'
                 PROVE  /\ parent[c] = NoParent => up'[c] = NoParent
                        /\ \/ c \in Tangle
                           \/ /\ up'[c] = c => parent[c] = c
                              /\ up'[c] \in out' => up'[up'[c]] \in {NoParent, up'[c]}
                        /\ up'[c] \in out' => up'[up'[c]] = NoParent \/ up'[c] \in Endless'
        BY <1>1, <1>2, Given DEF Flat
    <2>1. /\ c \in out /\ c \in Cluster /\ c # NoParent /\ up'[c] = Heir(up[c])
          /\ parent[c] = NoParent => up[c] = NoParent
          /\ \/ c \in Tangle
             \/ /\ up[c] = c => parent[c] = c
                /\ up[c] \in out => up[up[c]] \in {NoParent, up[c]}
          /\ up[c] \in out => up[up[c]] = NoParent \/ up[c] \in Endless
        BY <1>1, <1>2, <1>5 DEF Flat, IInv
    <2>2. CASE up[c] = NoParent
        BY <1>2, <1>4, <2>1, <2>2
    <2>3. CASE up[c] \in Cluster /\ lost[up[c]] # NoParent
        <3>1. up'[c] = lost[up[c]] /\ up'[c] \in out /\ up[up'[c]] = NoParent
            BY <1>3, <1>4, <2>1, <2>3
        <3>2. up'[c] # c
            BY <1>2, <2>1, <2>3, <3>1
        <3>3. up'[c] \in out' => up'[up'[c]] = NoParent
            BY <1>2, <1>4, <1>5, <3>1
        <3> QED BY <1>2, <2>1, <2>3, <3>2, <3>3
    <2>4. CASE up[c] \in Cluster /\ lost[up[c]] = NoParent
        <3>1. up'[c] = up[c]
            BY <1>4, <2>1, <2>4
        <3>2. ASSUME up[c] \in out'
              PROVE  /\ up[c] \in out
                     /\ up[up[c]] = NoParent => up'[up[c]] = NoParent
                     /\ up[up[c]] = up[c] => up'[up[c]] = up[c]
            BY <1>2, <1>4, <1>5, <2>1, <2>4, <3>2
        <3> QED BY <1>10, <2>1, <3>1, <3>2
    <2> QED BY <1>2, <2>1, <2>2, <2>3, <2>4 DEF Row
<1>11. OrphanedOnlyBy'
    <2> SUFFICES ASSUME NEW c \in Stranded'
                 PROVE  lost[up'[c]] # NoParent /\ \E x \in Cluster : lost[x] = up'[c]
        BY <1>1, <1>2 DEF OrphanedOnlyBy, HasLost
    <2>1. c \in out' /\ c \in out /\ c \in Cluster /\ up'[c] \notin out' /\ up'[c] # NoParent
        BY <1>2 DEF Stranded
    <2>2. c \notin Stranded
        BY <1>1 DEF IInv, OrphanedOnlyBy, Flattened
    <2>3. up[c] \in out /\ up'[c] = Heir(up[c])
        BY <1>4, <1>5, <2>1, <2>2 DEF Stranded
    <2>4. lost[up[c]] # NoParent /\ up'[c] = lost[up[c]]
        BY <1>2, <1>4, <2>1, <2>3
    <2>5. up'[c] \in out
        BY <1>2, <1>3, <2>3, <2>4
    <2> QED BY <1>2, <2>1, <2>3, <2>4, <2>5
<1> QED BY <1>1, <1>7, <1>8, <1>9, <1>11, <1>12, Given DEF IInv

LEMMA FinalStep == IInv /\ FinalFilter => IInv'
<1> SUFFICES ASSUME IInv, FinalFilter PROVE IInv'
    OBVIOUS
<1>1. /\ stage = "final" /\ stage' = "done" /\ UNCHANGED inputs /\ UNCHANGED <<climb, dedupe>>
      /\ out' = out \ (Top \cap garbage)
      /\ up' = Only(up, out', NoParent) /\ listed' = Only(listed, out', {})
    BY DEF FinalFilter
<1>2. /\ up' \in [Cluster -> Row] /\ out \subseteq Cluster /\ out' \subseteq out
      /\ \A c \in Cluster : up'[c] = IF c \in out' THEN up[c] ELSE NoParent
    BY <1>1 DEF Only, Row, IInv, TypeOK
<1>3. Unlinked' /\ Agreed' /\ Flat' /\ listed' \in [Cluster -> SUBSET Cluster]
    <2>1. \A c \in out \ out' : up[c] \notin out
        BY <1>1, <1>2, ViewAssumption DEF Top
    <2> QED BY <1>1, <1>2, <2>1, DropRows
<1>4. TypeOK'
    <2>1. size' \in [Cluster -> Nat] /\ similar' \subseteq SUBSET Cluster /\ todo' \subseteq Cluster
          /\ lost' \in [Cluster -> Row] /\ root' \in [Cluster -> Row] /\ hops' \in Nat
        BY <1>1 DEF IInv, TypeOK, climb, dedupe
    <2> QED BY <1>1, <1>2, <1>3, <2>1, Given DEF TypeOK, Stages
<1>5. Traced' /\ Climbing' /\ Duels'
    BY <1>1 DEF Traced, Climbing, Duels
<1>6. OrphanedOnlyBy'
    <2> SUFFICES ASSUME NEW c \in Stranded'
                 PROVE  \/ lost[up[c]] # NoParent /\ \E x \in Cluster : lost[x] = up[c]
                        \/ up[c] \in garbage
        BY <1>1, <1>2 DEF OrphanedOnlyBy, HasLost, Stranded, inputs, dedupe
    <2>1. c \in out' /\ c \in out /\ up'[c] = up[c] /\ up[c] \notin out' /\ up[c] # NoParent
        BY <1>2 DEF Stranded
    <2>2. CASE up[c] \in out
        BY <1>1, <2>1, <2>2
    <2>3. CASE up[c] \notin out
        <3>1. c \in Stranded
            BY <2>1, <2>3 DEF Stranded
        <3> QED BY <1>1, <3>1 DEF IInv, OrphanedOnlyBy, Flattened, HasLost
    <2> QED BY <2>2, <2>3
<1> QED BY <1>1, <1>3, <1>4, <1>5, <1>6, Given DEF IInv

LEMMA NextIInv == IInv /\ [Next]_vars => IInv'
<1> SUFFICES ASSUME IInv, [Next]_vars PROVE IInv'
    OBVIOUS
<1>1. CASE UNCHANGED vars
    <2>1. TypeOK' /\ Unlinked' /\ Traced' /\ Agreed' /\ Climbing' /\ Flat'
        BY <1>1 DEF vars, inputs, climb, dedupe, IInv, TypeOK, Unlinked, Traced, Agreed,
               Climbing, Knot, Above, Flat, Tangle, Endless
    <2>2. Duels' /\ OrphanedOnlyBy'
        BY <1>1 DEF vars, inputs, dedupe, IInv, Duels, Top, OrphanedOnlyBy, Flattened, Stranded, HasLost
    <2>3. Shallow'
        BY <1>1, Given DEF vars, inputs
    <2> QED BY <2>1, <2>2, <2>3 DEF IInv
<1>2. CASE \E a \in Cluster, last \in Row : Compare(a, last)
    BY <1>2, CompareStep
<1> QED BY <1>1, <1>2, FilterStep, CollapseStep, ClimbStep, FlattenStep, CapsStep, CleanupStep,
          MergeStep, FinalStep DEF Next

THEOREM Invariance == Spec /\ Shallow => []IInv
BY InitIInv, NextIInv, PTL DEF Spec

(* Whatever the quality gate, the category caps and the comparison of      *)
(* titles decide: what is published is a hierarchy of two levels of the    *)
(* one in the graph, but for the situations on a cycle of parents or below *)
(* one, and child_ids tells the same as parent_id.                         *)
THEOREM ViewAlwaysConsistent == Spec /\ Shallow => []ViewConsistent
<1>1. IInv => ViewConsistent
    <2> SUFFICES ASSUME IInv, Flattened PROVE ViewConsistent
        BY DEF ViewConsistent, TwoLevels, ParentsAndListsAgree
    <2>1. out \subseteq Cluster /\ up \in [Cluster -> Cluster \cup {NoParent}]
        BY DEF IInv, TypeOK, Row
    <2>2. \A c \in Cluster \ out : up[c] = NoParent
        BY DEF IInv, Unlinked
    <2>3. \A c \in out :
              /\ parent[c] = NoParent => up[c] = NoParent
              /\ \/ c \in Contract!Tangled(Cluster, parent)
                 \/ /\ up[c] = c => parent[c] = c
                    /\ up[c] \in out => up[up[c]] \in {NoParent, up[c]}
        BY DEF IInv, Flat, Flattened, Tangle
    <2>4. TwoLevels
        BY <2>1, <2>2, <2>3 DEF TwoLevels, Contract!Views
    <2>5. ParentsAndListsAgree
        BY DEF ParentsAndListsAgree, IInv, Agreed
    <2> QED BY <2>4, <2>5 DEF ViewConsistent
<1> QED BY <1>1, Invariance, PTL

(* A published child whose parent is not published has one that won over   *)
(* a duplicate and lost to another, or one with a garbage title.           *)
THEOREM AlwaysOrphanedOnlyBy == Spec /\ Shallow => []OrphanedOnlyBy
<1>1. IInv => OrphanedOnlyBy
    BY DEF IInv
<1> QED BY <1>1, Invariance, PTL
-----------------------------------------------------------------------------
(* What is shown of a situation besides its place: its phase and severity  *)
(* (SituationLifecycle), for any durations, thresholds and events.         *)
LifecycleTypes ==
    /\ live \in BOOLEAN /\ open \in BOOLEAN
    /\ data \in Situation
    /\ agreed \in {NoTick} \cup Low..Critical

LEMMA Agreeing ==
    \A s \in Agreements : s \in Low..Critical
<1> SUFFICES ASSUME NEW s \in Agreements PROVE s \in Low..Critical
    OBVIOUS
<1>1. CASE s = Low
    BY <1>1 DEF Low, Critical
<1>2. CASE s # Low
    <2>1. PICK kids \in Families : s = Agreement(kids)
        BY <1>2 DEF Agreements
    <2> DEFINE from(t) == Cardinality({k \in DOMAIN kids : kids[k] >= t})
               Found == {Low} \cup {t \in Low..Critical : 100 * from(t) >= Share * from(Low)}
    <2>2. s = Max(Found)
        BY <2>1 DEF Agreement
    <2>3. Low \in Found /\ Found \subseteq Low..Critical
        BY DEF Low, Critical
    <2> HIDE DEF Found
    <2>4. \E x \in Found : \A y \in Found : x >= y
        <3>1. \A x \in Found : x \in {0, 1, 2, 3}
            BY <2>3 DEF Low, Critical
        <3> QED BY <2>3, <3>1
    <2>5. Max(Found) \in Found
        BY <2>4 DEF Max
    <2> QED BY <2>2, <2>3, <2>5
<1> QED BY <1>1, <1>2

LEMMA DeservedRange ==
    ASSUME NEW r
    PROVE  /\ Deserved(r) \in Low..Critical
           /\ r.phase \notin {"developing", "active"} => Deserved(r) <= Medium
BY DEF Deserved, Low, Medium, High, Critical

LEMMA SeverityRange ==
    ASSUME NEW r
    PROVE  /\ Severity(r) \in Low..Critical
           /\ r.phase \notin {"developing", "active"} => Severity(r) <= Medium
BY DeservedRange DEF Severity, AtMost, Low, Medium, High, Critical

LEMMA PhaseRange ==
    ASSUME NEW r PROVE NextPhase(r) \in Phases
BY DEF NextPhase, Phases

LEMMA EnteredFacts ==
    ASSUME NEW r \in Situation, NEW phase \in Phases
    PROVE  /\ Entered(r, phase) \in Situation
           /\ Entered(r, phase).phase = phase
           /\ Entered(r, phase).severity = r.severity
<1> DEFINE s == [r EXCEPT !.phase = phase]
           dwell == IF phase = r.phase THEN r.dwell ELSE 0
<1>1. Horizon \in Nat
    BY LifecycleAssumption
<1>2. dwell \in 0..Horizon
    BY <1>1 DEF Situation
<1>3. s \in Situation /\ s.phase = phase /\ s.severity = r.severity
    BY DEF Situation
<1>4. Entered(r, phase) = [s EXCEPT !.dwell = dwell]
    BY DEF Entered, Situation
<1> HIDE DEF s, dwell
<1> QED BY <1>2, <1>3, <1>4 DEF Situation

(* What a tick makes of a situation.                                       *)
LEMMA EvaluatedFacts ==
    ASSUME NEW r \in Situation
    PROVE  /\ Evaluated(r) \in Situation
           /\ \/ Evaluated(r).severity <= Medium
              \/ Evaluated(r).phase \in {"developing", "active"}
              \/ r.phase = "declining" /\ Evaluated(r).phase = "resolved"
<1>1. {"declining", "resolved"} \subseteq Phases
    BY DEF Phases
<1>2. CASE OldNews(r)
    <2>1. Evaluated(r) = Entered(r, "declining") /\ r.severity <= Medium
        BY <1>2 DEF Evaluated, OldNews
    <2> QED BY <2>1, <1>1, EnteredFacts
<1>3. CASE ~OldNews(r) /\ Overdue(r)
    <2>1. Evaluated(r) = Entered(r, "resolved") /\ r.phase = "declining"
        BY <1>3 DEF Evaluated, Overdue
    <2> QED BY <2>1, <1>1, EnteredFacts
<1>4. CASE ~OldNews(r) /\ ~Overdue(r)
    <2> DEFINE phase == IF Blocked(r) THEN r.phase ELSE NextPhase(r)
               next == Entered(r, phase)
               peak == AtLeast(next.peak, r.rate)
    <2>1. Evaluated(r) = [next EXCEPT !.peak = peak, !.severity = Severity(next)]
        BY <1>4 DEF Evaluated
    <2>2. phase \in Phases
        BY PhaseRange DEF Situation
    <2> HIDE DEF phase
    <2>3. next \in Situation
        BY <2>2, EnteredFacts
    <2> HIDE DEF next
    <2>4. peak \in 0..2
        BY <2>3 DEF AtLeast, Situation
    <2>5. /\ Severity(next) \in Low..Critical
          /\ next.phase \notin {"developing", "active"} => Severity(next) <= Medium
        BY SeverityRange
    <2> HIDE DEF peak
    <2>6. /\ Evaluated(r) \in Situation
          /\ Evaluated(r).severity = Severity(next) /\ Evaluated(r).phase = next.phase
        BY <2>1, <2>3, <2>4, <2>5 DEF Situation
    <2> QED BY <2>5, <2>6
<1> QED BY <1>2, <1>3, <1>4

LEMMA Under ==
    ASSUME NEW r \in Situation, NEW under \in BOOLEAN
    PROVE  /\ [r EXCEPT !.child = under] \in Situation
           /\ [r EXCEPT !.child = under].phase = r.phase
BY DEF Situation

LEMMA BlankFits == Blank \in Situation
<1>1. (CHOOSE t \in Topics : TRUE) \in Topics
    BY LifecycleAssumption
<1>2. Horizon \in Nat /\ MaxEvents \in Nat \ {0} /\ MaxSources \in Nat \ {0}
    BY LifecycleAssumption
<1> QED BY <1>1, <1>2 DEF Blank, Situation, Phases, Low, Critical

(* A tick that keeps the situation.                                        *)
Keeps ==
    /\ agreed' \in Low..Critical
    /\ \E under \in BOOLEAN :
          LET rated == Evaluated([data EXCEPT !.child = under])
          IN  data' = [rated EXCEPT !.severity = AtLeast(rated.severity, agreed')]

LEMMA KeepsFacts ==
    ASSUME LifecycleTypes, Keeps
    PROVE  /\ data' \in Situation
           /\ \/ data'.severity <= AtLeast(Medium, agreed')
              \/ data'.phase \in {"developing", "active"}
              \/ data.phase = "declining" /\ data'.phase = "resolved"
<1>1. PICK under \in BOOLEAN :
          data' = [Evaluated([data EXCEPT !.child = under]) EXCEPT
                     !.severity = AtLeast(Evaluated([data EXCEPT !.child = under]).severity, agreed')]
    BY DEF Keeps
<1> DEFINE r == [data EXCEPT !.child = under]
           rated == Evaluated(r)
<1>2. r \in Situation /\ r.phase = data.phase
    BY Under DEF LifecycleTypes
<1> HIDE DEF r
<1>3. /\ rated \in Situation
      /\ \/ rated.severity <= Medium
         \/ rated.phase \in {"developing", "active"}
         \/ r.phase = "declining" /\ rated.phase = "resolved"
    BY <1>2, EvaluatedFacts
<1>4. data' = [rated EXCEPT !.severity = AtLeast(rated.severity, agreed')]
    BY <1>1 DEF r
<1> HIDE DEF rated
<1>5. rated.severity \in 0..3 /\ agreed' \in 0..3
    BY <1>3 DEF Situation, Keeps, Low, Critical
<1>6. /\ AtLeast(rated.severity, agreed') \in Low..Critical
      /\ rated.severity <= Medium => AtLeast(rated.severity, agreed') <= AtLeast(Medium, agreed')
    BY <1>5 DEF AtLeast, Low, Medium, Critical
<1>7. /\ data' \in Situation
      /\ data'.severity = AtLeast(rated.severity, agreed') /\ data'.phase = rated.phase
    BY <1>3, <1>4, <1>6 DEF Situation
<1> QED BY <1>2, <1>3, <1>6, <1>7

(* One that prunes it.                                                     *)
Prunes == live' = FALSE /\ data' = Blank /\ open' = FALSE /\ agreed' = NoTick

LEMMA TickFacts == Tick => Keeps \/ Prunes
<1> SUFFICES ASSUME Tick PROVE Keeps \/ Prunes
    OBVIOUS
<1>1. CASE Prunes
    BY <1>1
<1>2. CASE ~Prunes
    <2>1. agreed' \in Agreements
        BY <1>2 DEF Tick, Prunes
    <2>2. PICK under \in BOOLEAN :
              \E rated \in {Evaluated([data EXCEPT !.child = under])} :
                 data' = [rated EXCEPT !.severity = AtLeast(@, agreed')]
        BY <1>2 DEF Tick, Prunes
    <2> DEFINE rated == Evaluated([data EXCEPT !.child = under])
    <2>3. data' = [rated EXCEPT !.severity = AtLeast(rated.severity, agreed')]
        BY <2>2
    <2>4. agreed' \in Low..Critical
        BY <2>1, Agreeing
    <2> QED BY <2>3, <2>4 DEF Keeps
<1> QED BY <1>1, <1>2

LEMMA CreateTypes ==
    ASSUME LifecycleTypes,
           NEW s \in Arriving, NEW topic \in Topics, NEW fresh \in BOOLEAN, NEW news \in BOOLEAN,
           Create(s, topic, fresh, news)
    PROVE  LifecycleTypes'
<1>1. /\ Horizon \in Nat /\ MaxEvents \in Nat \ {0} /\ s \in Low..Critical
    BY LifecycleAssumption DEF Low, Critical
<1> DEFINE rate == IF fresh THEN 1 ELSE 0
           newest == IF fresh THEN 0 ELSE Horizon
           age == IF news /\ ~fresh THEN Horizon ELSE 0
<1>2. rate \in 0..2 /\ newest \in 0..Horizon /\ age \in 0..Horizon /\ (~fresh) \in BOOLEAN
    BY <1>1
<1>3. data' = [Blank EXCEPT
                   !.severity = s, !.topic = topic, !.news = news, !.events = 1,
                   !.rate = rate, !.tail = ~fresh, !.newest = newest, !.age = age]
    BY DEF Create
<1> HIDE DEF rate, newest, age
<1>4. 1 \in 0..MaxEvents
    BY <1>1
<1>5. data' \in Situation
    BY <1>1, <1>2, <1>3, <1>4, BlankFits DEF Situation
<1> QED BY <1>5 DEF LifecycleTypes, Create

LEMMA AbsorbTypes ==
    ASSUME LifecycleTypes,
           NEW s \in Arriving, NEW fresh \in BOOLEAN, NEW widens \in BOOLEAN,
           Absorb(s, fresh, widens)
    PROVE  LifecycleTypes'
<1>1. /\ Horizon \in Nat /\ MaxEvents \in Nat \ {0} /\ MaxSources \in Nat \ {0}
      /\ s \in Low..Critical
    BY LifecycleAssumption DEF Low, Critical
<1> DEFINE severity == AtLeast(data.severity, s)
           newest == IF fresh THEN 0 ELSE data.newest
           age == IF data.news /\ ~fresh THEN Horizon ELSE data.age
           rate == IF fresh THEN AtMost(data.rate + 1, 2) ELSE data.rate
           events == AtMost(data.events + 1, MaxEvents)
           sources == IF widens /\ ~data.news THEN AtMost(data.sources + 1, MaxSources)
                      ELSE data.sources
<1>2. data \in Situation
    BY DEF LifecycleTypes
<1>3. /\ severity \in Low..Critical /\ newest \in 0..Horizon /\ age \in 0..Horizon
      /\ rate \in 0..2 /\ (~fresh) \in BOOLEAN
    <2>1. severity \in Low..Critical
        BY <1>1, <1>2 DEF Situation, AtLeast, Low, Critical
    <2>2. newest \in 0..Horizon /\ age \in 0..Horizon /\ (~fresh) \in BOOLEAN
        BY <1>1, <1>2 DEF Situation
    <2>3. rate \in 0..2
        BY <1>1, <1>2 DEF Situation, AtMost
    <2> QED BY <2>1, <2>2, <2>3
<1>4. events \in 0..MaxEvents /\ sources \in 1..MaxSources /\ 0 \in 0..Horizon
    BY <1>1, <1>2 DEF Situation, AtMost
<1>5. data' = [data EXCEPT
                   !.severity = severity, !.quiet = 0, !.newest = newest, !.tail = ~fresh,
                   !.age = age, !.rate = rate, !.events = events, !.sources = sources]
    BY <1>2 DEF Absorb, Situation
<1> HIDE DEF severity, newest, age, rate, events, sources
<1>6. data' \in Situation
    BY <1>2, <1>3, <1>4, <1>5 DEF Situation
<1> QED BY <1>6 DEF LifecycleTypes, Absorb

LEMMA ElapseTypes ==
    ASSUME LifecycleTypes, Elapse PROVE LifecycleTypes'
<1>1. Horizon \in Nat /\ data \in Situation
    BY LifecycleAssumption DEF LifecycleTypes
<1> DEFINE tail == data.tail \/ Older(data.newest) > Hours["stale"]
           peak == IF data.peak = 2 THEN 1 ELSE 0
           age == IF data.news THEN Older(data.age) ELSE 0
           dwell == IF data.phase \in {"active", "declining"} THEN Older(data.dwell) ELSE 0
<1>2. \A n \in 0..Horizon : Older(n) \in 0..Horizon
    BY <1>1 DEF Older, AtMost
<1>3. /\ age \in 0..Horizon /\ dwell \in 0..Horizon /\ peak \in 0..2 /\ 0 \in 0..2
      /\ Older(data.quiet) \in 0..Horizon /\ Older(data.newest) \in 0..Horizon
    BY <1>1, <1>2 DEF Situation
<1>4. tail \in BOOLEAN
    BY <1>1 DEF Situation
<1>5. data' = [data EXCEPT
                   !.rate = 0, !.peak = peak, !.quiet = Older(data.quiet),
                   !.newest = Older(data.newest), !.tail = tail, !.age = age, !.dwell = dwell]
    BY <1>1 DEF Elapse, Situation
<1> HIDE DEF tail, peak, age, dwell
<1>6. data' \in Situation
    BY <1>1, <1>3, <1>4, <1>5 DEF Situation
<1> QED BY <1>6 DEF LifecycleTypes, Elapse

LEMMA LifecycleStep ==
    ASSUME LifecycleTypes, [LifecycleNext]_lifecycleVars PROVE LifecycleTypes'
<1>1. CASE Settle
    BY <1>1 DEF Settle, LifecycleTypes, Situation
<1>2. CASE Tick
    <2>1. CASE Keeps
        <3>1. live' \in BOOLEAN /\ open' \in BOOLEAN
            BY <1>2 DEF Tick, LifecycleTypes
        <3> QED BY <2>1, <3>1, KeepsFacts DEF LifecycleTypes, Keeps
    <2>2. CASE Prunes
        BY <2>2, BlankFits DEF LifecycleTypes, Prunes
    <2> QED BY <1>2, <2>1, <2>2, TickFacts
<1>3. CASE UNCHANGED lifecycleVars
    BY <1>3 DEF lifecycleVars, LifecycleTypes
<1> QED BY <1>1, <1>2, <1>3, CreateTypes, AbsorbTypes, ElapseTypes DEF LifecycleNext

(* What the passes keep of a situation is a situation, whatever the hours, *)
(* the events and the ticks.                                               *)
THEOREM LifecycleTypeCorrect == LifecycleSpec => []LifecycleTypes
<1>1. LifecycleInit => LifecycleTypes
    BY BlankFits DEF LifecycleInit, LifecycleTypes
<1> QED BY <1>1, LifecycleStep, PTL DEF LifecycleSpec

(* After a tick (evaluate_phases) a situation is rated high only for what  *)
(* it is in its present phase, for its children, or in passing from        *)
(* declining to resolved, which leaves the severity alone.                 *)
THEOREM SeverityAlwaysEarned == LifecycleSpec => SeverityEarned
<1> DEFINE Earned ==
        agreed' # NoTick =>
           \/ data'.severity <= AtLeast(Medium, agreed')
           \/ data'.phase \in {"developing", "active"}
           \/ data.phase = "declining" /\ data'.phase = "resolved"
<1>1. LifecycleTypes /\ [LifecycleNext]_lifecycleVars => [Earned]_lifecycleVars
    <2> SUFFICES ASSUME LifecycleTypes, LifecycleNext, agreed' # NoTick PROVE Earned
        OBVIOUS
    <2>1. Tick
        <3>1. \A s \in Arriving, topic \in Topics, fresh, news \in BOOLEAN :
                  Create(s, topic, fresh, news) => agreed' = NoTick
            BY DEF Create
        <3>2. \A s \in Arriving, fresh, widens \in BOOLEAN :
                  Absorb(s, fresh, widens) => agreed' = NoTick
            BY DEF Absorb
        <3>3. Settle \/ Elapse => agreed' = NoTick
            BY DEF Settle, Elapse
        <3> QED BY <3>1, <3>2, <3>3 DEF LifecycleNext
    <2>2. Keeps
        BY <2>1, TickFacts DEF Prunes
    <2> QED BY <2>2, KeepsFacts
<1> QED BY <1>1, LifecycleTypeCorrect, PTL DEF LifecycleSpec, SeverityEarned
=============================================================================
