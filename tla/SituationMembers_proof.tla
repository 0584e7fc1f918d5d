----------------------- MODULE SituationMembers_proof -----------------------
(***************************************************************************)
(* Proofs about SituationMembers: what finds a situation, what it counts,  *)
(* and what leaves the noise buffer, for any events, terms, caps and any   *)
(* number of merges, splits, sweeps, searches and restarts.                *)
(***************************************************************************)
EXTENDS SituationMembers, SequenceTheorems, FiniteSetTheorems, TLAPS

Found1  == (Entity \cup Topic) \ Tag
Cluster == [terms : SUBSET Found1, links : Seq(Event), count : Nat, parent : Situation \cup {None}]
Held    == [event : Event, old : BOOLEAN]

GraphTypes ==
    /\ graph \in [Live -> Cluster] /\ Live \subseteq Situation
    /\ drawn \in Nat /\ \A s \in Live : s <= drawn
    /\ index \in [Term -> SUBSET Situation]

(* A group being merged has a situation to go into.                        *)
FlushTypes ==
    /\ buffer \in Seq(Held) /\ todo \in Seq(Held) /\ kept \in Seq(Held) /\ joining \in Seq(Held)
    /\ joining # <<>> => pass = "group" /\ into \in Live

(* The buffer is empty while a pass has its events, and they fit in it.    *)
Passes ==
    /\ pass \in {"none", "retry", "group"} /\ starts \in Nat
    /\ pass = "none" => kept = <<>>
    /\ pass # "retry" => todo = <<>>
    /\ pass # "none" => buffer = <<>>
    /\ Len(buffer) <= BufferMax /\ Len(todo) + Len(kept) <= BufferMax

IInv == GraphTypes /\ FlushTypes /\ IndexFollowsTerms /\ CountsCoverLinks
-----------------------------------------------------------------------------
(* Numbers.                                                                *)
LEMMA Bounds ==
    /\ Situation \subseteq Nat \ {0} /\ None \notin Situation
    /\ Event \subseteq Nat /\ IsFiniteSet(Event) /\ IsFiniteSet(Term)
    /\ Terms \in [Event -> SUBSET Term] /\ Derived \in [Event -> SUBSET Topic]
    /\ MaxLinks \in Nat \ {0} /\ ShedTarget \in Nat /\ ShedAbove \in Nat /\ ShedTarget <= ShedAbove
    /\ KeptLinks \in Nat /\ BufferMax \in Nat \ {0}
BY MembersAssumption

(* The newest links of a situation.                                        *)
LEMMA NewestFacts ==
    ASSUME NEW S, NEW links \in Seq(S), NEW n \in Nat
    PROVE  /\ Newest(links, n) \in Seq(S)
           /\ Len(Newest(links, n)) = AtMost(n, Len(links))
           /\ \A i \in 1..Len(Newest(links, n)) :
                 /\ Len(links) - AtMost(n, Len(links)) + i \in 1..Len(links)
                 /\ Newest(links, n)[i] = links[Len(links) - AtMost(n, Len(links)) + i]
<1> DEFINE l == Len(links)
           k == AtMost(n, l)
           first == l - k + 1
<1>1. l \in Nat /\ \A i \in 1..l : links[i] \in S
    BY LenProperties, ElementOfSeq
<1>2. k \in Nat /\ k <= l
    BY <1>1 DEF AtMost
<1>3. first \in Int /\ l \in Int /\ \A i \in first..l : links[i] \in S
    BY <1>1, <1>2
<1>4. /\ SubSeq(links, first, l) \in Seq(S)
      /\ Len(SubSeq(links, first, l)) = IF first <= l THEN l - first + 1 ELSE 0
      /\ \A i \in 1..l - first + 1 : SubSeq(links, first, l)[i] = links[first + i - 1]
    BY <1>3, SubSeqProperties
<1>5. Len(SubSeq(links, first, l)) = k
    BY <1>1, <1>2, <1>4
<1>6. \A i \in 1..k : l - k + i \in 1..l /\ SubSeq(links, first, l)[i] = links[l - k + i]
    <2>1. l - first + 1 = k /\ \A i \in 1..k : first + i - 1 = l - k + i
        BY <1>1, <1>2
    <2> QED BY <1>1, <1>2, <1>4, <2>1
<1> QED BY <1>4, <1>5, <1>6 DEF Newest

(* A new link is among the newest.                                         *)
LEMMA LinkedFacts ==
    ASSUME NEW links \in Seq(Event), NEW e \in Event
    PROVE  LET new == Newest(Append(links, e), MaxLinks)
           IN  /\ new \in Seq(Event) /\ Len(new) <= Len(links) + 1
               /\ e \in ToSet(new)
<1> DEFINE all == Append(links, e)
           new == Newest(all, MaxLinks)
<1>1. /\ all \in Seq(Event) /\ Len(links) \in Nat /\ Len(all) = Len(links) + 1
      /\ all[Len(links) + 1] = e
    BY AppendProperties, LenProperties
<1>2. MaxLinks \in Nat /\ MaxLinks > 0
    BY Bounds
<1>3. /\ new \in Seq(Event) /\ Len(new) = AtMost(MaxLinks, Len(all))
      /\ \A i \in 1..Len(new) : new[i] = all[Len(all) - AtMost(MaxLinks, Len(all)) + i]
    BY <1>1, <1>2, NewestFacts
<1> HIDE DEF new
<1>4. Len(new) \in 1..Len(all)
    BY <1>1, <1>2, <1>3 DEF AtMost
<1>5. Len(new) \in 1..Len(new) /\ new[Len(new)] = e
    BY <1>1, <1>3, <1>4
<1>6. e \in ToSet(new)
    BY <1>3, <1>5, LenProperties DEF ToSet
<1>7. Len(new) <= Len(links) + 1
    BY <1>1, <1>4
<1> QED BY <1>3, <1>6, <1>7 DEF new

LEMMA ConcatLinks ==
    ASSUME NEW a \in Seq(Event), NEW b \in Seq(Event)
    PROVE  /\ Newest(a \o b, MaxLinks) \in Seq(Event)
           /\ Len(Newest(a \o b, MaxLinks)) <= Len(a) + Len(b)
<1>1. /\ a \o b \in Seq(Event) /\ Len(a \o b) = Len(a) + Len(b)
      /\ Len(a) \in Nat /\ Len(b) \in Nat
    BY ConcatProperties, LenProperties
<1>2. MaxLinks \in Nat
    BY Bounds
<1>3. /\ Newest(a \o b, MaxLinks) \in Seq(Event)
      /\ Len(Newest(a \o b, MaxLinks)) = AtMost(MaxLinks, Len(a \o b))
    BY <1>1, <1>2, NewestFacts
<1> QED BY <1>1, <1>2, <1>3 DEF AtMost
-----------------------------------------------------------------------------
(* Ranks.  No two numbers have the same rank, so every rank is taken.      *)
Lower(S, key, x) == {y \in S : Before(key, y, x)}

LEMMA RankedFacts ==
    ASSUME NEW S, IsFiniteSet(S), S \subseteq Nat, NEW key \in [S -> Nat]
    PROVE  /\ Cardinality(S) \in Nat
           /\ Ranked(S, key) \in [1..Cardinality(S) -> S]
           /\ \A x \in S : \E n \in 1..Cardinality(S) : Ranked(S, key)[n] = x
<1> DEFINE c == Cardinality(S)
           rank == [x \in S |-> Cardinality(Lower(S, key, x))]
<1>1. c \in Nat
    BY FS_CardinalityType
<1>2. \A x \in S : Lower(S, key, x) \subseteq S /\ x \notin Lower(S, key, x)
    BY DEF Lower, Before
<1>3. \A x \in S : IsFiniteSet(Lower(S, key, x)) /\ Cardinality(Lower(S, key, x)) \in 0..c - 1
    <2> SUFFICES ASSUME NEW x \in S
                 PROVE  IsFiniteSet(Lower(S, key, x)) /\ Cardinality(Lower(S, key, x)) \in 0..c - 1
        OBVIOUS
    <2>1. /\ IsFiniteSet(Lower(S, key, x)) /\ Cardinality(Lower(S, key, x)) <= c
          /\ Cardinality(Lower(S, key, x)) # c
        BY <1>2, FS_Subset
    <2>2. Cardinality(Lower(S, key, x)) \in Nat
        BY <2>1, FS_CardinalityType
    <2> QED BY <1>1, <2>1, <2>2
<1>4. ASSUME NEW x \in S, NEW y \in S, Before(key, x, y)
      PROVE  rank[x] # rank[y]
    <2>1. Lower(S, key, x) \subseteq Lower(S, key, y) /\ x \in Lower(S, key, y)
        <3>1. \A z \in S : z \in Nat /\ key[z] \in Nat
            OBVIOUS
        <3>2. ASSUME NEW z \in S, Before(key, z, x)
              PROVE  Before(key, z, y)
            BY <1>4, <3>1, <3>2 DEF Before
        <3> QED BY <1>4, <3>2 DEF Lower
    <2>2. Cardinality(Lower(S, key, x)) = Cardinality(Lower(S, key, y))
             => Lower(S, key, y) = Lower(S, key, x)
        BY <1>3, <2>1, FS_Subset
    <2> QED BY <1>2, <2>1, <2>2
<1>5. \A x, y \in S : x = y \/ Before(key, x, y) \/ Before(key, y, x)
    BY DEF Before
<1>6. \A x, y \in S : rank[x] = rank[y] => x = y
    BY <1>4, <1>5
<1>7. rank \in Injection(S, 0..c - 1)
    <2>1. rank \in [S -> 0..c - 1]
        BY <1>3
    <2> QED BY <1>6, <2>1 DEF Injection, IsInjective
<1>8. IsFiniteSet(0..c - 1) /\ Cardinality(0..c - 1) = c
    BY <1>1, FS_Interval
<1>9. rank \in Surjection(S, 0..c - 1)
    BY <1>7, <1>8, FS_Injection
<1> HIDE DEF rank
<1>10. \A n \in 1..c : \E x \in S : rank[x] = n - 1
    <2>1. \A n \in 1..c : n - 1 \in 0..c - 1
        BY <1>1
    <2> QED BY <1>9, <2>1 DEF Surjection
<1>11. \A x \in S : rank[x] = Cardinality({y \in S : Before(key, y, x)})
    BY DEF rank, Lower
<1>12. \A n \in 1..c : Ranked(S, key)[n] \in S /\ rank[Ranked(S, key)[n]] = n - 1
    BY <1>10, <1>11 DEF Ranked
<1>13. Ranked(S, key) \in [1..c -> S]
    BY <1>12 DEF Ranked
<1>14. ASSUME NEW x \in S
       PROVE  \E n \in 1..c : Ranked(S, key)[n] = x
    <2>1. rank[x] \in 0..c - 1
        BY <1>7 DEF Injection
    <2>2. rank[x] + 1 \in 1..c /\ (rank[x] + 1) - 1 = rank[x]
        BY <1>1, <2>1
    <2>3. Ranked(S, key)[rank[x] + 1] = x
        BY <1>6, <1>12, <2>2
    <2> QED BY <2>2, <2>3
<1> QED BY <1>1, <1>13, <1>14

LEMMA InOrderFacts ==
    ASSUME NEW S, IsFiniteSet(S), S \subseteq Nat
    PROVE  /\ Cardinality(S) \in Nat /\ InOrder(S) \in [1..Cardinality(S) -> S]
           /\ InOrder(S) \in Seq(S) /\ Len(InOrder(S)) = Cardinality(S)
           /\ \A x \in S : \E n \in 1..Cardinality(S) : InOrder(S)[n] = x
<1>1. /\ Cardinality(S) \in Nat /\ InOrder(S) \in [1..Cardinality(S) -> S]
      /\ \A x \in S : \E n \in 1..Cardinality(S) : InOrder(S)[n] = x
    <2> DEFINE key == [x \in S |-> x]
    <2>1. key \in [S -> Nat] /\ InOrder(S) = Ranked(S, key)
        BY DEF InOrder
    <2> HIDE DEF key
    <2>2. ASSUME NEW k \in [S -> Nat]
          PROVE  /\ Cardinality(S) \in Nat /\ Ranked(S, k) \in [1..Cardinality(S) -> S]
                 /\ \A x \in S : \E n \in 1..Cardinality(S) : Ranked(S, k)[n] = x
        <3>1. /\ Cardinality(S) \in Nat
              /\ Ranked(S, k) \in [1..Cardinality(S) -> S]
              /\ \A x \in S : \E n \in 1..Cardinality(S) : Ranked(S, k)[n] = x
            BY RankedFacts, Zenon
        <3> QED BY <3>1
    <2> QED BY <2>1, <2>2
<1>2. InOrder(S) \in Seq(S) /\ Len(InOrder(S)) = Cardinality(S)
    BY <1>1, IsASeq, LenProperties
<1> QED BY <1>1, <1>2

LEMMA ByTimeFacts ==
    ASSUME NEW links \in Seq(Event)
    PROVE  ByTime(links) \in Seq(Event) /\ Len(ByTime(links)) = Len(links)
<1>1. Len(links) \in Nat /\ links \in [1..Len(links) -> Event] /\ links \in [1..Len(links) -> Nat]
    <2>1. Len(links) \in Nat /\ links \in [1..Len(links) -> Event]
        BY LenProperties
    <2> QED BY <2>1, Bounds
<1>2. IsFiniteSet(1..Len(links)) /\ Cardinality(1..Len(links)) = Len(links) /\ 1..Len(links) \subseteq Nat
    BY <1>1, FS_Interval
<1>3. Ranked(1..Len(links), links) \in [1..Len(links) -> 1..Len(links)]
    BY <1>1, <1>2, RankedFacts
<1>4. ByTime(links) \in [1..Len(links) -> Event]
    BY <1>1, <1>3 DEF ByTime
<1>5. ByTime(links) \in Seq(Event)
    BY <1>1, <1>4, IsASeq
<1> QED BY <1>1, <1>4, <1>5, LenProperties
-----------------------------------------------------------------------------
LEMMA InitIInv == Init => IInv
<1> SUFFICES ASSUME Init PROVE IInv
    OBVIOUS
<1>1. Live = {} /\ <<>> \in Seq(Held)
    BY EmptySeq DEF Init, Live
<1>2. GraphTypes
    BY <1>1 DEF Init, GraphTypes
<1>3. FlushTypes
    BY <1>1 DEF Init, FlushTypes
<1>4. IndexFollowsTerms /\ CountsCoverLinks
    BY <1>1 DEF Init, IndexFollowsTerms, CountsCoverLinks
<1> QED BY <1>2, <1>3, <1>4 DEF IInv

(* What a step of the graph keeps, apart from the buffer.                  *)
Whole == GraphTypes /\ IndexFollowsTerms /\ CountsCoverLinks

LEMMA Rest ==
    ASSUME Whole, UNCHANGED <<graph, index, drawn, shells>>
    PROVE  Whole' /\ Live' = Live
BY DEF Whole, GraphTypes, IndexFollowsTerms, CountsCoverLinks, Live

(* A situation takes an event.                                             *)
LEMMA AbsorbStep ==
    ASSUME Whole, NEW s \in Live, NEW e \in Event, Absorb(s, e)
    PROVE  Whole' /\ Live' = Live /\ e \in ToSet(graph'[s].links)
<1> DEFINE new == Terms[e] \ Tag
           old == graph[s].terms
           links == Newest(Append(graph[s].links, e), MaxLinks)
<1>1. PICK T \in Merged(old, new) :
          /\ graph' = [graph EXCEPT ![s].terms = T, ![s].count = @ + 1,
                                    ![s].links = Newest(Append(@, e), MaxLinks)]
          /\ index' = Entered(s, T, old \cup new)
          /\ UNCHANGED <<drawn, shells>>
    BY DEF Absorb
<1>2. graph \in [Live -> Cluster] /\ graph[s] \in Cluster /\ s \in Situation
    BY DEF Whole, GraphTypes
<1>3. old \in SUBSET Found1 /\ graph[s].links \in Seq(Event) /\ graph[s].count \in Nat
    BY <1>2 DEF Cluster
<1>4. new \subseteq Found1
    BY Bounds DEF Found1, Term
<1>5. T \subseteq old \cup new /\ T \in SUBSET Found1
    BY <1>3, <1>4 DEF Merged
<1>6. /\ links \in Seq(Event) /\ Len(links) <= Len(graph[s].links) + 1 /\ e \in ToSet(links)
      /\ Len(links) \in Nat /\ Len(graph[s].links) \in Nat
    BY <1>3, LinkedFacts, LenProperties
<1> HIDE DEF new, links
<1>7. /\ graph' \in [Live -> Cluster] /\ Live' = Live
      /\ graph'[s].terms = T /\ graph'[s].links = links /\ graph'[s].count = graph[s].count + 1
      /\ \A x \in Live \ {s} : graph'[x] = graph[x]
    <2>1. graph' = [graph EXCEPT ![s] = [graph[s] EXCEPT !.terms = T, !.count = @ + 1, !.links = links]]
        BY <1>1, <1>2 DEF links
    <2>2. [graph[s] EXCEPT !.terms = T, !.count = @ + 1, !.links = links] \in Cluster
        <3>1. graph[s].count + 1 \in Nat
            BY <1>3
        <3> QED BY <1>2, <1>5, <1>6, <3>1 DEF Cluster
    <2>3. DOMAIN graph = Live
        BY DEF Live
    <2>4. graph' \in [Live -> Cluster] /\ DOMAIN graph' = Live
        BY <1>2, <2>1, <2>2
    <2> QED BY <1>2, <2>1, <2>2, <2>4 DEF Live, Cluster
<1>8. index' = [t \in Term |-> CASE t \in T \ old -> index[t] \cup {s}
                                 [] t \in (old \cup new) \ T -> index[t] \ {s}
                                 [] OTHER -> index[t]]
    BY <1>1 DEF Entered, Reindexed
<1>9. GraphTypes'
    <2>1. index' \in [Term -> SUBSET Situation]
        BY <1>2, <1>8 DEF Whole, GraphTypes
    <2> QED BY <1>1, <1>7, <2>1 DEF Whole, GraphTypes
<1>10. ASSUME NEW t \in Term, NEW x \in Live
       PROVE  /\ t \in graph'[x].terms /\ x \notin index'[t] => t \in Topic /\ x \in shells
              /\ x \in index'[t] => t \in graph'[x].terms \/ t \in Tag
    <2>1. /\ t \in graph[x].terms /\ x \notin index[t] => t \in Topic /\ x \in shells
          /\ x \in index[t] => t \in graph[x].terms \/ t \in Tag
        BY DEF Whole, IndexFollowsTerms
    <2>2. CASE x # s
        BY <1>7, <1>8, <2>1, <2>2
    <2>3. CASE x = s
        BY <1>5, <1>7, <1>8, <2>1, <2>3
    <2> QED BY <2>2, <2>3
<1>11. IndexFollowsTerms'
    <2>1. \A t \in Term : \A x \in index'[t] : x \in Live \/ t \in Tag
        BY <1>8 DEF Whole, IndexFollowsTerms
    <2> QED BY <1>1, <1>7, <1>10, <2>1 DEF IndexFollowsTerms
<1>12. CountsCoverLinks'
    BY <1>3, <1>6, <1>7 DEF Whole, CountsCoverLinks
<1> QED BY <1>6, <1>7, <1>9, <1>11, <1>12 DEF Whole

(* A new situation is opened, or one of the same title takes the event.    *)
LEMMA CreateStep ==
    ASSUME Whole, NEW s \in Situation, NEW e \in Event, Create(s, e)
    PROVE  Whole' /\ Live \subseteq Live' /\ s \in Live' /\ e \in ToSet(graph'[s].links)
<1>1. CASE s \in TopLevel /\ Absorb(s, e)
    BY <1>1, AbsorbStep DEF TopLevel
<1>2. CASE ~(s \in TopLevel /\ Absorb(s, e))
    <2> DEFINE opening == Opening(e)
               r == [terms |-> opening \ Tag, links |-> <<e>>, count |-> 1, parent |-> None]
    <2>1. /\ s = drawn + 1 /\ drawn' = s /\ graph' = With(graph, s, r)
          /\ index' = Reindexed(s, opening, {}) /\ UNCHANGED shells
        BY <1>2 DEF Create, Opened
    <2>2. /\ graph \in [Live -> Cluster] /\ Live \subseteq Situation /\ drawn \in Nat
          /\ \A x \in Live : x <= drawn /\ x \in Nat
          /\ s \notin Live
        BY <2>1, Bounds DEF Whole, GraphTypes
    <2>3. opening \subseteq Term /\ opening \ Tag \in SUBSET Found1
        BY Bounds DEF Opening, Term, Found1
    <2>4. <<e>> \in Seq(Event) /\ Len(<<e>>) = 1 /\ e \in ToSet(<<e>>)
        BY DEF ToSet
    <2>5. r \in Cluster
        BY <2>3, <2>4 DEF Cluster
    <2> HIDE DEF opening
    <2>6. /\ Live' = Live \cup {s} /\ graph' \in [Live' -> Cluster] /\ graph'[s] = r
          /\ \A x \in Live : graph'[x] = graph[x]
        BY <2>1, <2>2, <2>5 DEF With, Live
    <2>7. /\ index' \in [Term -> SUBSET Situation]
          /\ \A t \in Term : index'[t] = IF t \in opening THEN index[t] \cup {s} ELSE index[t]
        BY <2>1 DEF Reindexed, Whole, GraphTypes
    <2>8. GraphTypes'
        <3>1. drawn' \in Nat /\ \A x \in Live' : x <= drawn'
            BY <2>1, <2>2, <2>6
        <3> QED BY <2>2, <2>6, <2>7, <3>1 DEF GraphTypes
    <2>9. IndexFollowsTerms'
        <3>1. ASSUME NEW t \in Term, NEW x \in Live', t \in graph'[x].terms, x \notin index'[t]
              PROVE  t \in Topic /\ x \in shells
            BY <2>3, <2>6, <2>7, <3>1 DEF Whole, IndexFollowsTerms
        <3>2. ASSUME NEW t \in Term, NEW x \in index'[t]
              PROVE  (x \in Live' /\ t \in graph'[x].terms) \/ t \in Tag
            BY <2>3, <2>6, <2>7 DEF Whole, IndexFollowsTerms
        <3> QED BY <2>1, <3>1, <3>2 DEF IndexFollowsTerms
    <2>10. CountsCoverLinks'
        <3>1. \A x \in Live : Len(graph[x].links) <= graph[x].count
            BY DEF Whole, CountsCoverLinks
        <3>2. Len(r.links) <= r.count
            BY <2>4
        <3> QED BY <2>6, <3>1, <3>2 DEF CountsCoverLinks
    <2> QED BY <2>4, <2>6, <2>8, <2>9, <2>10 DEF Whole
<1> QED BY <1>1, <1>2
(* Terms and index stay as they are.                                       *)
LEMMA SameTerms ==
    ASSUME Whole, UNCHANGED <<index, drawn, shells>>,
           DOMAIN graph' = Live,
           \A x \in Live : /\ graph'[x] \in Cluster /\ graph'[x].terms = graph[x].terms
                           /\ Len(graph'[x].links) <= graph'[x].count,
           graph' = [x \in Live |-> graph'[x]]
    PROVE  Whole' /\ Live' = Live
<1>1. Live' = Live
    BY DEF Live
<1>2. GraphTypes'
    BY <1>1 DEF Whole, GraphTypes
<1>3. IndexFollowsTerms'
    BY <1>1 DEF Whole, IndexFollowsTerms
<1>4. CountsCoverLinks'
    BY <1>1 DEF CountsCoverLinks
<1> QED BY <1>1, <1>2, <1>3, <1>4 DEF Whole

LEMMA AdoptStep ==
    ASSUME Whole, Adopt
    PROVE  Whole' /\ Live' = Live
<1>1. PICK p \in TopLevel, c \in TopLevel : \E moved \in SUBSET Kids(c) :
          /\ p # c
          /\ graph' = [s \in Live |->
                CASE s = p -> [graph[p] EXCEPT !.links = Newest(@ \o graph[c].links, MaxLinks),
                                               !.count = SummedCount(p, c)]
                  [] s \in moved \cup {c} -> [graph[s] EXCEPT !.parent = p]
                  [] s \in Kids(c) \ moved -> [graph[s] EXCEPT !.parent = None]
                  [] OTHER -> graph[s]]
    BY DEF Adopt
<1>2. PICK moved \in SUBSET Kids(c) :
          /\ p # c
          /\ graph' = [s \in Live |->
                CASE s = p -> [graph[p] EXCEPT !.links = Newest(@ \o graph[c].links, MaxLinks),
                                               !.count = SummedCount(p, c)]
                  [] s \in moved \cup {c} -> [graph[s] EXCEPT !.parent = p]
                  [] s \in Kids(c) \ moved -> [graph[s] EXCEPT !.parent = None]
                  [] OTHER -> graph[s]]
    BY <1>1
<1> DEFINE joined == Newest(graph[p].links \o graph[c].links, MaxLinks)
<1>3. /\ p \in Live /\ c \in Live /\ p \in Situation
      /\ \A x \in Live : graph[x] \in Cluster /\ Len(graph[x].links) <= graph[x].count
    BY DEF TopLevel, Whole, GraphTypes, CountsCoverLinks
<1>4. \A x \in Live : /\ graph[x].links \in Seq(Event) /\ graph[x].count \in Nat
                      /\ Len(graph[x].links) \in Nat /\ graph[x].terms \in SUBSET Found1
    BY <1>3, LenProperties DEF Cluster
<1>5. /\ joined \in Seq(Event) /\ Len(joined) \in Nat
      /\ Len(joined) <= Len(graph[p].links) + Len(graph[c].links)
    BY <1>3, <1>4, ConcatLinks, LenProperties
<1>6. SummedCount(p, c) \in Nat /\ Len(joined) <= SummedCount(p, c)
    <2>1. /\ graph[p].count \in Nat /\ Len(graph[p].links) \in Nat /\ Len(graph[p].links) <= graph[p].count
          /\ graph[c].count \in Nat /\ Len(graph[c].links) \in Nat /\ Len(graph[c].links) <= graph[c].count
        BY <1>3, <1>4
    <2>2. \A i, j, m, n, l \in Nat : i <= m /\ j <= n /\ l <= i + j => m + n \in Nat /\ l <= m + n
        OBVIOUS
    <2>3. graph[p].count + graph[c].count \in Nat /\ Len(joined) <= graph[p].count + graph[c].count
        BY <1>5, <2>1, <2>2
    <2> QED BY <2>3 DEF SummedCount
<1>7. ASSUME NEW x \in Live
      PROVE  /\ graph'[x] \in Cluster /\ graph'[x].terms = graph[x].terms
             /\ Len(graph'[x].links) <= graph'[x].count
    <2>1. CASE x = p
        <3>1. /\ graph'[x].terms = graph[p].terms /\ graph'[x].links = joined /\ graph'[x].count = SummedCount(p, c)
              /\ graph'[x] = [terms |-> graph[p].terms, links |-> joined, count |-> SummedCount(p, c), parent |-> graph[p].parent]
            <4>1. p \notin moved \cup {c} /\ p \notin Kids(c) \ moved
                BY <1>1, <1>2, <1>3, Bounds DEF TopLevel, Kids, Whole, GraphTypes
            <4> QED BY <1>2, <1>3, <2>1, <4>1 DEF Cluster
        <3> HIDE DEF joined
        <3> QED BY <1>3, <1>5, <1>6, <2>1, <3>1 DEF Cluster
    <2>2. CASE x # p
        <3>1. \/ graph'[x] = [graph[x] EXCEPT !.parent = p]
              \/ graph'[x] = [graph[x] EXCEPT !.parent = None]
              \/ graph'[x] = graph[x]
            BY <1>2, <2>2
        <3> QED BY <1>3, <1>4, <3>1 DEF Cluster
    <2> QED BY <2>1, <2>2
<1>8. DOMAIN graph' = Live /\ graph' = [x \in Live |-> graph'[x]]
    BY <1>2
<1> QED BY <1>7, <1>8, SameTerms DEF Adopt

LEMMA ReleaseStep ==
    ASSUME Whole, Release
    PROVE  Whole' /\ Live' = Live
<1>1. PICK c \in Live : graph' = [graph EXCEPT ![c].parent = None]
    BY DEF Release, TopLevel
<1>2. /\ graph \in [Live -> Cluster]
      /\ \A x \in Live : graph[x] \in Cluster /\ Len(graph[x].links) <= graph[x].count
    BY DEF Whole, GraphTypes, CountsCoverLinks
<1>3. ASSUME NEW x \in Live
      PROVE  /\ graph'[x] \in Cluster /\ graph'[x].terms = graph[x].terms
             /\ Len(graph'[x].links) <= graph'[x].count
    <2>1. graph'[x] = graph[x] \/ graph'[x] = [graph[x] EXCEPT !.parent = None]
        BY <1>1, <1>2
    <2> QED BY <1>2, <2>1 DEF Cluster
<1>4. DOMAIN graph' = Live /\ graph' = [x \in Live |-> graph'[x]]
    BY <1>1, <1>2
<1> QED BY <1>3, <1>4, SameTerms DEF Release-----------------------------------------------------------------------------
LEMMA SequenceOfSet ==
    ASSUME NEW S, IsFiniteSet(S)
    PROVE  /\ Cardinality(S) \in Nat /\ SetToSeq(S) \in [1..Cardinality(S) -> S]
           /\ Len(SetToSeq(S)) = Cardinality(S)
<1>1. PICK n \in Nat : ExistsBijection(1..n, S)
    BY FS_NatBijection
<1>2. Cardinality(S) = n
    BY <1>1, FS_CountingElements
<1>3. \E f \in [1..n -> S] : IsInjective(f)
    BY <1>1 DEF ExistsBijection, Bijection, Injection
<1>4. SetToSeq(S) \in [1..n -> S]
    BY <1>2, <1>3 DEF SetToSeq
<1>5. SetToSeq(S) \in Seq(S) /\ Len(SetToSeq(S)) = n
    BY <1>4, IsASeq, LenProperties
<1> QED BY <1>2, <1>4, <1>5

(* The share of a part is rounded up, and is a count.                      *)
LEMMA Shares ==
    ASSUME NEW s \in Live, graph[s] \in Cluster,
           NEW g, g # {}, g \subseteq graph[s].terms \cap Entity, graph[s].terms \subseteq Term
    PROVE  Share(s, g) \in Nat
<1> DEFINE ents == graph[s].terms \cap Entity
           whole == Cardinality(ents)
<1>1. IsFiniteSet(Term) /\ ents \subseteq Term /\ g \subseteq ents
    BY Bounds
<1>2. IsFiniteSet(ents) /\ IsFiniteSet(g)
    BY <1>1, FS_Subset
<1>3. whole \in Nat /\ Cardinality(g) \in Nat
    BY <1>2, FS_CardinalityType
<1>4. whole # 0
    BY <1>1, <1>2, FS_EmptySet
<1>5. graph[s].count \in Nat
    BY DEF Cluster
<1> HIDE DEF whole
<1>6. \A a, b, w \in Nat : w # 0 => (a * b + w - 1) \div w \in Nat
    <2> SUFFICES ASSUME NEW a \in Nat, NEW b \in Nat, NEW w \in Nat, w # 0
                 PROVE  (a * b + w - 1) \div w \in Nat
        OBVIOUS
    <2>1. a * b \in Nat
        OBVIOUS
    <2>2. \A n \in Nat : (n + w - 1) \div w \in Nat
        OBVIOUS
    <2> QED BY <2>1, <2>2
<1> QED BY <1>3, <1>4, <1>5, <1>6 DEF Share, whole

LEMMA ChildFacts ==
    ASSUME NEW s \in Live, s \in Situation, graph[s] \in Cluster,
           NEW g, g # {}, g \subseteq graph[s].terms \cap Entity,
           NEW topics, topics \subseteq graph[s].terms
    PROVE  /\ Child(s, g, topics) \in Cluster /\ Child(s, g, topics).terms = g \cup topics
           /\ Len(Child(s, g, topics).links) <= Child(s, g, topics).count
<1> DEFINE n == Share(s, g)
           l == Len(graph[s].links)
           oldest == SubSeq(graph[s].links, 1, AtMost(n, l))
<1>1. graph[s].terms \subseteq Found1 /\ graph[s].links \in Seq(Event)
    BY DEF Cluster
<1>2. n \in Nat
    BY <1>1, Shares DEF Found1, Term
<1>3. l \in Nat /\ \A i \in 1..l : graph[s].links[i] \in Event
    BY <1>1, LenProperties, ElementOfSeq
<1> HIDE DEF n, l
<1>4. AtMost(n, l) \in Nat /\ AtMost(n, l) <= n /\ AtMost(n, l) <= l
    BY <1>2, <1>3 DEF AtMost
<1>5. oldest \in Seq(Event) /\ Len(oldest) = AtMost(n, l)
    <2>1. \A i \in 1..AtMost(n, l) : graph[s].links[i] \in Event
        BY <1>3, <1>4
    <2>2. /\ oldest \in Seq(Event)
          /\ Len(oldest) = IF 1 <= AtMost(n, l) THEN AtMost(n, l) - 1 + 1 ELSE 0
        BY <1>4, <2>1, SubSeqProperties
    <2> QED BY <1>4, <2>2
<1>6. Child(s, g, topics) = [terms |-> g \cup topics, links |-> oldest, count |-> n, parent |-> s]
    BY DEF Child, n, l
<1> HIDE DEF oldest
<1> QED BY <1>1, <1>2, <1>4, <1>5, <1>6 DEF Cluster
(* A situation is split: what is born is new, and entered for its terms.   *)
LEMMA SplitStep ==
    ASSUME Whole, NEW s \in TopLevel, NEW P \in Divisions(graph[s].terms \cap Entity),
           NEW some \in [P -> SUBSET (graph[s].terms \cap Topic)], Parted(s, P, some)
    PROVE  Whole' /\ Live \subseteq Live'
<1> DEFINE groups == SetToSeq(P)
           new == {y \in Situation : y \in drawn + 1..drawn + Len(groups)}
           child(x) == Child(s, groups[x - drawn], some[groups[x - drawn]])
           shell == [graph[s] EXCEPT !.terms = @ \ Entity]
<1>2. /\ graph' = [x \in Live \cup new |->
                    CASE x \in drawn + 1..drawn + Len(groups) -> child(x)
                      [] x = s -> shell
                      [] OTHER -> graph[x]]
      /\ \A t \in Term : index'[t] =
            (IF t \in graph[s].terms THEN index[t] \ {s} ELSE index[t])
                \cup {y \in Situation : y \in drawn + 1..drawn + Len(groups) /\ t \in child(y).terms}
      /\ index' = [t \in Term |-> index'[t]]
      /\ drawn' = drawn + Len(groups) /\ shells' = shells \cup {s}
    BY DEF Parted
<1>3. /\ graph \in [Live -> Cluster] /\ Live \subseteq Situation /\ Situation \subseteq Nat
      /\ drawn \in Nat /\ \A x \in Live : x <= drawn
      /\ s \in Live /\ s \in Situation /\ graph[s] \in Cluster
    BY Bounds DEF TopLevel, Whole, GraphTypes
<1>4. /\ graph[s].terms \in SUBSET Found1
      /\ \A x \in Live : /\ graph[x].terms \in SUBSET Found1 /\ Len(graph[x].links) <= graph[x].count
                         /\ graph[x] \in Cluster
    BY <1>3 DEF Cluster, Whole, CountsCoverLinks
<1>5. /\ IsFiniteSet(P)
      /\ \A g \in P : /\ g # {} /\ g \subseteq graph[s].terms \cap Entity
                      /\ some[g] \subseteq graph[s].terms
    <2>1. P \subseteq SUBSET (graph[s].terms \cap Entity) /\ {} \notin P
        BY DEF Divisions
    <2>2. IsFiniteSet(graph[s].terms \cap Entity)
        BY <1>4, Bounds, FS_Subset DEF Found1, Term
    <2>3. IsFiniteSet(SUBSET (graph[s].terms \cap Entity))
        BY <2>2, FS_SUBSET
    <2> QED BY <2>1, <2>3, FS_Subset
<1>6. Len(groups) \in Nat /\ groups \in [1..Len(groups) -> P]
    BY <1>5, SequenceOfSet
<1> HIDE DEF groups
<1>7. ASSUME NEW x \in new
      PROVE  /\ child(x) \in Cluster /\ Len(child(x).links) <= child(x).count
             /\ child(x).terms \in SUBSET Found1
    <2>1. x - drawn \in 1..Len(groups)
        BY <1>3, <1>6
    <2>2. groups[x - drawn] \in P
        BY <1>6, <2>1
    <2>3. child(x) \in Cluster /\ Len(child(x).links) <= child(x).count
        BY <1>3, <1>5, <2>2, ChildFacts
    <2> QED BY <2>3 DEF Cluster
<1>8. /\ shell.terms = graph[s].terms \ Entity /\ shell.links = graph[s].links
      /\ shell.count = graph[s].count
    BY <1>3 DEF Cluster
<1>9. shell \in Cluster /\ Len(shell.links) <= shell.count
    <2>1. graph[s].terms \ Entity \in SUBSET Found1
        BY <1>4
    <2>2. \A T \in SUBSET Found1 : [graph[s] EXCEPT !.terms = T] \in Cluster
        BY <1>3 DEF Cluster
    <2>3. shell \in Cluster
        BY <2>1, <2>2
    <2> QED BY <1>3, <1>4, <1>8, <2>3
<1> HIDE DEF child, shell
<1>10. new \cap Live = {} /\ s \notin new
    BY <1>3, <1>6
<1>11. /\ \A x \in new : graph'[x] = child(x)
       /\ graph'[s] = shell
       /\ \A x \in Live \ {s} : graph'[x] = graph[x]
       /\ Live' = Live \cup new /\ DOMAIN graph' = Live \cup new
       /\ graph' = [x \in Live \cup new |-> graph'[x]]
    <2>1. \A x \in Live : x \notin drawn + 1..drawn + Len(groups)
        BY <1>3, <1>10
    <2>2. Live' = Live \cup new /\ DOMAIN graph' = Live \cup new
        BY <1>2 DEF Live
    <2> QED BY <1>2, <1>3, <2>1, <2>2
<1>12. \A t \in Term : index'[t] = (IF t \in graph[s].terms THEN index[t] \ {s} ELSE index[t])
                                      \cup {y \in new : t \in child(y).terms}
    BY <1>2
<1>13. GraphTypes'
    <2>1. \A x \in Live' : graph'[x] \in Cluster
        BY <1>4, <1>7, <1>9, <1>11
    <2>2. index' \in [Term -> SUBSET Situation]
        BY <1>2, <1>12 DEF Whole, GraphTypes
    <2>3. drawn' \in Nat /\ Live' \subseteq Situation
        BY <1>2, <1>3, <1>6, <1>11
    <2>4. \A x \in Live' : x <= drawn'
        BY <1>2, <1>3, <1>6, <1>11
    <2> QED BY <1>11, <2>1, <2>2, <2>3, <2>4 DEF GraphTypes
<1> HIDE DEF new
<1>14. IndexFollowsTerms'
    <2>1. ASSUME NEW t \in Term, NEW x \in Live', t \in graph'[x].terms, x \notin index'[t]
          PROVE  t \in Topic /\ x \in shells'
        <3>1. CASE x \in new
            BY <1>11, <1>12, <2>1, <3>1
        <3>2. CASE x = s
            BY <1>2, <1>4, <1>8, <1>11, <2>1, <3>2 DEF Found1
        <3>3. CASE x \in Live \ {s}
            BY <1>2, <1>11, <1>12, <2>1, <3>3 DEF Whole, IndexFollowsTerms
        <3> QED BY <1>11, <3>1, <3>2, <3>3
    <2>2. ASSUME NEW t \in Term, NEW x \in index'[t]
          PROVE  (x \in Live' /\ t \in graph'[x].terms) \/ t \in Tag
        <3>1. CASE x \in new /\ t \in child(x).terms
            BY <1>11, <3>1
        <3>2. CASE x \in index[t] /\ (x = s => t \notin graph[s].terms)
            BY <1>10, <1>11, <3>2 DEF Whole, IndexFollowsTerms
        <3> QED BY <1>12, <2>2, <3>1, <3>2
    <2> QED BY <2>1, <2>2 DEF IndexFollowsTerms
<1>15. CountsCoverLinks'
    BY <1>4, <1>7, <1>9, <1>11 DEF CountsCoverLinks
<1> QED BY <1>11, <1>13, <1>14, <1>15 DEF Whole
-----------------------------------------------------------------------------
LEMMA OrphanedFacts ==
    ASSUME NEW D, NEW g \in [D -> Cluster], NEW gone
    PROVE  /\ Orphaned(g, gone) \in [D -> Cluster] /\ DOMAIN Orphaned(g, gone) = D
           /\ \A x \in D : /\ Orphaned(g, gone)[x].terms = g[x].terms
                           /\ Orphaned(g, gone)[x].links = g[x].links
                           /\ Orphaned(g, gone)[x].count = g[x].count
<1>1. \A x \in D : Orphaned(g, gone)[x] = g[x] \/ Orphaned(g, gone)[x] = [g[x] EXCEPT !.parent = None]
    BY DEF Orphaned
<1>2. \A r \in Cluster : /\ [r EXCEPT !.parent = None] \in Cluster
                         /\ [r EXCEPT !.parent = None].terms = r.terms
                         /\ [r EXCEPT !.parent = None].links = r.links
                         /\ [r EXCEPT !.parent = None].count = r.count
    BY DEF Cluster
<1>3. DOMAIN Orphaned(g, gone) = D /\ Orphaned(g, gone) = [x \in D |-> Orphaned(g, gone)[x]]
    BY DEF Orphaned
<1>4. \A x \in D : /\ Orphaned(g, gone)[x] \in Cluster
                   /\ Orphaned(g, gone)[x].terms = g[x].terms
                   /\ Orphaned(g, gone)[x].links = g[x].links
                   /\ Orphaned(g, gone)[x].count = g[x].count
    <2>1. \A x \in D : g[x] \in Cluster
        OBVIOUS
    <2> QED BY <1>1, <1>2, <2>1
<1> QED BY <1>3, <1>4

LEMMA PruneStep ==
    ASSUME Whole, Prune
    PROVE  Whole'
<1>1. PICK s \in Live : /\ graph' = Orphaned(Without(graph, {s}), {s})
                        /\ index' = Forgotten({s}, index)
    BY DEF Prune
<1> DEFINE g == Without(graph, {s})
           D == Live \ {s}
<1>2. g \in [D -> Cluster] /\ \A x \in D : g[x] = graph[x]
    BY DEF Whole, GraphTypes, Without, Live
<1>9. graph' = Orphaned(g, {s})
    BY <1>1
<1> HIDE DEF g
<1>3. /\ graph' \in [D -> Cluster] /\ DOMAIN graph' = D
      /\ \A x \in D : /\ graph'[x].terms = graph[x].terms
                      /\ graph'[x].links = graph[x].links
                      /\ graph'[x].count = graph[x].count
    BY <1>2, <1>9, OrphanedFacts
<1>4. Live' = D
    BY <1>3 DEF Live
<1>5. /\ \A t \in Term : index'[t] = {x \in index[t] : ~(x = s /\ t \in graph[s].terms)}
      /\ index' \in [Term -> SUBSET Situation]
    BY <1>1 DEF Forgotten, Whole, GraphTypes
<1>6. GraphTypes'
    BY <1>3, <1>4, <1>5 DEF Whole, GraphTypes, Prune
<1>7. IndexFollowsTerms'
    BY <1>3, <1>4, <1>5 DEF Whole, IndexFollowsTerms, Prune
<1>8. CountsCoverLinks'
    BY <1>3, <1>4 DEF Whole, CountsCoverLinks
<1> QED BY <1>6, <1>7, <1>8 DEF Whole

LEMMA ShedFacts ==
    ASSUME NEW r \in Cluster, NEW T \in SUBSET Found1, Len(r.links) <= r.count
    PROVE  /\ Shed([r EXCEPT !.terms = T]) \in Cluster /\ Shed([r EXCEPT !.terms = T]).terms = T
           /\ Len(Shed([r EXCEPT !.terms = T]).links) <= Shed([r EXCEPT !.terms = T]).count
<1> DEFINE q == [r EXCEPT !.terms = T]
           few == Newest(r.links, ShedTarget)
<1>1. q \in Cluster /\ q.terms = T /\ q.links = r.links /\ q.count = r.count
    BY DEF Cluster
<1>2. r.links \in Seq(Event) /\ Len(r.links) \in Nat /\ ShedTarget \in Nat
    BY Bounds, LenProperties DEF Cluster
<1>3. few \in Seq(Event) /\ Len(few) = AtMost(ShedTarget, Len(r.links))
    BY <1>2, NewestFacts
<1>4. Len(few) <= ShedTarget
    BY <1>2, <1>3 DEF AtMost
<1> HIDE DEF q, few
<1>5. \/ Shed(q) = q
      \/ Shed(q) = [q EXCEPT !.links = few, !.count = ShedTarget]
    BY <1>1 DEF Shed, few
<1>6. /\ [q EXCEPT !.links = few, !.count = ShedTarget] \in Cluster
      /\ [q EXCEPT !.links = few, !.count = ShedTarget].terms = T
      /\ [q EXCEPT !.links = few, !.count = ShedTarget].links = few
      /\ [q EXCEPT !.links = few, !.count = ShedTarget].count = ShedTarget
    BY <1>1, <1>2, <1>3 DEF Cluster
<1>7. /\ Shed(q) \in Cluster /\ Shed(q).terms = T
      /\ Len(Shed(q).links) <= Shed(q).count
    BY <1>1, <1>4, <1>5, <1>6
<1> QED BY <1>7 DEF q

LEMMA SweepStep ==
    ASSUME Whole, Sweep
    PROVE  Whole'
<1>1. PICK terms \in Rarest :
       LET swept == [s \in Live |-> Shed([graph[s] EXCEPT !.terms = terms[s]])]
           children == Live \ TopLevel
       IN  \E gone \in SUBSET {s \in children : swept[s].count < OrphanMin} :
           \E freed \in SUBSET (children \ gone) :
              /\ graph' = Orphaned([s \in Live \ gone |->
                    IF s \in freed THEN [swept[s] EXCEPT !.parent = None] ELSE swept[s]], gone)
              /\ index' = Forgotten(gone, [t \in Term |->
                    {s \in index[t] : ~(s \in Live /\ t \in graph[s].terms \ terms[s])}])
    BY DEF Sweep
<1> DEFINE swept == [s \in Live |-> Shed([graph[s] EXCEPT !.terms = terms[s]])]
<1>2. PICK gone \in SUBSET Live, freed \in SUBSET Live :
              /\ graph' = Orphaned([s \in Live \ gone |->
                    IF s \in freed THEN [swept[s] EXCEPT !.parent = None] ELSE swept[s]], gone)
              /\ index' = Forgotten(gone, [t \in Term |->
                    {s \in index[t] : ~(s \in Live /\ t \in graph[s].terms \ terms[s])}])
    BY <1>1
<1> DEFINE D == Live \ gone
           g == [s \in D |-> IF s \in freed THEN [swept[s] EXCEPT !.parent = None] ELSE swept[s]]
<1>3. \A x \in Live : graph[x] \in Cluster /\ Len(graph[x].links) <= graph[x].count
    BY DEF Whole, GraphTypes, CountsCoverLinks
<1>4. \A x \in Live : terms[x] \subseteq graph[x].terms /\ terms[x] \in SUBSET Found1
    <2>1. \A x \in Live : terms[x] \subseteq graph[x].terms
        BY DEF Rarest, First
    <2> QED BY <1>3, <2>1 DEF Cluster
<1>5. \A x \in Live : /\ swept[x] \in Cluster /\ swept[x].terms = terms[x]
                      /\ Len(swept[x].links) <= swept[x].count
    BY <1>3, <1>4, ShedFacts
<1> HIDE DEF swept
<1>6. \A r \in Cluster : /\ [r EXCEPT !.parent = None] \in Cluster
                         /\ [r EXCEPT !.parent = None].terms = r.terms
                         /\ [r EXCEPT !.parent = None].links = r.links
                         /\ [r EXCEPT !.parent = None].count = r.count
    BY DEF Cluster
<1>7. /\ g \in [D -> Cluster]
      /\ \A x \in D : g[x].terms = terms[x] /\ Len(g[x].links) <= g[x].count
    BY <1>5, <1>6
<1>8. graph' = Orphaned(g, gone)
    BY <1>2
<1> HIDE DEF g
<1>9. /\ graph' \in [D -> Cluster] /\ DOMAIN graph' = D
      /\ \A x \in D : graph'[x].terms = terms[x] /\ Len(graph'[x].links) <= graph'[x].count
    BY <1>7, <1>8, OrphanedFacts
<1>10. Live' = D
    BY <1>9 DEF Live
<1>11. /\ \A t \in Term : index'[t] =
             {x \in index[t] : /\ ~(x \in Live /\ t \in graph[x].terms \ terms[x])
                               /\ ~(x \in gone /\ t \in graph[x].terms)}
       /\ index' \in [Term -> SUBSET Situation]
    BY <1>2 DEF Forgotten, Whole, GraphTypes
<1>12. GraphTypes'
    BY <1>9, <1>10, <1>11 DEF Whole, GraphTypes, Sweep
<1>13. IndexFollowsTerms'
    <2>1. ASSUME NEW t \in Term, NEW x \in Live', t \in graph'[x].terms, x \notin index'[t]
          PROVE  t \in Topic /\ x \in shells'
        BY <1>4, <1>9, <1>10, <1>11, <2>1 DEF Whole, IndexFollowsTerms, Sweep
    <2>2. ASSUME NEW t \in Term, NEW x \in index'[t]
          PROVE  (x \in Live' /\ t \in graph'[x].terms) \/ t \in Tag
        BY <1>9, <1>10, <1>11, <2>2 DEF Whole, IndexFollowsTerms
    <2> QED BY <2>1, <2>2 DEF IndexFollowsTerms
<1>14. CountsCoverLinks'
    BY <1>9, <1>10 DEF CountsCoverLinks
<1> QED BY <1>12, <1>13, <1>14 DEF Whole
-----------------------------------------------------------------------------
(* The answer of a search: a link for each row added.                      *)
LEMMA AnswerStep ==
    ASSUME Whole, Answer
    PROVE  Whole'
<1>1. PICK s \in DOMAIN asked, rows \in SUBSET Event :
          IF s \in Live
          THEN LET added == {e \in rows : Ref[e] \notin Refs(graph[s].links)}
                   terms == UNION {Terms[e] \ Tag : e \in added}
               IN  /\ graph' = [graph EXCEPT
                         ![s].links = Newest(@ \o InOrder(added), MaxLinks),
                         ![s].count = @ + Cardinality(added),
                         ![s].terms = @ \cup terms]
                   /\ index' = Reindexed(s, terms \ graph[s].terms, {})
          ELSE UNCHANGED <<graph, index>>
    BY DEF Answer, Queried
<1>2. CASE s \notin Live
    BY <1>1, <1>2, Rest DEF Answer, Queried
<1>3. CASE s \in Live
    <2> DEFINE added == {e \in rows : Ref[e] \notin Refs(graph[s].links)}
               terms == UNION {Terms[e] \ Tag : e \in added}
               old == graph[s].terms
               links == Newest(graph[s].links \o InOrder(added), MaxLinks)
               n == graph[s].count + Cardinality(added)
    <2>1. /\ graph' = [graph EXCEPT ![s] = [graph[s] EXCEPT !.links = links, !.count = n, !.terms = old \cup terms]]
          /\ index' = Reindexed(s, terms \ old, {})
        <3>1. graph' = [graph EXCEPT ![s].links = links, ![s].count = n, ![s].terms = old \cup terms]
            BY <1>1, <1>3 DEF Whole, GraphTypes
        <3>2. graph \in [Live -> Cluster]
            BY DEF Whole, GraphTypes
        <3> HIDE DEF links, n, terms
        <3>3. index' = Reindexed(s, terms \ old, {})
            BY <1>1, <1>3 DEF terms
        <3> QED BY <1>3, <3>1, <3>2, <3>3
    <2>2. /\ graph \in [Live -> Cluster] /\ graph[s] \in Cluster /\ s \in Situation
          /\ Len(graph[s].links) <= graph[s].count
        BY <1>3 DEF Whole, GraphTypes, CountsCoverLinks
    <2>3. /\ graph[s].links \in Seq(Event) /\ graph[s].count \in Nat /\ old \in SUBSET Found1
          /\ Len(graph[s].links) \in Nat
        BY <2>2, LenProperties DEF Cluster
    <2>4. added \subseteq Event /\ IsFiniteSet(added) /\ added \subseteq Nat
        BY Bounds, FS_Subset
    <2>5. /\ Cardinality(added) \in Nat /\ InOrder(added) \in Seq(Event)
          /\ Len(InOrder(added)) = Cardinality(added)
        <3>1. /\ Cardinality(added) \in Nat /\ InOrder(added) \in Seq(added)
              /\ Len(InOrder(added)) = Cardinality(added)
              /\ InOrder(added) \in [1..Cardinality(added) -> added]
            BY <2>4, InOrderFacts
        <3>2. InOrder(added) \in [1..Cardinality(added) -> Event]
            BY <2>4, <3>1
        <3> QED BY <3>1, <3>2, IsASeq
    <2>6. terms \subseteq Found1
        BY <2>4, Bounds DEF Found1, Term
    <2> HIDE DEF added, terms
    <2>7. /\ links \in Seq(Event) /\ Len(links) \in Nat
          /\ Len(links) <= Len(graph[s].links) + Cardinality(added)
        BY <2>3, <2>5, ConcatLinks, LenProperties
    <2>8. n \in Nat /\ Len(links) <= n
        <3>1. \A i, m, a, l \in Nat : i <= m /\ l <= i + a => m + a \in Nat /\ l <= m + a
            OBVIOUS
        <3> QED BY <2>2, <2>3, <2>5, <2>7, <3>1
    <2> HIDE DEF links, n
    <2> DEFINE r == [graph[s] EXCEPT !.links = links, !.count = n, !.terms = old \cup terms]
    <2>9. r \in Cluster /\ r.links = links /\ r.count = n /\ r.terms = old \cup terms
        <3>1. old \cup terms \in SUBSET Found1
            BY <2>3, <2>6
        <3>2. \A T \in SUBSET Found1 :
                 LET q == [graph[s] EXCEPT !.links = links, !.count = n, !.terms = T]
                 IN  q \in Cluster /\ q.links = links /\ q.count = n /\ q.terms = T
            BY <2>2, <2>7, <2>8 DEF Cluster
        <3> QED BY <3>1, <3>2
    <2>10. graph' = [graph EXCEPT ![s] = r]
        BY <2>1
    <2> HIDE DEF r
    <2>11. /\ graph' \in [Live -> Cluster] /\ Live' = Live /\ graph'[s] = r
           /\ \A x \in Live \ {s} : graph'[x] = graph[x]
        BY <1>3, <2>2, <2>9, <2>10 DEF Live
    <2>12. /\ \A t \in Term : index'[t] = IF t \in terms \ old THEN index[t] \cup {s} ELSE index[t]
           /\ index' \in [Term -> SUBSET Situation]
        <3>1. \A t \in Term : index'[t] = IF t \in terms \ old THEN index[t] \cup {s} ELSE index[t]
            BY <2>1 DEF Reindexed
        <3>2. index' = [t \in Term |-> index'[t]]
            BY <2>1 DEF Reindexed
        <3>3. \A t \in Term : index'[t] \in SUBSET Situation
            BY <2>2, <3>1 DEF Whole, GraphTypes
        <3> QED BY <3>1, <3>2, <3>3
    <2>13. GraphTypes'
        BY <2>11, <2>12 DEF Whole, GraphTypes, Answer, Queried
    <2>14. IndexFollowsTerms'
        <3>1. ASSUME NEW t \in Term, NEW x \in Live, t \in graph'[x].terms, x \notin index'[t]
              PROVE  t \in Topic /\ x \in shells
            BY <2>9, <2>11, <2>12, <3>1 DEF Whole, IndexFollowsTerms
        <3>2. ASSUME NEW t \in Term, NEW x \in index'[t]
              PROVE  (x \in Live /\ t \in graph'[x].terms) \/ t \in Tag
            BY <1>3, <2>9, <2>11, <2>12, <3>2 DEF Whole, IndexFollowsTerms
        <3> QED BY <2>11, <3>1, <3>2 DEF IndexFollowsTerms, Answer, Queried
    <2>15. CountsCoverLinks'
        BY <2>8, <2>9, <2>11 DEF Whole, CountsCoverLinks
    <2> QED BY <2>13, <2>14, <2>15 DEF Whole
<1> QED BY <1>2, <1>3

(* A restart enters every term of what it restores.                        *)
LEMMA RestartStep ==
    ASSUME Whole, Restart
    PROVE  Whole'
<1>1. PICK alive \in SUBSET Live : \E freed \in SUBSET alive :
          graph' = [s \in alive |-> Restored(s, alive, freed)]
    BY DEF Restart
<1>2. PICK freed \in SUBSET alive : graph' = [s \in alive |-> Restored(s, alive, freed)]
    BY <1>1
<1>3. Live \subseteq Situation /\ \A x \in Live : graph[x] \in Cluster /\ Len(graph[x].links) <= graph[x].count
    BY DEF Whole, GraphTypes, CountsCoverLinks
<1>4. Live' = alive /\ DOMAIN graph' = alive
    BY <1>2 DEF Live
<1>5. ASSUME NEW x \in alive
      PROVE  graph'[x] \in Cluster /\ Len(graph'[x].links) <= graph'[x].count
    <2> DEFINE r == graph[x]
               T == First(r.terms, Alphabet, RestoredTerms)
               links == ByTime(Newest(r.links, KeptLinks))
               p == IF r.parent \in alive /\ x \notin freed THEN r.parent ELSE None
    <2>1. graph'[x] = [r EXCEPT !.terms = T, !.links = links, !.parent = p]
        BY <1>2 DEF Restored
    <2>2. /\ r \in Cluster /\ Len(r.links) <= r.count /\ r.links \in Seq(Event) /\ r.terms \in SUBSET Found1
          /\ Len(r.links) \in Nat /\ r.count \in Nat
        BY <1>3, LenProperties DEF Cluster
    <2>3. T \in SUBSET Found1 /\ p \in Situation \cup {None}
        BY <1>3, <2>2 DEF First
    <2>4. Newest(r.links, KeptLinks) \in Seq(Event) /\ Len(Newest(r.links, KeptLinks)) <= Len(r.links)
        <3>1. KeptLinks \in Nat
            BY Bounds
        <3>2. /\ Newest(r.links, KeptLinks) \in Seq(Event)
              /\ Len(Newest(r.links, KeptLinks)) = AtMost(KeptLinks, Len(r.links))
            BY <2>2, <3>1, NewestFacts
        <3> QED BY <2>2, <3>1, <3>2 DEF AtMost
    <2>5. links \in Seq(Event) /\ Len(links) = Len(Newest(r.links, KeptLinks)) /\ Len(links) \in Nat
        BY <2>4, ByTimeFacts, LenProperties
    <2>6. Len(links) <= r.count
        BY <2>2, <2>4, <2>5
    <2> HIDE DEF T, links, p
    <2> QED BY <2>1, <2>2, <2>3, <2>5, <2>6 DEF Cluster
<1>6. index' = [t \in Term |-> {x \in alive : t \in graph'[x].terms}]
    BY <1>4 DEF Restart
<1>7. GraphTypes'
    <2>1. index' \in [Term -> SUBSET Situation]
        BY <1>3, <1>6
    <2>2. graph' = [x \in alive |-> graph'[x]]
        BY <1>2
    <2> QED BY <1>3, <1>4, <1>5, <2>1, <2>2 DEF Whole, GraphTypes, Restart
<1>8. IndexFollowsTerms'
    BY <1>4, <1>6 DEF IndexFollowsTerms
<1>9. CountsCoverLinks'
    BY <1>4, <1>5 DEF CountsCoverLinks
<1> QED BY <1>7, <1>8, <1>9 DEF Whole
-----------------------------------------------------------------------------
(* Sequences of held events.                                               *)
LEMMA TailFacts ==
    ASSUME NEW q \in Seq(Held), q # <<>>
    PROVE  /\ Head(q) \in Held /\ Head(q) = q[1] /\ Tail(q) \in Seq(Held)
           /\ ToSet(q) = ToSet(Tail(q)) \cup {Head(q)}
<1>1. /\ Head(q) \in Held /\ Head(q) = q[1] /\ Tail(q) \in Seq(Held)
      /\ Len(q) \in Nat \ {0} /\ Len(Tail(q)) = Len(q) - 1
      /\ \A i \in 1..Len(Tail(q)) : Tail(q)[i] = q[i + 1]
    BY HeadTailProperties, LenProperties, EmptySeq
<1>2. DOMAIN q = 1..Len(q) /\ DOMAIN Tail(q) = 1..Len(q) - 1
    BY <1>1, LenProperties
<1>3. ToSet(q) = {q[i] : i \in 1..Len(q)} /\ ToSet(Tail(q)) = {q[i + 1] : i \in 1..Len(q) - 1}
    BY <1>1, <1>2 DEF ToSet
<1>4. \A i \in 1..Len(q) : i = 1 \/ (i - 1 \in 1..Len(q) - 1 /\ (i - 1) + 1 = i)
    BY <1>1
<1>5. \A i \in 1..Len(q) - 1 : i + 1 \in 1..Len(q)
    BY <1>1
<1>6. 1 \in 1..Len(q)
    BY <1>1
<1>7. ToSet(q) \subseteq ToSet(Tail(q)) \cup {Head(q)}
    BY <1>1, <1>3, <1>4
<1>8. ToSet(Tail(q)) \cup {Head(q)} \subseteq ToSet(q)
    BY <1>1, <1>3, <1>5, <1>6
<1> QED BY <1>1, <1>7, <1>8

LEMMA AppendFacts ==
    ASSUME NEW q \in Seq(Held), NEW p \in Held
    PROVE  Append(q, p) \in Seq(Held) /\ ToSet(Append(q, p)) = ToSet(q) \cup {p}
<1>1. /\ Append(q, p) \in Seq(Held) /\ Len(Append(q, p)) = Len(q) + 1
      /\ Len(q) \in Nat /\ Append(q, p)[Len(q) + 1] = p
      /\ \A i \in 1..Len(q) : Append(q, p)[i] = q[i]
    BY AppendProperties, LenProperties
<1>2. DOMAIN q = 1..Len(q) /\ DOMAIN Append(q, p) = 1..Len(q) + 1
    BY <1>1, LenProperties
<1>3. \A i \in 1..Len(q) + 1 : i \in 1..Len(q) \/ i = Len(q) + 1
    BY <1>1
<1>4. \A i \in 1..Len(q) : i \in 1..Len(q) + 1
    BY <1>1
<1>5. Len(q) + 1 \in 1..Len(q) + 1
    BY <1>1
<1>6. ToSet(Append(q, p)) \subseteq ToSet(q) \cup {p}
    BY <1>1, <1>2, <1>3 DEF ToSet
<1>7. ToSet(q) \cup {p} \subseteq ToSet(Append(q, p))
    BY <1>1, <1>2, <1>4, <1>5 DEF ToSet
<1> QED BY <1>1, <1>6, <1>7

(* The events at some positions of kept, in the order they are kept.       *)
LEMMA OfFacts ==
    ASSUME kept \in Seq(Held), NEW S, S \subseteq DOMAIN kept
    PROVE  /\ Of(S) \in Seq(Held) /\ Len(Of(S)) = Cardinality(S) /\ Cardinality(S) \in Nat
           /\ \A i \in S : kept[i] \in ToSet(Of(S))
<1>1. DOMAIN kept = 1..Len(kept) /\ Len(kept) \in Nat /\ \A i \in DOMAIN kept : kept[i] \in Held
    BY LenProperties, ElementOfSeq
<1>2. IsFiniteSet(1..Len(kept)) /\ 1..Len(kept) \subseteq Nat
    BY <1>1, FS_Interval
<1>3. IsFiniteSet(S) /\ S \subseteq Nat
    BY <1>1, <1>2, FS_Subset
<1>4. /\ Cardinality(S) \in Nat /\ InOrder(S) \in [1..Cardinality(S) -> S]
      /\ \A x \in S : \E n \in 1..Cardinality(S) : InOrder(S)[n] = x
    BY <1>3, InOrderFacts
<1>5. Of(S) \in [1..Cardinality(S) -> Held] /\ \A n \in 1..Cardinality(S) : Of(S)[n] = kept[InOrder(S)[n]]
    BY <1>1, <1>4 DEF Of
<1>6. Of(S) \in Seq(Held) /\ Len(Of(S)) = Cardinality(S)
    BY <1>4, <1>5, IsASeq, LenProperties
<1>7. \A i \in S : kept[i] \in ToSet(Of(S))
    BY <1>4, <1>5 DEF ToSet
<1> QED BY <1>4, <1>6, <1>7
-----------------------------------------------------------------------------
LEMMA NotJoining ==
    ASSUME FlushTypes, pass = "none" \/ joining = <<>>
    PROVE  joining = <<>>
BY DEF FlushTypes

(* The invariant holds again if nothing but the graph and buffer change.   *)
LEMMA GraphOnly ==
    ASSUME IInv, Whole', UNCHANGED flush, joining = <<>> \/ Live \subseteq Live', buffer' \in Seq(Held)
    PROVE  IInv'
<1>1. FlushTypes'
    BY DEF IInv, FlushTypes, flush
<1> QED BY <1>1 DEF IInv, Whole

LEMMA IngestStep ==
    ASSUME IInv, NEW e \in Event, Ingest(e)
    PROVE  IInv'
<1>1. Whole /\ FlushTypes /\ joining = <<>> /\ buffer \in Seq(Held) /\ UNCHANGED flush
    BY NotJoining DEF IInv, Whole, FlushTypes, Ingest
<1>2. CASE \E s \in Candidates(e) : Absorb(s, e) /\ UNCHANGED buffer
    <2>1. PICK s \in Candidates(e) : Absorb(s, e) /\ UNCHANGED buffer
        BY <1>2
    <2>2. s \in Live
        BY DEF Candidates, Indexed
    <2>3. Whole' /\ buffer' \in Seq(Held)
        BY <1>1, <2>1, <2>2, AbsorbStep
    <2> QED BY <1>1, <2>3, GraphOnly
<1>3. CASE UNCHANGED <<graph, index, drawn, shells, buffer>>
    <2>1. Whole' /\ buffer' \in Seq(Held)
        BY <1>1, <1>3, Rest
    <2> QED BY <1>1, <2>1, GraphOnly
<1>4. CASE \E s \in Situation : Create(s, e) /\ UNCHANGED buffer
    <2>1. Whole' /\ buffer' \in Seq(Held)
        BY <1>1, <1>4, CreateStep
    <2> QED BY <1>1, <2>1, GraphOnly
<1>5. CASE Buffer(e)
    <2>1. UNCHANGED <<graph, index, drawn, shells>> /\ buffer' = PushedBack(e)
        BY <1>5 DEF Buffer
    <2>2. Pending(e) \in Held
        BY DEF Pending, Held
    <2>3. (IF Len(buffer) >= BufferMax THEN Tail(buffer) ELSE buffer) \in Seq(Held)
        <3>1. Len(buffer) >= BufferMax => buffer # <<>>
            BY Bounds, EmptySeq
        <3> QED BY <1>1, <3>1, TailFacts
    <2>4. buffer' \in Seq(Held)
        BY <2>1, <2>2, <2>3, AppendFacts DEF PushedBack
    <2>5. Whole'
        BY <1>1, <2>1, Rest
    <2> QED BY <1>1, <2>4, <2>5, GraphOnly
<1> QED BY <1>2, <1>3, <1>4, <1>5 DEF Ingest

LEMMA ElapseStep ==
    ASSUME IInv, Elapse
    PROVE  IInv'
<1>1. PICK n \in DOMAIN buffer :
          buffer' = [p \in DOMAIN buffer |-> [buffer[p] EXCEPT !.old = @ \/ p <= n]]
    BY DEF Elapse
<1>2. /\ Len(buffer) \in Nat /\ DOMAIN buffer = 1..Len(buffer)
      /\ \A p \in DOMAIN buffer : buffer[p] \in Held
    BY LenProperties, ElementOfSeq DEF IInv, FlushTypes
<1>3. \A r \in Held : \A b \in BOOLEAN : [r EXCEPT !.old = b] \in Held
    BY DEF Held
<1>4. \A p \in DOMAIN buffer : (buffer[p].old \/ p <= n) \in BOOLEAN
    OBVIOUS
<1>5. buffer' \in [1..Len(buffer) -> Held]
    BY <1>1, <1>2, <1>3, <1>4
<1>6. buffer' \in Seq(Held)
    BY <1>2, <1>5, IsASeq
<1>7. Whole' /\ UNCHANGED flush /\ joining = <<>>
    BY Rest, NotJoining DEF Elapse, IInv, Whole
<1> QED BY <1>6, <1>7, GraphOnly
-----------------------------------------------------------------------------
(* The flush of the buffer.                                                *)
LEMMA FlushStep ==
    ASSUME IInv, Flush
    PROVE  IInv'
<1>1. Whole'
    BY Rest DEF Flush, IInv, Whole
<1>2. FlushTypes'
    BY EmptySeq, NotJoining DEF Flush, IInv, FlushTypes
<1> QED BY <1>1, <1>2 DEF IInv, Whole

LEMMA RetryStep ==
    ASSUME IInv, Retry
    PROVE  IInv' /\ Live' = Live
<1>1. /\ Whole /\ todo \in Seq(Held) /\ kept \in Seq(Held) /\ joining = <<>>
      /\ todo # <<>> /\ todo' = Tail(todo) /\ UNCHANGED <<buffer, pass, joining, into>>
      /\ buffer \in Seq(Held)
    BY DEF Retry, IInv, Whole, FlushTypes
<1>2. /\ Head(todo) \in Held /\ Tail(todo) \in Seq(Held)
      /\ Head(todo).event \in Event
    BY <1>1, TailFacts DEF Held
<1>3. Whole' /\ Live' = Live /\ kept' \in Seq(Held)
    <2>1. CASE UNCHANGED <<graph, index, drawn, shells, kept>>
        BY <1>1, <2>1, Rest
    <2>2. CASE \E s \in Candidates(Head(todo).event) : Absorb(s, Head(todo).event) /\ UNCHANGED kept
        BY <1>1, <1>2, <2>2, AbsorbStep DEF Candidates, Indexed
    <2>3. CASE kept' = StillPending(Head(todo)) /\ UNCHANGED <<graph, index, drawn, shells>>
        BY <1>1, <1>2, <2>3, Rest, AppendFacts DEF StillPending
    <2> QED BY <2>1, <2>2, <2>3 DEF Retry
<1>4. FlushTypes'
    BY <1>1, <1>2, <1>3 DEF FlushTypes
<1> QED BY <1>3, <1>4 DEF IInv, Whole

LEMMA RetriedStep ==
    ASSUME IInv, Retried
    PROVE  IInv'
<1>1. Whole' /\ Live' = Live
    BY Rest DEF Retried, IInv, Whole
<1>2. FlushTypes'
    BY <1>1 DEF Retried, IInv, FlushTypes
<1> QED BY <1>1, <1>2 DEF IInv, Whole

LEMMA GroupOpensStep ==
    ASSUME IInv, NEW G \in Groups, NEW s \in Situation,
           pass = "group" /\ joining = <<>>,
           Create(s, Head(Of(G)).event),
           into' = s, joining' = Tail(Of(G)), kept' = Of(DOMAIN kept \ G),
           UNCHANGED <<bounds, buffer, pass, todo, asked>>
    PROVE  /\ IInv' /\ s \in Live'
           /\ Head(Of(G)) \in Held /\ Head(Of(G)).event \in ToSet(graph'[s].links)
           /\ ToSet(Of(G)) = ToSet(Tail(Of(G))) \cup {Head(Of(G))}
<1>1. Whole /\ buffer \in Seq(Held) /\ todo \in Seq(Held) /\ kept \in Seq(Held)
    BY DEF IInv, Whole, FlushTypes
<1>2. G \subseteq DOMAIN kept /\ DOMAIN kept \ G \subseteq DOMAIN kept /\ Cardinality(G) >= 2
    BY DEF Groups
<1>3. /\ Of(G) \in Seq(Held) /\ Len(Of(G)) = Cardinality(G) /\ Cardinality(G) \in Nat
      /\ Of(DOMAIN kept \ G) \in Seq(Held)
    BY <1>1, <1>2, OfFacts
<1>4. Of(G) # <<>>
    BY <1>2, <1>3, EmptySeq
<1>5. /\ Head(Of(G)) \in Held /\ Tail(Of(G)) \in Seq(Held)
      /\ ToSet(Of(G)) = ToSet(Tail(Of(G))) \cup {Head(Of(G))}
    BY <1>3, <1>4, TailFacts
<1>6. Head(Of(G)).event \in Event
    BY <1>5 DEF Held
<1>7. Whole' /\ s \in Live' /\ Head(Of(G)).event \in ToSet(graph'[s].links)
    BY <1>1, <1>6, CreateStep
<1>8. FlushTypes'
    BY <1>1, <1>3, <1>5, <1>7 DEF FlushTypes
<1> QED BY <1>5, <1>7, <1>8 DEF IInv, Whole

LEMMA GroupJoinsStep ==
    ASSUME IInv, GroupJoins
    PROVE  IInv' /\ Head(joining).event \in ToSet(graph'[into].links) /\ into \in Live'
<1>1. /\ Whole /\ buffer \in Seq(Held) /\ todo \in Seq(Held) /\ kept \in Seq(Held) /\ joining \in Seq(Held)
      /\ joining # <<>> /\ joining' = Tail(joining) /\ into \in Live /\ pass = "group"
      /\ UNCHANGED <<buffer, pass, todo, kept, into>>
    BY DEF IInv, Whole, FlushTypes, GroupJoins
<1>2. Head(joining) \in Held /\ Tail(joining) \in Seq(Held)
    BY <1>1, TailFacts
<1>3. Head(joining).event \in Event
    BY <1>2 DEF Held
<1>4. Whole' /\ Live' = Live /\ Head(joining).event \in ToSet(graph'[into].links)
    BY <1>1, <1>3, AbsorbStep DEF GroupJoins
<1>5. FlushTypes'
    BY <1>1, <1>2, <1>4 DEF FlushTypes
<1> QED BY <1>1, <1>4, <1>5 DEF IInv, Whole

LEMMA FlushedStep ==
    ASSUME IInv, Flushed
    PROVE  IInv'
<1>1. Whole'
    BY Rest DEF Flushed, IInv, Whole
<1>2. FlushTypes'
    BY EmptySeq DEF Flushed, IInv, FlushTypes
<1> QED BY <1>1, <1>2 DEF IInv, Whole
-----------------------------------------------------------------------------
LEMMA NextIInv == IInv /\ [Next]_vars => IInv'
<1> SUFFICES ASSUME IInv, [Next]_vars PROVE IInv'
    OBVIOUS
<1>0. Whole /\ FlushTypes /\ buffer \in Seq(Held) /\ <<>> \in Seq(Held)
    BY EmptySeq DEF IInv, Whole, FlushTypes
<1>1. CASE UNCHANGED vars
    <2>1. Whole' /\ Live' = Live
        BY <1>0, <1>1, Rest DEF vars
    <2>2. FlushTypes'
        BY <1>0, <1>1, <2>1 DEF vars, flush, FlushTypes
    <2> QED BY <2>1, <2>2 DEF IInv, Whole
<1>2. CASE \E e \in Event : Ingest(e)
    BY <1>2, IngestStep
<1>3. CASE Elapse
    BY <1>3, ElapseStep
<1>4. CASE Flush
    BY <1>4, FlushStep
<1>5. CASE Retry
    BY <1>5, RetryStep
<1>6. CASE Retried
    BY <1>6, RetriedStep
<1>7. CASE GroupOpens
    <2>1. PICK G \in Groups, s \in Situation :
              /\ Create(s, Head(Of(G)).event)
              /\ into' = s /\ joining' = Tail(Of(G)) /\ kept' = Of(DOMAIN kept \ G)
        BY <1>7 DEF GroupOpens
    <2> QED BY <1>7, <2>1, GroupOpensStep DEF GroupOpens
<1>8. CASE GroupJoins
    BY <1>8, GroupJoinsStep
<1>9. CASE Flushed
    BY <1>9, FlushedStep
<1>10. CASE Adopt \/ Release
    <2>1. Whole' /\ UNCHANGED <<buffer, flush>> /\ joining = <<>>
        BY <1>0, <1>10, AdoptStep, ReleaseStep, NotJoining DEF Adopt, Release
    <2> QED BY <1>0, <2>1, GraphOnly
<1>11. CASE Split
    <2>1. PICK s \in TopLevel : \E P \in Divisions(graph[s].terms \cap Entity) :
             \E some \in [P -> SUBSET (graph[s].terms \cap Topic)] : Parted(s, P, some)
        BY <1>11 DEF Split
    <2>2. PICK P \in Divisions(graph[s].terms \cap Entity) :
             \E some \in [P -> SUBSET (graph[s].terms \cap Topic)] : Parted(s, P, some)
        BY <2>1
    <2>3. Whole'
        BY <1>0, <2>2, SplitStep
    <2>4. UNCHANGED <<buffer, flush>> /\ joining = <<>>
        BY <1>0, <1>11, NotJoining DEF Split
    <2> QED BY <1>0, <2>3, <2>4, GraphOnly
<1>12. CASE Prune \/ Sweep
    <2>1. Whole' /\ UNCHANGED <<buffer, flush>> /\ joining = <<>>
        BY <1>0, <1>12, PruneStep, SweepStep, NotJoining DEF Prune, Sweep
    <2> QED BY <1>0, <2>1, GraphOnly
<1>13. CASE Ask
    <2>1. Whole' /\ UNCHANGED <<buffer, flush>> /\ joining = <<>>
        BY <1>0, <1>13, Rest, NotJoining DEF Ask
    <2> QED BY <1>0, <2>1, GraphOnly
<1>14. CASE Answer
    <2>1. Whole' /\ UNCHANGED <<buffer, flush>> /\ joining = <<>>
        BY <1>0, <1>14, AnswerStep, NotJoining DEF Answer, Queried
    <2> QED BY <1>0, <2>1, GraphOnly
<1>15. CASE Restart
    <2>1. Whole' /\ buffer' = <<>> /\ UNCHANGED flush /\ joining = <<>>
        BY <1>0, <1>15, RestartStep, NotJoining DEF Restart
    <2> QED BY <1>0, <2>1, GraphOnly
<1> QED BY <1>1, <1>2, <1>3, <1>4, <1>5, <1>6, <1>7, <1>8, <1>9, <1>10, <1>11, <1>12,
           <1>13, <1>14, <1>15 DEF Next

(* What finds a situation, and what it counts, in every reachable state.   *)
THEOREM MembersKept == Spec => []IInv
<1> QED BY InitIInv, NextIInv, PTL DEF Spec

(* The indices follow the terms of every situation (create_cluster,        *)
(* merge_into_cluster, sweep, prune_stale, retroactive_add, restore) but   *)
(* for the topics of what was split and for tags.                          *)
THEOREM IndexFollows == Spec => []IndexFollowsTerms
<1>1. IInv => IndexFollowsTerms
    BY DEF IInv
<1> QED BY <1>1, MembersKept, PTL

(* No situation counts fewer events than it links, after any merge, split, *)
(* sweep, search and restart.                                              *)
THEOREM CountsCover == Spec => []CountsCoverLinks
<1>1. IInv => CountsCoverLinks
    BY DEF IInv
<1> QED BY <1>1, MembersKept, PTL
-----------------------------------------------------------------------------
(* Where the events of the buffer are during a pass.                       *)
LEMMA InitPasses == Init => Passes
BY Bounds, EmptySeq DEF Init, Passes

LEMMA NextPasses ==
    ASSUME IInv, Passes, [Next]_vars
    PROVE  Passes'
<1>1. /\ buffer \in Seq(Held) /\ todo \in Seq(Held) /\ kept \in Seq(Held)
      /\ Len(buffer) \in Nat /\ Len(todo) \in Nat /\ Len(kept) \in Nat
      /\ BufferMax \in Nat \ {0} /\ Len(<<>>) = 0
    BY Bounds, LenProperties, EmptySeq DEF IInv, FlushTypes
<1>2. \A q \in Seq(Held) : q # <<>> => Len(Tail(q)) = Len(q) - 1 /\ Len(q) \in Nat \ {0}
    BY HeadTailProperties, LenProperties, EmptySeq
<1>3. \A q \in Seq(Held), r \in Held : Len(Append(q, r)) = Len(q) + 1
    BY AppendProperties
<1>4. CASE UNCHANGED <<pass, starts, kept, todo, buffer>>
    BY <1>4 DEF Passes
<1>5. CASE \E e \in Event : Ingest(e)
    <2>1. PICK e \in Event : Ingest(e)
        BY <1>5
    <2>2. pass = "none" /\ UNCHANGED <<pass, starts, kept, todo>>
        BY <2>1 DEF Ingest, flush
    <2>3. CASE UNCHANGED buffer
        BY <1>4, <2>2, <2>3
    <2>4. CASE Buffer(e)
        <3>1. buffer' = PushedBack(e) /\ Pending(e) \in Held
            BY <2>4 DEF Buffer, Pending, Held
        <3>2. CASE Len(buffer) >= BufferMax
            <4>1. buffer # <<>>
                BY <1>1, <3>2
            <4>2. Tail(buffer) \in Seq(Held) /\ Len(Tail(buffer)) = Len(buffer) - 1
                BY <1>1, <1>2, <4>1, TailFacts
            <4>3. Len(buffer') = Len(buffer)
                BY <1>1, <1>3, <3>1, <3>2, <4>2 DEF PushedBack
            <4> QED BY <2>2, <4>3 DEF Passes
        <3>3. CASE Len(buffer) < BufferMax
            <4>1. Len(buffer') = Len(buffer) + 1
                BY <1>1, <1>3, <3>1, <3>3 DEF PushedBack
            <4>2. Len(buffer) + 1 <= BufferMax
                BY <1>1, <3>3
            <4> QED BY <2>2, <4>1, <4>2 DEF Passes
        <3> QED BY <1>1, <3>2, <3>3
    <2> QED BY <2>1, <2>3, <2>4 DEF Ingest
<1>6. CASE Elapse
    <2>1. /\ pass = "none" /\ UNCHANGED <<pass, starts, kept, todo>>
          /\ \E n \in DOMAIN buffer :
                buffer' = [p \in DOMAIN buffer |-> [buffer[p] EXCEPT !.old = @ \/ p <= n]]
        BY <1>6 DEF Elapse, flush, bounds
    <2>2. DOMAIN buffer' = 1..Len(buffer)
        BY <1>1, <2>1, LenProperties
    <2>3. Len(buffer') = Len(buffer)
        <3>1. buffer' \in Seq(Held)
            BY <1>6, ElapseStep DEF IInv, FlushTypes
        <3>2. Len(buffer') \in Nat /\ DOMAIN buffer' = 1..Len(buffer')
            BY <3>1, LenProperties
        <3> QED BY <1>1, <2>2, <3>2
    <2> QED BY <2>1, <2>3 DEF Passes
<1>7. CASE Flush
    BY <1>1, <1>7 DEF Passes, Flush, bounds
<1>8. CASE Retry
    <2>1. /\ pass = "retry" /\ todo # <<>> /\ todo' = Tail(todo) /\ UNCHANGED <<pass, starts, buffer>>
          /\ kept' = kept \/ kept' = StillPending(Head(todo))
        BY <1>8 DEF Retry, bounds
    <2>2. Len(todo') = Len(todo) - 1 /\ Head(todo) \in Held /\ Len(todo) \in Nat \ {0}
        BY <1>1, <1>2, <2>1, TailFacts
    <2>3. Len(kept') = Len(kept) \/ Len(kept') = Len(kept) + 1
        BY <1>1, <1>3, <2>1, <2>2 DEF StillPending
    <2>4. Len(todo') + Len(kept') <= BufferMax
        <3>1. \A i \in Nat \ {0} : \A j, m, k, l \in Int :
                i + j <= m /\ k = i - 1 /\ (l = j \/ l = j + 1) => k + l <= m
            OBVIOUS
        <3>2. Len(todo') \in Int /\ Len(kept') \in Int /\ Len(todo) + Len(kept) <= BufferMax
            BY <1>1, <2>2, <2>3 DEF Passes
        <3> QED BY <1>1, <2>2, <2>3, <3>1, <3>2
    <2> QED BY <2>1, <2>4 DEF Passes
<1>9. CASE Retried
    BY <1>9 DEF Passes, Retried, bounds
<1>10. CASE GroupOpens
    <2>1. PICK G \in Groups : kept' = Of(DOMAIN kept \ G)
        BY <1>10 DEF GroupOpens
    <2>2. Len(kept') = Cardinality(DOMAIN kept \ G)
        BY <1>1, <2>1, OfFacts
    <2>3. DOMAIN kept = 1..Len(kept) /\ IsFiniteSet(1..Len(kept)) /\ Cardinality(1..Len(kept)) = Len(kept)
        <3>1. DOMAIN kept = 1..Len(kept)
            BY <1>1, LenProperties
        <3>2. IsFiniteSet(1..Len(kept)) /\ Cardinality(1..Len(kept)) = Len(kept)
            <4>1. \A n \in Nat : IsFiniteSet(1..n) /\ Cardinality(1..n) = n
                BY FS_Interval
            <4> QED BY <1>1, <4>1
        <3> QED BY <3>1, <3>2
    <2>4. Len(kept') \in Nat /\ Len(kept') <= Len(kept)
        BY <2>2, <2>3, FS_Subset, FS_CardinalityType
    <2>5. pass = "group" /\ UNCHANGED <<pass, starts, todo, buffer>>
        BY <1>10 DEF GroupOpens, bounds
    <2>6. Len(todo) + Len(kept') <= BufferMax
        <3>1. \A i, j, k, m \in Nat : i + j <= m /\ k <= j => i + k <= m
            OBVIOUS
        <3> QED BY <1>1, <2>4, <3>1 DEF Passes
    <2> QED BY <2>5, <2>6 DEF Passes
<1>11. CASE Flushed
    <2>1. Len(kept) <= BufferMax
        BY <1>1 DEF Passes
    <2> QED BY <1>1, <1>11, <2>1 DEF Passes, Flushed, bounds
<1>12. CASE Restart
    <2>1. starts' \in Nat /\ UNCHANGED <<pass, todo, kept>> /\ buffer' = <<>>
        BY <1>12 DEF Passes, Restart, flush
    <2> QED BY <1>1, <2>1 DEF Passes
<1>13. CASE GroupJoins \/ Adopt \/ Release \/ Split \/ Prune \/ Sweep \/ Ask \/ Answer
    BY <1>4, <1>13 DEF GroupJoins, Adopt, Release, Split, Prune, Sweep, Ask, Answer, Queried, flush, bounds
<1> QED BY <1>4, <1>5, <1>6, <1>7, <1>8, <1>9, <1>10, <1>11, <1>12, <1>13 DEF Next, vars, flush, bounds

THEOREM PassesKept == Spec => [](IInv /\ Passes)
<1>1. IInv /\ Passes /\ [Next]_vars => Passes'
    BY NextPasses
<1> QED BY <1>1, InitPasses, InitIInv, NextIInv, PTL DEF Spec
-----------------------------------------------------------------------------
(* How an event leaves what is waiting.                                    *)
LeftBy(p) ==
    \/ p.event \in {x.event : x \in Waiting(buffer)'}
    \/ \E s \in DOMAIN graph' : p.event \in ToSet(graph'[s].links)
    \/ p.old
    \/ Len(buffer) = BufferMax /\ p = Head(buffer) /\ received' # received
    \/ starts' # starts

LEMMA StillThere ==
    ASSUME NEW p, p \in ToSet(buffer)' \cup ToSet(todo)' \cup ToSet(kept)' \cup ToSet(joining)'
    PROVE  LeftBy(p)
BY DEF LeftBy, Waiting

LEMMA StillWaiting ==
    ASSUME UNCHANGED <<todo, kept, joining>>, NEW p \in Waiting(buffer),
           p \in ToSet(buffer) => LeftBy(p)
    PROVE  LeftBy(p)
BY StillThere DEF Waiting

LEMMA NextLeaves ==
    ASSUME IInv, Passes, [Next]_vars, NEW p \in Waiting(buffer)
    PROVE  LeftBy(p)
<1>1. /\ buffer \in Seq(Held) /\ todo \in Seq(Held) /\ kept \in Seq(Held) /\ joining \in Seq(Held)
      /\ Len(buffer) \in Nat /\ BufferMax \in Nat \ {0} /\ ToSet(<<>>) = {}
    BY Bounds, LenProperties DEF IInv, FlushTypes, ToSet
<1>2. CASE UNCHANGED <<buffer, todo, kept, joining>>
    BY <1>2, StillThere DEF Waiting
<1>3. CASE \E e \in Event : Ingest(e)
    <2>1. PICK e \in Event : Ingest(e)
        BY <1>3
    <2>2. UNCHANGED <<todo, kept, joining>> /\ e \notin received /\ received' = received \cup {e}
        BY <2>1 DEF Ingest, flush
    <2>3. CASE UNCHANGED buffer
        BY <1>2, <2>2, <2>3
    <2>4. CASE Buffer(e)
        <3>1. buffer' = PushedBack(e) /\ Pending(e) \in Held
            BY <2>4 DEF Buffer, Pending, Held
        <3>2. CASE Len(buffer) >= BufferMax
            <4>1. buffer # <<>> /\ Len(buffer) = BufferMax
                BY <1>1, <3>2, EmptySeq DEF Passes
            <4>2. Tail(buffer) \in Seq(Held) /\ ToSet(buffer) = ToSet(Tail(buffer)) \cup {Head(buffer)}
                BY <1>1, <4>1, TailFacts
            <4>3. ToSet(Tail(buffer)) \subseteq ToSet(buffer)'
                <5>1. buffer' = Append(Tail(buffer), Pending(e))
                    BY <3>1, <3>2 DEF PushedBack
                <5>2. Tail(buffer) \in Seq(Held)
                    BY <4>2
                <5>3. ToSet(Append(Tail(buffer), Pending(e))) = ToSet(Tail(buffer)) \cup {Pending(e)}
                    BY <3>1, <5>2, AppendFacts
                <5> QED BY <5>1, <5>3
            <4>4. p = Head(buffer) => LeftBy(p)
                BY <2>2, <4>1 DEF LeftBy
            <4> QED BY <2>2, <4>2, <4>3, <4>4, StillThere, StillWaiting
        <3>3. CASE Len(buffer) < BufferMax
            <4>1. ToSet(buffer) \subseteq ToSet(buffer)'
                <5>1. buffer' = Append(buffer, Pending(e))
                    BY <1>1, <3>1, <3>3 DEF PushedBack
                <5> QED BY <1>1, <3>1, <5>1, AppendFacts
            <4> QED BY <2>2, <4>1, StillThere, StillWaiting
        <3> QED BY <1>1, <3>2, <3>3
    <2> QED BY <2>1, <2>3, <2>4 DEF Ingest
<1>4. CASE Elapse
    <2>1. PICK n \in DOMAIN buffer :
              buffer' = [q \in DOMAIN buffer |-> [buffer[q] EXCEPT !.old = @ \/ q <= n]]
        BY <1>4 DEF Elapse
    <2>2. UNCHANGED <<todo, kept, joining>>
        BY <1>4 DEF Elapse, flush
    <2>3. ASSUME p \in ToSet(buffer)
          PROVE  p.event \in {x.event : x \in Waiting(buffer)'}
        <3>1. PICK i \in DOMAIN buffer : p = buffer[i]
            BY <2>3 DEF ToSet
        <3>2. buffer[i] \in Held
            BY <1>1, LenProperties, ElementOfSeq
        <3>3. buffer'[i].event = p.event /\ i \in DOMAIN buffer'
            BY <2>1, <3>1, <3>2 DEF Held
        <3>4. buffer'[i] \in Waiting(buffer)'
            BY <3>3 DEF Waiting, ToSet
        <3> QED BY <3>3, <3>4
    <2> QED BY <2>2, <2>3, StillWaiting DEF LeftBy
<1>5. CASE Flush
    BY <1>1, <1>5, StillThere DEF Flush, Passes, Waiting
<1>6. CASE Retry
    <2>1. /\ todo # <<>> /\ todo' = Tail(todo) /\ UNCHANGED <<buffer, joining>>
          /\ Head(todo) \in Held
          /\ \/ Head(todo).old /\ UNCHANGED kept
             \/ /\ \E s \in Candidates(Head(todo).event) : Absorb(s, Head(todo).event)
                /\ UNCHANGED kept
             \/ kept' = Append(kept, Head(todo))
        BY <1>1, <1>6, TailFacts DEF Retry, StillPending
    <2>2. ToSet(todo) = ToSet(todo)' \cup {Head(todo)}
        BY <1>1, <2>1, TailFacts
    <2>3. ToSet(kept) \subseteq ToSet(kept)'
        BY <1>1, <2>1, AppendFacts
    <2>4. LeftBy(Head(todo))
        <3>1. CASE Head(todo).old
            BY <3>1 DEF LeftBy
        <3>2. CASE \E s \in Candidates(Head(todo).event) : Absorb(s, Head(todo).event)
            <4>1. PICK s \in Live : Absorb(s, Head(todo).event)
                BY <3>2 DEF Candidates, Indexed
            <4>2. Whole /\ Head(todo).event \in Event
                BY <2>1 DEF IInv, Whole, Held
            <4>3. s \in Live' /\ Head(todo).event \in ToSet(graph'[s].links)
                BY <4>1, <4>2, AbsorbStep
            <4> QED BY <4>3 DEF LeftBy, Live
        <3>3. CASE kept' = Append(kept, Head(todo))
            BY <1>1, <2>1, <3>3, AppendFacts, StillThere
        <3> QED BY <2>1, <3>1, <3>2, <3>3
    <2> QED BY <2>1, <2>2, <2>3, <2>4, StillThere DEF Waiting
<1>7. CASE GroupOpens
    <2>1. PICK G \in Groups, s \in Situation :
              /\ Create(s, Head(Of(G)).event)
              /\ into' = s /\ joining' = Tail(Of(G)) /\ kept' = Of(DOMAIN kept \ G)
        BY <1>7 DEF GroupOpens
    <2>2. /\ pass = "group" /\ joining = <<>>
          /\ UNCHANGED <<bounds, buffer, pass, todo, asked>>
        BY <1>7 DEF GroupOpens
    <2>3. /\ s \in Live' /\ Head(Of(G)).event \in ToSet(graph'[s].links)
          /\ ToSet(Of(G)) = ToSet(joining)' \cup {Head(Of(G))}
        BY <2>1, <2>2, GroupOpensStep
    <2>4. LeftBy(Head(Of(G)))
        BY <2>3 DEF LeftBy, Live
    <2>5. G \subseteq DOMAIN kept /\ DOMAIN kept \ G \subseteq DOMAIN kept
        BY DEF Groups
    <2>6. \A i \in G : kept[i] \in ToSet(Of(G))
        BY <1>1, <2>5, OfFacts
    <2>7. \A i \in DOMAIN kept \ G : kept[i] \in ToSet(kept)'
        BY <1>1, <2>1, <2>5, OfFacts
    <2>8. p \in ToSet(kept) => \E i \in DOMAIN kept : p = kept[i]
        BY DEF ToSet
    <2> QED BY <1>1, <2>2, <2>3, <2>4, <2>6, <2>7, <2>8, StillThere DEF Waiting
<1>8. CASE GroupJoins
    <2>1. /\ joining # <<>> /\ joining' = Tail(joining) /\ UNCHANGED <<buffer, todo, kept>>
          /\ into' = into
        BY <1>8 DEF GroupJoins
    <2>2. /\ ToSet(joining) = ToSet(joining)' \cup {Head(joining)}
        BY <1>1, <2>1, TailFacts
    <2>3. LeftBy(Head(joining))
        <3>1. into \in Live' /\ Head(joining).event \in ToSet(graph'[into].links)
            BY <1>8, GroupJoinsStep
        <3> QED BY <3>1 DEF LeftBy, Live
    <2> QED BY <2>1, <2>2, <2>3, StillThere DEF Waiting
<1>9. CASE Flushed
    BY <1>1, <1>9, StillThere DEF Flushed, Passes, Waiting
<1>10. CASE Restart
    <2>1. starts \in Nat /\ starts' = starts + 1
        BY <1>10 DEF Restart, Passes
    <2> QED BY <2>1 DEF LeftBy
<1>11. CASE Retried \/ Adopt \/ Release \/ Split \/ Prune \/ Sweep \/ Ask \/ Answer
    BY <1>2, <1>11 DEF Retried, Adopt, Release, Split, Prune, Sweep, Ask, Answer, Queried, flush, bounds
<1> QED BY <1>2, <1>3, <1>4, <1>5, <1>6, <1>7, <1>8, <1>9, <1>10, <1>11 DEF Next, vars, flush

(* An event leaves the noise buffer (push_to_buffer, flush_pending) only   *)
(* into a situation, with its time, out of a full buffer or with the       *)
(* process.                                                                *)
THEOREM BufferLeft == Spec => BufferLeftOnlyBy
<1>1. IInv /\ Passes /\ [Next]_vars =>
        [\A p \in Waiting(buffer) :
          \/ p.event \in {x.event : x \in Waiting(buffer)'}
          \/ \E s \in DOMAIN graph' : p.event \in ToSet(graph'[s].links)
          \/ p.old
          \/ Len(buffer) = BufferMax /\ p = Head(buffer) /\ received' # received
          \/ starts' # starts]_vars
    BY NextLeaves DEF LeftBy
<1> QED BY <1>1, PassesKept, PTL DEF Spec, BufferLeftOnlyBy

=============================================================================
