-------------------------- MODULE SituationMembers --------------------------
(***************************************************************************)
(* What the situations of the graph are made of (situation_graph/mod.rs,   *)
(* merge.rs, lifecycle.rs): the events they link, the counter kept beside  *)
(* the links, the entities and topics they are found by, and the inverted  *)
(* indices that lead from a term to situations.  Ingestion, the noise      *)
(* buffer and its flush, merging and splitting, pruning and the sweep, the *)
(* retroactive search and a restart all rewrite them.                      *)
(*                                                                         *)
(* An event stands for a copy that arrives: a poll that repeats it and its *)
(* enriched copy are events of the same Ref, the source_id.  Events are    *)
(* numbers in the order of their times.  Scores are data: a candidate may  *)
(* take an event or not.  Which terms are the rarest is data, too.  Who is *)
(* whose child is the matter of SituationForest; here any merge of two     *)
(* top-level situations is allowed.                                        *)
(*                                                                         *)
(* A flush is one uninterrupted call, split into steps: nothing else       *)
(* happens until its pass is over.                                         *)
(*                                                                         *)
(* Before some helpers stands a variant of theirs with a plausible slip,   *)
(* which the specification does not use.                                   *)
(***************************************************************************)
EXTENDS Naturals, FiniteSets, SequencesExt

CONSTANTS
    Event, Ref,          \* numbers; the source_id of each
    Terms,               \* the entities and topics of each
    Entity, Topic, Tag,  \* Tag: topics with a colon
    Derived,             \* topics each has from its type and source if it has no other
    Alphabet,            \* the order of the terms by name
    Loud,                \* severe or of an important type: opens a situation
    Mute,                \* flights, small earthquakes, fires: never open one
    Situation,           \* bound: 1..n, drawn in this order
    None,
    MaxTerms, PrunedTo, RestoredTerms,        \* of entities, and of topics
    MaxLinks, ShedAbove, ShedTarget, KeptLinks, \* 500, 200, 150, 100
    LeafCap,             \* leaf_cluster_hard_cap
    OrphanMin,           \* orphan_min_events: 2
    BufferMax,           \* noise_buffer_max: 200
    Found,               \* retro_sweep_max_per_cluster
    MaxWork              \* bound: merges, splits, sweeps, searches, restarts

Term == Entity \cup Topic \cup Tag
Kinds == {Entity, Topic}

ASSUME MembersAssumption ==
    /\ Event \subseteq Nat /\ IsFiniteSet(Event) /\ IsFiniteSet(Term)
    /\ Terms \in [Event -> (SUBSET Term) \ {{}}] /\ Derived \in [Event -> SUBSET Topic]
    /\ Situation \subseteq Nat \ {0} /\ None \notin Situation /\ Loud \cap Mute = {}
    /\ {MaxTerms, PrunedTo, RestoredTerms, LeafCap, BufferMax} \subseteq Nat \ {0}
    /\ {MaxLinks, ShedAbove, ShedTarget, KeptLinks} \subseteq Nat \ {0}
    /\ KeptLinks <= ShedTarget /\ ShedTarget <= ShedAbove /\ ShedAbove <= MaxLinks

VARIABLES
    graph,      \* clusters: terms, links, count, parent of each live situation
    index,      \* entity_index and topic_index
    drawn,      \* situations opened so far
    received,
    buffer,     \* pending_buffer: events, and whether their time is over
    pass,       \* of flush_pending, "none" between two
    todo, kept, \* events of the buffer before and after the first pass
    joining,    \* events of a group still to be merged into its situation
    into,
    asked,      \* retroactive searches under way: what they exclude
    shells,     \* history: situations split since the start
    work,       \* how many of MaxWork are done
    starts      \* of the process

flush == <<pass, todo, kept, joining, into>>
bounds == <<received, work, starts>>
vars == <<graph, index, drawn, bounds, buffer, flush, asked, shells>>

Live == DOMAIN graph
Kids(p) == {s \in Live : graph[s].parent = p}
TopLevel == {s \in Live : graph[s].parent = None}
AtMost(m, n) == IF m <= n THEN m ELSE n
AtLeast(m, n) == IF m <= n THEN n ELSE m
Newest(links, n) == SubSeq(links, Len(links) - AtMost(n, Len(links)) + 1, Len(links))
Refs(links) == {Ref[links[p]] : p \in DOMAIN links}
Without(g, gone) == [s \in DOMAIN g \ gone |-> g[s]]
With(g, s, r) == [x \in DOMAIN g \cup {s} |-> IF x = s THEN r ELSE g[x]]

(* The numbers of a set by their key, those of the same key by themselves. *)
Before(key, x, y) == key[x] < key[y] \/ (key[x] = key[y] /\ x < y)
Ranked(S, key) ==
    [n \in 1..Cardinality(S) |->
        CHOOSE x \in S : Cardinality({y \in S : Before(key, y, x)}) = n - 1]
InOrder(S) == Ranked(S, [x \in S |-> x])
ByTime(links) == [n \in 1..Len(links) |-> links[Ranked(1..Len(links), links)[n]]]

Work == work < MaxWork /\ work' = work + 1

(* s is entered for some terms and taken out for others.                   *)
Reindexed(s, added, removed) ==
    [t \in Term |-> CASE t \in added -> index[t] \cup {s}
                      [] t \in removed -> index[t] \ {s}
                      [] OTHER -> index[t]]

(* The n first of each kind in some order.                                 *)
First(terms, order, n) ==
    {t \in terms : \E k \in Kinds : t \in k /\ Cardinality({u \in terms \cap k : order[u] < order[t]}) < n}
Orders == {f \in [Term -> 1..Cardinality(Term)] : \A t, u \in Term : f[t] = f[u] => t = u}
-----------------------------------------------------------------------------
Init ==
    /\ graph = [s \in {} |-> None] /\ drawn = 0
    /\ index = [t \in Term |-> {}]
    /\ received = {}
    /\ buffer = <<>>
    /\ pass = "none" /\ todo = <<>> /\ kept = <<>> /\ joining = <<>> /\ into = None
    /\ asked = [s \in {} |-> {}]
    /\ shells = {}
    /\ work = 0 /\ starts = 0

(* Below the cap a situation takes new terms, at the cap it gives up one   *)
(* for each it takes, or takes none: the rarest stay.                      *)
Merged(old, new) ==
    {T \in SUBSET (old \cup new) : \A k \in Kinds :
        Cardinality(T \cap k) = AtMost(Cardinality((old \cup new) \cap k),
                                       AtLeast(Cardinality(old \cap k), MaxTerms))}

(* merge_into_cluster.                                                     *)
EvictedStays(s, T, all) == Reindexed(s, T \ graph[s].terms, {})
Entered(s, T, all) == Reindexed(s, T \ graph[s].terms, all \ T)

Absorb(s, e) ==
    LET new == Terms[e] \ Tag
    IN  \E T \in Merged(graph[s].terms, new) :
          /\ graph' = [graph EXCEPT ![s].terms = T, ![s].count = @ + 1,
                                    ![s].links = Newest(Append(@, e), MaxLinks)]
          /\ index' = Entered(s, T, graph[s].terms \cup new)
          /\ UNCHANGED <<drawn, shells>>

(* create_cluster: s is the situation e ends in, for the dedup gate finds  *)
(* a top-level situation of the same title, or a new one.                  *)
Opening(e) == Terms[e] \cup (IF Terms[e] \cap Topic = {} THEN Derived[e] ELSE {})

Opened(e) == [terms |-> Opening(e) \ Tag, links |-> <<e>>, count |-> 1, parent |-> None]

Create(s, e) ==
    \/ s \in TopLevel /\ Absorb(s, e)
    \/ /\ s = drawn + 1 /\ drawn' = s
       /\ graph' = With(graph, s, Opened(e))
       /\ index' = Reindexed(s, Opening(e), {})
       /\ UNCHANGED shells

(* The indices lead to the candidates; a leaf at its cap takes nothing.    *)
Full(s) == graph[s].parent = None /\ Kids(s) = {} /\ graph[s].count >= LeafCap
Indexed(e) == Live \cap UNION {index[t] : t \in Terms[e]}
Candidates(e) == {s \in Indexed(e) : ~Full(s)}

Pending(e) == [event |-> e, old |-> FALSE]
PushedBack(e) == Append(IF Len(buffer) >= BufferMax THEN Tail(buffer) ELSE buffer, Pending(e))

Buffer(e) ==
    /\ e \notin Loud \cup Mute
    /\ buffer' = PushedBack(e)
    /\ UNCHANGED <<graph, index, drawn, shells>>

Ingest(e) ==
    /\ pass = "none"
    /\ e \notin received
    /\ received' = received \cup {e}
    /\ \/ \E s \in Candidates(e) : Absorb(s, e) /\ UNCHANGED buffer
       \/ e \in Mute /\ UNCHANGED <<graph, index, drawn, shells, buffer>>
       \/ e \in Loud /\ \E s \in Situation : Create(s, e) /\ UNCHANGED buffer
       \/ Buffer(e)
    /\ UNCHANGED <<flush, asked, work, starts>>

(* noise_buffer_secs go by for the first n events of the buffer.           *)
Elapse ==
    /\ pass = "none"
    /\ \E n \in DOMAIN buffer :
          /\ ~buffer[n].old
          /\ buffer' = [p \in DOMAIN buffer |-> [buffer[p] EXCEPT !.old = @ \/ p <= n]]
    /\ UNCHANGED <<graph, index, drawn, bounds, flush, asked, shells>>
-----------------------------------------------------------------------------
(* flush_pending takes the buffer out and tries the events again one by    *)
(* one; what is expired is dropped.                                        *)
Flush ==
    /\ pass = "none" /\ buffer # <<>>
    /\ pass' = "retry" /\ todo' = buffer /\ buffer' = <<>>
    /\ UNCHANGED <<graph, index, drawn, bounds, kept, joining, into, asked, shells>>

KeptIfRoom(p) == IF kept = <<>> THEN <<p>> ELSE kept
StillPending(p) == Append(kept, p)

Retry ==
    /\ pass = "retry" /\ todo # <<>>
    /\ todo' = Tail(todo)
    /\ LET p == Head(todo)
       IN  \/ p.old /\ UNCHANGED <<graph, index, drawn, shells, kept>>
           \/ ~p.old /\ \E s \in Candidates(p.event) : Absorb(s, p.event) /\ UNCHANGED kept
           \/ ~p.old /\ kept' = StillPending(p) /\ UNCHANGED <<graph, index, drawn, shells>>
    /\ UNCHANGED <<bounds, buffer, pass, joining, into, asked>>

Retried ==
    /\ pass = "retry" /\ todo = <<>>
    /\ pass' = "group"
    /\ UNCHANGED <<graph, index, drawn, bounds, buffer, todo, kept, joining, into, asked, shells>>

(* The events left over form groups: those that share two terms belong     *)
(* together.  A group of several opens a situation.                        *)
Similar(i, j) == Cardinality(Terms[kept[i].event] \cap Terms[kept[j].event]) >= 2
Groups ==
    {G \in SUBSET DOMAIN kept :
        /\ Cardinality(G) >= 2
        /\ \A i \in G, j \in DOMAIN kept \ G : ~Similar(i, j)
        /\ \A A \in (SUBSET G) \ {{}, G} : \E i \in A, j \in G \ A : Similar(i, j)}

Of(positions) ==
    [n \in 1..Cardinality(positions) |-> kept[InOrder(positions)[n]]]

GroupOpens ==
    /\ pass = "group" /\ joining = <<>>
    /\ \E G \in Groups, s \in Situation :
          /\ Create(s, Head(Of(G)).event)
          /\ into' = s
          /\ joining' = Tail(Of(G))
          /\ kept' = Of(DOMAIN kept \ G)
    /\ UNCHANGED <<bounds, buffer, pass, todo, asked>>

GroupJoins ==
    /\ joining # <<>>
    /\ Absorb(into, Head(joining).event)
    /\ joining' = Tail(joining)
    /\ UNCHANGED <<bounds, buffer, pass, todo, kept, into, asked>>

Flushed ==
    /\ pass = "group" /\ joining = <<>> /\ Groups = {}
    /\ pass' = "none" /\ buffer' = kept /\ kept' = <<>> /\ into' = None
    /\ UNCHANGED <<graph, index, drawn, bounds, todo, joining, asked, shells>>
-----------------------------------------------------------------------------
(* merge_child_into_parent, by any of the merges: links and count are      *)
(* added to the parent's, the child keeps its own.  Its children become    *)
(* the parent's, as far as the cap allows.                                 *)
CountOfLinks(p, c) == graph[p].count + 1
SummedCount(p, c) == graph[p].count + graph[c].count

Adopt ==
    /\ pass = "none" /\ Work
    /\ \E p, c \in TopLevel : \E moved \in SUBSET Kids(c) :
          /\ p # c
          /\ graph' = [s \in Live |->
                CASE s = p -> [graph[p] EXCEPT !.links = Newest(@ \o graph[c].links, MaxLinks),
                                               !.count = SummedCount(p, c)]
                  [] s \in moved \cup {c} -> [graph[s] EXCEPT !.parent = p]
                  [] s \in Kids(c) \ moved -> [graph[s] EXCEPT !.parent = None]
                  [] OTHER -> graph[s]]
    /\ UNCHANGED <<index, drawn, received, starts, buffer, flush, asked, shells>>

(* unmerge and the like: what was added to the parent stays there.         *)
Release ==
    /\ pass = "none" /\ Work
    /\ \E c \in Live \ TopLevel : graph' = [graph EXCEPT ![c].parent = None]
    /\ UNCHANGED <<index, drawn, received, starts, buffer, flush, asked, shells>>

(* split_divergent: groups of entities become children; each gets some of  *)
(* the topics, its share of the count and as many of the oldest links.     *)
(* The shell that is left has no entities; nothing enters its topics into  *)
(* the index again.                                                        *)
Divisions(ents) ==
    {P \in SUBSET ((SUBSET ents) \ {{}, ents}) :
        UNION P = ents /\ \A a, b \in P : a # b => a \cap b = {}}
Share(s, g) ==
    LET whole == Cardinality(graph[s].terms \cap Entity)
    IN  (graph[s].count * Cardinality(g) + whole - 1) \div whole

Child(s, g, topics) ==
    LET n == Share(s, g)
    IN  [terms |-> g \cup topics, links |-> SubSeq(graph[s].links, 1, AtMost(n, Len(graph[s].links))),
         count |-> n, parent |-> s]

Parted(s, P, some) ==
    LET groups == SetToSeq(P)
        born(x) == x \in drawn + 1..drawn + Len(groups)
        child(x) == Child(s, groups[x - drawn], some[groups[x - drawn]])
    IN  /\ P # {} /\ drawn + Len(groups) \in Situation
        /\ drawn' = drawn + Len(groups)
        /\ graph' = [x \in Live \cup {y \in Situation : born(y)} |->
              CASE born(x) -> child(x)
                [] x = s -> [graph[s] EXCEPT !.terms = @ \ Entity]
                [] OTHER -> graph[x]]
        /\ index' = [t \in Term |->
              (IF t \in graph[s].terms THEN index[t] \ {s} ELSE index[t])
                  \cup {y \in Situation : born(y) /\ t \in child(y).terms}]
        /\ shells' = shells \cup {s}

Split ==
    /\ pass = "none" /\ Work
    /\ \E s \in TopLevel : \E P \in Divisions(graph[s].terms \cap Entity) :
       \E some \in [P -> SUBSET (graph[s].terms \cap Topic)] : Parted(s, P, some)
    /\ UNCHANGED <<received, starts, buffer, flush, asked>>
-----------------------------------------------------------------------------
Forgotten(gone, ix) ==
    [t \in Term |-> {s \in ix[t] : ~(s \in gone /\ t \in graph[s].terms)}]
Orphaned(g, gone) ==
    [s \in DOMAIN g |-> IF g[s].parent \in gone THEN [g[s] EXCEPT !.parent = None] ELSE g[s]]

(* prune_stale removes a situation that has not changed for long.          *)
Prune ==
    /\ pass = "none" /\ Work
    /\ \E s \in Live :
          /\ graph' = Orphaned(Without(graph, {s}), {s})
          /\ index' = Forgotten({s}, index)
    /\ UNCHANGED <<drawn, received, starts, buffer, flush, asked, shells>>

(* sweep: the rarest terms stay, oversized situations shed their oldest    *)
(* links, small children are removed, others are orphaned.                 *)
ShedKeepsCount(r) ==
    IF Len(r.links) > ShedAbove THEN [r EXCEPT !.links = Newest(@, ShedTarget), !.count = @ - ShedTarget] ELSE r
Shed(r) ==
    IF Len(r.links) > ShedAbove THEN [r EXCEPT !.links = Newest(@, ShedTarget), !.count = ShedTarget] ELSE r

Rarest == {[s \in Live |-> First(graph[s].terms, order, PrunedTo)] : order \in Orders}

Sweep ==
    /\ pass = "none" /\ Work
    /\ \E terms \in Rarest :
       LET swept == [s \in Live |-> Shed([graph[s] EXCEPT !.terms = terms[s]])]
           children == Live \ TopLevel
       IN  \E gone \in SUBSET {s \in children : swept[s].count < OrphanMin} :
           \E freed \in SUBSET (children \ gone) :
              /\ graph' = Orphaned([s \in Live \ gone |->
                    IF s \in freed THEN [swept[s] EXCEPT !.parent = None] ELSE swept[s]], gone)
              /\ index' = Forgotten(gone, [t \in Term |->
                    {s \in index[t] : ~(s \in Live /\ t \in graph[s].terms \ terms[s])}])
    /\ UNCHANGED <<drawn, received, starts, buffer, flush, asked, shells>>
-----------------------------------------------------------------------------
(* retro_sweep_candidates: a query for older events is under way; it       *)
(* excludes what is linked now.  One at a time of a situation (bound).     *)
Excluded(s) == Refs(graph[s].links)

Ask ==
    /\ pass = "none" /\ Work
    /\ \E s \in Live \ DOMAIN asked :
          /\ graph[s].terms \cap Entity # {}
          /\ asked' = With(asked, s, Excluded(s))
    /\ UNCHANGED <<graph, index, drawn, received, starts, buffer, flush, shells>>

(* The rows of such a query: a limited number of older events.             *)
Queried(excluded) ==
    {rows \in SUBSET Event : Cardinality(rows) <= Found /\ \A e \in rows : Ref[e] \notin excluded}

(* retroactive_add: what has been linked meanwhile is passed over.  Terms  *)
(* are taken without a cap.                                                *)
Answer ==
    /\ pass = "none"
    /\ \E s \in DOMAIN asked : \E rows \in Queried(asked[s]) :
          /\ asked' = Without(asked, {s})
          /\ IF s \in Live
             THEN LET added == {e \in rows : Ref[e] \notin Refs(graph[s].links)}
                      terms == UNION {Terms[e] \ Tag : e \in added}
                  IN  /\ graph' = [graph EXCEPT
                            ![s].links = Newest(@ \o InOrder(added), MaxLinks),
                            ![s].count = @ + Cardinality(added),
                            ![s].terms = @ \cup terms]
                      /\ index' = Reindexed(s, terms \ graph[s].terms, {})
             ELSE UNCHANGED <<graph, index>>
    /\ UNCHANGED <<drawn, bounds, buffer, flush, shells>>

(* The process ends and starts again from its rows: the first terms by     *)
(* name, the newest links in the order of their times, the whole count.    *)
(* Which situations have a row, and which children restore_clusters        *)
(* releases, is SituationStore's matter.                                   *)
Restored(s, alive, freed) ==
    [graph[s] EXCEPT !.terms = First(@, Alphabet, RestoredTerms),
                     !.links = ByTime(Newest(@, KeptLinks)),
                     !.parent = IF @ \in alive /\ s \notin freed THEN @ ELSE None]

Restart ==
    /\ pass = "none" /\ Work /\ starts' = starts + 1
    /\ \E alive \in SUBSET Live : \E freed \in SUBSET alive :
          graph' = [s \in alive |-> Restored(s, alive, freed)]
    /\ index' = [t \in Term |-> {s \in DOMAIN graph' : t \in graph'[s].terms}]
    /\ buffer' = <<>> /\ asked' = [s \in {} |-> {}] /\ shells' = {}
    /\ UNCHANGED <<drawn, received, flush>>

Next ==
    \/ \E e \in Event : Ingest(e)
    \/ Elapse
    \/ Flush \/ Retry \/ Retried \/ GroupOpens \/ GroupJoins \/ Flushed
    \/ Adopt \/ Release \/ Split \/ Prune \/ Sweep
    \/ Ask \/ Answer
    \/ Restart

Spec == Init /\ [][Next]_vars
-----------------------------------------------------------------------------
(* The indices lead to a situation from every one of its terms, the topics *)
(* of a situation that has been split apart, and lead astray only from     *)
(* tags, which are entered when a situation is opened and never removed.   *)
IndexFollowsTerms ==
    \A t \in Term :
        /\ \A s \in Live : t \in graph[s].terms /\ s \notin index[t] => t \in Topic /\ s \in shells
        /\ \A s \in index[t] : (s \in Live /\ t \in graph[s].terms) \/ t \in Tag

(* The count of a situation is never less than what it links, however      *)
(* links are trimmed, shed, divided, joined and restored.                  *)
CountsCoverLinks == \A s \in Live : Len(graph[s].links) <= graph[s].count

(* An event leaves the buffer into a situation, or when its time is over,  *)
(* or pushed out of a full buffer by a new one, or with the process.       *)
Waiting(b) == ToSet(b) \cup ToSet(todo) \cup ToSet(kept) \cup ToSet(joining)
BufferLeftOnlyBy ==
    [][\A p \in Waiting(buffer) :
          \/ p.event \in {x.event : x \in Waiting(buffer)'}
          \/ \E s \in DOMAIN graph' : p.event \in ToSet(graph'[s].links)
          \/ p.old
          \/ Len(buffer) = BufferMax /\ p = Head(buffer) /\ received' # received
          \/ starts' # starts]_vars
=============================================================================
