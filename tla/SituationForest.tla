-------------------------- MODULE SituationForest --------------------------
(***************************************************************************)
(* The parent/child hierarchy of the situation graph                       *)
(* (pipeline/src/situation_graph) while PipelineCore::tick_clustering      *)
(* rewrites it: pruning, the three merge passes, the two kinds of split,   *)
(* the sweep, the flush of the noise buffer, and ingestion between ticks.  *)
(* This is the hierarchy without the asynchronous AI results, which module *)
(* SituationAI adds.                                                       *)
(*                                                                         *)
(* A tick is one uninterrupted call, split here into its passes: stage     *)
(* says which pass runs, and nothing but the next step of that pass is     *)
(* enabled until the tick is over.  What the passes decide from titles,    *)
(* topics, embeddings, counts and ages is data: any decision is allowed.   *)
(* What they check and rewrite in the hierarchy is kept exactly, and so is *)
(* what they read from a snapshot taken before they started to rewrite.    *)
(*                                                                         *)
(* Before some helpers stands a variant of theirs with a plausible slip,   *)
(* which the specification does not use.                                   *)
(***************************************************************************)
EXTENDS Naturals, FiniteSets

CONSTANTS
    Cluster,           \* identifiers of situations; each is used once
    NoParent,          \* parent_id = None
    MaxChildren,       \* cluster_caps.max_children_per_parent
    CountryThreshold   \* how many situations a theater needs to be swept

ASSUME ForestAssumption ==
    /\ NoParent \notin Cluster
    /\ IsFiniteSet(Cluster)      \* a Uuid has 128 bits
    /\ MaxChildren \in Nat
    /\ CountryThreshold \in Nat \ {0, 1}

VARIABLES
    live,       \* the keys of SituationGraph::clusters
    used,       \* every identifier drawn so far (Uuid::new_v4 repeats none)
    parent,     \* parent_id of each situation, NoParent for one that is gone
    rejected,   \* the keys of merge_rejections, as two-element sets
    tick,       \* tick_count modulo 4
    stage,      \* the pass of tick_clustering that is running, or "idle"
    snap,       \* parent as it was when the running pass took its snapshot
    rank,       \* order by event_count, then by position, at that moment
    todo        \* the identifiers the running pass collected before rewriting

hierarchy == <<live, used, parent, rejected>>
pass      == <<snap, rank, todo>>
vars      == <<live, used, parent, rejected, tick, stage, snap, rank, todo>>

Stages == {"idle", "merge", "topic", "country", "split", "sweep",
           "coherence", "flush"}

Parentage == [Cluster -> Cluster \cup {NoParent}]
Nobody    == [c \in Cluster |-> NoParent]
Unranked  == [c \in Cluster |-> 0]
Pairs     == {{a, b} : a, b \in Cluster}
-----------------------------------------------------------------------------
Kids(par, p) == {c \in Cluster : par[c] = p}
TopLevel == {c \in live : parent[c] = NoParent}
Fresh == Cluster \ used

AtMost(m, n) == IF m <= n THEN m ELSE n
RoomUncounted(n) == MaxChildren
Room(n) == IF n < MaxChildren THEN MaxChildren - n ELSE 0

(* A child that brings children of its own may exceed the cap by one.      *)
EffectiveCap(c) == IF Kids(snap, c) # {} THEN MaxChildren + 1 ELSE MaxChildren

(* The children of situations that are going away.                         *)
OrphansForgotten(par, gone) == {}
Orphans(par, gone) == {c \in live : par[c] \in gone}

(* The larger of two absorbs the smaller, if it is still nobody's child    *)
(* and no audit or sweep has rejected the pair.                            *)
AbsorbsEither(p, c) == p # c
Absorbs(p, c) == rank[c] < rank[p]

UnownedAssumed(c) == c \in live
Unowned(c) == parent[c] = NoParent

RejectionIgnored(p, c) == FALSE
Rejected(p, c) == {p, c} \in rejected

Detach(par, cut) == [c \in Cluster |-> IF c \in cut THEN NoParent ELSE par[c]]
Attach(par, kids, p) == [c \in Cluster |-> IF c \in kids THEN p ELSE par[c]]

(* enforce_max_children_cap orphans exactly the excess children of every   *)
(* parent, the ones with the fewest events; which those are is data.       *)
ExceedsCap(par, cut) ==
    /\ \A c \in cut : par[c] # NoParent
    /\ \A p \in Cluster :
          Cardinality({c \in cut : par[c] = p})
             = Cardinality(Kids(par, p)) - AtMost(Cardinality(Kids(par, p)), MaxChildren)

(* Every order the counts and the iteration order of the map can produce.  *)
Orders(S) ==
    {r \in [Cluster -> 0..Cardinality(S)] :
        /\ \A c \in Cluster : (r[c] = 0) <=> (c \notin S)
        /\ \A c, d \in S : r[c] = r[d] => c = d}
-----------------------------------------------------------------------------
Init ==
    /\ live = {} /\ used = {}
    /\ parent = Nobody
    /\ rejected = {}
    /\ tick = 0
    /\ stage = "idle"
    /\ snap = Nobody /\ rank = Unranked /\ todo = {}

(* Entering a pass: what it reads once, before its loop.                   *)
Enter(next, par, ids, r) ==
    /\ stage' = next
    /\ snap' = par
    /\ todo' = ids
    /\ rank' = r

(* An event between two ticks that opens a situation of its own.  Every    *)
(* other outcome of ingest (absorbed, buffered, dropped) leaves the        *)
(* hierarchy alone.                                                        *)
Ingest ==
    /\ stage = "idle"
    /\ \E c \in Fresh :
          /\ live' = live \cup {c}
          /\ used' = used \cup {c}
    /\ UNCHANGED <<parent, rejected, tick, stage, pass>>

(* expire_merge_rejections: rejections of more than an hour are forgotten. *)
Unexpired == SUBSET rejected

(* prune_stale_with_cache, then the branch on tick_count.  Ages and        *)
(* phases, which say who is stale, are data.                               *)
StartTick ==
    /\ stage = "idle"
    /\ tick' = (tick + 1) % 4
    /\ \E stale \in SUBSET live, kept \in Unexpired :
          LET par == Detach(parent, stale \cup Orphans(parent, stale))
              top == {c \in live \ stale : par[c] = NoParent}
          IN  /\ live' = live \ stale
              /\ rejected' = kept
              /\ parent' = par
              /\ IF tick' % 2 = 0
                 THEN \E r \in Orders(top) : Enter("merge", par, top, r)
                 ELSE Enter("flush", Nobody, {}, Unranked)
    /\ UNCHANGED used

(* The pairs merge_overlapping collects before it rewrites anything: both  *)
(* at the top level, and room under the larger.  What their titles, terms, *)
(* regions, sources and centroids say of them is data.                     *)
Collected(p, c) ==
    /\ p \in todo /\ c \in todo
    /\ Absorbs(p, c)
    /\ ~Rejected(p, c)
    /\ Cardinality(Kids(snap, p))
          < (IF Kids(snap, p) # {} THEN EffectiveCap(c) ELSE MaxChildren)

(* One applied pair.  The applying loop looks at the child's parent again, *)
(* but not at the parent's.                                                *)
MergePair(p, c) ==
    /\ stage = "merge"
    /\ Collected(p, c)
    /\ Unowned(c)
    /\ Cardinality(Kids(parent, p)) < EffectiveCap(c)
    /\ parent' = Attach(parent, {c}, p)
    /\ UNCHANGED <<live, used, rejected, tick, stage, pass>>

(* The end of merge_overlapping: the cap is enforced if anything merged.   *)
EndMerge ==
    /\ stage = "merge"
    /\ \E cut \in SUBSET live :
          LET par == Detach(parent, cut)
          IN  /\ IF parent = snap THEN cut = {} ELSE ExceedsCap(parent, cut)
              /\ parent' = par
              /\ Enter("topic", par, {c \in live : par[c] = NoParent}, Unranked)
    /\ UNCHANGED <<live, used, rejected, tick>>

(* consolidate_by_topic brings together any two that were at the top level *)
(* and have a topic, an entity or a word of their titles in common, ...    *)
Considered(p, c) == p \in todo /\ c \in todo /\ p # c

(* ... and its candidates are those not rejected and alike enough, which   *)
(* is data like what they have in common.                                  *)
Candidates(p, c) == Considered(p, c) /\ ~Rejected(p, c)

(* The children that move up with c are the ones it had when the pass      *)
(* began, as many as the cap leaves room for.                              *)
MovesUp(moved, p, c) ==
    /\ moved \subseteq Kids(snap, c)
    /\ Cardinality(moved)
          = AtMost(Cardinality(Kids(snap, c)), Room(Cardinality(Kids(parent, p)) + 1))

(* One applied candidate.  Both are checked to be top-level again.         *)
TopicMerge(p, c) ==
    /\ stage = "topic"
    /\ Candidates(p, c)
    /\ Unowned(p) /\ Unowned(c)
    /\ Cardinality(Kids(parent, p)) < EffectiveCap(c)
    /\ \E moved \in SUBSET Kids(snap, c) :
          MovesUp(moved, p, c) /\ parent' = Attach(parent, {c} \cup moved, p)
    /\ UNCHANGED <<live, used, rejected, tick, stage, pass>>

EndTopic ==
    /\ stage = "topic"
    /\ Enter("country", Nobody, TopLevel, Unranked)
    /\ UNCHANGED <<hierarchy, tick>>

(* The situations at the top level by the conflict or country their titles *)
(* name, if there are enough of one.                                       *)
Theater(group) == group \subseteq todo /\ Cardinality(group) >= CountryThreshold

(* One theater of country_sweep_consolidation: its largest situation takes *)
(* the others in order of size until the cap; prior rejections of the      *)
(* pairs it joins are dropped.                                             *)
CountryMerge(group, p) ==
    /\ stage = "country"
    /\ Theater(group) /\ p \in group
    /\ \E kids \in SUBSET (group \ {p}) :
          /\ Cardinality(kids)
                = AtMost(Cardinality(group \ {p}), Room(Cardinality(Kids(parent, p))))
          /\ parent' = Attach(parent, kids, p)
          /\ rejected' = rejected \ {{p, k} : k \in kids}
    /\ todo' = todo \ group
    /\ UNCHANGED <<live, used, tick, stage, snap, rank>>

EndCountry ==
    /\ stage = "country"
    /\ Enter("split", Nobody, TopLevel, Unranked)
    /\ UNCHANGED <<hierarchy, tick>>

(* split_divergent: a large top-level situation stays as an empty shell    *)
(* over two or more new children.                                          *)
SplitDivergent(c, born) ==
    /\ stage = "split"
    /\ c \in todo
    /\ born \subseteq Fresh /\ Cardinality(born) >= 2
    /\ live' = live \cup born
    /\ used' = used \cup born
    /\ parent' = Attach(parent, born, c)
    /\ todo' = todo \ {c}
    /\ UNCHANGED <<rejected, tick, stage, snap, rank>>

EndSplit ==
    /\ stage = "split"
    /\ Enter(IF tick = 0 THEN "sweep" ELSE "flush", Nobody, {}, Unranked)
    /\ UNCHANGED <<hierarchy, tick>>

(* Children whose parent is there: the words of their titles and their     *)
(* entities say which of them have no topical link to it.                  *)
Unrelated(par, left) == SUBSET {c \in left : par[c] \in left}

(* Passes 3, 3b and 3c of sweep: small old children are removed, the cap   *)
(* is enforced (children of a removed parent still count as its), then a   *)
(* child whose parent is gone is promoted, and one without a topical link  *)
(* is detached and the pair remembered as rejected.                        *)
SweepOrphans ==
    /\ stage = "sweep"
    /\ \E gone \in SUBSET {c \in live : parent[c] # NoParent} :
       LET left == live \ gone
           kept == Detach(parent, gone)
       IN  \E cut \in SUBSET left :
           /\ ExceedsCap(kept, cut)
           /\ LET par      == Detach(kept, cut)
                  homeless == Orphans(par, gone)
              IN  \E unrelated \in Unrelated(par, left) :
                    /\ parent' = Detach(par, homeless \cup unrelated)
                    /\ rejected' = rejected \cup {{c, par[c]} : c \in unrelated}
           /\ live' = left
           /\ Enter("coherence", Nobody, left, Unranked)
    /\ UNCHANGED <<used, tick>>

(* Whether enough of the newest events have embeddings, and fall into two  *)
(* halves by 2-means over them, is data.                                   *)
Sampled(c) == c \in live
FallsApart(c) == c \in todo /\ Sampled(c)

(* split_by_coherence, from passes 4 and 5 of sweep: a new child for the   *)
(* smaller half of an incoherent situation, which may itself be a child.   *)
(* Each of the two passes splits one at most once; here, any number.       *)
SplitByCoherence(c, n) ==
    /\ stage = "coherence"
    /\ FallsApart(c) /\ n \in Fresh
    /\ live' = live \cup {n}
    /\ used' = used \cup {n}
    /\ parent' = Attach(parent, {n}, c)
    /\ UNCHANGED <<rejected, tick, stage, pass>>

EndSweep ==
    /\ stage = "coherence"
    /\ Enter("flush", Nobody, {}, Unranked)
    /\ UNCHANGED <<hierarchy, tick>>

(* flush_pending opens a top-level situation for every group of buffered   *)
(* events that found each other; evaluate_phases then ends the tick.       *)
FlushPending ==
    /\ stage = "flush"
    /\ \E born \in SUBSET Fresh :
          /\ live' = live \cup born
          /\ used' = used \cup born
    /\ Enter("idle", Nobody, {}, Unranked)
    /\ UNCHANGED <<parent, rejected, tick>>

Next ==
    \/ Ingest
    \/ StartTick
    \/ \E p, c \in Cluster : MergePair(p, c)
    \/ EndMerge
    \/ \E p, c \in Cluster : TopicMerge(p, c)
    \/ EndTopic
    \/ \E group \in SUBSET Cluster, p \in Cluster : CountryMerge(group, p)
    \/ EndCountry
    \/ \E c \in Cluster, born \in SUBSET Cluster : SplitDivergent(c, born)
    \/ EndSplit
    \/ SweepOrphans
    \/ \E c, n \in Cluster : SplitByCoherence(c, n)
    \/ EndSweep
    \/ FlushPending

Spec == Init /\ [][Next]_vars
=============================================================================
