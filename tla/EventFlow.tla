----------------------------- MODULE EventFlow -----------------------------
(***************************************************************************)
(* The way of an article through the pipeline (pipeline/src/pipeline.rs):  *)
(* from the broadcast channel into the situation graph, to the enrichment  *)
(* task and the embedding worker, and back into the graph with what they   *)
(* found.  The loop of run_pipeline is one actor, a task per copy and the  *)
(* embedding worker are the others.                                        *)
(*                                                                         *)
(* Polled sources broadcast what they see at every poll, so an article     *)
(* arrives in several copies.  Only articles that can be enriched are      *)
(* followed; every other event goes into the graph and is shown at once or *)
(* not at all.                                                             *)
(*                                                                         *)
(* Before some helpers stands a variant of theirs with a plausible slip,   *)
(* which the specification does not use.                                   *)
(***************************************************************************)
EXTENDS Naturals, Sequences, FiniteSets

CONSTANTS
    Article, Copy,
    Of,           \* the article of a copy
    Nothing,
    FeedSize,     \* of the broadcast channel
    EmbedSlots, VectorSlots, ReingestSlots,   \* of the other channels: 1024, 256, 64
    BatchSize,    \* of the embedding worker: 8
    CacheSize,    \* of the embedding cache: 10000
    Permits,      \* of bg_semaphore: 32
    Earlier       \* articles with an enrichment when the pipeline starts

ASSUME FlowAssumption ==
    /\ Of \in [Copy -> Article]
    /\ Nothing \notin Copy /\ Earlier \subseteq Article
    /\ {FeedSize, EmbedSlots, VectorSlots, ReingestSlots, BatchSize, CacheSize, Permits}
          \subseteq Nat \ {0}

VARIABLES
    feed,       \* broadcast: copies sent and not received
    stage,      \* of a copy, see Stages
    known,      \* articles with an enrichment in the database
    embedQ, batch, vectorQ,   \* copies to embed, being embedded; finished keys
    cache,      \* embedding_cache: the articles whose vectors it holds
    reingestQ,  \* enriched copies on their way back
    pending,    \* pending_reingest: the enriched copy waiting for a vector
    aged,       \* entries of pending older than ten seconds
    ingested, shown   \* history, as in EnrichmentContract

task      == <<stage, known>>
embedding == <<embedQ, batch, vectorQ>>
waiting   == <<pending, aged>>
journey   == <<ingested, shown>>
vars == <<feed, stage, known, embedQ, batch, vectorQ, cache,
          reingestQ, pending, aged, ingested, shown>>

(* "queued": the task waits for a permit; "enriching": it waits for the    *)
(* model; "stored": it has written, or tried to write, the result;         *)
(* "returned": it has sent the copy back, or tried to.                     *)
Stages  == {"unsent", "sent", "lost", "queued", "enriching", "stored", "returned", "done"}
Running == {k \in Copy : stage[k] \in {"enriching", "stored", "returned"}}
Moved(k, where) == stage' = [stage EXCEPT ![k] = where]
Ingest(group) == ingested' = [k \in Copy |-> IF k \in group THEN ingested[k] + 1 ELSE ingested[k]]
Publish(k, how) == shown' = [shown EXCEPT ![k] = how]
Room(queue, slots) == Len(queue) < slots
-----------------------------------------------------------------------------
Init ==
    /\ feed = <<>>
    /\ stage = [k \in Copy |-> "unsent"]
    /\ known = Earlier
    /\ embedQ = <<>> /\ batch = <<>> /\ vectorQ = <<>>
    /\ cache = {}
    /\ reingestQ = <<>>
    /\ pending = [a \in Article |-> Nothing] /\ aged = {}
    /\ ingested = [k \in Copy |-> 0]
    /\ shown = [k \in Copy |-> "no"]

(* A source sends.  A full channel drops what it holds longest: the        *)
(* pipeline sees Lagged and goes on with the next.                         *)
Send(k) ==
    /\ stage[k] = "unsent"
    /\ LET full == ~Room(feed, FeedSize)
       IN  /\ feed' = Append(IF full THEN Tail(feed) ELSE feed, k)
           /\ stage' = [j \in Copy |->
                 IF j = k THEN "sent" ELSE IF full /\ j = Head(feed) THEN "lost" ELSE stage[j]]
    /\ UNCHANGED <<known, embedding, cache, reingestQ, waiting, journey>>

(* The loop receives: into the graph at once, to the embedding worker if   *)
(* there is room, and to spawn_enrichment, which declines while the GPU is *)
(* paused; then the copy is shown as it is.  The GPU is paused and resumed *)
(* from outside at any moment: whoever looks finds it either way.          *)
Receive ==
    /\ feed # <<>>
    /\ feed' = Tail(feed)
    /\ LET k == Head(feed)
       IN  /\ Ingest({k})
           /\ embedQ' = IF Room(embedQ, EmbedSlots) THEN Append(embedQ, k) ELSE embedQ
           /\ \E gpuPaused \in BOOLEAN :
                 IF gpuPaused THEN Moved(k, "done") /\ Publish(k, "raw")
                              ELSE Moved(k, "queued") /\ UNCHANGED shown
    /\ UNCHANGED <<known, batch, vectorQ, cache, reingestQ, waiting>>
-----------------------------------------------------------------------------
(* The task has a permit and asks event_has_enrichment; an article that    *)
(* has one is neither enriched nor shown again.  A failing query counts as *)
(* no.                                                                     *)
PermitFree == Cardinality(Running) < Permits

Begin(k) ==
    /\ stage[k] = "queued" /\ PermitFree
    /\ \/ Of[k] \in known /\ Moved(k, "done")
       \/ Moved(k, "enriching")
    /\ UNCHANGED <<feed, known, embedding, cache, reingestQ, waiting, journey>>

(* The model answers.  The result is stored unless that fails; other tasks *)
(* may run before the next step.                                           *)
Store(k) ==
    /\ stage[k] = "enriching"
    /\ Moved(k, "stored")
    /\ known' \in {known, known \cup {Of[k]}}
    /\ UNCHANGED <<feed, embedding, cache, reingestQ, waiting, journey>>

(* The enriched copy goes back to the loop if there is room; it is shown   *)
(* in any case.  The loop may have taken it, and it may be in the graph,   *)
(* before it is shown.                                                     *)
OnlyIfSent(sent) == IF sent THEN "returned" ELSE "done"
Onward(sent) == "returned"

Return(k) ==
    /\ stage[k] = "stored"
    /\ LET sent == Room(reingestQ, ReingestSlots)
       IN  /\ reingestQ' = IF sent THEN Append(reingestQ, k) ELSE reingestQ
           /\ Moved(k, Onward(sent))
    /\ UNCHANGED <<feed, known, embedding, cache, waiting, journey>>

Finish(k) ==
    /\ stage[k] = "returned"
    /\ Moved(k, "done")
    /\ Publish(k, "enriched")
    /\ UNCHANGED <<feed, known, embedding, cache, reingestQ, waiting, ingested>>

EnrichmentFails(k) ==
    /\ stage[k] = "enriching"
    /\ Moved(k, "done")
    /\ Publish(k, "raw")
    /\ UNCHANGED <<feed, known, embedding, cache, reingestQ, waiting, ingested>>
-----------------------------------------------------------------------------
(* embedding_worker takes some copies off its queue.  They are dropped     *)
(* while the GPU is paused, or if inference fails.                         *)
TakeBatch ==
    /\ batch = <<>>
    /\ \E n \in 1..BatchSize :
          /\ n <= Len(embedQ)
          /\ embedQ' = SubSeq(embedQ, n + 1, Len(embedQ))
          /\ batch' \in {<<>>, SubSeq(embedQ, 1, n)}
    /\ UNCHANGED <<feed, task, vectorQ, cache, reingestQ, waiting, journey>>

(* It sends the vectors one by one, waiting while the channel is full.     *)
SendVector ==
    /\ batch # <<>> /\ Room(vectorQ, VectorSlots)
    /\ batch' = Tail(batch)
    /\ vectorQ' = Append(vectorQ, Of[Head(batch)])
    /\ UNCHANGED <<feed, task, embedQ, cache, reingestQ, waiting, journey>>

(* LruCache::put evicts what was used least recently.  Every lookup of the *)
(* graph counts as a use, so this may be any entry.                        *)
WithVector(a) ==
    IF a \in cache \/ Cardinality(cache) < CacheSize
    THEN {cache \cup {a}}
    ELSE {(cache \ {b}) \cup {a} : b \in cache}

(* The loop receives a vector; a copy that waited for it goes in.          *)
Keeps(a) == pending[a]
Removed(a) == Nothing

ReceiveVector ==
    /\ vectorQ # <<>>
    /\ vectorQ' = Tail(vectorQ)
    /\ LET a == Head(vectorQ)
       IN  /\ cache' \in WithVector(a)
           /\ pending' = [pending EXCEPT ![a] = Removed(a)]
           /\ aged' = aged \ {a}
           /\ Ingest({pending[a]})
    /\ UNCHANGED <<feed, task, embedQ, batch, reingestQ, shown>>

(* The loop receives an enriched copy.  With its vector in the cache it    *)
(* goes in, without it waits; a copy already waiting under that key is     *)
(* forgotten.                                                              *)
HasVector(a) == a \in cache

Reingest ==
    /\ reingestQ # <<>>
    /\ reingestQ' = Tail(reingestQ)
    /\ LET k == Head(reingestQ)
           a == Of[k]
       IN  /\ aged' = IF HasVector(a) THEN aged ELSE aged \ {a}
           /\ IF HasVector(a)
              THEN Ingest({k}) /\ UNCHANGED pending
              ELSE pending' = [pending EXCEPT ![a] = k] /\ UNCHANGED ingested
    /\ UNCHANGED <<feed, task, embedding, cache, shown>>

(* Ten seconds go by.                                                      *)
Age(a) ==
    /\ pending[a] # Nothing /\ a \notin aged
    /\ aged' = aged \cup {a}
    /\ UNCHANGED <<feed, task, embedding, cache, reingestQ, pending, journey>>

(* reingest_sweep: what has waited for longer goes in without its vector.  *)
SweptTooEarly == {a \in Article : pending[a] # Nothing} \ aged
Swept == aged

Sweep ==
    /\ aged # {}
    /\ Ingest({pending[a] : a \in Swept})
    /\ pending' = [a \in Article |-> IF a \in Swept THEN Nothing ELSE pending[a]]
    /\ aged' = aged \ Swept
    /\ UNCHANGED <<feed, task, embedding, cache, reingestQ, shown>>
-----------------------------------------------------------------------------
Loop   == Receive \/ ReceiveVector \/ Reingest \/ Sweep
Worker == TakeBatch \/ SendVector
Task(k) == Begin(k) \/ Store(k) \/ Return(k) \/ Finish(k) \/ EnrichmentFails(k)

Next ==
    \/ \E k \in Copy : Send(k) \/ Task(k)
    \/ \E a \in Article : Age(a)
    \/ Loop
    \/ Worker

(* Tasks end: the semaphore is first come, first served, requests to the   *)
(* models and the database time out.  Time passes.  select! picks at       *)
(* random among the branches that are ready, so none is passed over for    *)
(* ever.  Nothing is asked of the sources and of the embedding worker.     *)
TasksEnd   == \A k \in Copy : []<>(stage[k] \notin {"queued", "enriching", "stored", "returned"})
TimePasses == \A a \in Article : []<>(pending[a] = Nothing \/ a \in aged)

Spec == Init /\ [][Next]_vars /\ WF_vars(Reingest) /\ WF_vars(Sweep) /\ TasksEnd /\ TimePasses
-----------------------------------------------------------------------------
(* The copies for which the model has answered.                            *)
Answered == {k \in Copy : stage[k] \in {"stored", "returned"} \/ shown[k] = "enriched"}

Contract == INSTANCE EnrichmentContract WITH enriched <- Answered

Queue(slots) == UNION {[1..n -> Copy] : n \in 0..slots}

(* Types.  A channel never holds more than its slots, the cache no more    *)
(* than its size, and an article has one copy at most waiting.             *)
TypeOKFlow ==
    /\ feed \in Queue(FeedSize)
    /\ stage \in [Copy -> Stages] /\ Cardinality(Running) <= Permits
    /\ Earlier \subseteq known /\ known \subseteq Article
    /\ embedQ \in Queue(EmbedSlots) /\ batch \in Queue(BatchSize)
    /\ reingestQ \in Queue(ReingestSlots)
    /\ Len(vectorQ) <= VectorSlots
    /\ cache \subseteq Article /\ Cardinality(cache) <= CacheSize
    /\ \A a \in Article : pending[a] # Nothing => Of[pending[a]] = a
    /\ aged \subseteq {a \in Article : pending[a] # Nothing}

(* Every copy goes into the graph once as it came and at most once more,   *)
(* only when it has been enriched, whichever of cache, waiting list and    *)
(* sweep it passes through; it is shown once at most, before or after      *)
(* that, and never as it came when it has been enriched.                   *)
EnrichedAtMostOnce == Contract!Spec

(* Every article the pipeline receives is shown, the ones enriched before  *)
(* the start apart: a task that finds the article enriched leaves showing  *)
(* it to the task that enriched it.                                        *)
EveryArticleShown ==
    \A k \in Copy :
        (ingested[k] > 0 /\ Of[k] \notin Earlier)
            ~> (\E j \in Copy : Of[j] = Of[k] /\ shown[j] # "no")

(* No enriched copy waits for ever on its way back, though its vector may  *)
(* never come: the GPU was paused, the queue full, or the key evicted from *)
(* the cache.  It goes into the graph, unless another copy of the article  *)
(* takes its place.                                                        *)
OnItsWay(k) == pending[Of[k]] = k \/ \E i \in 1..Len(reingestQ) : reingestQ[i] = k

NothingWaitsForever ==
    \A k \in Copy :
        OnItsWay(k) ~> (ingested[k] = 2 \/ pending[Of[k]] \notin {k, Nothing})
=============================================================================
