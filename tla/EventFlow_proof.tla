-------------------------- MODULE EventFlow_proof --------------------------
(***************************************************************************)
(* Proofs about EventFlow: the pipeline implements the contract of         *)
(* enrichment, for any number of articles, copies and slots.               *)
(***************************************************************************)
EXTENDS EventFlow, SequenceTheorems, FiniteSetTheorems, TLAPS

(* Types of what the loop and the tasks pass on.                           *)
FlowTypes ==
    /\ feed \in Seq(Copy) /\ reingestQ \in Seq(Copy)
    /\ embedQ \in Seq(Copy) /\ batch \in Seq(Copy) /\ vectorQ \in Seq(Article)
    /\ stage \in [Copy -> Stages]
    /\ pending \in [Article -> Copy \cup {Nothing}]
    /\ aged \subseteq {a \in Article : pending[a] # Nothing}
    /\ ingested \in [Copy -> {0, 1, 2}]
    /\ shown \in [Copy -> {"no", "raw", "enriched"}]

(* How far a copy has come, by the place it is at.                         *)
Unheard(k) == ingested[k] = 0 /\ shown[k] = "no"
Heard(k)   == ingested[k] = 1 /\ shown[k] = "no"
Ready(k)   ==
    /\ ingested[k] = 1
    /\ stage[k] = "returned" \/ (stage[k] = "done" /\ shown[k] = "enriched")

Journeys ==
    \A k \in Copy :
        /\ stage[k] \in {"unsent", "sent", "lost"} => Unheard(k)
        /\ stage[k] \in {"queued", "enriching", "stored"} => Heard(k)
        /\ stage[k] = "returned" => ingested[k] > 0 /\ shown[k] = "no"

(* A queue holds nothing twice.                                            *)
Distinct(q) == \A i, j \in 1..Len(q) : q[i] = q[j] => i = j

FeedSent == Distinct(feed) /\ \A i \in 1..Len(feed) : stage[feed[i]] = "sent"

(* An enriched copy is at one place on its way back, and has not gone in.  *)
BackReady == Distinct(reingestQ) /\ \A i \in 1..Len(reingestQ) : Ready(reingestQ[i])

WaitReady ==
    \A a \in Article : pending[a] # Nothing =>
        /\ Of[pending[a]] = a /\ Ready(pending[a])
        /\ \A i \in 1..Len(reingestQ) : reingestQ[i] # pending[a]

IInv == FlowTypes /\ Journeys /\ FeedSent /\ BackReady /\ WaitReady

(* What the contract speaks of.                                            *)
mapped == <<ingested, Answered, shown>>
-----------------------------------------------------------------------------
(* Taking the first element off a queue.                                   *)
LEMMA TailFacts ==
    ASSUME NEW S, NEW q \in Seq(S), q # <<>>
    PROVE  /\ 1 \in 1..Len(q) /\ Head(q) = q[1] /\ Head(q) \in S
           /\ Tail(q) \in Seq(S) /\ Len(Tail(q)) = Len(q) - 1
           /\ \A i \in 1..Len(Tail(q)) : i + 1 \in 1..Len(q) /\ Tail(q)[i] = q[i + 1]
<1>1. Len(q) \in Nat /\ Len(q) # 0
    BY EmptySeq, LenProperties
<1>2. \A i \in 1..Len(q) : q[i] \in S
    BY ElementOfSeq
<1> QED BY <1>1, <1>2, HeadTailProperties

(* What is left of a queue without duplicates has none, and not the head.  *)
LEMMA TailDistinct ==
    ASSUME NEW S, NEW q \in Seq(S), q # <<>>, Distinct(q)
    PROVE  /\ Distinct(Tail(q))
           /\ \A i \in 1..Len(Tail(q)) : Tail(q)[i] # Head(q)
<1> DEFINE t == Tail(q)
<1>1. /\ Len(q) \in Nat /\ Len(t) \in Nat
      /\ 1 \in 1..Len(q) /\ Head(q) = q[1]
      /\ \A i \in 1..Len(t) : i + 1 \in 1..Len(q) /\ t[i] = q[i + 1]
    BY TailFacts, LenProperties
<1>2. ASSUME NEW i \in 1..Len(t), NEW j \in 1..Len(t), t[i] = t[j]
      PROVE  i = j
    BY <1>1, <1>2 DEF Distinct
<1>3. ASSUME NEW i \in 1..Len(t)
      PROVE  t[i] # Head(q)
    BY <1>1 DEF Distinct
<1> QED BY <1>2, <1>3 DEF Distinct

(* A queue takes in something it does not hold.                            *)
LEMMA AppendDistinct ==
    ASSUME NEW S, NEW q \in Seq(S), NEW x \in S,
           Distinct(q), \A i \in 1..Len(q) : q[i] # x
    PROVE  /\ Append(q, x) \in Seq(S) /\ Distinct(Append(q, x))
           /\ Len(Append(q, x)) = Len(q) + 1
           /\ \A i \in 1..Len(Append(q, x)) :
                 (i \in 1..Len(q) /\ Append(q, x)[i] = q[i]) \/ Append(q, x)[i] = x
<1> DEFINE t == Append(q, x)
<1>1. /\ t \in Seq(S) /\ Len(q) \in Nat /\ Len(t) = Len(q) + 1
      /\ \A i \in 1..Len(q) : t[i] = q[i]
      /\ t[Len(q) + 1] = x
    BY AppendProperties, LenProperties
<1>2. \A i \in 1..Len(t) : i \in 1..Len(q) \/ i = Len(q) + 1
    BY <1>1
<1>3. ASSUME NEW i \in 1..Len(t), NEW j \in 1..Len(t), t[i] = t[j]
      PROVE  i = j
    BY <1>1, <1>2, <1>3 DEF Distinct
<1> QED BY <1>1, <1>2, <1>3 DEF Distinct

(* Going into the graph counts once for each copy of a group.              *)
LEMMA IngestFacts ==
    ASSUME FlowTypes, NEW group, Ingest(group)
    PROVE  /\ \A k \in Copy : ingested'[k] = IF k \in group THEN ingested[k] + 1 ELSE ingested[k]
           /\ ingested' = [k \in Copy |-> ingested'[k]]
BY DEF Ingest, FlowTypes
-----------------------------------------------------------------------------
LEMMA InitIInv == Init => IInv
<1> SUFFICES ASSUME Init PROVE IInv
    OBVIOUS
<1>1. <<>> \in Seq(Copy) /\ <<>> \in Seq(Article) /\ Len(<<>>) = 0
    BY EmptySeq
<1>2. FlowTypes
    BY <1>1, FlowAssumption DEF Init, FlowTypes, Stages
<1> QED BY <1>1, <1>2, FlowAssumption
    DEF Init, IInv, Journeys, FeedSent, BackReady, WaitReady, Distinct, Unheard

(* A send puts a new copy at the end of the feed and may lose the first.   *)
LEMMA SendStep == ASSUME IInv, NEW k \in Copy, Send(k) PROVE IInv'
<1> DEFINE full == ~Room(feed, FeedSize)
           rest == IF full THEN Tail(feed) ELSE feed
<1>1. /\ stage[k] = "unsent" /\ feed' = Append(rest, k)
      /\ stage' = [j \in Copy |->
            IF j = k THEN "sent" ELSE IF full /\ j = Head(feed) THEN "lost" ELSE stage[j]]
      /\ UNCHANGED <<embedQ, batch, vectorQ, reingestQ, pending, aged, ingested, shown>>
    BY DEF Send, task, embedding, waiting, journey
<1>2. full => feed # <<>>
    BY FlowAssumption, EmptySeq DEF Room
<1>3. /\ rest \in Seq(Copy) /\ Distinct(rest)
      /\ \A i \in 1..Len(rest) : stage[rest[i]] = "sent" /\ rest[i] # k /\ rest[i] \in Copy
      /\ full => \A i \in 1..Len(rest) : rest[i] # Head(feed)
    BY <1>1, <1>2, TailFacts, TailDistinct, ElementOfSeq DEF IInv, FlowTypes, FeedSent
<1>4. full => Head(feed) \in Copy /\ stage[Head(feed)] = "sent"
    BY <1>2, TailFacts DEF IInv, FlowTypes, FeedSent
<1> HIDE DEF rest, full
<1>5. /\ feed' \in Seq(Copy) /\ Distinct(feed')
      /\ \A i \in 1..Len(feed') : (i \in 1..Len(rest) /\ feed'[i] = rest[i]) \/ feed'[i] = k
    BY <1>1, <1>3, AppendDistinct
<1>6. FlowTypes'
    BY <1>1, <1>5 DEF IInv, FlowTypes, Stages
<1>7. Journeys'
    BY <1>1, <1>4 DEF IInv, Journeys, Unheard, Heard
<1>8. FeedSent'
    BY <1>1, <1>3, <1>5 DEF FeedSent, Distinct
<1>9. \A c \in Copy : Ready(c) => Ready(c)'
    BY <1>1, <1>4 DEF Ready
<1>10. BackReady'
    BY <1>1, <1>9, ElementOfSeq DEF IInv, FlowTypes, BackReady, Distinct
<1>11. WaitReady'
    BY <1>1, <1>9 DEF IInv, FlowTypes, WaitReady
<1> QED BY <1>6, <1>7, <1>8, <1>10, <1>11 DEF IInv

(* No copy that is sent or lost has been enriched.                         *)
LEMMA SendAnswers == ASSUME IInv, \E k \in Copy : Send(k) PROVE UNCHANGED mapped
<1>1. PICK k \in Copy : Send(k)
    OBVIOUS
<1>2. /\ UNCHANGED <<ingested, shown>> /\ stage[k] = "unsent"
      /\ \A j \in Copy : stage'[j] = stage[j] \/ (stage[j] \in {"unsent", "sent"} /\ stage'[j] \in {"sent", "lost"})
    <2>1. ~Room(feed, FeedSize) => stage[Head(feed)] = "sent"
        BY FlowAssumption, EmptySeq, TailFacts DEF Room, IInv, FlowTypes, FeedSent
    <2> QED BY <1>1, <2>1 DEF Send, journey
<1> QED BY <1>2 DEF Answered, mapped

(* The loop hears the first copy of the feed.                              *)
LEMMA ReceiveStep == ASSUME IInv, Receive PROVE IInv' /\ Contract!Next
<1> DEFINE k == Head(feed)
<1>1. feed # <<>> /\ feed' = Tail(feed) /\ Ingest({k})
      /\ UNCHANGED <<batch, vectorQ, reingestQ, pending, aged>>
    BY DEF Receive, waiting
<1>2. /\ k \in Copy /\ feed' \in Seq(Copy) /\ Distinct(feed')
      /\ \A i \in 1..Len(feed') : feed'[i] \in Copy /\ feed'[i] # k /\ stage[feed'[i]] = "sent"
    BY <1>1, TailFacts, TailDistinct, ElementOfSeq DEF IInv, FlowTypes, FeedSent
<1>3. stage[k] = "sent" /\ Unheard(k)
    BY <1>1, TailFacts DEF IInv, FlowTypes, FeedSent, Journeys
<1> HIDE DEF k
<1>4. embedQ' \in Seq(Copy)
    BY <1>2, AppendProperties DEF Receive, IInv, FlowTypes
<1>5. ingested' = [ingested EXCEPT ![k] = 1]
    <2>1. ingested \in [Copy -> {0, 1, 2}] /\ ingested[k] = 0
        BY <1>3 DEF IInv, FlowTypes, Unheard
    <2>2. ingested' = [c \in Copy |-> IF c \in {k} THEN ingested[c] + 1 ELSE ingested[c]]
        BY <1>1 DEF Ingest, k
    <2>3. [ingested EXCEPT ![k] = 1] = [c \in Copy |-> IF c = k THEN 1 ELSE ingested[c]]
        BY <2>1
    <2>4. \A c \in Copy : (IF c \in {k} THEN ingested[c] + 1 ELSE ingested[c])
                              = (IF c = k THEN 1 ELSE ingested[c])
        BY <2>1
    <2> QED BY <2>2, <2>3, <2>4
<1>6. \/ /\ stage' = [stage EXCEPT ![k] = "done"]
         /\ shown' = [shown EXCEPT ![k] = "raw"]
      \/ stage' = [stage EXCEPT ![k] = "queued"] /\ shown' = shown
    BY <1>1 DEF Receive, Moved, Publish, k
<1>7. FlowTypes'
    <2>1. /\ stage' \in [Copy -> Stages]
          /\ shown' \in [Copy -> {"no", "raw", "enriched"}]
        BY <1>2, <1>6 DEF IInv, FlowTypes, Stages
    <2>2. ingested' \in [Copy -> {0, 1, 2}]
        BY <1>5 DEF IInv, FlowTypes
    <2> QED BY <1>1, <1>2, <1>4, <2>1, <2>2 DEF IInv, FlowTypes
<1>8. Journeys'
    BY <1>2, <1>3, <1>5, <1>6 DEF IInv, FlowTypes, Journeys, Unheard, Heard
<1>9. FeedSent'
    BY <1>2, <1>6 DEF IInv, FlowTypes, FeedSent
<1>10. \A c \in Copy : Ready(c) => Ready(c)'
    BY <1>2, <1>3, <1>5, <1>6 DEF IInv, FlowTypes, Ready
<1>11. BackReady' /\ WaitReady'
    BY <1>1, <1>10, ElementOfSeq DEF IInv, FlowTypes, BackReady, WaitReady, Distinct
<1>12. Contract!Hear(k, "raw") \/ Contract!Hear(k, "no")
    <2>1. UNCHANGED Answered
        BY <1>2, <1>3, <1>6 DEF Answered, Unheard, IInv, FlowTypes
    <2> QED BY <1>2, <1>3, <1>5, <1>6, <2>1 DEF Contract!Hear, Unheard, IInv, FlowTypes
<1> QED BY <1>2, <1>7, <1>8, <1>9, <1>11, <1>12 DEF IInv, Contract!Next
-----------------------------------------------------------------------------
(* The task of a copy moves on, and may show it.                           *)
LEMMA TaskMoves ==
    ASSUME IInv, NEW k \in Copy, stage[k] \in {"queued", "enriching", "stored", "returned"},
           NEW w \in {"enriching", "stored", "returned", "done"}, Moved(k, w),
           \/ UNCHANGED shown
           \/ w = "done" /\ \E how \in {"raw", "enriched"} : Publish(k, how),
           stage[k] = "returned" => w = "done" /\ Publish(k, "enriched"),
           w \in {"enriching", "stored"} => stage[k] # "returned",
           UNCHANGED <<feed, embedding, waiting, ingested>>,
           reingestQ' \in Seq(Copy)
    PROVE  /\ FlowTypes' /\ Journeys' /\ FeedSent'
           /\ \A c \in Copy : Ready(c) => Ready(c)' /\ (c = k => stage[k] = "returned")
           /\ ingested[k] > 0 /\ shown[k] = "no" /\ stage'[k] = w
           /\ stage[k] # "returned" => Heard(k)
<1>1. /\ stage' = [stage EXCEPT ![k] = w] /\ stage \in [Copy -> Stages]
      /\ ingested[k] > 0 /\ shown[k] = "no"
      /\ stage[k] # "returned" => Heard(k)
    BY DEF Moved, IInv, FlowTypes, Journeys, Heard
<1>2. /\ shown \in [Copy -> {"no", "raw", "enriched"}]
      /\ \/ shown' = shown
         \/ w = "done" /\ \E how \in {"raw", "enriched"} : shown' = [shown EXCEPT ![k] = how]
      /\ stage[k] = "returned" => w = "done" /\ shown' = [shown EXCEPT ![k] = "enriched"]
    BY DEF Publish, IInv, FlowTypes
<1>3. UNCHANGED <<feed, embedQ, batch, vectorQ, pending, aged, ingested>>
    BY DEF embedding, waiting
<1>4. FlowTypes'
    BY <1>1, <1>2, <1>3 DEF IInv, FlowTypes, Stages
<1>5. Journeys'
    BY <1>1, <1>2, <1>3 DEF IInv, Journeys, Unheard, Heard
<1>6. FeedSent'
    BY <1>1, <1>3, ElementOfSeq DEF IInv, FlowTypes, FeedSent, Distinct
<1>7. \A c \in Copy : Ready(c) => Ready(c)' /\ (c = k => stage[k] = "returned")
    BY <1>1, <1>2, <1>3 DEF Ready
<1> QED BY <1>1, <1>4, <1>5, <1>6, <1>7

(* What waits stays ready while its copies do.                             *)
LEMMA StillReady ==
    ASSUME IInv, UNCHANGED <<reingestQ, pending>>, \A c \in Copy : Ready(c) => Ready(c)'
    PROVE  BackReady' /\ WaitReady'
BY ElementOfSeq DEF IInv, FlowTypes, BackReady, WaitReady, Distinct

LEMMA TaskStep ==
    ASSUME IInv, NEW k \in Copy, Begin(k) \/ Store(k) \/ EnrichmentFails(k) \/ Finish(k)
    PROVE  IInv' /\ (Contract!Next \/ UNCHANGED mapped)
<1>1. CASE Begin(k)
    <2>1. /\ stage[k] = "queued" /\ \E w \in {"enriching", "done"} : Moved(k, w)
          /\ UNCHANGED <<feed, embedding, waiting, journey, reingestQ>>
        BY <1>1 DEF Begin
    <2>2. IInv'
        BY <2>1, TaskMoves, StillReady DEF IInv, FlowTypes, journey, waiting
    <2>3. UNCHANGED mapped
        BY <2>1 DEF Moved, Answered, mapped, journey, IInv, FlowTypes
    <2> QED BY <2>2, <2>3
<1>2. CASE Store(k)
    <2>1. /\ stage[k] = "enriching" /\ Moved(k, "stored")
          /\ UNCHANGED <<feed, embedding, waiting, journey, reingestQ>>
        BY <1>2 DEF Store
    <2>2. IInv' /\ Heard(k)
        BY <2>1, TaskMoves, StillReady DEF IInv, FlowTypes, journey, waiting
    <2>3. Answered' = Answered \cup {k} /\ k \notin Answered
        BY <2>1, <2>2 DEF Moved, Answered, Heard, journey, IInv, FlowTypes
    <2>4. Contract!Enrich(k)
        BY <2>1, <2>2, <2>3 DEF Contract!Enrich, Heard, journey
    <2> QED BY <2>2, <2>4 DEF Contract!Next
<1>3. CASE EnrichmentFails(k)
    <2>1. /\ stage[k] = "enriching" /\ Moved(k, "done") /\ Publish(k, "raw")
          /\ UNCHANGED <<feed, embedding, waiting, ingested, reingestQ>>
        BY <1>3 DEF EnrichmentFails
    <2>2. IInv' /\ Heard(k)
        BY <2>1, TaskMoves, StillReady DEF IInv, FlowTypes, waiting
    <2>3. Answered' = Answered /\ k \notin Answered
        BY <2>1, <2>2 DEF Moved, Publish, Answered, Heard, IInv, FlowTypes
    <2>4. Contract!Show(k)
        BY <2>1, <2>2, <2>3 DEF Contract!Show, Publish, Heard
    <2> QED BY <2>2, <2>4 DEF Contract!Next
<1>4. CASE Finish(k)
    <2>1. /\ stage[k] = "returned" /\ Moved(k, "done") /\ Publish(k, "enriched")
          /\ UNCHANGED <<feed, embedding, waiting, ingested, reingestQ>>
        BY <1>4 DEF Finish
    <2>2. IInv' /\ ingested[k] > 0 /\ shown[k] = "no"
        BY <2>1, TaskMoves, StillReady DEF IInv, FlowTypes, waiting
    <2>3. Answered' = Answered /\ k \in Answered
        BY <2>1 DEF Moved, Publish, Answered, IInv, FlowTypes
    <2>4. Contract!Show(k)
        BY <2>1, <2>2, <2>3 DEF Contract!Show, Publish
    <2> QED BY <2>2, <2>4 DEF Contract!Next
<1> QED BY <1>1, <1>2, <1>3, <1>4

(* An enriched copy is on its way back, or there was no room; it is still  *)
(* to be shown.                                                            *)
LEMMA ReturnStep ==
    ASSUME IInv, NEW k \in Copy, Return(k)
    PROVE  IInv' /\ UNCHANGED mapped
<1>1. /\ stage[k] = "stored" /\ Moved(k, "returned")
      /\ UNCHANGED <<feed, embedding, waiting, ingested, shown>>
      /\ reingestQ' \in {reingestQ, Append(reingestQ, k)}
    BY DEF Return, Onward, journey
<1>2. reingestQ \in Seq(Copy)
    BY DEF IInv, FlowTypes
<1>3. reingestQ' \in Seq(Copy)
    BY <1>1, <1>2, AppendProperties
<1>4. /\ FlowTypes' /\ Journeys' /\ FeedSent'
      /\ \A c \in Copy : Ready(c) => c # k /\ Ready(c)'
      /\ stage'[k] = "returned" /\ Heard(k)
    BY <1>1, <1>3, TaskMoves
<1>5. Ready(k)'
    BY <1>1, <1>4 DEF Ready, Heard
<1>6. /\ Distinct(reingestQ)
      /\ \A i \in 1..Len(reingestQ) :
            reingestQ[i] # k /\ \E c \in Copy : c = reingestQ[i] /\ Ready(c)'
    BY <1>2, <1>4, ElementOfSeq DEF IInv, BackReady
<1>7. /\ Distinct(reingestQ')
      /\ \A i \in 1..Len(reingestQ') :
            \/ i \in 1..Len(reingestQ) /\ reingestQ'[i] = reingestQ[i]
            \/ reingestQ'[i] = k
    <2>1. CASE reingestQ' = reingestQ
        BY <1>6, <2>1
    <2>2. CASE reingestQ' = Append(reingestQ, k)
        <3>1. \A i \in 1..Len(reingestQ) : reingestQ[i] # k
            BY <1>6
        <3> QED BY <1>2, <1>6, <2>2, <3>1, AppendDistinct
    <2> QED BY <1>1, <2>1, <2>2
<1>8. BackReady'
    <2>1. \A i \in 1..Len(reingestQ') : \E c \in Copy : c = reingestQ'[i] /\ Ready(c)'
        BY <1>5, <1>6, <1>7
    <2> QED BY <1>7, <2>1 DEF BackReady, Distinct
<1>9. WaitReady'
    <2>1. pending' = pending
        BY <1>1 DEF waiting
    <2>2. ASSUME NEW a \in Article, pending[a] # Nothing
          PROVE  \E c \in Copy : /\ c = pending[a] /\ Of[c] = a /\ Ready(c)' /\ c # k
                                 /\ \A i \in 1..Len(reingestQ') : reingestQ'[i] # c
        BY <1>4, <1>7, <2>2 DEF IInv, FlowTypes, WaitReady
    <2> QED BY <2>1, <2>2 DEF WaitReady
<1>10. UNCHANGED mapped
    BY <1>1 DEF Moved, Answered, mapped, IInv, FlowTypes
<1> QED BY <1>4, <1>8, <1>9, <1>10 DEF IInv

(* The embedding worker and the clock touch nothing that is on its way.    *)
LEMMA WorkerStep ==
    ASSUME IInv, Worker \/ \E a \in Article : Age(a)
    PROVE  IInv' /\ UNCHANGED mapped
<1>1. /\ UNCHANGED <<feed, stage, reingestQ, pending, ingested, shown>>
      /\ aged' \subseteq {a \in Article : pending[a] # Nothing}
    BY DEF Worker, TakeBatch, SendVector, Age, task, waiting, journey, IInv, FlowTypes
<1>2. embedQ' \in Seq(Copy) /\ batch' \in Seq(Copy) /\ vectorQ' \in Seq(Article)
    <2>1. CASE TakeBatch
        <3>1. PICK n \in 1..BatchSize :
                 /\ n <= Len(embedQ) /\ embedQ' = SubSeq(embedQ, n + 1, Len(embedQ))
                 /\ batch' \in {<<>>, SubSeq(embedQ, 1, n)} /\ vectorQ' = vectorQ
            BY <2>1 DEF TakeBatch
        <3>2. embedQ \in Seq(Copy) /\ vectorQ \in Seq(Article) /\ n \in Nat
              /\ \A i \in 1..Len(embedQ) : embedQ[i] \in Copy
            BY FlowAssumption, ElementOfSeq DEF IInv, FlowTypes
        <3>3. Len(embedQ) \in Nat
            BY <3>2, LenProperties
        <3>4. SubSeq(embedQ, n + 1, Len(embedQ)) \in Seq(Copy)
            BY <3>2, <3>3, SubSeqProperties
        <3>5. SubSeq(embedQ, 1, n) \in Seq(Copy)
            BY <3>1, <3>2, <3>3, SubSeqProperties
        <3> QED BY <3>1, <3>2, <3>4, <3>5, EmptySeq
    <2>2. CASE SendVector
        <3>1. Of[Head(batch)] \in Article /\ Tail(batch) \in Seq(Copy)
            BY <2>2, TailFacts, FlowAssumption DEF SendVector, IInv, FlowTypes
        <3>2. Append(vectorQ, Of[Head(batch)]) \in Seq(Article)
            BY <3>1, AppendProperties DEF IInv, FlowTypes
        <3> QED BY <2>2, <3>1, <3>2 DEF SendVector, IInv, FlowTypes
    <2>3. CASE \E a \in Article : Age(a)
        BY <2>3 DEF Age, embedding, IInv, FlowTypes
    <2> QED BY <2>1, <2>2, <2>3 DEF Worker
<1>3. FlowTypes'
    BY <1>1, <1>2 DEF IInv, FlowTypes
<1>4. Journeys' /\ FeedSent'
    BY <1>1 DEF IInv, Journeys, FeedSent, Distinct, Unheard, Heard
<1>5. BackReady' /\ WaitReady'
    BY <1>1, StillReady DEF Ready
<1>6. UNCHANGED mapped
    BY <1>1 DEF Answered, mapped
<1> QED BY <1>3, <1>4, <1>5, <1>6 DEF IInv

(* Copies that are ready go into the graph: what else is ready stays so.   *)
LEMMA ReadyGoIn ==
    ASSUME IInv, NEW group \in SUBSET Copy, \A k \in group : Ready(k),
           Ingest(group), UNCHANGED <<stage, shown>>
    PROVE  /\ Contract!Upgrade(group) /\ Contract!Next
           /\ ingested' \in [Copy -> {0, 1, 2}]
           /\ Journeys'
           /\ \A c \in Copy \ group : Ready(c) => Ready(c)'
<1>1. ingested \in [Copy -> {0, 1, 2}]
    BY DEF IInv, FlowTypes
<1>2. ingested' = [k \in Copy |-> IF k \in group THEN ingested[k] + 1 ELSE ingested[k]]
    BY DEF Ingest
<1>3. \A k \in Copy : (IF k \in group THEN ingested[k] + 1 ELSE ingested[k])
                        = (IF k \in group THEN 2 ELSE ingested[k])
    BY <1>1 DEF Ready
<1>4. ingested' = [k \in Copy |-> IF k \in group THEN 2 ELSE ingested[k]]
    BY <1>2, <1>3
<1>5. Contract!Upgrade(group)
    BY <1>4 DEF Contract!Upgrade, Ready, Answered
<1>6. Journeys'
    BY <1>4 DEF IInv, Journeys, Unheard, Heard, Ready
<1> QED BY <1>1, <1>4, <1>5, <1>6 DEF Contract!Next, Ready

(* A vector lets the copy that waits for it in, if there is one.           *)
LEMMA VectorStep ==
    ASSUME IInv, ReceiveVector
    PROVE  IInv' /\ (Contract!Next \/ UNCHANGED mapped)
<1> DEFINE a == Head(vectorQ)
<1>1. /\ a \in Article /\ vectorQ' \in Seq(Article)
      /\ pending' = [pending EXCEPT ![a] = Nothing] /\ aged' = aged \ {a}
      /\ Ingest({pending[a]})
      /\ UNCHANGED <<feed, stage, embedQ, batch, reingestQ, shown>>
    BY TailFacts DEF ReceiveVector, Removed, task, IInv, FlowTypes
<1> HIDE DEF a
<1>2. CASE pending[a] = Nothing
    <2>1. /\ ingested = [k \in Copy |-> ingested[k]]
          /\ \A k \in Copy : k \notin {pending[a]}
        BY <1>2, FlowAssumption DEF IInv, FlowTypes
    <2>2. UNCHANGED <<ingested, pending>>
        BY <1>1, <1>2, <2>1 DEF Ingest, IInv, FlowTypes
    <2>3. IInv'
        BY <1>1, <2>2 DEF IInv, FlowTypes, Journeys, FeedSent, BackReady, WaitReady,
                          Distinct, Unheard, Heard, Ready
    <2> QED BY <1>1, <2>2, <2>3 DEF Answered, mapped
<1>3. CASE pending[a] # Nothing
    <2> DEFINE k == pending[a]
    <2>1. /\ k \in Copy /\ Of[k] = a /\ Ready(k)
          /\ \A i \in 1..Len(reingestQ) : reingestQ[i] # k
        BY <1>1, <1>3 DEF IInv, FlowTypes, WaitReady
    <2>2. /\ Contract!Next /\ ingested' \in [Copy -> {0, 1, 2}] /\ Journeys'
          /\ \A c \in Copy \ {k} : Ready(c) => Ready(c)'
        BY <1>1, <2>1, ReadyGoIn
    <2> HIDE DEF k
    <2>3. FlowTypes'
        BY <1>1, <2>2 DEF IInv, FlowTypes
    <2>4. FeedSent'
        BY <1>1 DEF IInv, FeedSent, Distinct
    <2>5. BackReady'
        BY <1>1, <2>1, <2>2, ElementOfSeq DEF IInv, FlowTypes, BackReady, Distinct
    <2>6. WaitReady'
        BY <1>1, <2>1, <2>2 DEF IInv, FlowTypes, WaitReady
    <2> QED BY <2>2, <2>3, <2>4, <2>5, <2>6 DEF IInv
<1> QED BY <1>2, <1>3

(* An enriched copy comes back: it goes in, or waits in the place of its   *)
(* article.                                                                *)
LEMMA ReingestStep ==
    ASSUME IInv, Reingest
    PROVE  IInv' /\ (Contract!Next \/ UNCHANGED mapped)
<1> DEFINE k == Head(reingestQ)
<1>1. /\ k \in Copy /\ Of[k] \in Article /\ Ready(k)
      /\ reingestQ' \in Seq(Copy) /\ Distinct(reingestQ')
      /\ \A i \in 1..Len(reingestQ') :
            reingestQ'[i] # k /\ \E c \in Copy : c = reingestQ'[i] /\ Ready(c)
    <2>1. /\ reingestQ \in Seq(Copy) /\ reingestQ # <<>> /\ reingestQ' = Tail(reingestQ)
          /\ Distinct(reingestQ) /\ \A i \in 1..Len(reingestQ) : Ready(reingestQ[i])
        BY DEF Reingest, IInv, FlowTypes, BackReady
    <2> QED BY <2>1, TailFacts, TailDistinct, ElementOfSeq, FlowAssumption
<1>2. /\ aged' \subseteq aged /\ UNCHANGED <<feed, stage, embedQ, batch, vectorQ, shown>>
      /\ \/ Ingest({k}) /\ UNCHANGED <<pending, aged>>
         \/ /\ pending' = [pending EXCEPT ![Of[k]] = k] /\ UNCHANGED ingested
            /\ aged' = aged \ {Of[k]}
    BY DEF Reingest, task, embedding
<1> HIDE DEF k
<1>3. \A i \in 1..Len(reingestQ') : \E j \in 1..Len(reingestQ) : reingestQ'[i] = reingestQ[j]
    BY TailFacts DEF Reingest, IInv, FlowTypes
<1>4. FeedSent'
    BY <1>2 DEF IInv, FeedSent, Distinct
<1>5. \A b \in Article : pending[b] # Nothing =>
         /\ pending[b] \in Copy /\ Ready(pending[b]) /\ Of[pending[b]] = b /\ pending[b] # k
         /\ \A i \in 1..Len(reingestQ') : reingestQ'[i] # pending[b]
    <2>1. \E j \in 1..Len(reingestQ) : reingestQ[j] = k
        BY TailFacts DEF Reingest, IInv, FlowTypes, k
    <2>2. ASSUME NEW b \in Article, pending[b] # Nothing
          PROVE  /\ pending[b] \in Copy /\ Ready(pending[b]) /\ Of[pending[b]] = b
                 /\ \A j \in 1..Len(reingestQ) : reingestQ[j] # pending[b]
        BY <2>2 DEF IInv, FlowTypes, WaitReady
    <2>3. ASSUME NEW b \in Article, pending[b] # Nothing, NEW i \in 1..Len(reingestQ')
          PROVE  reingestQ'[i] # pending[b]
        BY <1>3, <2>2, <2>3
    <2> QED BY <2>1, <2>2, <2>3
<1>6. CASE Ingest({k}) /\ UNCHANGED <<pending, aged>>
    <2>1. /\ Contract!Next /\ ingested' \in [Copy -> {0, 1, 2}] /\ Journeys'
          /\ \A c \in Copy \ {k} : Ready(c) => Ready(c)'
        BY <1>1, <1>2, <1>6, ReadyGoIn
    <2>2. FlowTypes'
        BY <1>1, <1>2, <1>6, <2>1 DEF IInv, FlowTypes
    <2>3. BackReady'
        BY <1>1, <2>1 DEF BackReady, Distinct
    <2>4. WaitReady'
        BY <1>5, <1>6, <2>1 DEF WaitReady
    <2> QED BY <1>4, <2>1, <2>2, <2>3, <2>4 DEF IInv
<1>7. CASE /\ pending' = [pending EXCEPT ![Of[k]] = k] /\ UNCHANGED ingested
           /\ aged' = aged \ {Of[k]}
    <2>1. \A c \in Copy : (Ready(c) => Ready(c)') /\ (Heard(c) => Heard(c)')
                          /\ (Unheard(c) => Unheard(c)')
        BY <1>2, <1>7 DEF Ready, Heard, Unheard
    <2>2. FlowTypes'
        BY <1>1, <1>2, <1>7, FlowAssumption DEF IInv, FlowTypes
    <2>3. Journeys'
        BY <1>2, <1>7 DEF IInv, Journeys, Heard, Unheard
    <2>4. BackReady'
        BY <1>1, <2>1 DEF BackReady, Distinct
    <2>5. WaitReady'
        BY <1>1, <1>5, <1>7, <2>1 DEF IInv, FlowTypes, WaitReady
    <2> QED BY <1>2, <1>4, <1>7, <2>2, <2>3, <2>4, <2>5 DEF IInv, Answered, mapped
<1> QED BY <1>2, <1>6, <1>7

(* The sweep lets in what has waited too long.                             *)
LEMMA SweepStep ==
    ASSUME IInv, Sweep
    PROVE  IInv' /\ Contract!Next
<1> DEFINE group == {pending[a] : a \in aged}
<1>1. /\ Ingest(group) /\ aged' = {}
      /\ pending' = [a \in Article |-> IF a \in aged THEN Nothing ELSE pending[a]]
      /\ UNCHANGED <<feed, stage, embedQ, batch, vectorQ, reingestQ, shown>>
    BY DEF Sweep, Swept, task, embedding
<1>2. \A a \in Article : pending[a] # Nothing =>
         /\ pending[a] \in Copy /\ Ready(pending[a]) /\ Of[pending[a]] = a
         /\ \A i \in 1..Len(reingestQ) : reingestQ[i] # pending[a]
    BY DEF IInv, FlowTypes, WaitReady
<1>3. aged \subseteq {a \in Article : pending[a] # Nothing}
    BY DEF IInv, FlowTypes
<1>4. /\ group \in SUBSET Copy /\ \A k \in group : Ready(k)
      /\ \A i \in 1..Len(reingestQ) : reingestQ[i] \notin group
      /\ \A a \in Article \ aged : pending[a] # Nothing => pending[a] \notin group
    BY <1>2, <1>3
<1> HIDE DEF group
<1>5. /\ Contract!Next /\ ingested' \in [Copy -> {0, 1, 2}] /\ Journeys'
      /\ \A c \in Copy \ group : Ready(c) => Ready(c)'
    BY <1>1, <1>4, ReadyGoIn
<1>6. FlowTypes'
    BY <1>1, <1>5 DEF IInv, FlowTypes
<1>7. FeedSent'
    BY <1>1 DEF IInv, FeedSent, Distinct
<1>8. BackReady'
    BY <1>1, <1>4, <1>5, ElementOfSeq DEF IInv, FlowTypes, BackReady, Distinct
<1>9. WaitReady'
    BY <1>1, <1>2, <1>4, <1>5 DEF WaitReady
<1> QED BY <1>5, <1>6, <1>7, <1>8, <1>9 DEF IInv
-----------------------------------------------------------------------------
(* Every step keeps the invariant, and is a step of the contract or none.  *)
LEMMA NextStep ==
    ASSUME IInv, [Next]_vars
    PROVE  IInv' /\ [Contract!Next]_mapped
<1>1. CASE \E k \in Copy : Send(k)
    <2>1. UNCHANGED mapped
        BY <1>1, SendAnswers
    <2> QED BY <1>1, <2>1, SendStep
<1>2. CASE \E k \in Copy : Task(k)
    BY <1>2, TaskStep, ReturnStep DEF Task
<1>3. CASE Worker \/ \E a \in Article : Age(a)
    BY <1>3, WorkerStep
<1>4. CASE Loop
    BY <1>4, ReceiveStep, VectorStep, ReingestStep, SweepStep DEF Loop
<1>5. CASE UNCHANGED vars
    BY <1>5 DEF vars, IInv, FlowTypes, Journeys, FeedSent, BackReady, WaitReady,
                Distinct, Unheard, Heard, Ready, Answered, mapped
<1> QED BY <1>1, <1>2, <1>3, <1>4, <1>5 DEF Next

(* What is on its way back into the graph was enriched, has gone in once,  *)
(* and is at one place only: the channel back or the waiting list          *)
(* (pipeline.rs, the two halves of the re-ingest path).                    *)
THEOREM OneWayBack == Spec => []IInv
<1>1. IInv /\ [Next]_vars => IInv'
    BY NextStep
<1> QED BY <1>1, InitIInv, PTL DEF Spec

(* The pipeline implements the contract of enrichment: whatever channel    *)
(* lags or is full, whatever vector comes late or never, a copy goes into  *)
(* the graph at most once more than it came, and only if it was enriched,  *)
(* and is shown once at most, enriched if it was.                          *)
THEOREM FlowKeepsContract == Spec => EnrichedAtMostOnce
<1>1. Init => Contract!Init
    BY DEF Init, Contract!Init, Answered
<1>2. IInv /\ [Next]_vars => [Contract!Next]_(Contract!contract)
    BY NextStep DEF mapped, Contract!contract
<1> QED BY <1>1, <1>2, OneWayBack, PTL DEF Spec, EnrichedAtMostOnce, Contract!Spec
-----------------------------------------------------------------------------
(* What is limited: channels, tasks that hold a permit, the cache.         *)
ChannelsHold ==
    /\ Len(feed) <= FeedSize /\ Len(embedQ) <= EmbedSlots /\ Len(batch) <= BatchSize
    /\ Len(vectorQ) <= VectorSlots /\ Len(reingestQ) <= ReingestSlots

PermitsHold == IsFiniteSet(Running) /\ Cardinality(Running) <= Permits

CacheHolds ==
    /\ IsFiniteSet(cache) /\ Cardinality(cache) <= CacheSize /\ cache \subseteq Article
    /\ Earlier \subseteq known /\ known \subseteq Article

Limits == ChannelsHold /\ PermitsHold /\ CacheHolds

LEMMA Slots ==
    /\ \A n \in {FeedSize, EmbedSlots, VectorSlots, ReingestSlots, BatchSize, CacheSize, Permits} :
          n \in Nat /\ n > 0
    /\ IInv => /\ Len(feed) \in Nat /\ Len(embedQ) \in Nat /\ Len(batch) \in Nat
               /\ Len(vectorQ) \in Nat /\ Len(reingestQ) \in Nat
BY FlowAssumption, LenProperties DEF IInv, FlowTypes

LEMMA InitLimits == Init => Limits
<1> SUFFICES ASSUME Init PROVE Limits
    OBVIOUS
<1>1. Running = {} /\ cache = {} /\ Len(<<>>) = 0
    BY EmptySeq DEF Init, Running
<1>2. IsFiniteSet({}) /\ Cardinality({}) = 0
    BY FS_EmptySet
<1>3. ChannelsHold
    BY <1>1, Slots DEF Init, ChannelsHold
<1>4. PermitsHold
    BY <1>1, <1>2, Slots DEF PermitsHold
<1>5. CacheHolds
    <2>1. /\ cache \subseteq Article /\ Earlier \subseteq known /\ known \subseteq Article
        BY <1>1, FlowAssumption DEF Init
    <2>2. IsFiniteSet(cache) /\ Cardinality(cache) <= CacheSize
        BY <1>1, <1>2, Slots
    <2> QED BY <2>1, <2>2 DEF CacheHolds
<1> QED BY <1>3, <1>4, <1>5 DEF Limits

(* A send into a full channel makes room first.                            *)
LEMMA ChannelStep == ASSUME IInv, Limits, Next PROVE ChannelsHold'
<1>1. CASE \E k \in Copy : Send(k)
    <2>1. PICK k \in Copy : Send(k)
        BY <1>1
    <2> DEFINE full == ~Room(feed, FeedSize)
               rest == IF full THEN Tail(feed) ELSE feed
    <2>2. /\ feed' = Append(rest, k)
          /\ UNCHANGED <<embedQ, batch, vectorQ, reingestQ>>
        BY <2>1 DEF Send, embedding
    <2>3. full => feed # <<>>
        BY Slots, EmptySeq DEF Room
    <2>4. rest \in Seq(Copy) /\ Len(rest) < FeedSize
        BY <2>3, Slots, TailFacts DEF IInv, FlowTypes, Limits, ChannelsHold, Room
    <2> HIDE DEF rest
    <2>5. Len(feed') <= FeedSize
        BY <2>2, <2>4, Slots, AppendProperties, LenProperties
    <2> QED BY <2>2, <2>5 DEF Limits, ChannelsHold
<1>2. CASE \E k \in Copy : Task(k)
    <2>1. PICK k \in Copy : Task(k)
        BY <1>2
    <2>2. /\ UNCHANGED <<feed, embedQ, batch, vectorQ>>
          /\ \/ reingestQ' = reingestQ
             \/ Room(reingestQ, ReingestSlots) /\ reingestQ' = Append(reingestQ, k)
        BY <2>1 DEF Task, Begin, Store, Return, Finish, EnrichmentFails, embedding
    <2>3. Len(reingestQ') <= ReingestSlots
        BY <2>2, Slots, AppendProperties DEF IInv, FlowTypes, Limits, ChannelsHold, Room
    <2> QED BY <2>2, <2>3 DEF Limits, ChannelsHold
<1>3. CASE (\E a \in Article : Age(a)) \/ Sweep
    BY <1>3 DEF Age, Sweep, embedding, Limits, ChannelsHold
<1>4. CASE Receive
    <2>1. Len(feed') <= FeedSize /\ Head(feed) \in Copy
        BY <1>4, Slots, TailFacts DEF Receive, IInv, FlowTypes, Limits, ChannelsHold
    <2>2. Len(embedQ') <= EmbedSlots
        BY <1>4, <2>1, Slots, AppendProperties
            DEF Receive, IInv, FlowTypes, Limits, ChannelsHold, Room
    <2> QED BY <1>4, <2>1, <2>2 DEF Receive, Limits, ChannelsHold
<1>5. CASE ReceiveVector
    BY <1>5, Slots, TailFacts DEF ReceiveVector, IInv, FlowTypes, Limits, ChannelsHold
<1>6. CASE Reingest
    BY <1>6, Slots, TailFacts DEF Reingest, embedding, IInv, FlowTypes, Limits, ChannelsHold
<1>7. CASE SendVector
    <2>1. Of[Head(batch)] \in Article /\ Len(batch') <= BatchSize
        BY <1>7, Slots, TailFacts, FlowAssumption
            DEF SendVector, IInv, FlowTypes, Limits, ChannelsHold
    <2>2. Len(vectorQ') <= VectorSlots
        BY <1>7, <2>1, Slots, AppendProperties
            DEF SendVector, IInv, FlowTypes, Limits, ChannelsHold, Room
    <2> QED BY <1>7, <2>1, <2>2 DEF SendVector, Limits, ChannelsHold
<1>8. CASE TakeBatch
    <2>1. PICK n \in 1..BatchSize :
             /\ n <= Len(embedQ) /\ embedQ' = SubSeq(embedQ, n + 1, Len(embedQ))
             /\ batch' \in {<<>>, SubSeq(embedQ, 1, n)}
             /\ UNCHANGED <<feed, vectorQ, reingestQ>>
        BY <1>8 DEF TakeBatch
    <2>2. /\ n \in Nat /\ Len(embedQ) \in Nat
          /\ \A i \in 1..Len(embedQ) : embedQ[i] \in Copy
        BY Slots, ElementOfSeq DEF IInv, FlowTypes
    <2>3. Len(embedQ') <= Len(embedQ)
        BY <2>1, <2>2, SubSeqProperties
    <2>4. Len(SubSeq(embedQ, 1, n)) = n
        BY <2>1, <2>2, SubSeqProperties
    <2> QED BY <2>1, <2>2, <2>3, <2>4, Slots, EmptySeq DEF Limits, ChannelsHold
<1> QED BY <1>1, <1>2, <1>3, <1>4, <1>5, <1>6, <1>7, <1>8 DEF Next, Loop, Worker

(* Only a task that is given a permit starts to run.                       *)
LEMMA PermitStep == ASSUME IInv, Limits, Next PROVE PermitsHold'
<1>1. CASE \E k \in Copy : Begin(k)
    <2>1. PICK k \in Copy : Begin(k)
        BY <1>1
    <2>2. Running' \subseteq Running \cup {k}
        BY <2>1 DEF Begin, Moved, Running, IInv, FlowTypes
    <2>3. /\ IsFiniteSet(Running \cup {k})
          /\ Cardinality(Running \cup {k}) <= Cardinality(Running) + 1
          /\ Cardinality(Running) \in Nat
        BY FS_AddElement, FS_CardinalityType DEF Limits, PermitsHold
    <2>4. IsFiniteSet(Running') /\ Cardinality(Running') <= Cardinality(Running \cup {k})
        BY <2>2, <2>3, FS_Subset
    <2>5. /\ Cardinality(Running) < Permits
          /\ Cardinality(Running \cup {k}) \in Nat /\ Cardinality(Running') \in Nat
        BY <2>1, <2>3, <2>4, FS_CardinalityType DEF Begin, PermitFree
    <2> QED BY <2>3, <2>4, <2>5, Slots DEF PermitsHold
<1>2. CASE ~(\E k \in Copy : Begin(k))
    <2>1. Running' \subseteq Running
        <3>1. CASE \E k \in Copy : Send(k)
            BY <3>1 DEF Send, Running, IInv, FlowTypes
        <3>2. CASE \E k \in Copy : Store(k) \/ Return(k) \/ Finish(k) \/ EnrichmentFails(k)
            BY <3>2 DEF Store, Return, Onward, Finish, EnrichmentFails, Moved, Running, IInv, FlowTypes
        <3>3. CASE Receive
            <4>1. Head(feed) \in Copy
                BY <3>3, TailFacts DEF Receive, IInv, FlowTypes
            <4> QED BY <3>3, <4>1 DEF Receive, Moved, Running, IInv, FlowTypes
        <3>4. CASE Worker \/ ReceiveVector \/ Reingest \/ Sweep
                   \/ (\E a \in Article : Age(a))
            BY <3>4 DEF Worker, TakeBatch, SendVector, ReceiveVector, Reingest,
                        Sweep, Age, task, Running
        <3> QED BY <1>2, <3>1, <3>2, <3>3, <3>4 DEF Next, Task, Loop
    <2>2. /\ IsFiniteSet(Running') /\ Cardinality(Running') <= Cardinality(Running)
          /\ Cardinality(Running) \in Nat /\ Cardinality(Running') \in Nat
        BY <2>1, FS_Subset, FS_CardinalityType DEF Limits, PermitsHold
    <2> QED BY <2>2, Slots DEF Limits, PermitsHold
<1> QED BY <1>1, <1>2

(* A new vector takes the place of another when the cache is full.         *)
LEMMA CacheStep == ASSUME IInv, Limits, Next PROVE CacheHolds'
<1>1. CASE ReceiveVector
    <2> DEFINE a == Head(vectorQ)
    <2>1. /\ a \in Article /\ cache' \in WithVector(a) /\ UNCHANGED known
          /\ IsFiniteSet(cache) /\ cache \subseteq Article
          /\ Cardinality(cache) \in Nat /\ Cardinality(cache) <= CacheSize
        BY <1>1, TailFacts, FS_CardinalityType
            DEF ReceiveVector, task, IInv, FlowTypes, Limits, CacheHolds
    <2> HIDE DEF a
    <2>2. IsFiniteSet(cache') /\ Cardinality(cache') <= CacheSize /\ cache' \subseteq Article
        <3>1. CASE a \in cache \/ Cardinality(cache) < CacheSize
            <4>1. cache' = cache \cup {a}
                BY <2>1, <3>1 DEF WithVector
            <4>2. /\ IsFiniteSet(cache')
                  /\ Cardinality(cache') = IF a \in cache THEN Cardinality(cache)
                                           ELSE Cardinality(cache) + 1
                BY <2>1, <4>1, FS_AddElement
            <4> QED BY <2>1, <3>1, <4>1, <4>2, Slots
        <3>2. CASE ~(a \in cache \/ Cardinality(cache) < CacheSize)
            <4>1. PICK b \in cache : cache' = (cache \ {b}) \cup {a}
                BY <2>1, <3>2 DEF WithVector
            <4>2. IsFiniteSet(cache \ {b}) /\ Cardinality(cache \ {b}) = Cardinality(cache) - 1
                BY <2>1, FS_RemoveElement
            <4>3. /\ IsFiniteSet(cache')
                  /\ Cardinality(cache') = IF a \in cache \ {b} THEN Cardinality(cache \ {b})
                                           ELSE Cardinality(cache \ {b}) + 1
                BY <4>1, <4>2, FS_AddElement
            <4> QED BY <2>1, <4>1, <4>2, <4>3, Slots
        <3> QED BY <3>1, <3>2
    <2> QED BY <2>1, <2>2 DEF Limits, CacheHolds
<1>2. CASE ~ReceiveVector
    <2>1. /\ cache' = cache
          /\ Earlier \subseteq known' /\ known' \subseteq Article
        BY <1>2, FlowAssumption
            DEF Next, Loop, Worker, Task, Send, Receive, Begin, Store, Return, Finish,
                EnrichmentFails, TakeBatch, SendVector, Reingest, Age, Sweep, task,
                Limits, CacheHolds
    <2> QED BY <2>1 DEF Limits, CacheHolds
<1> QED BY <1>1, <1>2

LEMMA InQueue ==
    ASSUME NEW q \in Seq(Copy), NEW slots \in Nat, Len(q) <= slots
    PROVE  q \in Queue(slots)
<1>1. Len(q) \in 0..slots /\ q \in [1..Len(q) -> Copy]
    BY LenProperties
<1> QED BY <1>1 DEF Queue

(* Types, and the limits of the pipeline: no channel holds more than its   *)
(* slots, no more enrichment tasks run than there are permits, and the     *)
(* embedding cache keeps to its size, for any sizes of them.               *)
THEOREM LimitsHold == Spec => []TypeOKFlow
<1>1. (IInv /\ Limits) /\ [Next]_vars => (IInv /\ Limits)'
    <2> SUFFICES ASSUME IInv, Limits, [Next]_vars PROVE IInv' /\ Limits'
        OBVIOUS
    <2>1. IInv'
        BY NextStep
    <2>2. CASE Next
        BY <2>2, <2>1, ChannelStep, PermitStep, CacheStep DEF Limits
    <2>3. CASE UNCHANGED vars
        BY <2>3, <2>1 DEF vars, Limits, ChannelsHold, PermitsHold, CacheHolds, Running
    <2> QED BY <2>1, <2>2, <2>3
<1>2. IInv /\ Limits => TypeOKFlow
    <2> SUFFICES ASSUME IInv, Limits PROVE TypeOKFlow
        OBVIOUS
    <2>1. /\ feed \in Queue(FeedSize) /\ embedQ \in Queue(EmbedSlots)
          /\ batch \in Queue(BatchSize) /\ reingestQ \in Queue(ReingestSlots)
        BY Slots, InQueue DEF IInv, FlowTypes, Limits, ChannelsHold
    <2> QED BY <2>1
        DEF IInv, FlowTypes, WaitReady, Limits, ChannelsHold, PermitsHold, CacheHolds, TypeOKFlow
<1> QED BY <1>1, <1>2, InitIInv, InitLimits, PTL DEF Spec
=============================================================================
