---------------------------- MODULE SituationAI ----------------------------
(***************************************************************************)
(* The situation graph together with the AI requests that run_pipeline     *)
(* spawns after a tick and whose results its select! loop applies between  *)
(* later ticks: titles, merge audits, batch consolidation.  A request      *)
(* carries what the graph was when it was sent; its result is applied to   *)
(* what the graph has become.                                              *)
(*                                                                         *)
(* A spawned request and its result waiting in a channel are one thing     *)
(* here, a request in flight: the loop may receive the results in any      *)
(* order.  Which titles match, what an audit or a grouping says, and who   *)
(* has the most events are data.                                           *)
(***************************************************************************)
EXTENDS SituationForestProperties

CONSTANTS
    HasLlm,        \* an Ollama client is configured: audits and grouping
    MaxTitles,     \* bound on the title requests in flight
    MaxAsked       \* bound on the audits and batches in flight together

ASSUME AIAssumption == HasLlm \in BOOLEAN /\ MaxTitles \in Nat /\ MaxAsked \in Nat

VARIABLES
    merged,     \* the pairs merge_overlapping returned in this tick
    titling,    \* title_pending: a title was requested and is not back
    audits,     \* <<parent, child>> sent to the auditor, not answered
    batches,    \* the sets of situations sent for grouping, not answered
    applying    \* the batch whose groups are being applied, {} between two

requests == <<merged, titling, audits, batches, applying>>
aivars   == <<vars, requests>>

InitAI ==
    /\ Init
    /\ merged = {} /\ titling = {} /\ audits = {} /\ batches = {}
    /\ applying = {}

(* The loop waits for its next input: no result is applied while a tick or *)
(* an answer's groups are being applied.                                   *)
BetweenAnswers == applying = {}
Waiting == stage = "idle" /\ applying = {}

(* A result names a situation that the graph still has.                    *)
OnceKnown(c) == c \in used
Known(c) == c \in live
-----------------------------------------------------------------------------
(* One step of tick_clustering or of ingestion.  merge_overlapping returns *)
(* the pairs it merged; the later passes' merges are never audited.        *)
Joined ==
    {<<parent'[c], c>> : c \in {x \in live : parent[x] = NoParent /\ parent'[x] # NoParent}}

Clustering ==
    /\ applying = {} /\ stage # "flush"
    /\ Next
    /\ merged' = IF stage = "merge" THEN merged \cup Joined ELSE merged
    /\ UNCHANGED <<titling, audits, batches, applying>>

(* A title may be due for any situation without one under way;             *)
(* situations of the top level that are alike go to the model together.    *)
Untitled == live' \ titling
Components == {b \in SUBSET TopLevel' : Cardinality(b) >= 2}

(* The rest of the tick: flush_pending, evaluate_phases, and the requests  *)
(* tick_situations sends before it returns.  The GPU may be paused, an     *)
(* event count too small: any subset may be sent.  A batch is sent for the *)
(* situations at the top level; components of one tick are disjoint.  A    *)
(* pair out twice counts once.                                             *)
Dispatch ==
    /\ FlushPending
    /\ \E asked \in SUBSET Untitled : titling' = titling \cup asked
    /\ IF HasLlm
       THEN /\ \E heard \in SUBSET {m \in merged : {m[1], m[2]} \subseteq live'} :
                  audits' = audits \cup heard
            /\ \E sent \in SUBSET Components :
                  /\ \A a, b \in sent : a = b \/ a \cap b = {}
                  /\ batches' = batches \cup sent
       ELSE UNCHANGED <<audits, batches>>
    /\ Cardinality(titling') <= MaxTitles
    /\ Cardinality(audits') + Cardinality(batches') <= MaxAsked
    /\ merged' = {}
    /\ UNCHANGED applying

(* A title arrives: a refusal of the model or the like, which is dropped,  *)
(* ...                                                                     *)
TitleBack(c) ==
    /\ Waiting
    /\ c \in titling
    /\ titling' = titling \ {c}
    /\ UNCHANGED <<vars, merged, audits, batches, applying>>

TitleRefused(c) == TitleBack(c)

(* ... or one that the situation's phase or size locks out, or that no     *)
(* other situation has, or whose situation is gone.                        *)
TitleReceived(c) == TitleBack(c)

(* Where a situation of the same title is looked for.                      *)
Others(c) == TopLevel \ {c}

(* update_cluster_title finds dup at the top level with the same title: of *)
(* the two the one with more events takes the other and its children.  The *)
(* titled situation itself may be a child.                                 *)
TitleDuplicate(c, dup, winner) ==
    /\ Waiting
    /\ c \in titling /\ Known(c)
    /\ dup \in Others(c)
    /\ winner \in {c, dup}
    /\ LET loser == IF winner = c THEN dup ELSE c
       IN  parent' = Attach(parent, {loser} \cup Kids(parent, loser), winner)
    /\ titling' = titling \ {c}
    /\ UNCHANGED <<live, used, rejected, tick, stage, pass, merged, audits,
                   batches, applying>>

(* The auditor agrees with a merge, or fails, which counts as agreement.   *)
AuditConfirms(p, c) ==
    /\ Waiting
    /\ <<p, c>> \in audits
    /\ audits' = audits \ {<<p, c>>}
    /\ UNCHANGED <<vars, merged, titling, batches, applying>>

(* unmerge: the child leaves whatever parent it has by now.                *)
AuditRejects(p, c) ==
    /\ Waiting
    /\ <<p, c>> \in audits
    /\ audits' = audits \ {<<p, c>>}
    /\ IF Known(c)
       THEN /\ parent' = Detach(parent, {c})
            /\ rejected' = rejected \cup {{p, c}}
       ELSE UNCHANGED <<parent, rejected>>
    /\ UNCHANGED <<live, used, tick, stage, pass, merged, titling, batches, applying>>

(* A grouping answer arrives; it may also hold no group, or be unreadable. *)
GroupsReceived(b) ==
    /\ Waiting
    /\ b \in batches
    /\ batches' = batches \ {b}
    /\ applying' = b
    /\ UNCHANGED <<vars, merged, titling, audits>>

(* One group of apply_llm_consolidation_groups.  p has the most events of  *)
(* the members still at the top level.  twice: the answer names p twice,   *)
(* which neither consolidate_situations nor the graph filters out.  The    *)
(* caps, the one on events being data, may end the loop early.             *)
ApplyGroup(group, p, twice) ==
    /\ group \subseteq applying
    /\ LET members == {c \in group : Known(c) /\ Unowned(c)}
           others  == (members \ {p}) \cup (IF twice THEN {p} ELSE {})
       IN  /\ p \in members /\ others # {}
           /\ \E kids \in SUBSET others :
                 /\ kids # {}
                 /\ Cardinality(kids) <= Room(Cardinality(Kids(parent, p)))
                 /\ parent' = Attach(parent, kids, p)
                 /\ rejected' = rejected \ {{p, k} : k \in kids}
    /\ UNCHANGED <<live, used, tick, stage, pass, requests>>

GroupsDone ==
    /\ applying # {}
    /\ applying' = {}
    /\ UNCHANGED <<vars, merged, titling, audits, batches>>

NextAI ==
    \/ Clustering
    \/ Dispatch
    \/ \E c \in Cluster : TitleRefused(c) \/ TitleReceived(c)
    \/ \E c, dup, winner \in Cluster : TitleDuplicate(c, dup, winner)
    \/ \E p, c \in Cluster : AuditConfirms(p, c)
    \/ \E p, c \in Cluster : AuditRejects(p, c)
    \/ \E b \in SUBSET Cluster : GroupsReceived(b)
    \/ \E group \in SUBSET Cluster, p \in Cluster, twice \in BOOLEAN :
          ApplyGroup(group, p, twice)
    \/ GroupsDone

SpecAI == InitAI /\ [][NextAI]_aivars
=============================================================================
