------------------------- MODULE SituationLifecycle -------------------------
(***************************************************************************)
(* Phase and severity of a situation while hours pass and events come or   *)
(* stay away (pipeline/src/situation_graph/lifecycle.rs): the pruning that *)
(* opens a tick, the regrouping in its middle, evaluate_phases at its end. *)
(*                                                                         *)
(* These passes take the situations one by one, and of the others they     *)
(* read only whether a situation has a parent, and its children; the model *)
(* follows one situation and lets the rest of the hierarchy change freely. *)
(*                                                                         *)
(* Ages are whole steps of Elapse, counted no further than Horizon.  Of    *)
(* the events of five minutes, and of the peak of that rate, the model     *)
(* knows three classes: none, some, a burst.                               *)
(*                                                                         *)
(* Before some helpers stands a variant of theirs with a plausible slip,   *)
(* which the specification does not use.                                   *)
(***************************************************************************)
EXTENDS Integers, FiniteSets, FiniteSetsExt

CONSTANTS
    Hours,      \* the durations of PhaseConfig and those written in the code
    Gap,        \* gap tolerance of a severity
    Counts,     \* the numbers of events and sources that tell severities apart
    Share,      \* sweep.severity_propagation_threshold, in percent
    Topics, Arriving,       \* of the instance: topics, severities of events,
    MaxEvents, MaxSources,  \* bounds of the counts,
    MaxKids,                \* of the substantial children
    Horizon                 \* and of the ages

ASSUME LifecycleAssumption ==
    /\ Hours \in [{"recent", "dwell", "dwellHigh", "dwellCritical", "stale", "news",
                   "emerging", "single", "ceiling", "declining", "prune", "fast"} -> Nat]
    /\ Gap \in [0..3 -> Nat]
    /\ Counts \in [{"emerging", "medium", "high", "critical", "telemetry",
                    "established", "massive", "criticalSources"} -> Nat]
    /\ Topics \subseteq {"armed", "tension", "hazard", "plain"} /\ Topics # {}
    /\ Arriving \subseteq 0..3
    /\ {MaxEvents, MaxSources} \subseteq Nat \ {0}
    /\ {Share, MaxKids, Horizon} \subseteq Nat

VARIABLES
    live,      \* the situation is in the graph
    data,      \* its own state
    open,      \* a child of it is neither resolved nor historical
    agreed     \* history: the severity its children passed on in the tick just over

lifecycleVars == <<live, data, open, agreed>>

NoTick == -1
Low == 0       \* Info counts as Low
Medium == 1
High == 2
Critical == 3
Phases == {"emerging", "developing", "active", "declining", "resolved", "historical"}

Situation ==
    [phase : Phases, severity : Low..Critical,
     child : BOOLEAN,         \* parent_id names another situation
     dwell : 0..Horizon,      \* since phase_changed_at, in the phases that read it
     quiet : 0..Horizon,      \* since last_updated
     newest : 0..Horizon,     \* since the time of the newest event
     tail : BOOLEAN,          \* the last event of event_ids is older than 48 h
     age : 0..Horizon,        \* since first_seen, while only news knows of it
     news : BOOLEAN,          \* only GDELT and RSS report it
     rate : 0..2, peak : 0..2,
     events : 0..MaxEvents, sources : 1..MaxSources, topic : Topics]

AtMost(a, b) == IF a < b THEN a ELSE b
AtLeast(a, b) == IF a > b THEN a ELSE b
-----------------------------------------------------------------------------
Blank == [phase |-> "emerging", severity |-> Low, child |-> FALSE, dwell |-> 0,
          quiet |-> 0, newest |-> 0, tail |-> FALSE, age |-> 0, news |-> FALSE, rate |-> 0, peak |-> 0,
          events |-> 0, sources |-> 1, topic |-> CHOOSE t \in Topics : TRUE]

LifecycleInit ==
    /\ live = FALSE /\ data = Blank
    /\ open = FALSE /\ agreed = NoTick

(* create_cluster.  An event may be about something days past: it counts   *)
(* for the situation but not for its rate.                                 *)
Create(s, topic, fresh, news) ==
    /\ ~live /\ live' = TRUE
    /\ data' = [Blank EXCEPT
                   !.severity = s, !.topic = topic, !.news = news, !.events = 1,
                   !.rate = IF fresh THEN 1 ELSE 0,
                   !.tail = ~fresh,
                   !.newest = IF fresh THEN 0 ELSE Horizon,
                   !.age = IF news /\ ~fresh THEN Horizon ELSE 0]
    /\ agreed' = NoTick /\ UNCHANGED open

(* merge_into_cluster, for an event of a source the situation has or has   *)
(* not heard of; the severity only rises here.  A child that a tick takes  *)
(* in (merge_child_into_parent) does to the situation what its events      *)
(* would do, its last event, however old, coming last.                     *)
Absorb(s, fresh, widens) ==
    /\ live
    /\ data' = [data EXCEPT
                   !.severity = AtLeast(@, s),
                   !.quiet = 0,
                   !.newest = IF fresh THEN 0 ELSE @,
                   !.tail = ~fresh,
                   !.age = IF data.news /\ ~fresh THEN Horizon ELSE @,
                   !.rate = IF fresh THEN AtMost(@ + 1, 2) ELSE @,
                   !.events = AtMost(@ + 1, MaxEvents),
                   !.sources = IF widens /\ ~data.news THEN AtMost(@ + 1, MaxSources) ELSE @]
    /\ agreed' = NoTick /\ UNCHANGED <<live, open>>

(* Five minutes without events; the peak is still there to compare with.   *)
Settle ==
    /\ data' = [data EXCEPT !.rate = 0]
    /\ agreed' = NoTick /\ UNCHANGED <<live, open>>

(* Hours: every tick multiplies the peak by its decay since the peak, so   *)
(* it is small after one step and 0 after two.                             *)
Older(n) == AtMost(n + 1, Horizon)
Elapse ==
    /\ live
    /\ data' = [data EXCEPT
                   !.rate = 0, !.peak = IF @ = 2 THEN 1 ELSE 0,
                   !.quiet = Older(@), !.newest = Older(@),
                   !.tail = @ \/ Older(data.newest) > Hours["stale"],
                   !.age = IF data.news THEN Older(@) ELSE 0,
                   !.dwell = IF data.phase \in {"active", "declining"} THEN Older(@) ELSE 0]
    /\ agreed' = NoTick /\ UNCHANGED <<live, open>>
-----------------------------------------------------------------------------
(* prune_stale_with_cache.  Whether a large situation has telemetry only   *)
(* is data.                                                                *)
Stale(telemetry) ==
    /\ data.phase # "declining" /\ ~open
    /\ data.quiet > (IF telemetry THEN Hours["fast"] ELSE Hours["prune"])
MayBeTelemetry == {FALSE} \cup {data.events >= Counts["telemetry"]}
-----------------------------------------------------------------------------
(* compute_gap_tolerance: a burst stretches it up to the ceiling.          *)
GapTolerance(r) ==
    IF r.sources <= 1 THEN AtMost(Gap[r.severity], Hours["single"])
    ELSE IF AtLeast(r.peak, r.rate) = 2 THEN Hours["ceiling"]
    ELSE AtMost(Gap[r.severity], Hours["ceiling"])

Signals(r) ==
    Cardinality({n \in 1..5 :
        \/ n = 1 /\ r.rate = 2
        \/ n = 2 /\ r.sources >= 3
        \/ n = 3 /\ r.severity >= High
        \/ n = 4 /\ r.events >= Counts["established"]
        \/ n = 5 /\ r.events >= Counts["massive"]})

(* evaluate_phase_transition                                               *)
NextPhase(r) ==
    LET gap  == GapTolerance(r)
        peak == AtLeast(r.peak, r.rate)
    IN  CASE r.phase = "emerging" ->
               IF r.severity >= High \/ (r.events >= Counts["emerging"] /\ r.sources >= 2)
               THEN "developing"
               ELSE IF r.quiet > Hours["emerging"] THEN "resolved" ELSE "emerging"
          [] r.phase = "developing" ->
               IF Signals(r) >= 3 \/ r.rate = 2 THEN "active"
               ELSE IF r.quiet > gap THEN "declining" ELSE "developing"
          [] r.phase = "active" ->
               IF r.rate < peak \/ 2 * r.quiet > gap THEN "declining" ELSE "active"
          [] r.phase = "declining" ->
               IF r.rate = peak /\ peak > 0 THEN "active"
               ELSE IF 2 * r.quiet > 3 * gap THEN "resolved" ELSE "declining"
          [] r.phase = "resolved" ->
               IF r.quiet > 3 * gap THEN "historical"
               ELSE IF r.rate > 0 THEN "developing" ELSE "resolved"
          [] OTHER -> "historical"

(* The dwell times of an active situation, and its last events, keep it    *)
(* from declining.                                                         *)
Blocked(r) ==
    /\ r.phase = "active" /\ NextPhase(r) = "declining"
    /\ \/ r.severity = Critical /\ r.dwell < Hours["dwellCritical"]
       \/ r.severity = High /\ r.dwell < Hours["dwellHigh"]
       \/ r.dwell < Hours["dwell"]
       \/ r.newest <= Hours["recent"]

(* recompute_cluster_severity                                              *)
Deserved(r) ==
    LET ongoing == r.phase \in {"developing", "active"}
        broad   == r.sources >= Counts["criticalSources"]
        subject == r.topic # "plain"
        crowd   == r.events >= Counts["critical"] /\ broad
    IN  IF r.phase = "active" /\ r.topic = "armed" /\ crowd THEN Critical
        ELSE IF \/ /\ ongoing /\ r.topic \in {"armed", "tension"} /\ r.events >= Counts["high"]
                   /\ r.sources >= AtMost(Counts["criticalSources"], 3)
                \/ ongoing /\ r.topic = "hazard" /\ r.sources >= 2 /\ r.events >= Counts["high"]
                \/ ongoing /\ crowd
        THEN High
        ELSE IF \/ subject /\ r.sources >= 2
                \/ broad /\ r.events >= Counts["medium"]
        THEN Medium
        ELSE Low

SeverityOfAnyone(r) == IF r.tail THEN AtMost(Deserved(r), Medium) ELSE Deserved(r)
Severity(r) ==
    LET capped == IF r.child THEN AtMost(Deserved(r), High) ELSE Deserved(r)
    IN  IF r.tail THEN AtMost(capped, Medium) ELSE capped

Entered(r, phase) == [r EXCEPT !.phase = phase, !.dwell = IF phase = r.phase THEN @ ELSE 0]

OldNewsAgain(r) == r.news /\ r.age > Hours["news"] /\ r.severity <= Medium
OldNews(r) ==
    /\ r.news /\ r.age > Hours["news"] /\ r.severity <= Medium
    /\ r.phase \in {"emerging", "developing", "active"}
NeverOverdue(r) == FALSE
Overdue(r) == r.phase = "declining" /\ r.dwell > Hours["declining"]

(* One round of the loop of evaluate_phases: both early `continue`s leave  *)
(* the severity as it is.                                                  *)
RatedFirst(r) ==
    IF OldNews(r) THEN Entered(r, "declining")
    ELSE IF Overdue(r) THEN Entered(r, "resolved")
    ELSE [Entered(r, IF Blocked(r) THEN r.phase ELSE NextPhase(r)) EXCEPT
             !.peak = AtLeast(@, r.rate), !.severity = Severity(r)]
Evaluated(r) ==
    IF OldNews(r) THEN Entered(r, "declining")
    ELSE IF Overdue(r) THEN Entered(r, "resolved")
    ELSE LET next == Entered(r, IF Blocked(r) THEN r.phase ELSE NextPhase(r))
         IN  [next EXCEPT !.peak = AtLeast(@, r.rate), !.severity = Severity(next)]

(* The highest severity that enough of the children have reached, of those *)
(* with enough events.                                                     *)
Agreement(kids) ==
    LET from(s) == Cardinality({k \in DOMAIN kids : kids[k] >= s})
    IN  Max({Low} \cup {s \in Low..Critical : 100 * from(s) >= Share * from(Low)})

(* A child that was decided early stays critical, if it was when it had no *)
(* parent yet.                                                             *)
Families == UNION {[1..n -> Low..Critical] : n \in 1..MaxKids}
Agreements == {Low} \cup {Agreement(kids) : kids \in Families}

(* tick_clustering.  Its merges and splits may put the situation under a   *)
(* parent or take it out.                                                  *)
Tick ==
    /\ live
    /\ \/ /\ \E telemetry \in MayBeTelemetry : Stale(telemetry)
          /\ live' = FALSE /\ data' = Blank
          /\ open' = FALSE /\ agreed' = NoTick
       \/ /\ agreed' \in Agreements
          /\ \E telemetry \in MayBeTelemetry : ~Stale(telemetry)
          /\ \E under \in BOOLEAN :
             \E rated \in {Evaluated([data EXCEPT !.child = under])} :
                /\ under => agreed' = Low
                /\ data' = [rated EXCEPT !.severity = AtLeast(@, agreed')]
          /\ open' \in BOOLEAN
          /\ UNCHANGED live

LifecycleNext ==
    \/ \E s \in Arriving, topic \in Topics, fresh, news \in BOOLEAN : Create(s, topic, fresh, news)
    \/ \E s \in Arriving, fresh, widens \in BOOLEAN : Absorb(s, fresh, widens)
    \/ Settle
    \/ Elapse
    \/ Tick

(* The clock runs, and the analysis interval of run_pipeline with it: of   *)
(* a live situation there is always another tick, a step that is always    *)
(* enabled.                                                                *)
TicksRecur == []<>(~live \/ agreed # NoTick)

LifecycleSpec == LifecycleInit /\ [][LifecycleNext]_lifecycleVars /\ WF_lifecycleVars(Elapse) /\ TicksRecur
-----------------------------------------------------------------------------
(* A situation nobody reports on any more goes: once no child of it goes   *)
(* on, it is pruned unless it is updated again, although pruning spares    *)
(* the declining ones.                                                     *)
ForgottenInTheEnd ==
    <>[](~open) => [](live => <>(~live \/ data.quiet = 0))

(* No situation declines for ever, not even one whose events keep          *)
(* trickling in (declining_max_hours).                                     *)
DeclineEnds == [](data.phase = "declining" => <>(data.phase # "declining"))

(* A situation placed under another one loses the severity that is for     *)
(* those at the top, whatever its events say.                              *)
ChildrenLoseCritical ==
    [](data.child /\ data.severity = Critical
          => <>(~data.child \/ data.severity # Critical))

(* After a tick a situation is rated high only for what it is in the phase *)
(* it is in now, or for its children, or because the tick resolved it.     *)
SeverityEarned ==
    [][agreed' # NoTick =>
               \/ data'.severity <= AtLeast(Medium, agreed')
               \/ data'.phase \in {"developing", "active"}
               \/ data.phase = "declining" /\ data'.phase = "resolved"]_lifecycleVars
=============================================================================
