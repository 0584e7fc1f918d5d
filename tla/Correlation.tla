---------------------------- MODULE Correlation ----------------------------
(***************************************************************************)
(* The correlation window and its rules: the loop pushes every event into  *)
(* a window with an index by type, asks the rules the event triggers, and  *)
(* keeps the incidents they raise so as not to raise them again            *)
(* (pipeline/src/window.rs, rules/*.rs, pipeline.rs).                      *)
(*                                                                         *)
(* Time goes in steps; an age is what has passed since then.  Places are   *)
(* related by Near, the box a rule looks in, and Cover, the box in which   *)
(* an incident stands for another; their radii differ from rule to rule,   *)
(* which is not modelled.  military_surge reads no window: it remembers    *)
(* the military aircraft it was shown in each cell of a grid and how many  *)
(* they used to be.  An event of such an aircraft has a hex, others have   *)
(* none.  An event is fit unless it is an earthquake military_strike takes *)
(* for a natural one or a message osint_strike does not take for a report  *)
(* of a strike.  Severity, confidence and evidence of incidents are left   *)
(* out, and so are the limits of the two queries of a start (50 incidents, *)
(* 10000 events).                                                          *)
(*                                                                         *)
(* Before some helpers stands a variant of theirs with a plausible slip,   *)
(* which the specification does not use.                                   *)
(***************************************************************************)
EXTENDS Naturals, FiniteSets, Sequences, SequencesExt

CONSTANTS
    None,
    Traffic,         \* bound: the events of a behaviour, and the most in six hours
    Near, Cover,     \* pairs of places
    FiveMinutes, TenMinutes, HalfHour, Hour, SixHours,
    WindowAge,       \* correlation_window_hours
    Banners, Anomalies, Outages, Censorships, Detections,  \* 20, 50, 5, 10, 3
    MinAircraft, FewSnapshots, BaselineHours,  \* 5, 12, 168
    MaxRestarts      \* bound

ASSUME CorrelationAssumption ==
    /\ {FiveMinutes, TenMinutes, HalfHour, Hour, SixHours, WindowAge} \subseteq Nat \ {0}
    /\ {Banners, Anomalies, Outages, Censorships, Detections} \subseteq Nat \ {0}
    /\ {MinAircraft, FewSnapshots, BaselineHours} \subseteq Nat \ {0}
    /\ FiveMinutes <= TenMinutes /\ TenMinutes <= HalfHour /\ HalfHour <= Hour
    /\ Hour <= SixHours /\ SixHours <= WindowAge
    /\ \A t \in DOMAIN Traffic : \A e \in Traffic[t].events : e.place # None => {<<e.place, e.place>>} \subseteq Near \cap Cover

VARIABLES
    traffic,    \* which of Traffic this behaviour has
    window,     \* CorrelationWindow.events, oldest first
    byKind,     \* by_event_type: pairs of a type and a position
    sightings,  \* SurgeState.sightings: of which aircraft, in which cell, when
    baselines,  \* SurgeState.baselines: hourly counts, time since the last
    incidents,  \* those raised in six hours; the active ones are active_incidents
    heard,      \* history: what this process knows of the last six hours, oldest first
    uptime,     \* history: time since the start, as far as it matters
    restarts

vars == <<traffic, window, byKind, sightings, baselines, incidents, heard, uptime, restarts>>

-----------------------------------------------------------------------------
(* The rules: what they need of each kind of event, any of which triggers  *)
(* them, by what events belong together, and how far back they look.       *)
InfraAttack ==
    [id |-> "infra_attack", by |-> "country", span |-> FiveMinutes,
     needs |-> [banner |-> Banners, bgp |-> Anomalies, outage |-> Outages]]
MilitaryStrike ==
    [id |-> "military_strike", by |-> "place", span |-> TenMinutes,
     needs |-> [flight |-> 1, notam |-> 1, seismic |-> 1]]
ConfirmedStrike ==
    [id |-> "confirmed_strike", by |-> "place", span |-> HalfHour,
     needs |-> [conflict |-> 1, thermal |-> 1]]
CoordinatedShutdown ==
    [id |-> "coordinated_shutdown", by |-> "country", span |-> FiveMinutes,
     needs |-> [outage |-> Outages, bgp |-> Anomalies, censorship |-> Censorships]]
MaritimeEnforcement ==
    [id |-> "maritime_enforcement", by |-> "place", span |-> HalfHour,
     needs |-> [vessel |-> 1, fishing |-> 1]]
AptStaging ==
    [id |-> "apt_staging", by |-> "domain", span |-> Hour,
     needs |-> [cert |-> 1, intel |-> 1]]
ConflictThermalCluster ==
    [id |-> "conflict_thermal_cluster", by |-> "place", span |-> SixHours,
     needs |-> [thermal |-> Detections, conflict |-> 1]]
GpsMilitary ==
    [id |-> "gps_military", by |-> "placeOrRegion", span |-> HalfHour,
     needs |-> [gps |-> 1, flight |-> 1, notam |-> 1]]
OsintStrike ==
    [id |-> "osint_strike", by |-> "place", span |-> SixHours,
     needs |-> [social |-> 1, news |-> 1]]
MilitarySurge ==
    [id |-> "military_surge", by |-> "cell", span |-> SixHours,
     needs |-> [flight |-> MinAircraft]]

Rules == {InfraAttack, MilitaryStrike, ConfirmedStrike, CoordinatedShutdown,
          MaritimeEnforcement, AptStaging, ConflictThermalCluster, GpsMilitary,
          OsintStrike, MilitarySurge}

(* The rules an event triggers, if it has what they go by.  A message that *)
(* is not fit (not severe, no word of a strike) triggers nothing.          *)
Triggered(t) ==
    {r \in Rules :
        /\ t.kind \in DOMAIN r.needs
        /\ r.by = "country" => t.country # None
        /\ r.by = "domain" => t.domain # None
        /\ r.by = "place" => t.place # None
        /\ r.by = "placeOrRegion" => {t.place, t.region} # {None}
        /\ r.by = "cell" => t.hex # None
        /\ t.kind = "social" => t.fit}

(* Whether e belongs to the trigger t.  Indicators of a threat report may  *)
(* name the domain of a certificate.                                       *)
SameRegion(t, e) == t.region # None /\ e.region = t.region

Belongs(r, t, e) ==
    \/ r.by = "country" /\ e.country = t.country
    \/ r.by = "domain" /\ (e.domain = t.domain \/ t.domain \in e.names)
    \/ t.place # None /\ e.place # None
          /\ r.by \in {"place", "placeOrRegion"} /\ <<t.place, e.place>> \in Near
    \/ r.by = "placeOrRegion" /\ t.place = None /\ SameRegion(t, e)

(* Of what was found of one kind, pairs of a position and an event, what   *)
(* counts: notices that have no place are looked for by region, if none is *)
(* near.                                                                   *)
Corroborating(r, t, k, found) ==
    LET fit   == {f \in found : f[2].fit}
        local == {f \in fit : Belongs(r, t, f[2])}
    IN  IF k = "notam" /\ t.place # None /\ local = {}
        THEN {f \in fit : SameRegion(t, f[2])}
        ELSE local

(* An incident stands for the trigger.                                     *)
Covers(r, i, t) ==
    /\ i.rule = r.id
    /\ \/ r.by = "country" /\ i.tag = t.country
       \/ r.by = "domain" /\ i.tag = t.domain
       \/ r.by = "cell" /\ i.tag = t.cell
       \/ /\ r.by \in {"place", "placeOrRegion"}
          /\ t.place # None /\ i.place # None
          /\ <<i.place, t.place>> \in Cover
       \/ r.by = "placeOrRegion" /\ t.place = None /\ SameRegion(t, i)

(* What is left of an incident restored from its row has no place.         *)
InMemory(i) == IF i.restored THEN [i EXCEPT !.place = None] ELSE i

Incident(r, t) ==
    [rule |-> r.id, place |-> t.place, region |-> t.region,
     tag |-> CASE r.by = "country" -> t.country
               [] r.by = "domain" -> t.domain
               [] r.by = "cell" -> t.cell
               [] OTHER -> None,
     age |-> 0, active |-> TRUE, restored |-> FALSE, stored |-> FALSE, start |-> restarts]
-----------------------------------------------------------------------------
(* Logs are in the order of their ages, the oldest first: what is too old  *)
(* is at the front.                                                        *)
Older(log) == [p \in DOMAIN log |-> [log[p] EXCEPT !.age = @ + 1]]
Overdue(log, age) == Cardinality({p \in DOMAIN log : \A q \in 1..p : log[q].age >= age})
Younger(log, age) == SubSeq(log, Overdue(log, age) + 1, Len(log))

(* The entries at some positions, in their order.                          *)
Nth(rows, n) == CHOOSE p \in rows : Cardinality({q \in rows : q < p}) = n - 1
Kept(log, rows) == [n \in 1..Cardinality(rows) |-> log[Nth(rows, n)]]

(* Indices over a window, and what a query by type reads through them.     *)
Index(w) == {<<w[p].event.kind, p>> : p \in DOMAIN w}
Recent(w, index, k, span) ==
    {<<x[2], w[x[2]].event>> : x \in {y \in index : y[1] = k /\ w[y[2]].age <= span}}

(* A rule finds enough of all it needs.                                    *)
Complete(r, t, w, index) ==
    \A k \in DOMAIN r.needs :
        Cardinality(Corroborating(r, t, k, Recent(w, index, k, r.span))) >= r.needs[k]

(* military_surge: a flight is noted, and at most once an hour the number  *)
(* of aircraft its cell has seen in six hours goes into the baseline, even *)
(* if it then proves to be a surge: more than the mean of the baseline and *)
(* twice its deviation.  The cooldown of an hour is kept by the process.   *)
Cells == {e.cell : e \in Traffic[traffic].events}
NoBaseline == [counts |-> <<>>, age |-> Hour]

Noted(ss, t) ==
    {s \in ss : s.age <= SixHours} \cup {[hex |-> t.hex, cell |-> t.cell, age |-> 0]}
AircraftIn(ss, c) == Cardinality({s.hex : s \in {x \in ss : x.cell = c}})

Snapshot(b, n) ==
    LET counts == Append(b.counts, n) IN
    IF b.age < Hour THEN b
    ELSE [counts |-> IF Len(counts) > BaselineHours THEN Tail(counts) ELSE counts, age |-> 0]

Exceeds(n, counts) ==
    LET k     == Len(counts)
        total == FoldSeq(LAMBDA c, sum : sum + c, 0, counts)
        over  == n * k - total
        spread == k * FoldSeq(LAMBDA c, sum : sum + c * c, 0, counts) - total * total
    IN  k >= FewSnapshots /\ over > 0 /\ over * over > 4 * spread

CoolingDown(c) ==
    \E i \in ToSet(incidents) :
        i.rule = MilitarySurge.id /\ i.tag = c /\ i.start = restarts /\ i.age < Hour

Surges(t, ss, bs) ==
    LET n == AircraftIn(ss, t.cell) IN
    n >= MinAircraft /\ Exceeds(n, bs[t.cell].counts) /\ ~CoolingDown(t.cell)

Init ==
    /\ traffic \in DOMAIN Traffic
    /\ window = <<>> /\ byKind = {}
    /\ sightings = {} /\ baselines = [c \in Cells |-> NoBaseline]
    /\ incidents = <<>>
    /\ heard = <<>> /\ uptime = SixHours + 1 /\ restarts = 0

(* An event arrives.  Every rule it triggers is asked, unless an active    *)
(* incident stands for it.                                                 *)
SuppressedAnywhere(r, e) ==
    \E i \in ToSet(incidents) : i.active /\ i.rule = r.id
Suppressed(r, e) ==
    \E i \in ToSet(incidents) : i.active /\ Covers(r, InMemory(i), e)

Fires(r, e) ==
    /\ ~Suppressed(r, e)
    /\ IF r = MilitarySurge THEN Surges(e, sightings', baselines')
       ELSE Complete(r, e, window', byKind')

Receive(e) ==
    /\ Len(heard) < Traffic[traffic].most
    /\ heard' = Append(heard, [event |-> e, age |-> 0])
    /\ window' = Append(window, [event |-> e, age |-> 0])
    /\ byKind' = byKind \cup {<<e.kind, Len(window) + 1>>}
    /\ sightings' = IF e.hex = None THEN sightings ELSE Noted(sightings, e)
    /\ baselines' =
          IF e.hex = None THEN baselines
          ELSE [baselines EXCEPT ![e.cell] = Snapshot(@, AircraftIn(sightings', e.cell))]
    /\ incidents' = incidents \o SetToSeq({Incident(r, e) : r \in {x \in Triggered(e) : Fires(x, e)}})
    /\ UNCHANGED <<traffic, uptime, restarts>>

(* The minute's interval: drop from the front of the window what is too    *)
(* old, index the rest anew, expire incidents.                             *)
KeptIndex(w, n) == byKind
Reindexed(w, n) == IF n = 0 THEN byKind ELSE Index(w)
ActiveFor(is, age) == [n \in DOMAIN is |-> [is[n] EXCEPT !.active = @ /\ is[n].age < age]]
ExpiredEarly(is) == Younger(ActiveFor(is, Hour), SixHours)
Expired(is) == Younger(ActiveFor(is, SixHours), SixHours)

Prune ==
    /\ LET n == Overdue(window, WindowAge + 1) IN
          /\ window' = SubSeq(window, n + 1, Len(window))
          /\ byKind' = Reindexed(window', n)
    /\ incidents' = Expired(incidents)
    /\ UNCHANGED <<traffic, sightings, baselines, heard, uptime, restarts>>

(* Time passes; the interval of a minute does not fall behind by a step.   *)
Elapse ==
    /\ Overdue(window, WindowAge + 1) = 0
    /\ incidents = Expired(incidents)
    /\ window' = Older(window)
    /\ sightings' = {[s EXCEPT !.age = @ + 1] : s \in {x \in sightings : x.age < SixHours}}
    /\ baselines' = [c \in Cells |-> [baselines[c] EXCEPT !.age = IF @ < Hour THEN @ + 1 ELSE @]]
    /\ incidents' = Older(incidents)
    /\ heard' = Younger(Older(heard), SixHours + 1)
    /\ uptime' = IF uptime > SixHours THEN uptime ELSE uptime + 1
    /\ UNCHANGED <<traffic, byKind, restarts>>

(* The task that writes a new incident ends well, which it need not do.    *)
Persist(n) ==
    /\ ~incidents[n].stored /\ incidents[n].start = restarts
    /\ incidents' = [incidents EXCEPT ![n].stored = TRUE]
    /\ UNCHANGED <<traffic, window, byKind, sightings, baselines, heard, uptime, restarts>>

(* load_recent_incidents: the rows of the last hour, without their places. *)
Reloaded(i) ==
    [i EXCEPT !.active = i.stored /\ i.age < Hour, !.restored = TRUE]

(* The process ends and starts again: the events of the last six hours are *)
(* pushed into a new window, at the time of the start and without asking   *)
(* any rule.  Its source may have failed to store an event; those of the   *)
(* Shodan stream are never stored, for their name differs from its id.     *)
(* A start that finds no situation to restore pushes those of a week; the  *)
(* older ones are left out.                                                *)
Restart ==
    /\ restarts < MaxRestarts
    /\ restarts' = restarts + 1 /\ uptime' = 0
    /\ LET recent == Younger(heard, SixHours)
           Unstored == {p \in DOMAIN recent : recent[p].event.kind = "banner"}
       IN  \E rows \in SUBSET (DOMAIN recent \ Unstored) : heard' = Kept(recent, rows)
    /\ window' = [p \in DOMAIN heard' |-> [event |-> heard'[p].event, age |-> 0]]
    /\ byKind' = Index(window')
    /\ sightings' = {} /\ baselines' = [c \in Cells |-> NoBaseline]
    /\ incidents' = [n \in DOMAIN incidents |-> Reloaded(incidents[n])]
    /\ UNCHANGED traffic

Next ==
    \/ \E e \in Traffic[traffic].events : Receive(e)
    \/ \E n \in DOMAIN incidents : Persist(n)
    \/ Prune
    \/ Elapse
    \/ Restart

Spec == Init /\ [][Next]_vars
-----------------------------------------------------------------------------
(* The window is in order and its index exact, so that no query reads a    *)
(* wrong or missing position; and it ends with everything the process has  *)
(* heard of in the last six hours, nothing lost by pruning or by a start.  *)
(* After a start an event may look younger than it is, never older.        *)
WindowConsistent ==
    /\ byKind = Index(window)
    /\ \A p, q \in DOMAIN window : p < q => window[p].age >= window[q].age
    /\ Len(heard) <= Len(window)
    /\ \A p \in DOMAIN heard :
          LET seen == window[Len(window) - Len(heard) + p] IN
          seen.event = heard[p].event /\ seen.age <= heard[p].age

(* The pattern of a rule that an event completes is reported, by a new     *)
(* incident or by an active one of that place, however the window was      *)
(* pruned and restored in between.  And no incident is raised without the  *)
(* pattern, unless the start that made old events young is less than the   *)
(* rule's span ago.  A surge, which need not be reported, takes the        *)
(* aircraft it counts, each once, in the last six hours.                   *)
Due(r, t) ==
    IF r = MilitarySurge
    THEN MinAircraft <= Cardinality({x.event.hex : x \in {y \in ToSet(heard') :
                                       y.event.hex # None /\ y.event.cell = t.cell}})
    ELSE Complete(r, t, heard', Index(heard'))

Reported(t) ==
    \A r \in Triggered(t) \ {MilitarySurge} :
        Due(r, t) => \E i \in ToSet(incidents') : i.active /\ Covers(r, i, t)

Warranted(t) ==
    \A n \in DOMAIN incidents' \ DOMAIN incidents :
        \E r \in Rules :
           /\ r.id = incidents'[n].rule
           /\ \/ Due(r, t)
              \/ r # MilitarySurge /\ uptime <= r.span

PatternsReported ==
    [][ Len(heard') > Len(heard) =>
          Reported(Last(heard').event) /\ Warranted(Last(heard').event) ]_vars

(* In six hours there is one incident of a rule for a place, a country or  *)
(* a domain, whatever triggers it.  Only a start makes room for a second:  *)
(* it forgets the earlier one, or it restores one without its place.       *)
Stands(r, i, j) ==
    Covers(r, i, [country |-> j.tag, domain |-> j.tag, cell |-> j.tag, place |-> j.place, region |-> j.region])

MayRepeat(r, i, j) ==
    /\ i.start < j.start
    /\ \/ ~i.active
       \/ r.by \in {"place", "placeOrRegion"} /\ i.place # None

OnePerCooldown ==
    \A n \in DOMAIN incidents : \A m \in 1..(n - 1) : \A r \in Rules :
        LET i == incidents[m]
            j == incidents[n]
        IN  j.rule = r.id /\ Stands(r, i, j) /\ i.age < SixHours => MayRepeat(r, i, j)
=============================================================================
