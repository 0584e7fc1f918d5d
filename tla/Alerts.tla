------------------------------- MODULE Alerts -------------------------------
(***************************************************************************)
(* Alert rules: users add and delete them over the API, the loop of the    *)
(* pipeline reads the table every two minutes and asks the rules it has    *)
(* about each event after the correlation rules; the tracker keeps a rule  *)
(* from firing too often; what fired is sent to clients and written to a   *)
(* history by a task of its own (pipeline/src/alerts.rs, pipeline.rs,      *)
(* server/src/routes/alerts.rs).                                           *)
(*                                                                         *)
(* What a rule matches is in the event: the rules whose severity, words,   *)
(* regions and types it meets.  Only rules of type keyword are ever asked, *)
(* so the others are left out, and so is situation_dedup, which nothing    *)
(* reads.  A rule is never disabled.                                       *)
(***************************************************************************)
EXTENDS Correlation

CONSTANTS
    Cooldown, PerHour,  \* of each alert rule
    TwoHours

AlertRule == DOMAIN Cooldown

ASSUME AlertsAssumption ==
    /\ Cooldown \in [AlertRule -> 0..SixHours]
    /\ PerHour \in [AlertRule -> Nat]
    /\ TwoHours \in Hour..SixHours
    /\ None \notin Nat /\ None \notin [age : Nat, count : Nat]
    /\ \A t \in DOMAIN Traffic :
          Traffic[t].rules \subseteq AlertRule
          /\ \A e \in Traffic[t].events : e.alerts \subseteq AlertRule

VARIABLES
    ruleRows,    \* the rows of alert_rules
    created,     \* the rules that ever had a row: ids are not used again
    alertRules,  \* those the loop has
    lastFired,   \* last_fired: time since, None if it has no entry
    hourly,      \* hourly_counts: time since the hour began, and the count
    alerts,      \* history: the alerts of six hours, oldest first
    recorded     \* the rules alert_history has a row of

alertVars == <<ruleRows, created, alertRules, lastFired, hourly, alerts, recorded>>
allVars == <<vars, alertVars>>
-----------------------------------------------------------------------------
(* Types of event that are summed up every half a minute or minute, and    *)
(* neither sent to clients nor shown to alert rules.                       *)
HighVolume == {"flight", "vessel", "cert", "banner"}

(* Of the other kinds in use here, conflicts without casualties and small  *)
(* earthquakes are not important unless severe.                            *)
Important(e) == e.kind \in {"conflict", "seismic"} => e.severe

Asked(e) == IF e.kind \notin HighVolume /\ Important(e) THEN alertRules ELSE {}
Matching(e) == {a \in Asked(e) : a \in e.alerts}

HourAllows(a) ==
    hourly[a] = None \/ hourly[a].age >= Hour \/ hourly[a].count < PerHour[a]
CanFire(a) ==
    /\ lastFired[a] = None \/ lastFired[a] >= Cooldown[a]
    /\ HourAllows(a)

Counted(h) ==
    IF h = None \/ h.age >= Hour THEN [age |-> 0, count |-> 1]
    ELSE [h EXCEPT !.count = @ + 1]

(* evaluate_rules, for an event the loop has received.                     *)
Evaluate(e) ==
    LET fired == {a \in Matching(e) : CanFire(a)} IN
    /\ lastFired' = [a \in AlertRule |-> IF a \in fired THEN 0 ELSE lastFired[a]]
    /\ hourly' = [a \in AlertRule |-> IF a \in fired THEN Counted(hourly[a]) ELSE hourly[a]]
    /\ alerts' = alerts \o
          SetToSeq({[rule |-> a, age |-> 0, start |-> restarts, pending |-> TRUE] : a \in fired})
    /\ UNCHANGED <<ruleRows, created, alertRules, recorded>>

(* Every two minutes: the rules are read, or the query fails and there are *)
(* none; cleanup forgets what is two hours old.                            *)
Loads == {ruleRows, {}}
Cleaned(times) ==
    [a \in AlertRule |-> IF times[a] # None /\ times[a] >= TwoHours THEN None ELSE times[a]]
Begun == [a \in AlertRule |-> IF hourly[a] = None THEN None ELSE hourly[a].age]

RefreshRules ==
    /\ alertRules' \in Loads
    /\ lastFired' = Cleaned(lastFired)
    /\ hourly' = [a \in AlertRule |-> IF Cleaned(Begun)[a] = None THEN None ELSE hourly[a]]
    /\ UNCHANGED <<vars, ruleRows, created, alerts, recorded>>

CreateRule(a) ==
    /\ a \in Traffic[traffic].rules \ created
    /\ ruleRows' = ruleRows \cup {a} /\ created' = created \cup {a}
    /\ UNCHANGED <<vars, alertRules, lastFired, hourly, alerts, recorded>>

(* The database refuses to delete a rule the history refers to.            *)
Referred == recorded
DeleteRule(a) ==
    /\ a \in ruleRows \ Referred
    /\ ruleRows' = ruleRows \ {a}
    /\ UNCHANGED <<vars, created, alertRules, lastFired, hourly, alerts, recorded>>

(* The task that writes an alert ends.  The database refuses one of a rule *)
(* that is gone, and may fail.                                             *)
PersistAlert(n) ==
    /\ alerts[n].pending
    /\ alerts' = [alerts EXCEPT ![n].pending = FALSE]
    /\ \/ alerts[n].rule \in ruleRows /\ recorded' = recorded \cup {alerts[n].rule}
       \/ UNCHANGED recorded
    /\ UNCHANGED <<vars, ruleRows, created, alertRules, lastFired, hourly>>

(* Time passes; no write takes six hours.                                  *)
ElapseAlerts ==
    /\ \A n \in DOMAIN alerts : alerts[n].pending => alerts[n].age < SixHours
    /\ lastFired' = [a \in AlertRule |->
          IF lastFired[a] = None \/ lastFired[a] = SixHours THEN lastFired[a] ELSE lastFired[a] + 1]
    /\ hourly' = [a \in AlertRule |->
          IF hourly[a] = None \/ hourly[a].age = SixHours THEN hourly[a]
          ELSE [hourly[a] EXCEPT !.age = @ + 1]]
    /\ alerts' = Younger(Older(alerts), SixHours + 1)
    /\ UNCHANGED <<ruleRows, created, alertRules, recorded>>

(* A start has no rules until the first two minutes are over.              *)
RestartAlerts ==
    /\ alertRules' = {}
    /\ lastFired' = [a \in AlertRule |-> None]
    /\ hourly' = [a \in AlertRule |-> None]
    /\ alerts' = [n \in DOMAIN alerts |-> [alerts[n] EXCEPT !.pending = FALSE]]
    /\ UNCHANGED <<ruleRows, created, recorded>>

AlertsInit ==
    /\ Init
    /\ ruleRows = {} /\ created = {} /\ alertRules = {}
    /\ lastFired = [a \in AlertRule |-> None] /\ hourly = [a \in AlertRule |-> None]
    /\ alerts = <<>> /\ recorded = {}

AlertsNext ==
    \/ \E e \in Traffic[traffic].events : Receive(e) /\ Evaluate(e)
    \/ \E n \in DOMAIN incidents : Persist(n) /\ UNCHANGED alertVars
    \/ Prune /\ UNCHANGED alertVars
    \/ Elapse /\ ElapseAlerts
    \/ Restart /\ RestartAlerts
    \/ RefreshRules
    \/ \E a \in AlertRule : CreateRule(a) \/ DeleteRule(a)
    \/ \E n \in DOMAIN alerts : PersistAlert(n)

AlertsSpec == AlertsInit /\ [][AlertsNext]_allVars
-----------------------------------------------------------------------------
(* Two alerts of a rule are its cooldown apart, whatever became of the     *)
(* rule and of its loading in between, unless the process was started      *)
(* anew, which forgets them, or cleanup had forgotten the first: a rule    *)
(* with a cooldown of more than two hours may fire every two.  In less     *)
(* than an hour of one process a rule fires less than twice as often as it *)
(* may in an hour, for hours are counted from the first alert on; one that *)
(* may not fire at all fires once an hour, for the first is not counted.   *)
AlertsLimited ==
    \A n \in DOMAIN alerts :
        LET j == alerts[n]
            Since(age) == {m \in 1..n : /\ alerts[m].rule = j.rule
                                        /\ alerts[m].start = j.start
                                        /\ alerts[m].age - j.age < age}
        IN  /\ Since(Cooldown[j.rule]) \cap Since(TwoHours) \subseteq {n}
            /\ Cardinality(Since(Hour)) <= IF PerHour[j.rule] = 0 THEN 1 ELSE 2 * PerHour[j.rule] - 1
=============================================================================
