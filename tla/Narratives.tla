----------------------------- MODULE Narratives -----------------------------
(***************************************************************************)
(* Texts asked of models (pipeline.rs, intel/src/narrative.rs, analyze.rs):*)
(* a tick asks for narratives of some situations, the answers come back    *)
(* over a channel in any order and are stored by tasks of their own.       *)
(* Advanced models are paid for from the budget (ModelBudget), which       *)
(* summaries, analysis and the texts of images share.  Titles and          *)
(* enrichment are asked of the local model alone.                          *)
(*                                                                         *)
(* A text is the number of the request it answers.  How many events make a *)
(* narrative outdated and which model a situation deserves are choices.    *)
(* Nothing marks a narrative as asked for: a tick asks again until the     *)
(* answer is delivered.                                                    *)
(***************************************************************************)
EXTENDS ModelBudget, FiniteSets

CONSTANTS
    Situation,
    PerTick,       \* narratives asked for in a tick: 3
    MaxTasks,      \* bound on the tasks that run at a time
    MaxAsks,       \* bound on the requests ever made
    MaxTroubles,   \* bound on calls and writes that fail
    MaxRestarts    \* bound on the restarts of the server

ASSUME NarrativesAssumption ==
    /\ IsFiniteSet(Situation)
    /\ {PerTick, MaxTasks} \subseteq Nat \ {0}
    /\ {MaxAsks, MaxTroubles, MaxRestarts} \subseteq Nat

VARIABLES
    told,       \* narrative_state: version and text of each situation
    news,       \* situations with enough new events since their text
    tasks,      \* requests on their way, see below
    answers,    \* narrative_rx
    saving,     \* rows being written
    stored,     \* situation_narratives
    late,       \* history: situations that took an answer after a newer one
    asks, troubles, restarts

vars == <<budgetVars, told, news, tasks, answers, saving, stored, late, asks, troubles, restarts>>

(* A task asks for a narrative of `sit`, the one after `version`, or for   *)
(* something else.  It stands at "budget", before it looks at the month;   *)
(* at "reset", having found a new one; at "cleared", waiting for the lock; *)
(* at "opened", before it looks at what is left; at "gemini" or "local",   *)
(* waiting for a model.                                                    *)
Others == {[what |-> w] : w \in {"analysis", "summary", "image"}}
Narrative(s, n) == [what |-> "narrative", sit |-> s, version |-> told[s].version, ask |-> n]
At(t, place) == [t EXCEPT !.at = place]

Untold == [version |-> 0, text |-> 0]

(* ORDER BY situation_id, version DESC.                                    *)
Oldest(rows) == CHOOSE r \in rows : \A q \in rows : r.version <= q.version
Newest(rows) == CHOOSE r \in rows : \A q \in rows : r.version >= q.version

Loaded(s) ==
    LET rows == {r \in stored : r.sit = s} IN
    IF rows = {} THEN Untold
    ELSE [version |-> Newest(rows).version, text |-> Newest(rows).text]

Init ==
    /\ BudgetInit
    /\ told = [s \in Situation |-> Untold]
    /\ news = {} /\ tasks = {} /\ answers = <<>> /\ saving = {} /\ stored = {} /\ late = {}
    /\ asks = 0 /\ troubles = 0 /\ restarts = 0

Task(request, n, place) == [job |-> request, id |-> n, at |-> place]
Room == MaxTasks - Cardinality(tasks)
Least(S) == CHOOSE m \in S : \A n \in S : m <= n

-----------------------------------------------------------------------------
(* Events since the text of a situation: before it has one they are not    *)
(* looked at.                                                              *)
Happen(s) ==
    /\ told[s].version # 0 /\ s \notin news
    /\ news' = news \cup {s}
    /\ UNCHANGED <<budgetVars, told, tasks, answers, saving, stored, late, asks, troubles, restarts>>

Turn ==
    /\ TurnMonth
    /\ UNCHANGED <<told, news, tasks, answers, saving, stored, late, asks, troubles, restarts>>

(* The first situations of the view, in its order, that have no text or    *)
(* news since it.                                                          *)
Outdated == {s \in Situation : told[s].version = 0 \/ s \in news}

Tick ==
    LET k == Least({PerTick, Cardinality(Outdated), Room, MaxAsks - asks}) IN
    /\ k > 0
    /\ \E order \in Injection(1 .. k, Outdated), Advanced \in SUBSET Outdated :
          LET Asked(i) == Task(Narrative(order[i], asks + i), asks + i,
                               IF order[i] \in Advanced THEN "budget" ELSE "local")
          IN  tasks' = tasks \cup {Asked(i) : i \in 1 .. k}
    /\ asks' = asks + k
    /\ UNCHANGED <<budgetVars, told, news, answers, saving, stored, late, troubles, restarts>>

(* What they do without Gemini is left out.                                *)
Ask(request) ==
    /\ asks < MaxAsks /\ Room > 0
    /\ tasks' = tasks \cup {Task(request, asks + 1, "budget")}
    /\ asks' = asks + 1

(* An analysis asks Gemini at a high tempo only; a summary follows a       *)
(* narrative, and asks it only when the local model failed.                *)
Analyse == Ask([what |-> "analysis"])
Read == Ask([what |-> "image"])
Summarise == Ask([what |-> "summary"])

Require ==
    /\ Analyse \/ Read
    /\ UNCHANGED <<budgetVars, told, news, answers, saving, stored, late, troubles, restarts>>

-----------------------------------------------------------------------------
Moves(t, place) ==
    /\ tasks' = (tasks \ {t}) \cup {At(t, place)}
    /\ UNCHANGED <<told, news, answers, saving, stored, late, asks, troubles, restarts>>

Ends(t) ==
    /\ tasks' = tasks \ {t}
    /\ UNCHANGED <<told, news, saving, stored, late, asks, restarts>>

Sends(t) ==
    answers' = IF t.job.what = "narrative" THEN Append(answers, t.job) ELSE answers

(* A narrative that cannot be paid for is asked of the local model.        *)
LookAtBudget(t) ==
    /\ \/ t.at = "budget" /\ NewMonth /\ Moves(t, "reset")
       \/ /\ t.at = "opened" \/ (t.at = "budget" /\ ~NewMonth)
          /\ \/ Affordable /\ Moves(t, "gemini")
             \/ ~Affordable /\ t.job.what = "narrative" /\ Moves(t, "local")
             \/ /\ ~Affordable /\ t.job.what # "narrative"
                /\ Ends(t) /\ UNCHANGED <<answers, troubles>>
    /\ UNCHANGED budgetVars

ResetBudget(t) ==
    \/ t.at = "reset" /\ Clear /\ Moves(t, "cleared")
    \/ t.at = "cleared" /\ Open /\ Moves(t, "opened")

(* An image without text is charged by the service and not recorded.       *)
Answer(t) ==
    /\ t.at \in {"gemini", "local"}
    /\ IF t.at = "local" THEN UNCHANGED budgetVars
       ELSE \E cost \in 1 .. Price :
               Charge(cost) \/ (t.job.what = "image" /\ ChargeUnseen(cost))
    /\ Sends(t)
    /\ Ends(t) /\ UNCHANGED troubles

Fail(t) ==
    /\ t.at \in {"gemini", "local"} /\ troubles < MaxTroubles
    /\ troubles' = troubles + 1
    /\ \/ UNCHANGED budgetVars
       \/ t.at = "gemini" /\ \E cost \in 1 .. Price : ChargeUnseen(cost)
    /\ Ends(t) /\ UNCHANGED answers

-----------------------------------------------------------------------------
(* The answer is taken whatever was delivered since it was asked for; a    *)
(* summary of the situation may be asked for in turn.                      *)
Row(a) == [sit |-> a.sit, version |-> a.version + 1, text |-> a.ask]

Deliver ==
    /\ answers # <<>>
    /\ LET a == Head(answers) IN
          /\ told' = [told EXCEPT ![a.sit] = [version |-> a.version + 1, text |-> a.ask]]
          /\ news' = news \ {a.sit}
          /\ saving' = saving \cup {Row(a)}
          /\ late' = IF a.ask < told[a.sit].text THEN late \cup {a.sit} ELSE late
    /\ answers' = Tail(answers)
    /\ Summarise \/ UNCHANGED <<tasks, asks>>
    /\ UNCHANGED <<budgetVars, stored, troubles, restarts>>

(* ON CONFLICT (situation_id, version) DO NOTHING.                         *)
Save(r) ==
    /\ saving' = saving \ {r}
    /\ stored' = IF \E q \in stored : q.sit = r.sit /\ q.version = r.version
                 THEN stored ELSE stored \cup {r}
    /\ UNCHANGED <<budgetVars, told, news, tasks, answers, late, asks, troubles, restarts>>

Unsave(r) ==
    /\ troubles < MaxTroubles
    /\ troubles' = troubles + 1
    /\ saving' = saving \ {r}
    /\ UNCHANGED <<budgetVars, told, news, tasks, answers, stored, late, asks, restarts>>

WriteBudget(k) ==
    /\ \/ Written(k) /\ UNCHANGED troubles
       \/ Unwritten(k) /\ troubles < MaxTroubles /\ troubles' = troubles + 1
    /\ UNCHANGED <<told, news, tasks, answers, saving, stored, late, asks, restarts>>

Restart ==
    /\ restarts < MaxRestarts
    /\ restarts' = restarts + 1
    /\ \E charged \in 0 .. Price : Reload(IF \E t \in tasks : t.at = "gemini" THEN charged ELSE 0)
    /\ \/ told' = [s \in Situation |-> Loaded(s)] /\ UNCHANGED troubles
       \/ /\ troubles < MaxTroubles /\ troubles' = troubles + 1
          /\ told' = [s \in Situation |-> Untold]
    /\ news' = {} /\ tasks' = {} /\ answers' = <<>> /\ saving' = {}
    /\ UNCHANGED <<stored, late, asks>>

Next ==
    \/ (\E s \in Situation : Happen(s)) \/ Turn \/ Tick \/ Require
    \/ \E t \in tasks : LookAtBudget(t) \/ ResetBudget(t) \/ Answer(t) \/ Fail(t)
    \/ Deliver
    \/ \E r \in saving : Save(r) \/ Unsave(r)
    \/ \E k \in 1 .. Len(writes) : WriteBudget(k)
    \/ Restart

Spec == Init /\ [][Next]_vars
-----------------------------------------------------------------------------
(* Versions and texts: as long as a situation takes its answers in the     *)
(* order they were asked for, its version never falls while the server     *)
(* runs, and a restart goes back only to the newest version that has a     *)
(* row.  It is one late answer, delivered after a newer one, that turns    *)
(* the numbering back: narrative_rx does not look at the version it holds. *)
VersionFallsOnlyBy ==
    [][\A s \in Situation :
          told'[s].version < told[s].version =>
              \/ s \in late'
              \/ restarts' # restarts /\ \A r \in stored : r.sit = s => r.version <= told'[s].version
              \/ restarts' # restarts /\ troubles' # troubles]_vars

(* The month's calls to Gemini pass the cap by no more than the calls that *)
(* were on their way when the counter reached it, and what the counter     *)
(* never had: images without text, calls cut off or failed, and sums wiped *)
(* by a reset that came after them.                                        *)
WithinBudget == real < Cap + Price * MaxTasks + unseen

(* With no write on its way, lost or overtaken, and none undone by the     *)
(* first row of the month, a crash forgets less than Step of what was      *)
(* spent this month.                                                       *)
KeptWithinAStep ==
    since = month /\ writes = <<>> /\ ~spoiled => spend < row[month] + Step
=============================================================================
