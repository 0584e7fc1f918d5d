----------------------------- MODULE WebSearch -----------------------------
(***************************************************************************)
(* Web searches for situations: a tick reserves a slot of the rate limiter *)
(* and spawns a task, the task asks the limiter again, sends the request   *)
(* and returns a result to the loop (intel/src/search.rs, pipeline.rs).    *)
(*                                                                         *)
(* Time goes in steps; half a minute is SearchCooldown steps.  Which       *)
(* situations are due, and what for, is data.  The limiter is one step:    *)
(* two calls at a time cannot both get past the cooldown, which is tested  *)
(* and set under one lock.                                                 *)
(*                                                                         *)
(* Before some helpers stands a variant of theirs with a plausible slip,   *)
(* which the specification does not use.                                   *)
(***************************************************************************)
EXTENDS Naturals, FiniteSets, Sequences

CONSTANTS
    Situation,
    SearchCooldown,        \* between two searches: 30 s
    HourLength, HourlyCap, \* 60 in an hour
    DayLength, DailyCap    \* EXA_DAILY_CAP: 1400

ASSUME SearchAssumption ==
    /\ {SearchCooldown, HourLength, HourlyCap, DayLength, DailyCap} \subseteq Nat \ {0}
    /\ SearchCooldown <= HourLength /\ HourLength <= DayLength

VARIABLES
    live,      \* the situations in the graph
    asking,    \* search_pending
    tasks,     \* <<situation, where its task stands>>
    results,   \* search_tx: <<situation, whether anything was found>>
    limiter,   \* SearchRateLimiter: time since, and how many
    circuitOpen,
    lastSent,  \* history: time since a request was sent, as far as it matters
    sentHour, sentDay   \* history: requests since the limiter's last resets

history == <<lastSent, sentHour, sentDay>>
searchVars == <<live, asking, tasks, results, limiter, circuitOpen, lastSent, sentHour, sentDay>>

Places == {"spawned", "asked", "found", "nothing"}
AtMost(a, b) == IF a <= b THEN a ELSE b
-----------------------------------------------------------------------------
(* SearchRateLimiter: what try_acquire does to the windows before it       *)
(* decides; past the daily cap it does not look at the hour.               *)
NewLimiter == [since |-> SearchCooldown, hour |-> 0, hourly |-> 0, day |-> 0, daily |-> 0]

DayReset(l) == IF l.day >= DayLength THEN [l EXCEPT !.day = 0, !.daily = 0] ELSE l
HourReset(l) == IF l.hour >= HourLength THEN [l EXCEPT !.hour = 0, !.hourly = 0] ELSE l
Looked(l) == IF DayReset(l).daily >= DailyCap THEN DayReset(l) ELSE HourReset(DayReset(l))

WithinCaps(l) == l.hourly < HourlyCap /\ l.daily < DailyCap

Grants(l) == WithinCaps(Looked(l)) /\ l.since >= SearchCooldown
Unstamped(l) == [Looked(l) EXCEPT !.hourly = @ + 1, !.daily = @ + 1]
Uncounted(l) == [Looked(l) EXCEPT !.since = 0]
Taken(l) == [Looked(l) EXCEPT !.since = 0, !.hourly = @ + 1, !.daily = @ + 1]

(* The windows of the history move with those of the limiter.              *)
Windows ==
    /\ sentHour' = IF limiter'.hour < limiter.hour THEN 0 ELSE sentHour
    /\ sentDay' = IF limiter'.day < limiter.day THEN 0 ELSE sentDay
-----------------------------------------------------------------------------
SearchInit ==
    /\ live = {} /\ asking = {} /\ tasks = {} /\ results = <<>>
    /\ limiter = NewLimiter
    /\ circuitOpen = FALSE
    /\ lastSent = SearchCooldown /\ sentHour = 0 /\ sentDay = 0

(* Situations come and go; a title, events and severity make them due.     *)
Appear(s) ==
    /\ s \notin live
    /\ live' = live \cup {s}
    /\ UNCHANGED <<asking, tasks, results, limiter, circuitOpen, history>>

Vanish(s) ==
    /\ s \in live
    /\ live' = live \ {s}
    /\ UNCHANGED <<asking, tasks, results, limiter, circuitOpen, history>>

ElapseSearch ==
    /\ limiter' = [limiter EXCEPT
          !.since = AtMost(@ + 1, SearchCooldown),
          !.hour = AtMost(@ + 1, HourLength),
          !.day = AtMost(@ + 1, DayLength)]
    /\ lastSent' = AtMost(lastSent + 1, SearchCooldown)
    /\ UNCHANGED <<live, asking, tasks, results, circuitOpen, sentHour, sentDay>>

(* A tick goes through the situations that are due and not being searched, *)
(* then through those whose severity rose, and reserves a slot for each    *)
(* until it is refused.  All of it is one instant, so it gets one slot at  *)
(* most.                                                                   *)
Free(s) == s \notin asking

Spawn(s) ==
    /\ s \in live /\ Free(s)
    /\ Grants(limiter)
    /\ limiter' = Taken(limiter)
    /\ Windows
    /\ asking' = asking \cup {s}
    /\ tasks' = tasks \cup {<<s, "spawned">>}
    /\ UNCHANGED <<live, results, circuitOpen, lastSent>>

TurnedAway(s) ==
    /\ s \in live /\ Free(s)
    /\ ~Grants(limiter)
    /\ limiter' = Looked(limiter)
    /\ Windows
    /\ UNCHANGED <<live, asking, tasks, results, circuitOpen, lastSent>>

(* What a search is for: the gravest gap in what is known of a situation,  *)
(* or the rise of its severity.                                            *)
Purpose == {"NewsCoverage", "GroundVerification", "EntityBackground", "StaleContext",
            "Corroboration", "RegionalContext", "Escalation"}

(* A query made of nothing but the situation's terms is empty if there is  *)
(* no entity and no region but a general one, and then is not sent; the    *)
(* others have words of their own.                                         *)
OfTermsAlone == {"Corroboration", "Escalation"}
Proper(purpose) == IF purpose \in OfTermsAlone THEN BOOLEAN ELSE {TRUE}

Becomes(t, place) == tasks' = (tasks \ {t}) \cup {<<t[1], place>>}

(* search_situation_context.  It ends with nothing if the circuit is open, *)
(* if the limiter refuses, ...                                             *)
Refused(t) ==
    /\ t \in tasks /\ t[2] = "spawned"
    /\ circuitOpen \/ ~Grants(limiter)
    /\ Becomes(t, "nothing")
    /\ limiter' = IF circuitOpen THEN limiter ELSE Looked(limiter)
    /\ Windows
    /\ UNCHANGED <<live, asking, results, circuitOpen, lastSent>>

(* ... or, with the slot taken, if there is no proper query (or no key,    *)
(* which is no different).  Otherwise the request goes out.                *)
Ask(t, proper) ==
    /\ t \in tasks /\ t[2] = "spawned"
    /\ ~circuitOpen /\ Grants(limiter)
    /\ limiter' = Taken(limiter)
    /\ IF proper
       THEN /\ Becomes(t, "asked")
            /\ lastSent' = 0
            /\ sentHour' = IF limiter'.hour < limiter.hour THEN 1 ELSE sentHour + 1
            /\ sentDay' = IF limiter'.day < limiter.day THEN 1 ELSE sentDay + 1
       ELSE Becomes(t, "nothing") /\ Windows /\ UNCHANGED lastSent
    /\ UNCHANGED <<live, asking, results, circuitOpen>>

(* An answer, an error or fifteen seconds of silence; when the credits are *)
(* exhausted no search goes out any more.                                  *)
Answer(t) ==
    /\ t \in tasks /\ t[2] = "asked"
    /\ \/ Becomes(t, "found") /\ UNCHANGED circuitOpen
       \/ Becomes(t, "nothing") /\ circuitOpen' \in {circuitOpen, TRUE}
    /\ UNCHANGED <<live, asking, results, limiter, history>>

(* The task returns a result, be it that nothing was found.                *)
OnlyIfFound(t) == IF t[2] = "found" THEN <<<<t[1], TRUE>>>> ELSE <<>>
Returned(t) == <<<<t[1], t[2] = "found">>>>

Return(t) ==
    /\ t \in tasks /\ t[2] \in {"found", "nothing"}
    /\ tasks' = tasks \ {t}
    /\ results' = results \o Returned(t)
    /\ UNCHANGED <<live, asking, limiter, circuitOpen, history>>

(* The loop takes a result.  What it found and the record of the search    *)
(* are data of the situation, if that still exists.                        *)
Deliver ==
    /\ results # <<>>
    /\ results' = Tail(results)
    /\ asking' = asking \ {Head(results)[1]}
    /\ UNCHANGED <<live, tasks, limiter, circuitOpen, history>>

(* Nothing of the limiter is stored.                                       *)
RestartSearch ==
    /\ asking' = {} /\ tasks' = {} /\ results' = <<>>
    /\ limiter' = NewLimiter
    /\ circuitOpen' = FALSE
    /\ lastSent' = SearchCooldown /\ sentHour' = 0 /\ sentDay' = 0
    /\ UNCHANGED live

SearchNext ==
    \/ \E s \in Situation : Appear(s) \/ Vanish(s) \/ Spawn(s) \/ TurnedAway(s)
    \/ \E t \in tasks, purpose \in Purpose : \E proper \in Proper(purpose) : Ask(t, proper)
    \/ \E t \in tasks : Refused(t) \/ Answer(t) \/ Return(t)
    \/ ElapseSearch
    \/ Deliver
    \/ RestartSearch

(* Tasks end, the request by its timeout; the loop takes results.          *)
TasksEnd == \A s \in Situation : []<>({t \in tasks : t[1] = s} = {})

SearchSpec == SearchInit /\ [][SearchNext]_searchVars /\ TasksEnd /\ WF_searchVars(Deliver)
=============================================================================
