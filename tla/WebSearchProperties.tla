------------------------ MODULE WebSearchProperties ------------------------
(***************************************************************************)
(* What the rate limiter and the bookkeeping of searches keep to.          *)
(***************************************************************************)
EXTENDS WebSearch

Limiter == [since : 0..SearchCooldown, hour : 0..HourLength, hourly : 0..HourlyCap,
            day : 0..DayLength, daily : 0..DailyCap]

(* Types.  The counts of the limiter never pass its caps.                  *)
TypeOKSearch ==
    /\ live \subseteq Situation /\ asking \subseteq Situation
    /\ tasks \subseteq Situation \X Places
    /\ results \in Seq(Situation \X BOOLEAN)
    /\ limiter \in Limiter
    /\ circuitOpen \in BOOLEAN
    /\ lastSent \in 0..SearchCooldown /\ sentHour \in Nat /\ sentDay \in Nat

(* No more requests in an hour and in a day of the limiter than its caps,  *)
(* although slots are reserved in one window and used in the next.         *)
CapsHold == sentHour <= HourlyCap /\ sentDay <= DailyCap

(* Half a minute at least between two requests of one process, however     *)
(* late the tasks run that reserved their slots before.                    *)
Sends == \E s \in Situation : <<s, "asked">> \in tasks' \ tasks

RequestsSpaced == [][Sends => lastSent = SearchCooldown]_searchVars

(* Every search ends, found or not, refused or not, and the situation can  *)
(* be searched again.                                                      *)
SearchesEnd == \A s \in Situation : s \in asking ~> s \notin asking
-----------------------------------------------------------------------------
(* The limiter knows of every request: it has seen a slot taken since, and *)
(* has counted at least as many.                                           *)
LimiterKnows ==
    /\ limiter.since <= lastSent
    /\ sentHour <= limiter.hourly /\ sentDay <= limiter.daily

(* The inductive invariant.                                                *)
IInvSearch == TypeOKSearch /\ LimiterKnows
=============================================================================
