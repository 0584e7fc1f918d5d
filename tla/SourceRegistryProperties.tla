---------------------- MODULE SourceRegistryProperties ----------------------
(***************************************************************************)
(* What the reported health of a source says about its tasks, and what its *)
(* tasks keep doing.                                                       *)
(***************************************************************************)
EXTENDS SourceRegistry

(* Types; a task that still runs has failures to spare, and no receiver is *)
(* further behind than the channel holds.                                  *)
RegistryTypes ==
    /\ task \in [Source -> Places]
    /\ failures \in [Source -> Nat]
    /\ \A s \in Polled : task[s] # "parked" => failures[s] < PollGivesUp
    /\ \A s \in Streamed : task[s] # "parked" => failures[s] < StreamGivesUp
    /\ health \in [Source -> Statuses]
    /\ enabled \in [Polled -> BOOLEAN]
    /\ inbox \in [Streamed -> Seq(Source)]
    /\ \A f \in Streamed : Len(inbox[f]) <= BusSize
    /\ hand \in [Streamed -> {"free", "announcing"}]
    /\ greeted \in [Streamed -> BOOLEAN]
    /\ heard \subseteq Source /\ promoted \subseteq Streamed
    /\ starts \in 0..MaxStarts

(* A polled source whose task has returned is reported down, whatever kind *)
(* of failure was the last one: also a source that was only rate limited.  *)
ParkedPollerIsDown ==
    \A s \in Polled : task[s] = "parked" => health[s] = "error"

(* A stream is reported healthy on account of its own events only: other   *)
(* sources' events pass through every forwarder as well.                   *)
HealthyByOwnEvents ==
    \A f \in Streamed : health[f] = "healthy" => f \in heard

(* The status of a source tells of its own tasks and of its own data.      *)
StatusHonest == ParkedPollerIsDown /\ HealthyByOwnEvents

(* From one start to the next a stream turns healthy once at most.  Its    *)
(* two tasks write its status in any order, so this one time it may be     *)
(* down already; but after it no event left on the channel, and no event   *)
(* of a connection made anew, brings the status back: a stream that gives  *)
(* up later stays reported down, and one that reconnects stays             *)
(* "connecting" while its data flows.                                      *)
HealthyOnce ==
    [][ \A f \in promoted : health'[f] = "healthy" => health[f] = "healthy" ]_registryVars

(* No failure short of giving up, no switching off and on and no restart   *)
(* leaves a source's task asleep for good: again and again it is polled or *)
(* streaming, has given up, or is switched off.                            *)
KeepsGoing ==
    \A s \in Source :
        []<>( \/ task[s] \in {"busy", "parked"}
              \/ s \in Polled /\ ~enabled[s] )
=============================================================================
