--------------------------- MODULE SourceRegistry ---------------------------
(***************************************************************************)
(* The source registry (sources/src/registry.rs): one task per polled      *)
(* source, two per streaming source, all sending their events on one       *)
(* broadcast channel.  The second task of a stream, its forwarder, listens *)
(* on that channel for the stream's own events and reports it healthy.     *)
(*                                                                         *)
(* Time is left out: a sleeping task wakes at some later moment.  What a   *)
(* poll or a stream answers is data.  An event is known by its sender.     *)
(***************************************************************************)
EXTENDS Naturals, Sequences

CONSTANTS
    Polled, Streamed,    \* identifiers of the registered sources
    Label,               \* source_type of the events each source sends
    PollGivesUp,         \* failures after which a poll task returns: 8
    StreamGivesUp,       \* failures after which a stream task returns: 10
    BusSize,             \* capacity of the broadcast channel: 4096
    MaxStarts            \* bound on the restarts of the server

Source == Polled \cup Streamed

(* The events of no source carry the name of another's stream.             *)
ASSUME RegistryAssumption ==
    /\ Polled \cap Streamed = {}
    /\ DOMAIN Label = Source
    /\ \A s \in Source, f \in Streamed : Label[s] = f => s = f
    /\ PollGivesUp \in Nat \ {0} /\ StreamGivesUp \in Nat \ {0}
    /\ BusSize \in Nat \ {0}
    /\ MaxStarts \in Nat

VARIABLES
    task,       \* where the task of a source is in its loop
    failures,   \* its consecutive_failures
    health,     \* status in source_health
    enabled,    \* source_config.enabled, for polled sources
    inbox,      \* what the forwarder of a stream has not received yet
    hand,       \* what the forwarder does: "free", or "announcing" its first event
    greeted,    \* its first_event_received
    heard,      \* history: the senders that a forwarder took an event of for its own
    promoted,   \* history: the streams reported healthy since the last start
    starts      \* restarts so far

forwarderVars == <<inbox, hand, greeted, heard, promoted>>
registryVars  == <<task, failures, health, enabled, forwarderVars, starts>>

Places   == {"due", "busy", "sleeping", "parked"}
Statuses == {"none", "connecting", "healthy", "rate_limited", "error"}

Start(s) == IF s \in Streamed THEN "due" ELSE "sleeping"

RegistryInit ==
    /\ task = [s \in Source |-> Start(s)]
    /\ failures = [s \in Source |-> 0]
    /\ health = [s \in Source |-> "none"]
    /\ enabled = [s \in Polled |-> TRUE]
    /\ inbox = [f \in Streamed |-> <<>>]
    /\ hand = [f \in Streamed |-> "free"]
    /\ greeted = [f \in Streamed |-> FALSE]
    /\ heard = {} /\ promoted = {}
    /\ starts = 0
-----------------------------------------------------------------------------
(* Sending on the channel: a receiver that lags loses its oldest event.    *)
Received(queue, s) ==
    IF Len(queue) < BusSize THEN Append(queue, s) ELSE Append(Tail(queue), s)

Send(s) == inbox' = [f \in Streamed |-> Received(inbox[f], s)]

Goto(s, place)   == task' = [task EXCEPT ![s] = place]
Report(s, status) == health' = [health EXCEPT ![s] = status]
Count(s, n)      == failures' = [failures EXCEPT ![s] = n]

(* After this many failures in a row a task returns.                       *)
Exhausted(n, limit) == n >= limit

(* A delay ends: the poll interval, a backoff, the pause of a stream.      *)
WakesWhenHealthy(s) ==
    /\ task[s] = "sleeping" /\ failures[s] = 0
    /\ Goto(s, "due")
    /\ UNCHANGED <<failures, health, enabled, forwarderVars, starts>>
Wake(s) ==
    /\ task[s] = "sleeping"
    /\ Goto(s, "due")
    /\ UNCHANGED <<failures, health, enabled, forwarderVars, starts>>

(* A refused credential ends the task until the next start.                *)
Refused(s) ==
    /\ task[s] = "busy"
    /\ Goto(s, "parked")
    /\ Report(s, "error")
    /\ UNCHANGED <<failures, enabled, forwarderVars, starts>>
-----------------------------------------------------------------------------
(* Polled sources.  A disabled source sleeps its interval again.           *)
StartPoll(s) ==
    /\ task[s] = "due"
    /\ Goto(s, IF enabled[s] THEN "busy" ELSE "sleeping")
    /\ UNCHANGED <<failures, health, enabled, forwarderVars, starts>>

(* What is new is sent; nothing may be.                                    *)
PollSucceeds(s, some) ==
    /\ task[s] = "busy"
    /\ Goto(s, "sleeping")
    /\ Count(s, 0)
    /\ Report(s, "healthy")
    /\ IF some THEN Send(s) ELSE UNCHANGED inbox
    /\ UNCHANGED <<enabled, hand, greeted, heard, promoted, starts>>

(* The status is written for the failure itself and, when it is the last   *)
(* one allowed, once more as an error.                                     *)
FirstStatus(status, last) == status
FinalStatus(status, last) == IF last THEN "error" ELSE status

PollFails(s, status) ==
    /\ task[s] = "busy"
    /\ LET last == Exhausted(failures[s] + 1, PollGivesUp)
       IN  /\ Goto(s, IF last THEN "parked" ELSE "sleeping")
           /\ Report(s, FinalStatus(status, last))
    /\ Count(s, failures[s] + 1)
    /\ UNCHANGED <<enabled, forwarderVars, starts>>
-----------------------------------------------------------------------------
(* Streaming sources: the task that runs the stream.                       *)
Connect(s) ==
    /\ task[s] = "due"
    /\ Goto(s, "busy")
    /\ Report(s, "connecting")
    /\ UNCHANGED <<failures, enabled, forwarderVars, starts>>

Emit(s) ==
    /\ task[s] = "busy"
    /\ Send(s)
    /\ UNCHANGED <<task, failures, health, enabled, hand, greeted, heard, promoted, starts>>

StreamEnds(s) ==
    /\ task[s] = "busy"
    /\ Goto(s, "sleeping")
    /\ Count(s, 0)
    /\ UNCHANGED <<health, enabled, forwarderVars, starts>>

StreamFails(s) ==
    /\ task[s] = "busy"
    /\ Goto(s, IF Exhausted(failures[s] + 1, StreamGivesUp) THEN "parked" ELSE "sleeping")
    /\ Count(s, failures[s] + 1)
    /\ Report(s, "error")
    /\ UNCHANGED <<enabled, forwarderVars, starts>>

(* The forwarder keeps what carries its source's name.  The first such     *)
(* event since the start sets its flag, and it then writes the status, for *)
(* which it waits: the stream's own task may report, or return, between    *)
(* the two.                                                                *)
AnyEvent(f, s) == TRUE
Matches(f, s) == Label[s] = f
EveryTime(f) == TRUE
Promotes(f) == ~greeted[f]

Take(f) ==
    /\ hand[f] = "free" /\ inbox[f] # <<>>
    /\ inbox' = [inbox EXCEPT ![f] = Tail(@)]
    /\ IF Matches(f, Head(inbox[f]))
       THEN /\ heard' = heard \cup {Head(inbox[f])}
            /\ greeted' = [greeted EXCEPT ![f] = TRUE]
            /\ hand' = [hand EXCEPT ![f] = IF Promotes(f) THEN "announcing" ELSE "free"]
       ELSE UNCHANGED <<heard, greeted, hand>>
    /\ UNCHANGED <<task, failures, health, enabled, promoted, starts>>

Announce(f) ==
    /\ hand[f] = "announcing"
    /\ hand' = [hand EXCEPT ![f] = "free"]
    /\ Report(f, "healthy")
    /\ promoted' = promoted \cup {f}
    /\ UNCHANGED <<task, failures, enabled, inbox, greeted, heard, starts>>
-----------------------------------------------------------------------------
(* PUT on a source's configuration.                                        *)
Toggle(s) ==
    /\ enabled' = [enabled EXCEPT ![s] = ~@]
    /\ UNCHANGED <<task, failures, health, forwarderVars, starts>>

(* The server stops and starts again: only the database is left.           *)
RestartAll ==
    /\ starts < MaxStarts
    /\ starts' = starts + 1
    /\ task' = [s \in Source |-> Start(s)]
    /\ failures' = [s \in Source |-> 0]
    /\ inbox' = [f \in Streamed |-> <<>>]
    /\ hand' = [f \in Streamed |-> "free"]
    /\ greeted' = [f \in Streamed |-> FALSE]
    /\ promoted' = {}
    /\ UNCHANGED <<health, enabled, heard>>

PollReturns(s) ==
    \/ \E some \in BOOLEAN : PollSucceeds(s, some)
    \/ \E status \in {"rate_limited", "error"} : PollFails(s, status)
    \/ Refused(s)

RegistryNext ==
    \/ \E s \in Source : Wake(s)
    \/ \E s \in Polled : StartPoll(s) \/ PollReturns(s) \/ Toggle(s)
    \/ \E s \in Streamed :
          Connect(s) \/ Emit(s) \/ StreamEnds(s) \/ StreamFails(s) \/ Refused(s)
    \/ \E f \in Streamed : Take(f) \/ Announce(f)
    \/ RestartAll

(* Timers fire, a task that can run does, and the HTTP client of a poll    *)
(* has a timeout of 30 seconds.  A stream may stay open for ever.          *)
RegistryFairness ==
    /\ \A s \in Source : WF_registryVars(Wake(s))
    /\ \A s \in Polled : WF_registryVars(StartPoll(s)) /\ WF_registryVars(PollReturns(s))
    /\ \A s \in Streamed : WF_registryVars(Connect(s))
    /\ \A f \in Streamed : WF_registryVars(Take(f)) /\ WF_registryVars(Announce(f))

RegistrySpec == RegistryInit /\ [][RegistryNext]_registryVars /\ RegistryFairness
=============================================================================
