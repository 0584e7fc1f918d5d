------------------------------ MODULE Sources ------------------------------
(***************************************************************************)
(* The adapters over the table of events (EventRows).  What a poll         *)
(* (SourceFeeds) collects is written and broadcast at its end.  What a     *)
(* stream (SourceStreams) broadcasts waits in the channel until the        *)
(* forwarder of the stream takes it out and writes it; the forwarder       *)
(* passes over what does not name its stream, what the channel drops when  *)
(* it is full, and what a restart finds waiting.  A behaviour follows one  *)
(* adapter of either kind; the other kind sleeps.  A restart empties the   *)
(* memory of the adapter and leaves the table.                             *)
(***************************************************************************)
EXTENDS SourceFeeds, EventRows

CONSTANTS
    Streaming,      \* the streams, with how they name their events
    StreamTroubles, Messages, Limit, DeadAfter   \* see SourceStreams

VARIABLES
    kind,          \* "polled" or "stream"
    stream, sent, link, wire, cursor, known, due, errors, bus, outage, cut,  \* see SourceStreams
    waiting,       \* how often a message waits in the channel for the forwarder
    missed         \* history: messages that left the channel before it took them

Streams == INSTANCE SourceStreams WITH MaxTroubles <- StreamTroubles

(* Only the events of a source that names them all alike have but a day.   *)
ASSUME SourcesAssumption ==
    /\ Streams!StreamsAssumption
    /\ MaxItems \in Nat /\ MaxItems >= Messages /\ \A c \in Cases : MaxItems >= c[2]
    /\ \A name \in {c[3] : c \in Cases} \cup {c[2] : c \in Streaming} :
          name.time = "day" => name.id = "source"

streamVars == <<stream, sent, link, wire, cursor, known, due, errors, bus, outage, cut>>
feedVars == <<adapter, items, upstream, memory, turn, resting, phase, asking, found,
              recent, spilled, aborted>>
channelVars == <<waiting, missed>>
allVars == <<kind, vars, streamVars, rowVars, channelVars>>

-----------------------------------------------------------------------------
FeedsSleep ==
    /\ adapter = Plain /\ items = 0 /\ upstream = <<>>
    /\ memory = Unread /\ turn = 0 /\ resting = FALSE
    /\ phase = "off" /\ asking = <<>> /\ found = {}
    /\ recent = <<>> /\ spilled = {} /\ aborted = {}

StreamsSleep ==
    /\ stream = Streams!Live /\ sent = 0 /\ link = "over"
    /\ wire = <<>> /\ cursor = 0 /\ known = {} /\ due = FALSE /\ errors = 0
    /\ bus = {} /\ outage = {} /\ cut = {}

SourcesInit ==
    /\ \/ /\ kind = "polled" /\ Init /\ StreamsSleep
          /\ \E c \in Cases : c[1] = adapter /\ c[2] = items /\ naming = c[3]
       \/ /\ kind = "stream" /\ Streams!Init /\ FeedsSleep
          /\ \E c \in Streaming : c[1] = stream /\ naming = c[2]
    /\ rows = [i \in 1 .. MaxItems |-> 0]
    /\ written = {} /\ unwritten = {} /\ hidden = {}
    /\ waiting = [i \in 1 .. MaxItems |-> 0] /\ missed = {}

(* A polled adapter hands over what a poll has collected.                  *)
PolledStep ==
    /\ kind = "polled"
    /\ \/ Quiet /\ UNCHANGED rowVars
       \/ EndPoll /\ Persist(found)
    /\ UNCHANGED <<kind, streamVars, channelVars>>

StreamStep ==
    /\ kind = "stream"
    /\ Streams!Next
    /\ written' = written \cup bus'
    /\ IF restarts' = restarts
       THEN /\ waiting' = [i \in DOMAIN waiting |-> waiting[i] + IF i \in bus' THEN 1 ELSE 0]
            /\ UNCHANGED missed
       ELSE /\ waiting' = [i \in DOMAIN waiting |-> 0]
            /\ missed' = missed \cup {i \in DOMAIN waiting : waiting[i] > 0}
    /\ UNCHANGED <<kind, feedVars, naming, rows, unwritten, hidden>>

(* Events of a stream are rows of their own, or the same row whenever they *)
(* are written: in which order they are taken makes no difference.         *)
TakeOut(i) ==
    /\ waiting[i] > 0
    /\ waiting' = [waiting EXCEPT ![i] = @ - 1]
    /\ UNCHANGED <<kind, vars, streamVars>>

Forward(i) ==
    /\ TakeOut(i)
    /\ IF stream.signs THEN Persist({i}) ELSE UNCHANGED rowVars
    /\ UNCHANGED missed

(* The forwarder lags 4096 events behind.                                  *)
Lag(i) ==
    /\ i \in Unlucky
    /\ TakeOut(i)
    /\ missed' = missed \cup {i}
    /\ UNCHANGED rowVars

ForwarderStep == kind = "stream" /\ \E i \in DOMAIN waiting : Forward(i) \/ Lag(i)

SourcesNext == PolledStep \/ StreamStep \/ ForwarderStep

Fairness ==
    /\ PollsBegin /\ PollsEnd /\ TimePasses
    /\ Streams!Reconnects /\ Streams!Joins /\ Streams!ReadsOn /\ Streams!Ticks
    /\ Streams!PollsEnd

SourcesSpec == SourcesInit /\ [][SourcesNext]_allVars /\ Fairness
=============================================================================
