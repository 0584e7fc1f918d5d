--------------------------- MODULE SourceStreams ---------------------------
(***************************************************************************)
(* The streaming source adapters (sources/src): how a stream connects and  *)
(* reconnects, where it resumes, and which messages it puts on the bus.    *)
(* Three kinds of them: those that hear what is sent while they are        *)
(* connected (ais, bgp, certstream, shodan); bluesky, which resumes after  *)
(* the last message it read; telegram, which in fact polls, and remembers  *)
(* the newest message of a channel.                                        *)
(*                                                                         *)
(* The streams share no state, so a behaviour follows one of them, and in  *)
(* it one channel or account.  A message is a number, given out in the     *)
(* order of publication; its text and the filters that never take a        *)
(* message are left out, and so is how long a reconnection waits.  The     *)
(* registry starts a stream that has returned again, or gives up on it     *)
(* (SourceRegistry).                                                       *)
(*                                                                         *)
(* Before some definitions stands a variant of theirs with a plausible     *)
(* slip, which the specification does not use.                             *)
(***************************************************************************)
EXTENDS Naturals, Sequences, FiniteSets, SequencesExt

CONSTANTS
    Messages,     \* bound: messages ever published
    Limit,        \* messages telegram reads in a poll: 50
    DeadAfter,    \* failing polls in a row before telegram reconnects: 3
    MaxTroubles,  \* bound on connections lost and polls failed
    MaxRestarts   \* bound on the restarts of the server

StreamsAssumption ==
    /\ {Messages, Limit, DeadAfter} \subseteq Nat \ {0}
    /\ {MaxTroubles, MaxRestarts} \subseteq Nat

VARIABLES
    stream,    \* how it goes, see below
    sent,      \* the messages 1 .. sent have been published
    link,      \* see below
    wire,      \* what the connection brings and the stream has not read
    cursor,    \* the newest message it knows of; 0 is none
    known,     \* the subjects reported lately on this connection
    due,       \* the timer of the next poll has ticked
    errors,    \* polls that failed in a row
    bus,       \* what this step broadcasts
    given,     \* history: messages broadcast since the start
    outage,    \* history: messages sent or not yet read without a connection
    cut,       \* history: messages a poll did not reach
    troubles, restarts

vars == <<stream, sent, link, wire, cursor, known, due, errors, bus, given, outage,
          cut, troubles, restarts>>

(* down     about to connect                                               *)
(* joining  telegram: connected, before the backfill                       *)
(* seeding  telegram: before the newest message is looked up               *)
(* up       reading                                                        *)
(* dead     telegram: no request is answered any more                      *)
(* mute     nothing comes any more, and the connection does not break      *)
(* deaf     the channel is not among those asked for                       *)
(* over     the registry has given up                                      *)

(*   resumes  "live", "cursor" or "polls", as above                        *)
(*   retries  it reconnects by itself, and never returns                   *)
(*   barred   a refusal ends it for good                                   *)
(*   pings    it writes to the connection, and so notices that it is dead  *)
(*   merges   it reports a subject once in five minutes                    *)
(*   picks    it asks for channels or accounts by name, and goes on        *)
(*            without those it could not find                              *)
(*   signs    its events name it as their source (registry.rs "persist     *)
(*            matching events"); those of shodan name only "shodan"        *)
Live       == [resumes |-> "live", retries |-> TRUE, barred |-> FALSE,
               pings |-> FALSE, merges |-> FALSE, picks |-> FALSE, signs |-> TRUE]
Ais        == [Live EXCEPT !.barred = TRUE, !.pings = TRUE]
CertStream == Live
Shodan     == [Live EXCEPT !.signs = FALSE]
Bgp        == [Live EXCEPT !.retries = FALSE, !.merges = TRUE]
Bluesky    == [Live EXCEPT !.resumes = "cursor", !.picks = TRUE]
Telegram   == [Live EXCEPT !.resumes = "polls", !.barred = TRUE, !.picks = TRUE]

Followed == {Ais, CertStream, Shodan, Bgp, Bluesky, Telegram}

Published == 1 .. sent
Subject(i) == i % 2
Newest(S) == CHOOSE i \in S : \A j \in S : i >= j

(* A stream that picks accounts once, at its start, stays with them.       *)
Listening == IF stream.picks /\ stream.resumes = "cursor" THEN {"down", "deaf"} ELSE {"down"}

Init ==
    /\ stream \in Followed
    /\ sent = 0
    /\ link \in Listening
    /\ wire = <<>> /\ cursor = 0 /\ known = {} /\ due = FALSE /\ errors = 0
    /\ bus = {} /\ given = {} /\ outage = {} /\ cut = {}
    /\ troubles = 0 /\ restarts = 0

Broadcast(S) ==
    /\ bus' = S
    /\ given' = given \cup S

-----------------------------------------------------------------------------
Publish ==
    /\ sent < Messages
    /\ sent' = sent + 1
    /\ wire' = IF link = "up" /\ stream.resumes # "polls" THEN Append(wire, sent') ELSE wire
    /\ outage' = IF link \in {"up", "dead"} THEN outage ELSE outage \cup {sent'}
    /\ bus' = {}
    /\ UNCHANGED <<stream, link, cursor, known, due, errors, given, cut, troubles,
                   restarts>>

-----------------------------------------------------------------------------
(* What a new connection brings of what was sent before it.  Whether the   *)
(* service repeats the message of the cursor itself is left open.          *)
ResumedLive(from) == {<<>>}
Resumed(from) ==
    IF stream.resumes = "cursor" /\ from # 0
    THEN {[k \in 1 .. sent - c |-> c + k] : c \in {from - 1, from}}
    ELSE {<<>>}

Connect ==
    /\ link = "down"
    /\ link' = IF stream.resumes = "polls" THEN "joining" ELSE "up"
    /\ wire' \in Resumed(cursor)
    /\ cursor' = IF stream.resumes = "polls" THEN 0 ELSE cursor
    /\ known' = {} /\ errors' = 0 /\ due' = FALSE /\ bus' = {}
    /\ UNCHANGED <<stream, sent, given, outage, cut, troubles, restarts>>

(* The channel could not be resolved; if none was, the stream returns.     *)
Unresolved ==
    /\ link = "joining"
    /\ link' \in {"deaf", "down"}
    /\ bus' = {}
    /\ UNCHANGED <<stream, sent, wire, cursor, known, due, errors, given, outage,
                   cut, troubles, restarts>>

(* The connection is lost, and with it what was not read.  A stream that   *)
(* does not reconnect by itself fails, and at last the registry gives up.  *)
(* One that only listens may not notice.                                   *)
Lapse(places) ==
    /\ link' \in places
    /\ wire' = <<>> /\ due' = FALSE /\ bus' = {}
    /\ outage' = outage \cup Range(wire) \cup
                   IF stream.resumes = "polls" THEN {i \in Published : i > cursor} ELSE {}

Disconnect ==
    /\ link = "up" /\ stream.resumes # "polls" /\ troubles < MaxTroubles
    /\ troubles' = troubles + 1
    /\ \/ Lapse(IF stream.retries THEN {"down"} ELSE {"down", "over"})
       \/ ~stream.pings /\ Lapse({"mute"})
    /\ UNCHANGED <<stream, sent, cursor, known, errors, given, cut, restarts>>

(* The connection breaks at last.                                          *)
Noticed ==
    /\ link = "mute"
    /\ Lapse({"down"})
    /\ UNCHANGED <<stream, sent, cursor, known, errors, given, cut, troubles,
                   restarts>>

(* An authentication error.  ais.rs is disabled; telegram.rs returns       *)
(* without one or fails, and is started again until the registry gives up. *)
Bar ==
    /\ stream.barred /\ link \in {"up", "joining"}
    /\ stream.resumes = "polls" <=> link = "joining"
    /\ Lapse(IF stream.resumes = "polls" THEN {"down", "over"} ELSE {"over"})
    /\ UNCHANGED <<stream, sent, cursor, known, errors, given, cut, troubles,
                   restarts>>

-----------------------------------------------------------------------------
(* The next message of the connection.  bgp.rs keeps quiet about a         *)
(* withdrawal it reported in the last five minutes.                        *)
Heard(i) == IF stream.merges /\ Subject(i) \in known THEN {} ELSE {i}

Read ==
    /\ link = "up" /\ wire # <<>>
    /\ LET i == Head(wire) IN
          /\ Broadcast(Heard(i))
          /\ known' = IF stream.merges THEN known \cup {Subject(i)} ELSE known
          /\ cursor' = IF stream.resumes = "cursor" THEN i ELSE cursor
    /\ wire' = Tail(wire)
    /\ UNCHANGED <<stream, sent, link, due, errors, outage, cut, troubles, restarts>>

(* Five minutes have passed.                                               *)
Expire(s) ==
    /\ s \in known
    /\ known' = known \ {s} /\ bus' = {}
    /\ UNCHANGED <<stream, sent, link, wire, cursor, due, errors, given, outage, cut,
                   troubles, restarts>>

-----------------------------------------------------------------------------
(* Telegram.  With no row of its in the last twelve hours it sends the     *)
(* last 200 messages of those hours again, from the newest on, as far as   *)
(* the requests are answered; otherwise none (n = 0).  How old rows and    *)
(* messages are is left open.                                              *)
Backfill ==
    /\ link = "joining"
    /\ link' = "seeding"
    /\ \E n \in 0 .. sent : Broadcast({i \in Published : i > sent - n})
    /\ UNCHANGED <<stream, sent, wire, cursor, known, due, errors, outage, cut, troubles,
                   restarts>>

(* The newest message is looked up, and counts as sent before.  If that    *)
(* fails, the channel is read from its beginning.                          *)
Seed ==
    /\ link = "seeding"
    /\ link' = "up"
    /\ \/ cursor' = sent /\ UNCHANGED troubles
       \/ troubles < MaxTroubles /\ cursor' = 0 /\ troubles' = troubles + 1
    /\ bus' = {}
    /\ UNCHANGED <<stream, sent, wire, known, due, errors, given, outage, cut, restarts>>

Tick ==
    /\ link \in {"up", "dead"} /\ stream.resumes = "polls" /\ ~due
    /\ due' = TRUE /\ bus' = {}
    /\ UNCHANGED <<stream, sent, link, wire, cursor, known, errors, given, outage,
                   cut, troubles, restarts>>

(* Some of the newest messages are read, from the newest on, which then is *)
(* the newest one known.  What lies between it and the one known before    *)
(* will not be asked for again.                                            *)
Unmarked(c, read) == c
Marked(c, read) == IF read = {} THEN c ELSE Newest(read)

Page == {i \in Published : i > cursor /\ i + Limit > sent}

Collect(read) ==
    /\ Broadcast(read)
    /\ cursor' = Marked(cursor, read)
    /\ cut' = cut \cup {i \in Published \ read : cursor < i /\ i < cursor'}

Poll ==
    /\ due /\ link = "up"
    /\ due' = FALSE /\ errors' = 0
    /\ Collect(Page)
    /\ UNCHANGED <<stream, sent, link, wire, known, outage, troubles, restarts>>

(* A request fails, before or among the messages.  After some polls in     *)
(* which that happened to every channel telegram reconnects, and the new   *)
(* connection starts from what is newest then.                             *)
Uncounted == 0
Counted == errors + 1

Reconnect ==
    IF errors' >= DeadAfter
    THEN link' = "down" /\ outage' = outage \cup {i \in Published : i > cursor'}
    ELSE UNCHANGED <<link, outage>>

FailedPoll ==
    /\ due /\ due' = FALSE
    /\ \/ /\ link = "up" /\ troubles < MaxTroubles
          /\ troubles' = troubles + 1
          /\ \E n \in 0 .. Cardinality(Page) : Collect({i \in Page : i > sent - n})
          /\ errors' \in {0, Counted}
       \/ /\ link = "dead"
          /\ Collect({})
          /\ errors' = Counted
          /\ UNCHANGED troubles
    /\ Reconnect
    /\ UNCHANGED <<stream, sent, wire, known, restarts>>

Die ==
    /\ link = "up" /\ stream.resumes = "polls" /\ troubles < MaxTroubles
    /\ link' = "dead" /\ troubles' = troubles + 1 /\ bus' = {}
    /\ UNCHANGED <<stream, sent, wire, cursor, known, due, errors, given, outage,
                   cut, restarts>>

(* The other channels failed often enough for a reconnection.              *)
Regain ==
    /\ link = "deaf" /\ stream.resumes = "polls"
    /\ link' = "down" /\ bus' = {}
    /\ UNCHANGED <<stream, sent, wire, cursor, known, due, errors, given, outage,
                   cut, troubles, restarts>>

-----------------------------------------------------------------------------
Restart ==
    /\ restarts < MaxRestarts
    /\ restarts' = restarts + 1
    /\ link' \in Listening
    /\ wire' = <<>> /\ cursor' = 0 /\ known' = {} /\ due' = FALSE /\ errors' = 0
    /\ bus' = {} /\ given' = {} /\ outage' = Published /\ cut' = {}
    /\ UNCHANGED <<stream, sent, troubles>>

Next ==
    \/ Publish
    \/ Connect \/ Unresolved \/ Disconnect \/ Noticed \/ Bar
    \/ Read \/ (\E s \in {0, 1} : Expire(s))
    \/ Backfill \/ Seed \/ Tick \/ Poll \/ FailedPoll \/ Die \/ Regain
    \/ Restart

(* Connections succeed in the end, what they bring is read, and the timer  *)
(* of telegram ticks; a request ends, for its library times out.           *)
Reconnects == []<>(link # "down")
Joins      == []<>(link \notin {"joining", "seeding"})
ReadsOn    == []<>(wire = <<>>)
Ticks      == []<>(due \/ link \notin {"up", "dead"} \/ stream.resumes # "polls")
PollsEnd   == []<>(~due)

Spec == Init /\ [][Next]_vars /\ Reconnects /\ Joins /\ ReadsOn /\ Ticks /\ PollsEnd
-----------------------------------------------------------------------------
(* The stream may still broadcast the message.                             *)
Coming(i) ==
    CASE stream.resumes = "live"   -> i \in Range(wire)
      [] stream.resumes = "cursor" -> IF link = "up" THEN i \in Range(wire)
                                      ELSE link = "down" /\ cursor # 0 /\ i > cursor
      [] stream.resumes = "polls"  -> link \in {"up", "dead"} /\ i > cursor

(* Why a message was not broadcast.  What bluesky has not read before it   *)
(* read anything at all is lost with the connection, later nothing is.     *)
(* Telegram loses what it has not read when it connects again, and what    *)
(* lies behind the newest message of a poll that was cut short.            *)
Lost(i) ==
    CASE stream.resumes = "live"   -> i \in outage \/ \E j \in given : /\ stream.merges
                                                                      /\ j < i
                                                                      /\ Subject(j) = Subject(i)
      [] stream.resumes = "cursor" -> i \in outage /\ \A j \in given : j > i
      [] stream.resumes = "polls"  -> i \in outage \cup cut

(* No message is passed over in silence for another reason than those,     *)
(* whatever connections are lost and polls fail before and after it        *)
(* (bluesky.rs "Track cursor for reconnection", telegram.rs "We've reached *)
(* messages we already processed").                                        *)
SilentOnlyBy ==
    link \notin {"deaf", "mute"} => \A i \in Published \ given : Coming(i) \/ Lost(i)

(* A message is broadcast again only by a backfill, by a poll of a channel *)
(* whose newest message could not be looked up (telegram.rs "seed          *)
(* last_seen_id from what we already sent ... so we don't duplicate"), or  *)
(* because the service repeats the message of the cursor.                  *)
AgainOnlyBy ==
    [][\A i \in bus' \cap given :
          \/ link = "joining"
          \/ stream.resumes = "polls" /\ cursor = 0
          \/ stream.resumes = "cursor" /\ i = cursor]_vars

(* A message is broadcast in the end, or lost for one of those reasons,    *)
(* unless the stream does not ask for its channel, hangs on a connection    *)
(* that is dead, or is given up.                                           *)
HeardInTheEnd ==
    \A i \in 1 .. Messages :
        i \in Published ~> i \in given \/ Lost(i) \/ link \in {"deaf", "mute", "over"}
=============================================================================
