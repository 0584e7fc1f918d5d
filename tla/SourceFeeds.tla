---------------------------- MODULE SourceFeeds ----------------------------
(***************************************************************************)
(* The polled source adapters (sources/src): what an adapter asks in a     *)
(* poll, what it remembers from one poll to the next so as to report an    *)
(* item once, and what a refused or failed request does to the rest of the *)
(* poll.  The registry, which schedules the polls, broadcasts every item a *)
(* poll returns.                                                           *)
(*                                                                         *)
(* The adapters share no state, so a behaviour follows one of them: the    *)
(* record `adapter` says how its poll goes.  An item upstream is a number, *)
(* a later item having a later date; what it says is left out, and so are  *)
(* the filters that never take an item (relevance, confidence, age) and    *)
(* the polls an adapter skips because no key is configured.  An adapter    *)
(* asks about parts of upstream: regions, feeds, queries, pages.           *)
(*                                                                         *)
(* Before some definitions stands a variant of theirs with a plausible     *)
(* slip, which the specification does not use.                             *)
(***************************************************************************)
EXTENDS Naturals, Sequences, FiniteSets, SequencesExt

CONSTANTS
    Cases,          \* bound: the adapters followed, each with the number of items
    Bound,          \* items an adapter remembers before it forgets: 5,000 to 50,000
    PageSize,       \* records in one answer of the maritime incident service
    MaxTroubles,    \* bound on the requests refused or failed
    MaxRestarts     \* bound on the restarts of the server


VARIABLES
    adapter,    \* how its poll goes, see below
    items,      \* how many items upstream ever has
    upstream,   \* what has become of each item there
    memory,     \* what the adapter remembers; gone at a restart
    turn,       \* the next of the rotating parts
    resting,    \* it does not ask before some time has passed
    phase,      \* "idle", "polling", or "off" once the registry gave up
    asking,     \* the parts still to be asked in this poll
    found,      \* the items this poll has collected
    given,      \* history: items broadcast since the start
    recent,     \* history: the last items remembered, as many as a generation holds
    spilled,    \* history: items a set forgot when it was emptied
    aborted,    \* history: items an aborted poll had collected
    troubles,   \* requests refused or failed
    restarts

vars == <<adapter, items, upstream, memory, turn, resting, phase, asking, found,
          given, recent, spilled, aborted, troubles, restarts>>

-----------------------------------------------------------------------------
(* How the poll of an adapter goes:                                        *)
(*   parts    how many parts upstream has                                  *)
(*   first, rota, each, last                                               *)
(*            it asks the parts of first, the next `each` of rota, then    *)
(*            those of last                                                *)
(*   stops    it stops at a part with news, and never asks a part again    *)
(*            that had anything                                            *)
(*   keeps    "nothing"; "set", the items seen; "generations", two sets;   *)
(*            "mark", the date of the newest item                          *)
(*   spill    when a set above the bound is emptied: after a "poll", on    *)
(*            an "item", or "never"                                        *)
(*   refused  what HTTP 429 does: "abort" the poll with an error, "skip"   *)
(*            the part, "end" the poll, "rest" until the service allows it *)
(*   failed   what other failures may do: "abort", "skip", "end"           *)
(*   bare     an item without coordinates is "kept", "skipped", or         *)
(*            "swallowed": remembered and then skipped                     *)
(* The numbers of parts are the least that tell the cases apart.           *)
Plain == [parts |-> 1, first |-> <<1>>, rota |-> <<1>>, each |-> 0, last |-> <<>>,
          stops |-> FALSE, keeps |-> "nothing", spill |-> "poll",
          refused |-> "abort", failed |-> {"abort"}, bare |-> "kept"]
InTurn(n, k) == [Plain EXCEPT !.parts = n, !.first = <<>>, !.each = k,
                              !.rota = [m \in 1 .. n |-> m]]
AllOf(n) == [Plain EXCEPT !.parts = n, !.first = [m \in 1 .. n |-> m]]

Usgs          == [Plain EXCEPT !.keeps = "set", !.bare = "skipped"]
Gdacs         == [Plain EXCEPT !.keeps = "set", !.bare = "swallowed"]
Copernicus    == [Plain EXCEPT !.keeps = "set", !.bare = "swallowed"]
UkmtoWarnings == [Plain EXCEPT !.keeps = "set"]
Notam         == [Plain EXCEPT !.keeps = "set", !.spill = "never",
                               !.refused = "end", !.failed = {"end"}]
Nuclear       == [AllOf(2) EXCEPT !.keeps = "set", !.failed = {"abort", "skip"}]
Firms         == [InTurn(2, 1) EXCEPT !.keeps = "set", !.spill = "item"]
ImbPiracy     == [AllOf(2) EXCEPT !.stops = TRUE, !.keeps = "set", !.refused = "skip",
                                  !.failed = {"skip"}, !.bare = "swallowed"]
RssNews       == [InTurn(3, 2) EXCEPT !.keeps = "generations", !.refused = "skip",
                                      !.failed = {"skip"}]
Gdelt         == [InTurn(2, 1) EXCEPT !.keeps = "mark", !.failed = {"abort", "end"}]
(* It asks for what is newer than its mark.  The references it has seen    *)
(* besides matter only if the date of an incident is changed, which is     *)
(* left out.                                                               *)
Ukmto         == [Plain EXCEPT !.keeps = "mark"]
GeoConfirmed  == [AllOf(2) EXCEPT !.failed = {"abort", "skip"}]
Acled         == AllOf(2)     \* two pages
ShodanSearch    == AllOf(2)
(* Its queries in order of priority; it manages alerts afterwards, which   *)
(* report through a stream.                                                *)
ShodanDiscovery == [AllOf(2) EXCEPT !.failed = {"abort", "skip"}]
Ioda          == [InTurn(2, 1) EXCEPT !.failed = {"abort", "end"}]
Ooni          == [InTurn(2, 1) EXCEPT !.failed = {"abort", "end"}]
GdeltGeo      == [InTurn(2, 1) EXCEPT !.failed = {"abort", "end"}, !.bare = "skipped"]
OpenSky       == [InTurn(2, 1) EXCEPT !.bare = "skipped"]
Cloudflare    == [InTurn(4, 2) EXCEPT !.refused = "skip", !.failed = {"skip"}]
CloudflareBgp == Plain
GpsJam        == [Plain EXCEPT !.failed = {"end"}]
Otx           == [Plain EXCEPT !.parts = 3, !.rota = <<2, 3>>, !.each = 1,
                               !.refused = "skip", !.failed = {"skip"}]
Adsb          == [Plain EXCEPT !.parts = 4, !.rota = <<2, 3>>, !.each = 1, !.last = <<4>>,
                               !.refused = "rest", !.failed = {"abort", "skip"},
                               !.bare = "skipped"]
(* Two data sets and two areas: a part is a pair of them, and both indexes *)
(* advance by one in every poll.                                           *)
Gfw == [Plain EXCEPT !.parts = 4, !.first = <<>>, !.each = 1,
                     !.rota = [m \in 1 .. 2 |-> LET dataset == m - 1
                                                    area    == m - 1
                                                IN  1 + 2 * dataset + area],
                     !.failed = {"abort", "end"}, !.bare = "skipped"]

Adapters == {Usgs, Gdacs, Copernicus, UkmtoWarnings, Notam, Nuclear, Firms, ImbPiracy, RssNews,
             Gdelt, Ukmto, GeoConfirmed, Acled, ShodanSearch, ShodanDiscovery, Ioda, Ooni,
             GdeltGeo, OpenSky, Cloudflare, CloudflareBgp, GpsJam, Otx, Adsb, Gfw}

ASSUME FeedsAssumption ==
    /\ {Bound, PageSize} \subseteq Nat \ {0} /\ {MaxTroubles, MaxRestarts} \subseteq Nat
    /\ \A c \in Cases : c[1] \in Adapters /\ c[2] \in Nat

-----------------------------------------------------------------------------
Item == 1 .. items
Home(i) == 1 + ((i - 1) % adapter.parts)
Listed == {i \in Item : upstream[i] \in {"listed", "bare", "mended"}}

Unread == [seen |-> {}, older |-> {}, mark |-> 0, done |-> {}]

(* The poll will not report the item, whatever upstream answers.           *)
Ignored(i) ==
    \/ i \in memory.seen \cup memory.older
    \/ i <= memory.mark
    \/ Home(i) \in memory.done

Init ==
    /\ \E c \in Cases : adapter = c[1] /\ items = c[2]
    /\ upstream = [i \in Item |-> "unlisted"]
    /\ memory = Unread /\ turn = 0 /\ resting = FALSE
    /\ phase = "idle" /\ asking = <<>> /\ found = {}
    /\ given = {} /\ recent = <<>> /\ spilled = {} /\ aborted = {}
    /\ troubles = 0 /\ restarts = 0

-----------------------------------------------------------------------------
(* Upstream lists an item, adds its coordinates, drops it.                 *)
Becomes(i, s) ==
    /\ upstream' = [upstream EXCEPT ![i] = s]
    /\ UNCHANGED <<adapter, items, memory, turn, resting, phase, asking, found, given,
                   recent, spilled, aborted, troubles, restarts>>

Publish(i) ==
    /\ upstream[i] = "unlisted"
    /\ \E s \in {"listed"} \cup IF adapter.bare = "kept" THEN {} ELSE {"bare"} : Becomes(i, s)
Mend(i) == upstream[i] = "bare" /\ Becomes(i, "mended")
Withdraw(i) == i \in Listed /\ Becomes(i, "gone")

-----------------------------------------------------------------------------
TurnedBack(t) == t % Len(adapter.rota)
Turned(t) == (t + adapter.each) % Len(adapter.rota)

BeginPoll ==
    /\ phase = "idle" /\ ~resting
    /\ phase' = "polling"
    /\ asking' = (IF adapter.stops THEN SelectSeq(adapter.first, LAMBDA p : p \notin memory.done)
                                   ELSE adapter.first)
                   \o [k \in 1 .. adapter.each |->
                          adapter.rota[1 + ((turn + k - 1) % Len(adapter.rota))]]
                   \o adapter.last
    /\ turn' = IF adapter = Adsb THEN turn ELSE Turned(turn)
    /\ resting' = (adapter = Notam)
    /\ found' = {}
    /\ UNCHANGED <<adapter, items, upstream, memory, given, recent, spilled, aborted,
                   troubles, restarts>>

(* What a set of the adapter holds once it has seen i.                     *)
RememberedOne(m, i) ==
    LET seen == m.seen \cup {i} IN
    IF Cardinality(seen) > Bound /\ adapter.keeps = "generations"
    THEN [m EXCEPT !.seen = {i}, !.older = {}]
    ELSE [m EXCEPT !.seen = seen]
Remembered(m, i) ==
    LET seen == m.seen \cup {i}
        full == Cardinality(seen) > Bound
    IN  IF full /\ adapter.keeps = "generations"
        THEN [m EXCEPT !.seen = {i}, !.older = seen]
        ELSE IF full /\ adapter.spill = "item" THEN [m EXCEPT !.seen = {}]
             ELSE [m EXCEPT !.seen = seen]

(* The items of the answer about p: of ukmto.rs, which has a mark, the     *)
(* newest page after it.                                                   *)
Answered(p) ==
    LET here  == {i \in Listed : Home(i) = p}
        after == {i \in here : i > memory.mark}
    IN  IF adapter = Ukmto
        THEN {i \in after : Cardinality({j \in after : j > i}) < PageSize}
        ELSE here

(* One item of an answer: r is what is remembered and what is collected,   *)
(* `mark` the mark before the answer.                                      *)
Read(r, i, mark) ==
    LET located == upstream[i] # "bare"
        skipped == ~located /\ adapter.bare = "skipped"
        seen    == i \in r.memory.seen \cup r.memory.older
        get     == IF located THEN r.found \cup {i} ELSE r.found
    IN  CASE skipped -> r
          [] ~skipped /\ adapter.keeps = "nothing" -> [r EXCEPT !.found = get]
          [] ~skipped /\ adapter.keeps = "mark" ->
                IF i <= mark THEN r
                ELSE [r EXCEPT !.found = get,
                               !.memory.mark = IF i > @ THEN i ELSE @]
          [] OTHER ->
                IF seen THEN r
                ELSE [memory |-> Remembered(r.memory, i), found |-> get,
                      spilled |-> IF adapter.spill = "item"
                                  THEN (r.spilled \cup r.memory.seen \cup {i})
                                          \ Remembered(r.memory, i).seen
                                  ELSE r.spilled \ {i},
                      recent |-> IF adapter.keeps = "generations"
                                 THEN LET all == Append(r.recent, i)
                                          n   == Len(all)
                                      IN  SubSeq(all, IF n > Bound + 1 THEN n - Bound ELSE 1, n)
                                 ELSE r.recent]

(* What has become of them after the first n items, read in their order;   *)
(* with a mark the order makes no difference.                              *)
Reading(p) ==
    LET mark == memory.mark
        r[n \in 0 .. items] ==
            IF n = 0 THEN [memory |-> memory, found |-> found,
                           spilled |-> spilled, recent |-> recent]
            ELSE IF n \in Answered(p) THEN Read(r[n - 1], n, mark)
            ELSE r[n - 1]
    IN  r

Ended(rest, r) ==
    IF adapter.stops /\ r.found # {} THEN <<>> ELSE rest

Answer(p) ==
    /\ phase = "polling" /\ asking # <<>> /\ Head(asking) = p
    /\ LET r == Reading(p)[items]
       IN  /\ memory' = IF adapter.stops /\ Answered(p) # {}
                        THEN [r.memory EXCEPT !.done = @ \cup {p}]
                        ELSE r.memory
           /\ found' = r.found /\ spilled' = r.spilled /\ recent' = r.recent
           /\ asking' = Ended(Tail(asking), r)
    /\ turn' = IF adapter = Adsb /\ p = 1 THEN Turned(turn) ELSE turn
    /\ UNCHANGED <<adapter, items, upstream, resting, phase, given, aborted, troubles,
                   restarts>>

-----------------------------------------------------------------------------
(* What a request that brings nothing does to the poll.  After an abort    *)
(* the registry backs off, or gives up after many of them.                 *)
Abort ==
    /\ phase' \in {"idle", "off"} /\ asking' = <<>> /\ found' = {}
    /\ aborted' = aborted \cup found
SkipAll == asking' = <<>> /\ found' = {} /\ UNCHANGED <<phase, aborted>>
Skip == asking' = Tail(asking) /\ UNCHANGED <<phase, found, aborted>>
End  == asking' = <<>> /\ UNCHANGED <<phase, found, aborted>>

Trouble(what) ==
    \/ what = "abort" /\ Abort
    \/ what = "skip" /\ Skip
    \/ what = "end" /\ End

(* HTTP 429.  The aircraft services are left alone until they allow it:    *)
(* the poll ends if it was the first request, else it goes on.             *)
Refuse(p) ==
    /\ phase = "polling" /\ asking # <<>> /\ Head(asking) = p /\ troubles < MaxTroubles
    /\ troubles' = troubles + 1
    /\ IF adapter.refused = "rest"
       THEN /\ resting' = TRUE
            /\ Trouble(IF p = 1 THEN "end" ELSE "skip")
       ELSE /\ resting' = FALSE
            /\ Trouble(adapter.refused)
    /\ UNCHANGED <<adapter, items, upstream, memory, turn, given, recent, spilled, restarts>>

(* No answer in time, another status, or one that cannot be decoded.  The  *)
(* first request of the aircraft services is never skipped; the notices    *)
(* are asked for again at the next poll.                                   *)
Fail(p) ==
    /\ phase = "polling" /\ asking # <<>> /\ Head(asking) = p /\ troubles < MaxTroubles
    /\ troubles' = troubles + 1
    /\ \E what \in adapter.failed :
          /\ adapter = Adsb /\ p = 1 => what = "abort"
          /\ Trouble(what)
    /\ resting' = (resting /\ adapter # Notam)
    /\ UNCHANGED <<adapter, items, upstream, memory, turn, given, recent, spilled, restarts>>

-----------------------------------------------------------------------------
(* The set is emptied at the end of the poll if it has grown too large,    *)
(* and with it what is known of the parts that need not be asked again.    *)
Tidied(m) ==
    IF adapter.keeps = "set" /\ adapter.spill = "poll" /\ Cardinality(m.seen) > Bound
    THEN [m EXCEPT !.seen = {}, !.done = {}]
    ELSE m

EndPoll ==
    /\ phase = "polling" /\ asking = <<>>
    /\ memory' = Tidied(memory)
    /\ spilled' = spilled \cup (memory.seen \ Tidied(memory).seen)
    /\ given' = given \cup found
    /\ phase' = "idle" /\ found' = {}
    /\ UNCHANGED <<adapter, items, upstream, turn, resting, asking, recent, aborted,
                   troubles, restarts>>

(* The hour of the notices, or the delay the service asked for, is over.   *)
Rested ==
    /\ phase # "polling" /\ resting
    /\ resting' = FALSE
    /\ UNCHANGED <<adapter, items, upstream, memory, turn, phase, asking, found, given,
                   recent, spilled, aborted, troubles, restarts>>

Restart ==
    /\ restarts < MaxRestarts
    /\ restarts' = restarts + 1
    /\ memory' = Unread /\ turn' = 0 /\ resting' = FALSE
    /\ phase' = "idle" /\ asking' = <<>> /\ found' = {}
    /\ given' = {} /\ recent' = <<>> /\ spilled' = {} /\ aborted' = {}
    /\ UNCHANGED <<adapter, items, upstream, troubles>>

Request == \E p \in 1 .. adapter.parts : Answer(p) \/ Refuse(p) \/ Fail(p)

(* All but the end of a poll are steps in which nothing is broadcast.      *)
Quiet ==
    \/ \E i \in Item : Publish(i) \/ Mend(i) \/ Withdraw(i)
    \/ BeginPoll \/ Request
    \/ Rested \/ Restart

Next == Quiet \/ EndPoll

(* The registry polls again and again, every request ends by the timeout   *)
(* of the HTTP client, and time passes; upstream fails MaxTroubles times.  *)
PollsBegin == []<>(phase # "idle" \/ resting)
PollsEnd   == []<>(phase # "polling")
TimePasses == []<>(~resting)

Spec == Init /\ [][Next]_vars /\ PollsBegin /\ PollsEnd /\ TimePasses
-----------------------------------------------------------------------------
(* What a poll collects is new since the start, unless the adapter keeps   *)
(* nothing, or its set was emptied since (usgs.rs "some events may be      *)
(* re-emitted"), or as many others as a generation holds came since        *)
(* (rss_news.rs "Two-buffer dedup"), be it in the same answer.  A date     *)
(* that only grows never repeats.                                          *)
RepeatedOnlyBy ==
    [][\A i \in (found' \ found) \cap given :
          LET before == Reading(Head(asking))[i - 1] IN
          CASE adapter.keeps = "nothing"     -> TRUE
            [] adapter.keeps = "set"         -> i \in before.spilled
            [] adapter.keeps = "generations" -> i \notin Range(before.recent)
            [] adapter.keeps = "mark"        -> FALSE]_vars

(* Between polls, an item that will not be reported although it is listed  *)
(* and was never broadcast is one that                                     *)
(*  - had no coordinates when it was first read (gdacs.rs, copernicus.rs,  *)
(*    imb.rs remember the item before they look for coordinates),          *)
(*  - is older than one that was broadcast (gdelt.rs, ukmto.rs),           *)
(*  - came late to a map that had been read (imb.rs "Mark map as completed *)
(*    after full ingest"), or                                              *)
(*  - was collected by a poll that a later part aborted (nuclear.rs).      *)
SwallowedOnlyBy ==
    phase = "idle" => \A i \in Listed \ given : Ignored(i) =>
        \/ adapter.bare = "swallowed" /\ upstream[i] # "listed"
        \/ adapter.keeps = "mark" /\ \E j \in given : j > i
        \/ adapter = ImbPiracy /\ \E j \in Item \ {i} :
              Home(j) = Home(i) /\ (j \in given \/ upstream[j] \in {"bare", "mended", "gone"})
        \/ adapter = Nuclear /\ i \in aborted

Asked == Range(adapter.first) \cup Range(adapter.rota) \cup Range(adapter.last)

Overflowing(last) ==
    \E p \in 1 .. last : Cardinality({j \in Listed : Home(j) = p}) > Bound

(* An item that stays listed with its coordinates is broadcast in the end, *)
(* unless it is swallowed as above, the registry gave up on the source, it *)
(* belongs to a pair of data set and area that gfw.rs never asks about, or *)
(* to a map of imb.rs behind one with more incidents than the set holds,   *)
(* which is then read afresh in every poll.                                *)
ShownInTheEnd ==
    \A i \in 1 .. Max({c[2] : c \in Cases}) :
        i \in Listed /\ upstream[i] # "bare" ~>
            \/ i \in given \/ i \notin Listed
            \/ Ignored(i) \/ phase = "off"
            \/ adapter = Gfw /\ Home(i) \notin Asked
            \/ adapter = ImbPiracy /\ Overflowing(Home(i) - 1)
=============================================================================
