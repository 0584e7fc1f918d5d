------------------------- MODULE SourcesProperties -------------------------
(* What the adapters promise over the table of events (Sources).           *)
EXTENDS Sources

(* No item is passed over in silence: one that upstream lists and the      *)
(* polled adapter will not report, or a message a stream will not          *)
(* broadcast any more, has been broadcast, or is lost for one of the       *)
(* reasons that SourceFeeds and SourceStreams name.                        *)
PassedOverOnlyBy == SwallowedOnlyBy /\ Streams!SilentOnlyBy

(* An item is broadcast a second time only by an adapter that remembers    *)
(* nothing, after what it remembers was spilled, or by a stream that       *)
(* resumes before what it had read.                                        *)
BroadcastAgainOnlyBy == RepeatedOnlyBy /\ Streams!AgainOnlyBy

(* An item that stays listed, and a message, is broadcast in the end, but  *)
(* for the same reasons.                                                   *)
BroadcastInTheEnd == ShownInTheEnd /\ Streams!HeardInTheEnd

(* The item is the same row whenever it is written.                        *)
Steady(i) == naming.time = "day" \/ OneRow(i, i)

(* A second row for an item is written only if its event carries the       *)
(* moment it was built, or no identifier (registry.rs persist_event), and  *)
(* not by an adapter that goes by the date of the newest item, unless it   *)
(* was restarted.  For the other events the table makes up for an adapter  *)
(* that forgets or remembers nothing (geoconfirmed.rs "Deduplication is    *)
(* handled by the DB"), whatever restarts and failed writes lie between.   *)
RowTwiceOnlyBy ==
    [][\A i \in DOMAIN rows : rows'[i] > 1 /\ rows[i] <= 1 =>
          /\ ~Steady(i) /\ i \in written
          /\ kind = "polled" /\ adapter.keeps = "mark" => i \notin given]_allVars

(* A message of a stream waits for the forwarder, or was passed over by it *)
(* (registry.rs "Stream persistence task lagged, skipping messages").      *)
Overlooked(i) ==
    kind = "stream" /\ (waiting[i] > 0 \/ i \in missed \/ ~stream.signs)

(* An item that was broadcast and has no row is one of which a write       *)
(* failed, or one that found a row of another: the reports of acled.rs of  *)
(* one day, and events of a source that names them all alike, built in the *)
(* same microsecond; or one that the forwarder of its stream has not yet   *)
(* taken out of the channel, did not get, or does not know as its own.     *)
RowMissingOnlyBy ==
    \A i \in written : rows[i] = 0 =>
        \/ i \in unwritten
        \/ /\ naming.id = "source"
           /\ \E j \in DOMAIN rows \ {i} : rows[j] > 0
        \/ Overlooked(i)

(* A failed write, which the registry only logs, is made good by a later   *)
(* poll of an adapter that remembers nothing, as long as the item stays    *)
(* listed and finds no row of another; the memory of the others keeps the  *)
(* item out of the table.                                                  *)
WrittenInTheEnd ==
    \A i \in 1 .. MaxItems :
        i \in unwritten /\ kind = "polled" /\ adapter.keeps = "nothing" ~>
            \/ rows[i] > 0 \/ (naming.id = "source" /\ i \in hidden)
            \/ i \notin Listed \/ upstream[i] = "bare" \/ phase = "off"

(* What is lost for a while is made good: upstream items are broadcast and *)
(* events that a write failed for are stored (registry.rs).                *)
InTheEnd == BroadcastInTheEnd /\ WrittenInTheEnd
=============================================================================
