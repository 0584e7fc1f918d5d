----------------------------- MODULE EventRows -----------------------------
(***************************************************************************)
(* The table of events (db.queries.rs insert_event) and what an adapter    *)
(* writes into it: the identity every adapter gives to the events it       *)
(* builds.  The table keeps one row for a source, an identifier and a      *)
(* time, and keeps the row it has; an event without an identifier is       *)
(* always a row of its own.  The registry writes an event of a poll and    *)
(* broadcasts it, whatever became of the write; an event of a stream is    *)
(* broadcast first (Sources).  A row is all that is known of an event      *)
(* after a restart.                                                        *)
(*                                                                         *)
(* The adapters' modules say which items are broadcast and when; an event  *)
(* is here the number of its item.  Before some definitions stands a       *)
(* variant of theirs with a plausible slip, which is not used.             *)
(***************************************************************************)
EXTENDS Naturals, FiniteSets

CONSTANTS
    MaxItems,      \* bound: the items there are
    Undated,       \* the items that state no time, or no identifier, of their own
    Unlucky        \* bound: the items of which a write may fail, once, or that may be dropped

VARIABLES
    naming,        \* how the adapter followed names its events, see below
    rows,          \* how many rows stand for an item; 2 is several
    written,       \* history: items broadcast since the table was created
    unwritten,     \* history: items of which a write failed
    hidden         \* history: items that found a row of another in their place

rowVars == <<naming, rows, written, unwritten, hidden>>

-----------------------------------------------------------------------------
(* The identifier names the item ("own"), the source ("source"), or is     *)
(* missing ("none").  The time is the item's own, the moment the event is  *)
(* built ("now"), the item's own if it states one ("stated"), or its day.  *)
Named(id, time) == [id |-> id, time |-> time]

UsgsRow          == Named("own", "stated")
GdacsRow         == Named("own", "stated")
CopernicusRow    == Named("own", "stated")
FirmsRow         == Named("own", "stated")
GeoConfirmedRow  == Named("own", "stated")
GfwRow           == Named("own", "stated")
ImbRow           == Named("own", "stated")
RssRow           == Named("own", "stated")
UkmtoRow         == Named("own", "stated")
UkmtoWarningRow  == Named("own", "stated")
GdeltRow         == Named("own", "stated")
CloudflareBgpRow == Named("own", "stated")
BlueskyRow       == Named("own", "stated")
TelegramRow      == Named("own", "own")
AcledRow         == Named("source", "day")
AdsbRow          == Named("source", "now")
OpenSkyRow       == Named("source", "now")
NotamRow         == Named("source", "now")
NuclearRow       == Named("source", "now")
ShodanRow        == Named("source", "now")   \* three names, one for each way
CloudflareRow    == Named("own", "now")
GdeltGeoRow      == Named("own", "now")
GpsJamRow        == Named("own", "now")
IodaRow          == Named("own", "now")
OoniRow          == Named("own", "now")
OtxRow           == Named("own", "now")
AisPositionRow   == Named("none", "now")
AisStaticRow     == Named("none", "now")
BgpRow           == Named("none", "now")
CertStreamRow    == Named("none", "now")

-----------------------------------------------------------------------------
Day(i) == (i + 1) \div 2

(* i and j are one row, whenever they are written.                         *)
OneRow(i, j) ==
    \/ /\ i = j /\ naming.id = "own"
       /\ naming.time = "own" \/ (naming.time = "stated" /\ i \notin Undated)
    \/ naming.id = "source" /\ naming.time = "day" /\ Day(i) = Day(j)

(* i is written after the others of earlier: those among them that are     *)
(* built in the same microsecond may be one row with it.                   *)
OneMoment(i, earlier) == naming.id = "source" /\ naming.time = "now" /\ earlier # {}

Present(i, there) == \E j \in DOMAIN rows : there[j] > 0 /\ OneRow(i, j)

(* The table after the events of a batch, in their order, but for those in *)
(* `lost`: an event becomes a row unless there is one, of before or of an  *)
(* earlier event of the batch.                                             *)
One(n) == IF n = 0 THEN 1 ELSE 2
NewAlways(i, batch) == i \in batch
New(i, batch) ==
    /\ i \in batch
    /\ ~Present(i, rows)
    /\ ~\E j \in batch : j < i /\ OneRow(i, j)
After(batch, lost) == [i \in DOMAIN rows |-> IF New(i, batch \ lost) THEN One(rows[i]) ELSE rows[i]]

PersistUntilFailure(batch) ==
    \E failed \in SUBSET ((batch \cap Unlucky) \ unwritten) :
        /\ rows' = After(batch, {i \in batch : \E j \in failed : j <= i})
        /\ unwritten' = unwritten \cup failed
        /\ written' = written \cup batch
        /\ UNCHANGED <<naming, hidden>>

(* Writing a batch: `failed` are those the database refused, `same` those  *)
(* that were built together with an earlier one.                           *)
Persist(batch) ==
    \E failed \in SUBSET ((batch \cap Unlucky) \ unwritten) :
        /\ \E same \in SUBSET {i \in batch \ failed :
                                OneMoment(i, {j \in batch \ failed : j < i})} :
              /\ rows' = After(batch, failed \cup same)
              /\ hidden' = hidden \cup {i \in batch \ failed : rows'[i] = 0}
        /\ unwritten' = unwritten \cup failed
        /\ written' = written \cup batch
        /\ UNCHANGED naming
=============================================================================
