---------------------------- MODULE Sources_proof ----------------------------
(***************************************************************************)
(* Proofs about the sources: the registry (SourceRegistry), and the        *)
(* adapters over the table of events (Sources), for any adapters, items,   *)
(* messages, bounds, failures and restarts.                                *)
(***************************************************************************)
EXTENDS Integers, SourcesProperties, SourceRegistryProperties, SequenceTheorems, FiniteSetTheorems,
        WellFoundedInduction, TLAPS

-----------------------------------------------------------------------------
(* Induction, over sets: no operator is a parameter.                       *)

LEMMA LeastElement ==
    ASSUME NEW S, S \subseteq Nat, S # {}
    PROVE  \E n \in S : \A m \in S : n <= m
<1> DEFINE R == {p \in Nat \X Nat : p[1] < p[2]}
<1>1. IsWellFoundedOn(R, Nat)
    BY NatLessThanWellFounded DEF OpToRel
<1> HIDE DEF R
<1>2. PICK n \in S : \A m \in S : ~ (<<m, n>> \in R)
    BY <1>1, WFMin
<1>3. \A m \in S : n <= m
    <2> SUFFICES ASSUME NEW m \in S PROVE n <= m
        OBVIOUS
    <2>1. ~(m < n)
        BY <1>2 DEF R
    <2> QED BY <2>1
<1> QED BY <1>3

LEMMA Induction ==
    ASSUME NEW c \in Nat, NEW S, 0 \in S, \A n \in 1..c : n - 1 \in S => n \in S
    PROVE  0..c \subseteq S
<1> DEFINE B == (0..c) \ S
<1> SUFFICES ASSUME B # {} PROVE FALSE
    OBVIOUS
<1>1. PICK n \in B : \A m \in B : n <= m
    <2>1. B \subseteq Nat
        OBVIOUS
    <2> HIDE DEF B
    <2> QED BY <2>1, LeastElement
<1>2. n \in 1..c /\ n - 1 \in 0..c
    <2>1. n \in 0..c /\ n # 0
        OBVIOUS
    <2> QED BY <2>1
<1>3. n - 1 \notin B
    <2> HIDE DEF B
    <2> SUFFICES ASSUME n - 1 \in B PROVE FALSE
        OBVIOUS
    <2>1. n <= n - 1
        BY <1>1
    <2> QED BY <1>2, <2>1
<1> QED BY <1>2, <1>3

(* Steps of which each makes a state out of the one before it: there is a  *)
(* function that holds them all.                                           *)
LEMMA StepsExist ==
    ASSUME NEW X, NEW x0 \in X, NEW c \in Nat, NEW F \in [(1..c) \X X -> X]
    PROVE  \E r \in [0..c -> X] : r[0] = x0 /\ \A n \in 1..c : r[n] = F[<<n, r[n - 1]>>]
<1> DEFINE Good(n, r) == r[0] = x0 /\ \A k \in 1..n : r[k] = F[<<k, r[k - 1]>>]
           S == {n \in 0..c : \E r \in [0..c -> X] : Good(n, r)}
<1>1. 0 \in S
    <2> DEFINE r == [k \in 0..c |-> x0]
    <2>1. 0 \in 0..c /\ \A k \in 1..0 : FALSE
        OBVIOUS
    <2>2. r \in [0..c -> X] /\ r[0] = x0
        BY <2>1, Zenon
    <2> HIDE DEF r
    <2> QED BY <2>1, <2>2
<1>2. ASSUME NEW n \in 1..c, n - 1 \in S PROVE n \in S
    <2>1. PICK r \in [0..c -> X] : Good(n - 1, r)
        BY <1>2
    <2>2. r[n - 1] \in X /\ F[<<n, r[n - 1]>>] \in X
        OBVIOUS
    <2> DEFINE y == F[<<n, r[n - 1]>>]
               s == [r EXCEPT ![n] = y]
    <2>3. s \in [0..c -> X] /\ s[n] = y /\ \A k \in 0..c : k # n => s[k] = r[k]
        BY <2>2
    <2> HIDE DEF s
    <2>4. s[0] = x0
        BY <2>1, <2>3
    <2>5. ASSUME NEW k \in 1..n PROVE s[k] = F[<<k, s[k - 1]>>]
        <3>1. k - 1 \in 0..c /\ k - 1 # n /\ k \in 0..c
            OBVIOUS
        <3>2. CASE k = n
            BY <2>3, <3>1, <3>2
        <3>3. CASE k # n
            <4>1. k \in 1..n - 1
                BY <3>3
            <4> QED BY <2>1, <2>3, <3>1, <3>3, <4>1
        <3> QED BY <3>2, <3>3
    <2>6. Good(n, s)
        BY <2>4, <2>5
    <2> HIDE DEF Good
    <2> QED BY <2>3, <2>6
<1> HIDE DEF S
<1>3. 0..c \subseteq S
    BY <1>1, <1>2, Induction
<1>4. c \in S
    BY <1>3
<1> QED BY <1>4 DEF S

-----------------------------------------------------------------------------
(* What the adapters have in common.  One that an aborted poll may cost    *)
(* something it remembers has one request in a poll, or is nuclear.rs.     *)
Brief(a) ==
    /\ ~a.stops /\ a.last = <<>>
    /\ (a.first = <<1>> /\ a.each = 0) \/ (a.first = <<>> /\ a.each = 1)

MayAbort(a) == a.refused = "abort" \/ "abort" \in a.failed

Suits(a) ==
    /\ a.keeps \in {"nothing", "set", "generations", "mark"}
    /\ a.bare \in {"kept", "skipped", "swallowed"}
    /\ a.keeps = "mark" => a.bare = "kept"
    /\ a.stops => /\ a = ImbPiracy /\ a # Nuclear /\ ~MayAbort(a)
                  /\ a.keeps = "set" /\ a.bare = "swallowed"
    /\ a = Nuclear => a.keeps = "set"
    /\ a.keeps # "nothing" /\ MayAbort(a) => a = Nuclear \/ Brief(a)

LEMMA AdaptersSuit == \A a \in Adapters : Suits(a)
<1> USE DEF Suits, Brief, MayAbort, Plain, InTurn, AllOf
<1>0. Nuclear.keeps = "set"
    BY DEF Nuclear
<1>1. Suits(Usgs) /\ Suits(Gdacs) /\ Suits(Copernicus) /\ Suits(UkmtoWarnings)
    BY DEF Usgs, Gdacs, Copernicus, UkmtoWarnings
<1>2. Suits(Notam) /\ Suits(Nuclear) /\ Suits(Firms)
    BY DEF Notam, Nuclear, Firms
<1>3. Suits(ImbPiracy)
    <2>1. ImbPiracy.keeps = "set" /\ ImbPiracy.bare = "swallowed" /\ ImbPiracy.stops = TRUE
          /\ ImbPiracy.refused = "skip" /\ ImbPiracy.failed = {"skip"}
        BY DEF ImbPiracy
    <2>2. Nuclear.stops = FALSE
        BY DEF Nuclear
    <2>3. ImbPiracy # Nuclear /\ ~MayAbort(ImbPiracy)
        BY <2>1, <2>2
    <2> QED BY <2>1, <2>3
<1>4. Suits(RssNews) /\ Suits(Gdelt) /\ Suits(Ukmto)
    BY <1>0 DEF RssNews, Gdelt, Ukmto
<1>5. Suits(GeoConfirmed) /\ Suits(Acled) /\ Suits(ShodanSearch) /\ Suits(ShodanDiscovery)
    BY <1>0 DEF GeoConfirmed, Acled, ShodanSearch, ShodanDiscovery
<1>6. Suits(Ioda) /\ Suits(Ooni) /\ Suits(GdeltGeo) /\ Suits(OpenSky)
    BY <1>0 DEF Ioda, Ooni, GdeltGeo, OpenSky
<1>7. Suits(Cloudflare) /\ Suits(CloudflareBgp) /\ Suits(GpsJam)
    BY <1>0 DEF Cloudflare, CloudflareBgp, GpsJam
<1>8. Suits(Otx) /\ Suits(Adsb) /\ Suits(Gfw)
    BY <1>0 DEF Otx, Adsb, Gfw
<1> HIDE DEF Suits
<1> QED BY <1>1, <1>2, <1>3, <1>4, <1>5, <1>6, <1>7, <1>8 DEF Adapters

-----------------------------------------------------------------------------
(* Polled adapters: the inductive invariant.                               *)
Memories == [seen : SUBSET Item, older : SUBSET Item, mark : 0..items, done : SUBSET Nat]
ReadStates == [memory : Memories, found : SUBSET Item, spilled : SUBSET Item, recent : Seq(Item)]
Here == [memory |-> memory, found |-> found, spilled |-> spilled, recent |-> recent]

(* Why the poll need not report i, once it has collected f.                *)
Accounted(i, f) ==
    \/ i \in given \cup f
    \/ adapter.bare = "swallowed" /\ upstream[i] # "listed"
    \/ adapter = Nuclear /\ i \in aborted

(* The last items remembered are in the newer generation, those before     *)
(* them in the older one.                                                  *)
InGenerations(m, last) ==
    /\ Cardinality(m.seen) <= Bound
    /\ \A k \in 1 .. Len(last) :
          IF k > Len(last) - Cardinality(m.seen) THEN last[k] \in m.seen ELSE last[k] \in m.older

(* What an adapter remembers is accounted for, and it has not forgotten    *)
(* what it collected otherwise than its kind of memory does.               *)
Faithful(r) ==
    /\ \A i \in r.memory.seen \cup r.memory.older :
          upstream[i] # "unlisted" /\ Accounted(i, r.found)
    /\ adapter.keeps = "nothing" => r.memory = Unread
    /\ adapter.keeps = "set" =>
          /\ r.memory.older = {} /\ r.memory.mark = 0
          /\ given \cup r.found \subseteq r.memory.seen \cup r.spilled
    /\ adapter.keeps = "generations" => r.memory.mark = 0 /\ InGenerations(r.memory, r.recent)
    /\ adapter.keeps = "mark" =>
          /\ r.memory.seen = {} /\ r.memory.older = {}
          /\ r.memory.mark \in given \cup r.found \cup {0}
          /\ given \cup r.found \subseteq 0 .. r.memory.mark
    /\ ~adapter.stops => r.memory.done = {}

Conditions == {"unlisted", "listed", "bare", "mended", "gone"}

FeedTypes ==
    /\ adapter \in Adapters /\ items \in Nat /\ items <= MaxItems
    /\ upstream \in [Item -> Conditions]
    /\ \A i \in Item : upstream[i] = "bare" => adapter.bare # "kept"
    /\ Here \in ReadStates
    /\ given \subseteq Item /\ aborted \subseteq Item
    /\ phase \in {"idle", "polling", "off"}

(* A part that is not asked again had something.                           *)
DonePartsRead ==
    \A p \in memory.done : \E j \in Item :
        Home(j) = p /\ (j \in given \cup found \/ upstream[j] \in {"bare", "mended", "gone"})

(* A poll that can abort has collected nothing before it does.             *)
NothingToLose ==
    adapter.keeps # "nothing" /\ adapter # Nuclear /\ MayAbort(adapter) /\ asking # <<>> =>
        found = {} /\ Tail(asking) = <<>>

IInvFeeds ==
    /\ FeedTypes /\ Faithful(Here) /\ DonePartsRead /\ NothingToLose
    /\ phase # "polling" => found = {}
    /\ adapter.keeps = "mark" => found \cap given = {}

LEMMA FeedBounds == Bound \in Nat /\ Bound > 0
BY FeedsAssumption

LEMMA ItemsFinite ==
    ASSUME items \in Nat, NEW S \in SUBSET Item
    PROVE  IsFiniteSet(S) /\ Cardinality(S) \in Nat
<1>1. IsFiniteSet(Item)
    BY FS_Interval DEF Item
<1>2. IsFiniteSet(S)
    BY <1>1, FS_Subset
<1> QED BY <1>2, FS_CardinalityType

(* One item more among the last remembered.                                *)
Recent(last, i) ==
    LET all == Append(last, i)
        n   == Len(all)
    IN  SubSeq(all, IF n > Bound + 1 THEN n - Bound ELSE 1, n)

LEMMA RecentFacts ==
    ASSUME NEW X, NEW last \in Seq(X), NEW i \in X
    PROVE  /\ Recent(last, i) \in Seq(X)
           /\ Len(Recent(last, i)) = (IF Len(last) > Bound THEN Bound + 1 ELSE Len(last) + 1)
           /\ Recent(last, i)[Len(Recent(last, i))] = i
           /\ \A k \in 1 .. Len(Recent(last, i)) - 1 :
                 /\ k + (Len(last) + 1 - Len(Recent(last, i))) \in 1 .. Len(last)
                 /\ Recent(last, i)[k] = last[k + (Len(last) + 1 - Len(Recent(last, i)))]
<1> DEFINE b == Bound
           all == Append(last, i)
           new == Recent(last, i)
<1>0. b \in Nat /\ b > 0 /\ new = SubSeq(all, IF Len(all) > b + 1 THEN Len(all) - b ELSE 1, Len(all))
    BY FeedBounds DEF Recent
<1> HIDE DEF b, new
<1> DEFINE l == Len(last)
           from == IF l + 1 > b + 1 THEN l + 1 - b ELSE 1
<1>1. l \in Nat /\ all \in Seq(X) /\ Len(all) = l + 1
      /\ \A k \in 1..l : all[k] = last[k] /\ all[l + 1] = i
    BY AppendProperties
<1>2. from \in 1..l + 1 /\ (l > b => from = l + 1 - b) /\ (~(l > b) => from = 1)
    BY <1>0, <1>1
<1>3. new = SubSeq(all, from, l + 1)
    <2>1. Len(all) = l + 1 /\ new = SubSeq(all, IF Len(all) > b + 1 THEN Len(all) - b ELSE 1, Len(all))
        BY <1>0, <1>1
    <2> HIDE DEF all, l
    <2>2. from = IF Len(all) > b + 1 THEN Len(all) - b ELSE 1
        BY <1>0, <1>1, <2>1
    <2> HIDE DEF from
    <2> QED BY <2>1, <2>2
<1> HIDE DEF from, l, all
<1>4. /\ new \in Seq(X) /\ Len(new) = l + 1 - from + 1
      /\ \A k \in 1 .. l + 1 - from + 1 : new[k] = all[from + k - 1]
    <2>1. \A k \in from .. l + 1 : all[k] \in X
        BY <1>1, <1>2, ElementOfSeq
    <2> DEFINE z == l + 1
    <2>2. from \in Int /\ z \in Int /\ from <= z
        BY <1>1, <1>2
    <2>3. new = SubSeq(all, from, z) /\ \A k \in from .. z : all[k] \in X
        BY <1>3, <2>1
    <2> HIDE DEF z
    <2>4. /\ new \in Seq(X) /\ Len(new) = (IF from <= z THEN z - from + 1 ELSE 0)
          /\ \A k \in 1 .. z - from + 1 : new[k] = all[from + k - 1]
        BY ONLY <2>2, <2>3, SubSeqProperties
    <2>5. Len(new) = z - from + 1
        BY <2>2, <2>4
    <2>6. z - from + 1 = l + 1 - from + 1
        BY <1>1, <1>2 DEF z
    <2> QED BY <2>4, <2>5, <2>6
<1>5. Len(new) = (IF l > b THEN b + 1 ELSE l + 1)
    BY <1>0, <1>1, <1>2, <1>4
<1>6. new[Len(new)] = i
    <2>1. Len(new) \in 1 .. l + 1 - from + 1 /\ from + Len(new) - 1 = l + 1
        BY <1>1, <1>2, <1>4
    <2>2. all[l + 1] = i
        <3>1. all[l + 1] = i
            BY AppendProperties DEF l, all
        <3> QED BY <3>1
    <2> QED BY <1>4, <2>1, <2>2
<1>7. ASSUME NEW k \in 1 .. Len(new) - 1
      PROVE  k + (l + 1 - Len(new)) \in 1 .. l /\ new[k] = last[k + (l + 1 - Len(new))]
    <2>1. /\ k \in 1 .. l + 1 - from + 1 /\ from + k - 1 = k + (l + 1 - Len(new))
          /\ k + (l + 1 - Len(new)) \in 1 .. l
        BY <1>1, <1>2, <1>4, <1>7
    <2>2. new[k] = all[k + (l + 1 - Len(new))]
        BY <1>4, <2>1
    <2> QED BY <1>1, <2>1, <2>2
<1> QED BY <1>4, <1>5, <1>6, <1>7 DEF l, b, new

LEMMA GenerationsKept ==
    ASSUME items \in Nat, adapter.keeps = "generations", NEW m \in Memories, NEW last \in Seq(Item),
           InGenerations(m, last), NEW i \in Item, i \notin m.seen
    PROVE  Recent(last, i) \in Seq(Item) /\ InGenerations(Remembered(m, i), Recent(last, i))
<1> DEFINE new == Recent(last, i)
           c == Cardinality(m.seen)
           l == Len(last)
           n == Len(new)
           m2 == Remembered(m, i)
<1>1. m.seen \in SUBSET Item /\ m.older \in SUBSET Item
    BY DEF Memories
<1>2. c \in Nat /\ IsFiniteSet(m.seen) /\ l \in Nat /\ c <= Bound
    BY <1>1, ItemsFinite DEF InGenerations
<1>3. /\ new \in Seq(Item) /\ n = (IF l > Bound THEN Bound + 1 ELSE l + 1) /\ new[n] = i
      /\ \A k \in 1 .. n - 1 : k + (l + 1 - n) \in 1 .. l /\ new[k] = last[k + (l + 1 - n)]
    <2> HIDE DEF c, m2
    <2>1. new \in Seq(Item)
        BY RecentFacts
    <2>2. n = (IF l > Bound THEN Bound + 1 ELSE l + 1)
        BY RecentFacts
    <2>3. new[n] = i
        BY RecentFacts
    <2>4. ASSUME NEW k \in 1 .. n - 1
          PROVE  k + (l + 1 - n) \in 1 .. l /\ new[k] = last[k + (l + 1 - n)]
        <3>1. last \in Seq(Item) /\ i \in Item /\ k \in 1 .. Len(Recent(last, i)) - 1
            OBVIOUS
        <3>2. k + (Len(last) + 1 - Len(Recent(last, i))) \in 1 .. Len(last)
            BY ONLY <3>1, RecentFacts
        <3>3. Recent(last, i)[k] = last[k + (Len(last) + 1 - Len(Recent(last, i)))]
            BY ONLY <3>1, RecentFacts
        <3> QED BY <3>2, <3>3
    <2> HIDE DEF n, l, new
    <2> QED BY <2>1, <2>2, <2>3, <2>4
<1>4. \A k \in 1..l : IF k > l - c THEN last[k] \in m.seen ELSE last[k] \in m.older
    BY DEF InGenerations
<1>5. Cardinality(m.seen \cup {i}) = c + 1
    BY <1>2, FS_AddElement
<1>6. n \in Nat /\ n <= l + 1
    BY <1>2, <1>3, FeedBounds
<1> HIDE DEF new, c, l, n
<1>7. CASE c + 1 > Bound
    <2>1. m2 = [m EXCEPT !.seen = {i}, !.older = m.seen \cup {i}]
        BY <1>5, <1>7 DEF Remembered
    <2>2. m2.seen = {i} /\ m2.older = m.seen \cup {i}
        BY <2>1 DEF Memories
    <2> HIDE DEF m2
    <2>3. Cardinality(m2.seen) = 1
        BY <2>2, FS_Singleton
    <2>4. ASSUME NEW k \in 1..n
          PROVE  IF k > n - 1 THEN new[k] \in m2.seen ELSE new[k] \in m2.older
        <3>1. CASE k = n
            BY <1>3, <1>6, <2>2, <3>1
        <3>2. CASE k # n
            <4>1. k \in 1 .. n - 1 /\ ~(k > n - 1)
                BY <1>6, <3>2
            <4> DEFINE q == k + (l + 1 - n)
            <4>2. q \in 1..l /\ new[k] = last[q]
                BY <1>3, <4>1
            <4>3. q > l - c
                BY <1>2, <1>3, <1>7, <4>1, FeedBounds
            <4> HIDE DEF q
            <4>4. last[q] \in m.seen
                BY <1>4, <4>2, <4>3
            <4> QED BY <2>2, <4>1, <4>2, <4>4
        <3> QED BY <3>1, <3>2
    <2>5. InGenerations(m2, new)
        BY <2>3, <2>4, FeedBounds DEF InGenerations, n
    <2> QED BY <1>3, <2>5 DEF m2, new
<1>8. CASE ~(c + 1 > Bound)
    <2>1. m2 = [m EXCEPT !.seen = m.seen \cup {i}]
        BY <1>5, <1>8, FeedBounds DEF Remembered
    <2>2. m2.seen = m.seen \cup {i} /\ m2.older = m.older
        BY <2>1 DEF Memories
    <2> HIDE DEF m2
    <2>3. Cardinality(m2.seen) = c + 1 /\ c + 1 <= Bound
        BY <1>2, <1>5, <1>8, <2>2, FeedBounds
    <2>4. ASSUME NEW k \in 1..n
          PROVE  IF k > n - (c + 1) THEN new[k] \in m2.seen ELSE new[k] \in m2.older
        <3>1. CASE k = n
            BY <1>2, <1>3, <1>6, <2>2, <3>1
        <3>2. CASE k # n
            <4>1. k \in 1 .. n - 1
                BY <1>6, <3>2
            <4> DEFINE q == k + (l + 1 - n)
            <4>2. q \in 1..l /\ new[k] = last[q]
                BY <1>3, <4>1
            <4>3. q > l - c <=> k > n - (c + 1)
                BY <1>2, <1>6, <4>1
            <4> HIDE DEF q
            <4> QED BY <1>4, <2>2, <4>2, <4>3
        <3> QED BY <3>1, <3>2
    <2>5. InGenerations(m2, new)
        BY <2>3, <2>4 DEF InGenerations, n
    <2> QED BY <1>3, <2>5 DEF m2, new
<1> QED BY <1>7, <1>8

-----------------------------------------------------------------------------
(* Reading one item.                                                       *)
Located(i) == upstream[i] # "bare"
Skipped(i) == ~Located(i) /\ adapter.bare = "skipped"
Seen(r, i) == i \in r.memory.seen \cup r.memory.older
Gets(r, i) == IF Located(i) THEN r.found \cup {i} ELSE r.found

LEMMA ReadSkips ==
    ASSUME NEW r, NEW i, NEW mark,
           \/ Skipped(i)
           \/ adapter.keeps = "mark" /\ i <= mark
           \/ adapter.keeps \in {"set", "generations"} /\ Seen(r, i)
    PROVE  Read(r, i, mark) = r
BY DEF Read, Skipped, Located, Seen

LEMMA ReadsWithoutMemory ==
    ASSUME NEW r, NEW i, NEW mark, ~Skipped(i), adapter.keeps = "nothing"
    PROVE  Read(r, i, mark) = [r EXCEPT !.found = Gets(r, i)]
BY DEF Read, Skipped, Located, Gets

LEMMA ReadsAfterMark ==
    ASSUME NEW r, NEW i, NEW mark, ~Skipped(i), adapter.keeps = "mark", ~(i <= mark)
    PROVE  Read(r, i, mark) = [r EXCEPT !.found = Gets(r, i),
                                        !.memory.mark = IF i > @ THEN i ELSE @]
BY DEF Read, Skipped, Located, Gets

LEMMA ReadsUnseen ==
    ASSUME NEW r, NEW i, NEW mark, ~Skipped(i), adapter.keeps \in {"set", "generations"},
           ~Seen(r, i)
    PROVE  Read(r, i, mark) =
             [memory |-> Remembered(r.memory, i), found |-> Gets(r, i),
              spilled |-> IF adapter.spill = "item"
                          THEN (r.spilled \cup r.memory.seen \cup {i})
                                  \ Remembered(r.memory, i).seen
                          ELSE r.spilled \ {i},
              recent |-> IF adapter.keeps = "generations" THEN Recent(r.recent, i) ELSE r.recent]
BY DEF Read, Skipped, Located, Gets, Seen, Recent

LEMMA RememberedType ==
    ASSUME NEW m \in Memories, NEW i \in Item
    PROVE  /\ Remembered(m, i) \in Memories
           /\ Remembered(m, i).mark = m.mark /\ Remembered(m, i).done = m.done
           /\ Remembered(m, i).seen \cup Remembered(m, i).older \subseteq m.seen \cup m.older \cup {i}
           /\ adapter.keeps # "generations" => Remembered(m, i).older = m.older
           /\ adapter.spill # "item" /\ adapter.keeps # "generations" =>
                  Remembered(m, i).seen = m.seen \cup {i}
BY DEF Remembered, Memories

LEMMA ReadType ==
    ASSUME items \in Nat, Suits(adapter), NEW r \in ReadStates, NEW i \in Item, NEW mark \in Nat
    PROVE  /\ Read(r, i, mark) \in ReadStates
           /\ Read(r, i, mark).memory.done = r.memory.done
           /\ r.found \subseteq Read(r, i, mark).found
           /\ Read(r, i, mark).found \subseteq r.found \cup {i}
<1>1. /\ r.memory \in Memories /\ r.found \in SUBSET Item /\ r.spilled \in SUBSET Item
      /\ r.recent \in Seq(Item)
    BY DEF ReadStates
<1>2. Gets(r, i) \in SUBSET Item /\ r.found \subseteq Gets(r, i) /\ Gets(r, i) \subseteq r.found \cup {i}
    BY <1>1 DEF Gets
<1>3. CASE \/ Skipped(i)
           \/ adapter.keeps = "mark" /\ i <= mark
           \/ adapter.keeps \in {"set", "generations"} /\ Seen(r, i)
    BY <1>3, ReadSkips
<1>4. CASE ~Skipped(i) /\ adapter.keeps = "nothing"
    <2>1. Read(r, i, mark) = [r EXCEPT !.found = Gets(r, i)]
        BY <1>4, ReadsWithoutMemory
    <2> QED BY <1>1, <1>2, <2>1 DEF ReadStates
<1>5. CASE ~Skipped(i) /\ adapter.keeps = "mark" /\ ~(i <= mark)
    <2> DEFINE top == IF i > r.memory.mark THEN i ELSE r.memory.mark
    <2>1. Read(r, i, mark) = [r EXCEPT !.found = Gets(r, i), !.memory = [r.memory EXCEPT !.mark = top]]
        BY <1>5, ReadsAfterMark DEF ReadStates
    <2>2. top \in 0..items
        BY <1>1 DEF Memories, Item
    <2> HIDE DEF top
    <2>3. [r.memory EXCEPT !.mark = top] \in Memories
          /\ [r.memory EXCEPT !.mark = top].done = r.memory.done
        BY <1>1, <2>2 DEF Memories
    <2> QED BY <1>1, <1>2, <2>1, <2>3 DEF ReadStates
<1>6. CASE ~Skipped(i) /\ adapter.keeps \in {"set", "generations"} /\ ~Seen(r, i)
    <2> DEFINE m == Remembered(r.memory, i)
               s == IF adapter.spill = "item" THEN (r.spilled \cup r.memory.seen \cup {i}) \ m.seen
                    ELSE r.spilled \ {i}
               l == IF adapter.keeps = "generations" THEN Recent(r.recent, i) ELSE r.recent
    <2>1. Read(r, i, mark) = [memory |-> m, found |-> Gets(r, i), spilled |-> s, recent |-> l]
        BY <1>6, ReadsUnseen
    <2>2. m \in Memories /\ m.done = r.memory.done
        BY <1>1, RememberedType
    <2>3. s \in SUBSET Item
        BY <1>1 DEF Memories
    <2>4. l \in Seq(Item)
        BY <1>1, RecentFacts
    <2> HIDE DEF m, s, l
    <2> QED BY <1>1, <1>2, <2>1, <2>2, <2>3, <2>4 DEF ReadStates
<1> QED BY <1>3, <1>4, <1>5, <1>6 DEF Suits

(* Reading an item leaves what is remembered accounted for; and an item it *)
(* collects that was broadcast is one the adapter could not know.          *)
Forgotten(r, i, mark) ==
    /\ adapter.keeps = "set" => i \in r.spilled
    /\ adapter.keeps = "generations" => i \notin Range(r.recent)
    /\ adapter.keeps = "mark" => i > mark

LEMMA ReadStep ==
    ASSUME FeedTypes, NEW r \in ReadStates, Faithful(r), NEW i \in Item, upstream[i] # "unlisted",
           NEW mark \in Nat
    PROVE  /\ Faithful(Read(r, i, mark))
           /\ adapter.stops => upstream[i] # "listed" \/ i \in given \cup Read(r, i, mark).found
           /\ i \in Read(r, i, mark).found \ r.found /\ i \in given => Forgotten(r, i, mark)
<1> DEFINE q == Read(r, i, mark)
<1>1. /\ items \in Nat /\ Suits(adapter) /\ upstream[i] \in Conditions
      /\ Located(i) \/ adapter.bare # "kept"
    BY AdaptersSuit DEF FeedTypes, Located
<1>2. /\ r.memory \in Memories /\ r.found \in SUBSET Item /\ r.spilled \in SUBSET Item
      /\ r.recent \in Seq(Item) /\ r.memory.seen \in SUBSET Item /\ r.memory.older \in SUBSET Item
      /\ r.memory.mark \in 0..items
    BY DEF ReadStates, Memories
<1> DEFINE seen == r.memory.seen \cup r.memory.older
<1>3. \A j \in seen : upstream[j] # "unlisted" /\ Accounted(j, r.found)
    BY DEF Faithful
<1> SUFFICES /\ Faithful(q)
             /\ adapter.stops => upstream[i] # "listed" \/ i \in given \cup q.found
             /\ i \in q.found \ r.found /\ i \in given => Forgotten(r, i, mark)
    OBVIOUS
<1> HIDE DEF q
<1>4. CASE \/ Skipped(i)
           \/ adapter.keeps = "mark" /\ i <= mark
           \/ adapter.keeps \in {"set", "generations"} /\ Seen(r, i)
    <2>1. q = r
        BY <1>4, ReadSkips DEF q
    <2>2. ASSUME adapter.stops, upstream[i] = "listed" PROVE i \in given \cup r.found
        <3>1. adapter.keeps = "set" /\ adapter.bare = "swallowed" /\ adapter # Nuclear
            BY <1>1, <2>2 DEF Suits
        <3>2. i \in seen
            BY <1>4, <3>1 DEF Skipped, Seen
        <3> QED BY <1>3, <2>2, <3>1, <3>2 DEF Accounted
    <2> QED BY <2>1, <2>2
<1>5. CASE ~Skipped(i) /\ adapter.keeps = "nothing"
    <2>1. q = [r EXCEPT !.found = Gets(r, i)]
        BY <1>5, ReadsWithoutMemory DEF q
    <2>2. q.memory = r.memory
        BY <2>1 DEF ReadStates
    <2>3. r.memory = Unread /\ r.memory.seen = {} /\ r.memory.older = {} /\ r.memory.done = {}
        BY <1>5 DEF Faithful, Unread
    <2>4. ~adapter.stops
        BY <1>1, <1>5 DEF Suits
    <2>5. Faithful(q)
        BY <1>5, <2>2, <2>3 DEF Faithful
    <2> QED BY <1>5, <2>4, <2>5 DEF Forgotten
<1>6. CASE ~Skipped(i) /\ adapter.keeps = "mark" /\ ~(i <= mark)
    <2> DEFINE old == r.memory.mark
               top == IF i > old THEN i ELSE old
    <2>1. q = [r EXCEPT !.found = Gets(r, i), !.memory = [r.memory EXCEPT !.mark = top]]
        BY <1>6, ReadsAfterMark DEF ReadStates, q
    <2>2. Gets(r, i) = r.found \cup {i}
        BY <1>1, <1>6 DEF Suits, Gets
    <2>3. /\ q.memory.seen = r.memory.seen /\ q.memory.older = r.memory.older
          /\ q.memory.done = r.memory.done /\ q.memory.mark = top
          /\ q.found = r.found \cup {i}
        BY <1>2, <2>1, <2>2 DEF ReadStates, Memories
    <2>4. /\ r.memory.seen = {} /\ r.memory.older = {}
          /\ old \in given \cup r.found \cup {0} /\ given \cup r.found \subseteq 0 .. old
        BY <1>6 DEF Faithful
    <2>5. i \in Nat /\ old \in Nat /\ mark \in Nat
        BY <1>2 DEF Item
    <2>6. top \in given \cup q.found \cup {0} /\ given \cup q.found \subseteq 0 .. top
        <3>1. CASE i > old
            BY <2>3, <2>4, <2>5, <3>1
        <3>2. CASE ~(i > old)
            BY <2>3, <2>4, <2>5, <3>2
        <3> QED BY <3>1, <3>2
    <2> HIDE DEF top
    <2>7. Faithful(q)
        BY <1>6, <2>3, <2>4, <2>6 DEF Faithful
    <2>8. ~adapter.stops
        BY <1>1, <1>6 DEF Suits
    <2>9. i > mark
        BY <1>6, <2>5
    <2> QED BY <1>6, <2>7, <2>8, <2>9 DEF Forgotten
<1>7. CASE ~Skipped(i) /\ adapter.keeps \in {"set", "generations"} /\ ~Seen(r, i)
    <2> DEFINE m == Remembered(r.memory, i)
               s == IF adapter.spill = "item" THEN (r.spilled \cup r.memory.seen \cup {i}) \ m.seen
                    ELSE r.spilled \ {i}
               l == IF adapter.keeps = "generations" THEN Recent(r.recent, i) ELSE r.recent
    <2>1. q = [memory |-> m, found |-> Gets(r, i), spilled |-> s, recent |-> l]
        BY <1>7, ReadsUnseen DEF q
    <2>2. q.memory = m /\ q.found = Gets(r, i) /\ q.spilled = s /\ q.recent = l
        BY <2>1
    <2>3. /\ m \in Memories /\ m.mark = r.memory.mark /\ m.done = r.memory.done
          /\ m.seen \cup m.older \subseteq seen \cup {i}
          /\ adapter.keeps # "generations" => m.older = r.memory.older
          /\ adapter.spill # "item" /\ adapter.keeps # "generations" => m.seen = r.memory.seen \cup {i}
        BY <1>2, RememberedType
    <2>4. r.found \subseteq q.found /\ (Located(i) => i \in q.found) /\ q.found \subseteq r.found \cup {i}
        BY <2>2 DEF Gets
    <2>5. Located(i) \/ (adapter.bare = "swallowed" /\ upstream[i] = "bare")
        <3>1. adapter.bare \in {"kept", "skipped", "swallowed"}
            BY <1>1 DEF Suits
        <3> QED BY <1>1, <1>7, <3>1 DEF Skipped, Located
    <2>6. i \notin seen
        BY <1>7 DEF Seen
    <2> HIDE DEF m
    <2>7. \A j \in q.memory.seen \cup q.memory.older : upstream[j] # "unlisted" /\ Accounted(j, q.found)
        BY <1>3, <2>2, <2>3, <2>4, <2>5 DEF Accounted
    <2>8. ASSUME adapter.keeps = "set"
          PROVE  /\ q.memory.older = {} /\ q.memory.mark = 0
                 /\ given \cup q.found \subseteq q.memory.seen \cup q.spilled
        <3>1. /\ r.memory.older = {} /\ r.memory.mark = 0
              /\ given \cup r.found \subseteq r.memory.seen \cup r.spilled
            BY <2>8 DEF Faithful
        <3> QED BY <2>2, <2>3, <2>4, <2>8, <3>1
    <2>9. ASSUME adapter.keeps = "generations"
          PROVE  q.memory.mark = 0 /\ InGenerations(q.memory, q.recent)
        <3>1. r.memory.mark = 0 /\ InGenerations(r.memory, r.recent)
            BY <2>9 DEF Faithful
        <3>2. InGenerations(m, Recent(r.recent, i))
            BY <1>1, <1>2, <2>6, <2>9, <3>1, GenerationsKept DEF m
        <3> QED BY <2>2, <2>3, <2>9, <3>1, <3>2
    <2>10. ~adapter.stops => q.memory.done = {}
        BY <2>2, <2>3 DEF Faithful
    <2>11. Faithful(q)
        BY <1>7, <2>7, <2>8, <2>9, <2>10 DEF Faithful
    <2>12. ASSUME i \in given PROVE Forgotten(r, i, mark)
        <3>1. adapter.keeps = "set" => i \in r.spilled
            BY <2>6, <2>12 DEF Faithful
        <3>2. ASSUME adapter.keeps = "generations" PROVE i \notin Range(r.recent)
            <4>1. InGenerations(r.memory, r.recent) /\ DOMAIN r.recent = 1 .. Len(r.recent)
                BY <1>2, <3>2 DEF Faithful
            <4>2. \A k \in DOMAIN r.recent : r.recent[k] \in seen
                BY <4>1 DEF InGenerations
            <4> QED BY <2>6, <4>2 DEF Range
        <3> QED BY <1>7, <3>1, <3>2 DEF Forgotten
    <2> QED BY <2>4, <2>5, <2>11, <2>12
<1> QED BY <1>1, <1>4, <1>5, <1>6, <1>7 DEF Suits

(* Reading an answer: Reading(p) is defined by recursion, and a function   *)
(* that satisfies its equation exists, by induction.                       *)
ReadsOne(p, n, s) == IF n \in Answered(p) THEN Read(s, n, memory.mark) ELSE s

IsReading(p, r) ==
    r = [n \in 0 .. items |-> IF n = 0 THEN Here ELSE ReadsOne(p, n, r[n - 1])]

LEMMA ReadingSatisfies ==
    ASSUME NEW p, NEW r, IsReading(p, r)
    PROVE  IsReading(p, Reading(p))
BY DEF Reading, IsReading, ReadsOne, Here

LEMMA AnsweredFacts == \A p : \A i \in Answered(p) : i \in Item /\ upstream[i] # "unlisted"
BY DEF Answered, Listed

LEMMA ReadingRule ==
    ASSUME FeedTypes, NEW p
    PROVE  IsReading(p, Reading(p))
<1>1. items \in Nat /\ Suits(adapter) /\ Here \in ReadStates /\ memory.mark \in Nat
    BY AdaptersSuit DEF FeedTypes, Here, ReadStates, Memories
<1> DEFINE F == [x \in (1 .. items) \X ReadStates |-> ReadsOne(p, x[1], x[2])]
<1>2. ASSUME NEW n \in 1 .. items, NEW s \in ReadStates
      PROVE  ReadsOne(p, n, s) \in ReadStates
    <2>1. CASE n \in Answered(p)
        <3>1. n \in Item
            BY <2>1, AnsweredFacts
        <3> QED BY <1>1, <2>1, <3>1, ReadType DEF ReadsOne
    <2>2. CASE n \notin Answered(p)
        BY <2>2 DEF ReadsOne
    <2> QED BY <2>1, <2>2
<1>3. F \in [(1 .. items) \X ReadStates -> ReadStates]
    <2>1. \A x \in (1 .. items) \X ReadStates : ReadsOne(p, x[1], x[2]) \in ReadStates
        BY <1>2
    <2> QED BY <2>1
<1>4. \A n \in 1 .. items, s \in ReadStates : F[<<n, s>>] = ReadsOne(p, n, s)
    OBVIOUS
<1> HIDE DEF F
<1>5. PICK r \in [0 .. items -> ReadStates] :
          r[0] = Here /\ \A n \in 1 .. items : r[n] = F[<<n, r[n - 1]>>]
    BY <1>1, <1>3, StepsExist
<1>6. ASSUME NEW n \in 0 .. items
      PROVE  r[n] = IF n = 0 THEN Here ELSE ReadsOne(p, n, r[n - 1])
    <2>1. CASE n = 0
        BY <1>5, <2>1
    <2>2. CASE n # 0
        <3>1. n \in 1 .. items /\ n - 1 \in 0 .. items
            BY <1>1, <2>2
        <3>2. r[n - 1] \in ReadStates
            BY <1>5, <3>1
        <3> QED BY <1>4, <1>5, <2>2, <3>1, <3>2
    <2> QED BY <2>1, <2>2
<1>7. IsReading(p, r)
    BY <1>5, <1>6 DEF IsReading
<1> QED BY <1>7, ReadingSatisfies

LEMMA ReadingSteps ==
    ASSUME FeedTypes, NEW p
    PROVE  /\ Reading(p)[0] = Here
           /\ \A n \in 1 .. items : Reading(p)[n] = ReadsOne(p, n, Reading(p)[n - 1])
<1> DEFINE r == Reading(p)
<1>1. r = [n \in 0 .. items |-> IF n = 0 THEN Here ELSE ReadsOne(p, n, r[n - 1])]
    BY ReadingRule DEF IsReading
<1>2. items \in Nat
    BY DEF FeedTypes
<1> HIDE DEF r
<1>3. r[0] = Here
    BY <1>1, <1>2
<1>4. \A n \in 1 .. items : r[n] = ReadsOne(p, n, r[n - 1])
    BY <1>1, <1>2
<1> QED BY <1>3, <1>4 DEF r

(* After the first n items of an answer.                                   *)
ReadSoFar(p, n) ==
    LET s == Reading(p)[n] IN
    /\ s \in ReadStates /\ Faithful(s) /\ s.memory.done = memory.done /\ found \subseteq s.found
    /\ adapter.stops => \A i \in Answered(p) :
                            i <= n => upstream[i] # "listed" \/ i \in given \cup s.found
    /\ \A i \in s.found \ found :
          /\ i \in 1 .. n
          /\ i \in given => Forgotten(Reading(p)[i - 1], i, memory.mark)

LEMMA ReadingFacts ==
    ASSUME FeedTypes, Faithful(Here), NEW p
    PROVE  \A n \in 0 .. items : ReadSoFar(p, n)
<1>1. /\ items \in Nat /\ Suits(adapter) /\ Here \in ReadStates /\ memory.mark \in Nat
      /\ Here.memory = memory /\ Here.found = found
    BY AdaptersSuit DEF FeedTypes, Here, ReadStates, Memories
<1> DEFINE S == {n \in 0 .. items : ReadSoFar(p, n)}
<1>2. 0 \in S
    <2>1. Reading(p)[0] = Here
        BY ReadingSteps
    <2>2. \A i \in Answered(p) : ~(i <= 0)
        BY <1>1, AnsweredFacts DEF Item
    <2> QED BY <1>1, <2>1, <2>2 DEF ReadSoFar
<1>3. ASSUME NEW n \in 1 .. items, n - 1 \in S PROVE n \in S
    <2> DEFINE s == Reading(p)[n - 1]
               q == Reading(p)[n]
    <2>1. /\ s \in ReadStates /\ Faithful(s) /\ s.memory.done = memory.done /\ found \subseteq s.found
          /\ adapter.stops => \A i \in Answered(p) :
                            i <= n - 1 => upstream[i] # "listed" \/ i \in given \cup s.found
          /\ \A i \in s.found \ found :
                /\ i \in 1 .. n - 1
                /\ i \in given => Forgotten(Reading(p)[i - 1], i, memory.mark)
        BY <1>3 DEF ReadSoFar
    <2>2. q = ReadsOne(p, n, s)
        BY ReadingSteps
    <2>3. n \in Nat /\ n \in 1 .. n /\ \A i \in 1 .. n - 1 : i \in 1 .. n
        BY <1>1
    <2>4. ASSUME NEW i \in Answered(p), i <= n PROVE i = n \/ i <= n - 1
        BY <1>1, <2>3, <2>4, AnsweredFacts DEF Item
    <2>5. CASE n \in Answered(p)
        <3>1. q = Read(s, n, memory.mark) /\ n \in Item /\ upstream[n] # "unlisted"
            BY <2>2, <2>5, AnsweredFacts DEF ReadsOne
        <3> HIDE DEF s, q
        <3>2. /\ q \in ReadStates /\ q.memory.done = s.memory.done
              /\ s.found \subseteq q.found /\ q.found \subseteq s.found \cup {n}
            BY <1>1, <2>1, <3>1, ReadType
        <3>3. /\ Faithful(q)
              /\ adapter.stops => upstream[n] # "listed" \/ n \in given \cup q.found
              /\ n \in q.found \ s.found /\ n \in given => Forgotten(s, n, memory.mark)
            BY <1>1, <2>1, <3>1, ReadStep
        <3>4. ASSUME adapter.stops, NEW i \in Answered(p), i <= n
              PROVE  upstream[i] # "listed" \/ i \in given \cup q.found
            BY <2>1, <2>4, <3>2, <3>3, <3>4
        <3>5. ASSUME NEW i \in q.found \ found
              PROVE  i \in 1 .. n /\ (i \in given => Forgotten(Reading(p)[i - 1], i, memory.mark))
            <4>1. CASE i \in s.found
                BY <2>1, <2>3, <3>5, <4>1
            <4>2. CASE i \notin s.found
                <5>1. i = n
                    BY <3>2, <3>5, <4>2
                <5> QED BY <2>3, <3>3, <3>5, <4>2, <5>1 DEF s
            <4> QED BY <4>1, <4>2
        <3> QED BY <1>3, <2>1, <3>2, <3>3, <3>4, <3>5 DEF ReadSoFar, q
    <2>6. CASE n \notin Answered(p)
        <3>1. q = s
            BY <2>2, <2>6 DEF ReadsOne
        <3>2. ASSUME adapter.stops, NEW i \in Answered(p), i <= n
              PROVE  upstream[i] # "listed" \/ i \in given \cup q.found
            BY <2>1, <2>4, <2>6, <3>1, <3>2
        <3>3. ASSUME NEW i \in q.found \ found
              PROVE  i \in 1 .. n /\ (i \in given => Forgotten(Reading(p)[i - 1], i, memory.mark))
            BY <2>1, <2>3, <3>1, <3>3
        <3> HIDE DEF s
        <3> QED BY <1>3, <2>1, <3>1, <3>2, <3>3 DEF ReadSoFar, q
    <2> QED BY <2>5, <2>6
<1> HIDE DEF S
<1>4. 0 .. items \subseteq S
    BY <1>1, <1>2, <1>3, Induction
<1> QED BY <1>4 DEF S

-----------------------------------------------------------------------------
LEMMA FeedFacts ==
    ASSUME FeedTypes
    PROVE  /\ items \in Nat /\ Suits(adapter)
           /\ memory \in Memories /\ found \in SUBSET Item /\ spilled \in SUBSET Item
           /\ recent \in Seq(Item) /\ given \in SUBSET Item
           /\ Here.memory = memory /\ Here.found = found
           /\ Here.spilled = spilled /\ Here.recent = recent
BY AdaptersSuit DEF FeedTypes, Here, ReadStates

(* The invariant depends on these only.                                    *)
feedState == <<adapter, items, upstream, memory, found, given, recent, spilled, aborted>>

LEMMA FeedsStand ==
    ASSUME IInvFeeds, UNCHANGED feedState, phase' \in {"idle", "polling", "off"},
           phase' # "polling" => found = {}, NothingToLose'
    PROVE  IInvFeeds'
<1>1. Here' = Here /\ Item' = Item /\ \A j : Home(j)' = Home(j)
    BY DEF feedState, Here, Item, Home
<1>2. ReadStates' = ReadStates
    BY <1>1 DEF feedState, ReadStates, Memories
<1>3. FeedTypes'
    BY <1>1, <1>2 DEF IInvFeeds, FeedTypes, feedState
<1>4. Faithful(Here)'
    <2>1. Faithful(Here)
        BY DEF IInvFeeds
    <2> QED BY <2>1, <1>1 DEF Faithful, Accounted, InGenerations, feedState
<1>5. DonePartsRead'
    BY <1>1 DEF IInvFeeds, DonePartsRead, feedState
<1> QED BY <1>3, <1>4, <1>5 DEF IInvFeeds, feedState

LEMMA UpstreamChanges ==
    ASSUME IInvFeeds, NEW i \in Item, NEW s \in Conditions, Becomes(i, s),
           s = "bare" => adapter.bare # "kept", s # "unlisted",
           s = "listed" => upstream[i] = "unlisted"
    PROVE  IInvFeeds'
<1>1. /\ FeedTypes /\ Faithful(Here) /\ DonePartsRead
      /\ upstream \in [Item -> Conditions]
    BY DEF IInvFeeds, FeedTypes
<1>2. /\ UNCHANGED <<adapter, items, memory, found, given, recent, spilled, aborted, phase, asking>>
      /\ upstream' = [upstream EXCEPT ![i] = s]
    BY DEF Becomes
<1>3. /\ upstream' \in [Item -> Conditions] /\ upstream'[i] = s
      /\ \A j \in Item : j # i => upstream'[j] = upstream[j]
    BY <1>1, <1>2
<1>4. Here' = Here /\ Item' = Item /\ \A j : Home(j)' = Home(j)
    BY <1>2 DEF Here, Item, Home
<1>5. ReadStates' = ReadStates
    BY <1>2, <1>4 DEF ReadStates, Memories
<1>6. FeedTypes'
    BY <1>1, <1>2, <1>3, <1>4, <1>5 DEF FeedTypes
<1>7. ASSUME NEW j \in memory.seen \cup memory.older
      PROVE  upstream'[j] # "unlisted" /\ Accounted(j, found)'
    <2>1. j \in Item
        BY <1>1, FeedFacts DEF Memories
    <2>2. upstream[j] # "unlisted" /\ Accounted(j, found)
        BY <1>1, FeedFacts DEF Faithful
    <2> QED BY <1>2, <1>3, <2>1, <2>2 DEF Accounted
<1>8. Faithful(Here)'
    BY <1>1, <1>2, <1>4, <1>7, FeedFacts DEF Faithful, InGenerations
<1>9. DonePartsRead'
    <2> SUFFICES ASSUME NEW p \in memory.done
                 PROVE  \E j \in Item : /\ Home(j) = p
                                        /\ j \in given \cup found \/ upstream'[j] \in {"bare", "mended", "gone"}
        BY <1>2, <1>4 DEF DonePartsRead
    <2>1. PICK j \in Item : Home(j) = p /\ (j \in given \cup found \/ upstream[j] \in {"bare", "mended", "gone"})
        BY <1>1 DEF DonePartsRead
    <2>2. j \in given \cup found \/ upstream'[j] \in {"bare", "mended", "gone"}
        BY <1>3, <2>1 DEF Conditions
    <2> QED BY <2>1, <2>2
<1> QED BY <1>2, <1>6, <1>8, <1>9 DEF IInvFeeds, NothingToLose

LEMMA OneRequest ==
    ASSUME NEW X, NEW f \in Seq(X), NEW g \in Seq(X), Len(f) + Len(g) = 1
    PROVE  Tail(f \o g \o <<>>) = <<>>
<1>1. f \o g \in Seq(X) /\ Len(f \o g) = 1
    BY ConcatProperties
<1>2. f \o g \o <<>> = f \o g
    BY <1>1, ConcatEmptySeq
<1>3. f \o g # <<>>
    BY <1>1
<1>4. Tail(f \o g) \in Seq(X) /\ Len(Tail(f \o g)) = 0
    BY <1>1, <1>3, HeadTailProperties
<1> QED BY <1>2, <1>4, EmptySeq

LEMMA PollBegins == ASSUME IInvFeeds, BeginPoll PROVE IInvFeeds'
<1>1. FeedTypes /\ found = {}
    BY DEF IInvFeeds, BeginPoll
<1>2. UNCHANGED feedState /\ phase' = "polling" /\ found' = {}
    BY <1>1 DEF BeginPoll, feedState
<1>3. ASSUME Brief(adapter) PROVE Tail(asking') = <<>>
    <2> DEFINE g == [k \in 1 .. adapter.each |->
                          adapter.rota[1 + ((turn + k - 1) % Len(adapter.rota))]]
    <2>1. asking' = adapter.first \o g \o <<>>
        BY <1>3 DEF BeginPoll, Brief
    <2> DEFINE X == {1} \cup {adapter.rota[1 + ((turn + k - 1) % Len(adapter.rota))] : k \in 1 .. adapter.each}
    <2>2. adapter.each \in Nat
        BY <1>3 DEF Brief
    <2>3. g \in [1 .. adapter.each -> X]
        OBVIOUS
    <2> HIDE DEF g, X
    <2>4. g \in Seq(X) /\ Len(g) = adapter.each
        <3>1. \A n \in Nat : \A h \in [1 .. n -> X] : h \in Seq(X) /\ Len(h) = n
            OBVIOUS
        <3> QED BY <2>2, <2>3, <3>1
    <2>5. <<1>> \in Seq(X) /\ <<>> \in Seq(X) /\ Len(<<1>>) = 1 /\ Len(<<>>) = 0
        BY DEF X
    <2>6. adapter.first \in Seq(X) /\ Len(adapter.first) + Len(g) = 1
        <3>1. CASE adapter.first = <<1>> /\ adapter.each = 0
            BY <2>4, <2>5, <3>1
        <3>2. CASE adapter.first = <<>> /\ adapter.each = 1
            BY <2>4, <2>5, <3>2
        <3> QED BY <1>3, <3>1, <3>2 DEF Brief
    <2> QED BY <2>1, <2>4, <2>6, OneRequest
<1>4. NothingToLose'
    BY <1>1, <1>2, <1>3, FeedFacts DEF NothingToLose, Suits, feedState, MayAbort
<1> QED BY <1>2, <1>4, FeedsStand

LEMMA AnswerComes == ASSUME IInvFeeds, NEW p \in Nat, Answer(p) PROVE IInvFeeds'
<1> DEFINE s == Reading(p)[items]
           read == IF adapter.stops /\ Answered(p) # {}
                   THEN [s.memory EXCEPT !.done = @ \cup {p}] ELSE s.memory
<1>1. /\ FeedTypes /\ Faithful(Here) /\ DonePartsRead /\ NothingToLose /\ items \in Nat
      /\ phase = "polling" /\ asking # <<>>
    BY DEF IInvFeeds, FeedTypes, Answer
<1>2. /\ UNCHANGED <<adapter, items, upstream, given, aborted, phase>>
      /\ memory' = read /\ found' = s.found /\ spilled' = s.spilled /\ recent' = s.recent
      /\ asking' = Ended(Tail(asking), s)
    BY DEF Answer
<1>3. ReadSoFar(p, items)
    BY <1>1, ReadingFacts
<1>4. /\ s \in ReadStates /\ Faithful(s) /\ s.memory.done = memory.done /\ found \subseteq s.found
      /\ adapter.stops => \A i \in Answered(p) : upstream[i] # "listed" \/ i \in given \cup s.found
      /\ \A i \in s.found \ found : i \in given => Forgotten(Reading(p)[i - 1], i, memory.mark)
    <2>1. \A i \in Answered(p) : i <= items
        BY <1>1, AnsweredFacts DEF Item
    <2> QED BY <1>3, <2>1 DEF ReadSoFar
<1> HIDE DEF s
<1>5. /\ s.memory \in Memories /\ read \in Memories
      /\ read.seen = s.memory.seen /\ read.older = s.memory.older /\ read.mark = s.memory.mark
      /\ read.done \subseteq memory.done \cup {p}
      /\ p \in read.done \ memory.done => adapter.stops /\ Answered(p) # {}
      /\ ~adapter.stops => read = s.memory
    <2>1. s.memory \in Memories
        BY <1>4 DEF ReadStates
    <2> QED BY <1>4, <2>1 DEF Memories
<1> HIDE DEF read
<1>6. Item' = Item /\ \A j : Home(j)' = Home(j)
    BY <1>2 DEF Item, Home
<1>7. ReadStates' = ReadStates
    BY <1>2, <1>6 DEF ReadStates, Memories
<1>8. /\ Here' \in ReadStates /\ Here'.memory = read /\ Here'.found = s.found
      /\ Here'.spilled = s.spilled /\ Here'.recent = s.recent
    BY <1>2, <1>4, <1>5 DEF Here, ReadStates
<1>9. FeedTypes'
    BY <1>1, <1>2, <1>6, <1>7, <1>8 DEF FeedTypes
<1>10. adapter.stops => adapter.keeps = "set"
    BY <1>1, FeedFacts DEF Suits
<1>11. Faithful(Here)'
    <2>1. /\ \A i \in read.seen \cup read.older : upstream[i] # "unlisted" /\ Accounted(i, s.found)
          /\ adapter.keeps = "nothing" => read = Unread
        BY <1>4, <1>5, <1>10 DEF Faithful
    <2>2. /\ adapter.keeps = "set" =>
                /\ read.older = {} /\ read.mark = 0
                /\ given \cup s.found \subseteq read.seen \cup s.spilled
          /\ adapter.keeps = "mark" =>
                /\ read.seen = {} /\ read.older = {} /\ read.mark \in given \cup s.found \cup {0}
                /\ given \cup s.found \subseteq 0 .. read.mark
        BY <1>4, <1>5 DEF Faithful
    <2>3. adapter.keeps = "generations" => read.mark = 0 /\ InGenerations(read, s.recent)
        BY <1>4, <1>5 DEF Faithful, InGenerations
    <2>4. ~adapter.stops => read.done = {}
        BY <1>4, <1>5 DEF Faithful
    <2>5. \A i \in Here'.memory.seen \cup Here'.memory.older :
              upstream'[i] # "unlisted" /\ Accounted(i, Here.found)'
        BY <1>2, <1>8, <2>1 DEF Accounted
    <2>6. /\ adapter'.keeps = "nothing" => Here'.memory = Unread
          /\ ~adapter'.stops => Here'.memory.done = {}
        BY <1>2, <1>8, <2>1, <2>4
    <2>7. /\ adapter'.keeps = "set" =>
                /\ Here'.memory.older = {} /\ Here'.memory.mark = 0
                /\ given' \cup Here'.found \subseteq Here'.memory.seen \cup Here'.spilled
          /\ adapter'.keeps = "mark" =>
                /\ Here'.memory.seen = {} /\ Here'.memory.older = {}
                /\ Here'.memory.mark \in given' \cup Here'.found \cup {0}
                /\ given' \cup Here'.found \subseteq 0 .. Here'.memory.mark
        BY <1>2, <1>8, <2>2
    <2>8. adapter'.keeps = "generations" =>
              Here'.memory.mark = 0 /\ InGenerations(Here.memory, Here.recent)'
        BY <1>2, <1>8, <2>3 DEF InGenerations
    <2> QED BY <2>5, <2>6, <2>7, <2>8 DEF Faithful, Unread
<1>12. DonePartsRead'
    <2> SUFFICES ASSUME NEW d \in read.done
                 PROVE  \E j \in Item : /\ Home(j) = d
                                        /\ j \in given \cup s.found \/ upstream[j] \in {"bare", "mended", "gone"}
        BY <1>2, <1>6 DEF DonePartsRead
    <2>1. CASE d \in memory.done
        BY <1>1, <1>4, <2>1 DEF DonePartsRead
    <2>2. CASE d \notin memory.done
        <3>1. d = p /\ adapter.stops /\ Answered(p) # {}
            BY <1>5, <2>2
        <3>2. PICK j \in Answered(p) : TRUE
            BY <3>1
        <3>3. j \in Item /\ Home(j) = p /\ upstream[j] \in {"listed", "bare", "mended"}
            BY <3>2 DEF Answered, Listed
        <3>4. upstream[j] # "listed" \/ j \in given \cup s.found
            BY <1>4, <3>1
        <3> QED BY <3>1, <3>3, <3>4
    <2> QED BY <2>1, <2>2
<1>13. NothingToLose'
    BY <1>1, <1>2 DEF NothingToLose, Ended, MayAbort
<1>14. adapter.keeps = "mark" => s.found \cap given = {}
    <2> SUFFICES ASSUME adapter.keeps = "mark", NEW i \in s.found, i \in given PROVE FALSE
        OBVIOUS
    <2>1. i \notin found
        BY DEF IInvFeeds
    <2>2. i > memory.mark
        BY <1>4, <2>1 DEF Forgotten
    <2>3. i \in 0 .. memory.mark /\ memory.mark \in Nat
        BY <1>1, FeedFacts DEF Faithful, Memories
    <2> QED BY <2>2, <2>3
<1> QED BY <1>1, <1>2, <1>9, <1>11, <1>12, <1>13, <1>14 DEF IInvFeeds

(* A request that brings nothing: what an aborted poll had collected is    *)
(* lost only where nothing is remembered, or by nuclear.rs.                *)
LEMMA PollAborts ==
    ASSUME IInvFeeds, asking # <<>>, MayAbort(adapter), Abort,
           UNCHANGED <<adapter, items, upstream, memory, given, recent, spilled>>
    PROVE  IInvFeeds'
<1>1. /\ FeedTypes /\ Faithful(Here) /\ NothingToLose /\ Suits(adapter)
      /\ phase' \in {"idle", "off"} /\ asking' = <<>> /\ found' = {} /\ aborted' = aborted \cup found
    BY FeedFacts DEF IInvFeeds, Abort
<1>2. NothingToLose'
    BY <1>1 DEF NothingToLose
<1>3. CASE found = {}
    BY <1>1, <1>2, <1>3, FeedsStand DEF feedState
<1>4. CASE found # {}
    <2>1. adapter.keeps = "nothing" \/ (adapter = Nuclear /\ adapter.keeps = "set")
        BY <1>1, <1>4 DEF NothingToLose, Suits
    <2>2. ~adapter.stops /\ memory.done = {}
        BY <1>1, FeedFacts DEF Suits, Faithful
    <2>3. Item' = Item /\ \A j : Home(j)' = Home(j)
        BY DEF Item, Home
    <2>4. /\ Here' \in ReadStates' /\ Here'.memory = memory /\ Here'.found = {}
          /\ Here'.spilled = spilled /\ Here'.recent = recent
        BY <1>1, <2>3, FeedFacts DEF Here, ReadStates, Memories
    <2>5. FeedTypes'
        BY <1>1, <2>3, <2>4, FeedFacts DEF FeedTypes
    <2>6. ASSUME NEW i \in memory.seen \cup memory.older
          PROVE  upstream[i] # "unlisted" /\ Accounted(i, {})'
        <3>1. upstream[i] # "unlisted" /\ Accounted(i, found)
            BY <1>1, FeedFacts DEF Faithful
        <3>2. adapter.keeps # "nothing"
            BY <1>1, FeedFacts DEF Faithful, Unread
        <3> QED BY <1>1, <2>1, <3>1, <3>2 DEF Accounted
    <2>7. Faithful(Here)'
        BY <1>1, <2>1, <2>2, <2>4, <2>6, FeedFacts DEF Faithful, Accounted, Unread
    <2> QED BY <1>1, <1>2, <2>2, <2>5, <2>7 DEF IInvFeeds, DonePartsRead
<1> QED BY <1>3, <1>4

LEMMA TroubleComes ==
    ASSUME IInvFeeds, phase = "polling", asking # <<>>, NEW what, Trouble(what),
           what = "abort" => MayAbort(adapter),
           UNCHANGED <<adapter, items, upstream, memory, given, recent, spilled>>
    PROVE  IInvFeeds'
<1>1. CASE what = "abort" /\ Abort
    BY <1>1, PollAborts
<1>2. CASE Skip
    BY <1>2, FeedsStand DEF Skip, feedState, IInvFeeds, NothingToLose, MayAbort
<1>3. CASE End
    BY <1>3, FeedsStand DEF End, feedState, NothingToLose
<1> QED BY <1>1, <1>2, <1>3 DEF Trouble

LEMMA RequestEnds == ASSUME IInvFeeds, NEW p \in Nat, Answer(p) \/ Refuse(p) \/ Fail(p) PROVE IInvFeeds'
<1>1. CASE Answer(p)
    BY <1>1, AnswerComes
<1>2. CASE Refuse(p)
    <2>1. PICK what : Trouble(what) /\ (what = "abort" => MayAbort(adapter))
        BY <1>2 DEF Refuse, MayAbort
    <2> QED BY <1>2, <2>1, TroubleComes DEF Refuse
<1>3. CASE Fail(p)
    <2>1. PICK what \in adapter.failed : Trouble(what)
        BY <1>3 DEF Fail
    <2>2. what = "abort" => MayAbort(adapter)
        BY <2>1 DEF MayAbort
    <2> QED BY <1>3, <2>1, <2>2, TroubleComes DEF Fail
<1> QED BY <1>1, <1>2, <1>3

LEMMA PollEnds == ASSUME IInvFeeds, EndPoll PROVE IInvFeeds'
<1>1. /\ FeedTypes /\ Faithful(Here) /\ DonePartsRead /\ Suits(adapter) /\ memory \in Memories
      /\ UNCHANGED <<adapter, items, upstream, recent, aborted>>
      /\ memory' = Tidied(memory) /\ spilled' = spilled \cup (memory.seen \ Tidied(memory).seen)
      /\ given' = given \cup found /\ found' = {} /\ phase' = "idle" /\ asking' = <<>>
    BY FeedFacts DEF IInvFeeds, EndPoll
<1> DEFINE m == Tidied(memory)
<1>2. /\ m \in Memories /\ m.older = memory.older /\ m.mark = memory.mark
      /\ m.seen \subseteq memory.seen /\ m.done \subseteq memory.done
      /\ adapter.keeps # "set" => m = memory
    BY <1>1 DEF Tidied, Memories
<1> HIDE DEF m
<1>3. Item' = Item /\ \A j : Home(j)' = Home(j)
    BY <1>1 DEF Item, Home
<1>4. /\ Here' \in ReadStates' /\ Here'.memory = m /\ Here'.found = {}
      /\ Here'.spilled = spilled \cup (memory.seen \ m.seen) /\ Here'.recent = recent
    <2>1. spilled \cup (memory.seen \ m.seen) \in SUBSET Item
        BY <1>1, FeedFacts DEF Memories
    <2>2. Here' = [memory |-> m, found |-> {}, spilled |-> spilled \cup (memory.seen \ m.seen),
                   recent |-> recent]
        BY <1>1 DEF Here, m
    <2>3. ReadStates' = ReadStates
        BY <1>1, <1>3 DEF ReadStates, Memories
    <2> QED BY <1>1, <1>2, <2>1, <2>2, <2>3, FeedFacts DEF ReadStates
<1>5. given' \subseteq Item
    BY <1>1, FeedFacts
<1>6. FeedTypes'
    BY <1>1, <1>3, <1>4, <1>5 DEF FeedTypes
<1>7. \A i \in memory.seen \cup memory.older : upstream'[i] # "unlisted" /\ Accounted(i, {})'
    BY <1>1, FeedFacts DEF Faithful, Accounted
<1>8. /\ adapter.keeps = "nothing" => m = Unread
      /\ adapter.keeps = "set" => /\ m.older = {} /\ m.mark = 0
                                  /\ given \cup found \subseteq m.seen \cup (spilled \cup (memory.seen \ m.seen))
      /\ adapter.keeps = "generations" => m.mark = 0 /\ InGenerations(m, recent)
      /\ adapter.keeps = "mark" => /\ m.seen = {} /\ m.older = {} /\ m.mark \in given \cup found \cup {0}
                                   /\ given \cup found \subseteq 0 .. m.mark
      /\ ~adapter.stops => m.done = {}
    BY <1>1, <1>2, FeedFacts DEF Faithful
<1>9. /\ adapter'.keeps = "nothing" => Here'.memory = Unread
      /\ adapter'.keeps = "set" =>
            /\ Here'.memory.older = {} /\ Here'.memory.mark = 0
            /\ given' \cup Here'.found \subseteq Here'.memory.seen \cup Here'.spilled
      /\ adapter'.keeps = "generations" =>
            Here'.memory.mark = 0 /\ InGenerations(Here.memory, Here.recent)'
      /\ adapter'.keeps = "mark" =>
            /\ Here'.memory.seen = {} /\ Here'.memory.older = {}
            /\ Here'.memory.mark \in given' \cup Here'.found \cup {0}
            /\ given' \cup Here'.found \subseteq 0 .. Here'.memory.mark
      /\ ~adapter'.stops => Here'.memory.done = {}
    BY <1>1, <1>4, <1>8 DEF InGenerations
<1>10. \A i \in Here'.memory.seen \cup Here'.memory.older :
           upstream'[i] # "unlisted" /\ Accounted(i, Here.found)'
    BY <1>2, <1>4, <1>7 DEF Accounted
<1>11. Faithful(Here)'
    BY <1>9, <1>10 DEF Faithful, Unread
<1>12. DonePartsRead'
    <2> SUFFICES ASSUME NEW p \in m.done
                 PROVE  \E j \in Item : /\ Home(j) = p
                                        /\ j \in given \cup found \/ upstream[j] \in {"bare", "mended", "gone"}
        BY <1>1, <1>3 DEF DonePartsRead, m
    <2> QED BY <1>1, <1>2 DEF DonePartsRead
<1>13. NothingToLose'
    BY <1>1 DEF NothingToLose
<1> QED BY <1>1, <1>6, <1>11, <1>12, <1>13 DEF IInvFeeds

LEMMA UnreadFacts ==
    /\ Unread.seen = {} /\ Unread.older = {} /\ Unread.mark = 0 /\ Unread.done = {}
    /\ items \in Nat => Unread \in Memories
BY DEF Unread, Memories

(* At the start, of the program and of its history.                        *)
Started ==
    /\ adapter \in Adapters /\ items \in Nat /\ items <= MaxItems
    /\ upstream \in [Item -> Conditions]
    /\ \A i \in Item : upstream[i] = "bare" => adapter.bare # "kept"
    /\ memory = Unread /\ phase = "idle" /\ asking = <<>> /\ found = {}
    /\ given = {} /\ recent = <<>> /\ spilled = {} /\ aborted = {}

LEMMA StartsEmpty == Started => IInvFeeds
<1> SUFFICES ASSUME Started PROVE IInvFeeds
    OBVIOUS
<1> USE DEF Started
<1>1. Here \in ReadStates
    BY UnreadFacts DEF Here, ReadStates
<1>2. Here.memory = Unread /\ Here.found = {} /\ Here.recent = <<>>
    BY DEF Here
<1>3. FeedTypes
    BY <1>1 DEF FeedTypes
<1>4. InGenerations(Unread, <<>>)
    <2>1. Len(<<>>) = 0
        OBVIOUS
    <2> QED BY <2>1, UnreadFacts, FS_EmptySet, FeedBounds DEF InGenerations
<1>5. Faithful(Here)
    BY <1>2, <1>4, UnreadFacts DEF Faithful
<1> QED BY <1>3, <1>5, UnreadFacts DEF IInvFeeds, DonePartsRead, NothingToLose

LEMMA RestartsEmpty == ASSUME IInvFeeds, Restart PROVE IInvFeeds'
<1>1. Started'
    <2>1. Item' = Item
        BY DEF Item, Restart
    <2> QED BY <2>1 DEF Started, Restart, IInvFeeds, FeedTypes
<1>2. Started' => IInvFeeds'
    BY StartsEmpty, PTL
<1> QED BY <1>1, <1>2

LEMMA FeedsStep == ASSUME IInvFeeds, Next PROVE IInvFeeds'
<1>1. FeedTypes
    BY DEF IInvFeeds
<1>2. ASSUME NEW i \in Item, Publish(i) PROVE IInvFeeds'
    <2>1. PICK s \in {"listed"} \cup (IF adapter.bare = "kept" THEN {} ELSE {"bare"}) : Becomes(i, s)
        BY <1>2 DEF Publish
    <2> QED BY <1>2, <2>1, UpstreamChanges DEF Publish, Conditions
<1>3. ASSUME NEW i \in Item, Mend(i) PROVE IInvFeeds'
    BY <1>3, UpstreamChanges DEF Mend, Conditions
<1>4. ASSUME NEW i \in Item, Withdraw(i) PROVE IInvFeeds'
    BY <1>4, UpstreamChanges DEF Withdraw, Conditions
<1>5. CASE BeginPoll
    BY <1>5, PollBegins
<1>6. ASSUME NEW p \in 1 .. adapter.parts, Answer(p) \/ Refuse(p) \/ Fail(p) PROVE IInvFeeds'
    <2>1. p \in Nat
        BY <1>6
    <2> QED BY <1>6, <2>1, RequestEnds
<1>7. CASE Rested
    BY <1>7, FeedsStand DEF Rested, feedState, IInvFeeds, FeedTypes, NothingToLose
<1>8. CASE Restart
    BY <1>8, RestartsEmpty
<1>9. CASE EndPoll
    BY <1>9, PollEnds
<1> QED BY <1>2, <1>3, <1>4, <1>5, <1>6, <1>7, <1>8, <1>9 DEF Next, Quiet, Request

LEMMA SwallowedFollows == ASSUME IInvFeeds PROVE SwallowedOnlyBy
<1> SUFFICES ASSUME phase = "idle", NEW i \in Listed \ given, Ignored(i)
             PROVE  \/ adapter.bare = "swallowed" /\ upstream[i] # "listed"
                    \/ adapter.keeps = "mark" /\ \E j \in given : j > i
                    \/ adapter = ImbPiracy /\ \E j \in Item \ {i} :
                          Home(j) = Home(i) /\ (j \in given \/ upstream[j] \in {"bare", "mended", "gone"})
                    \/ adapter = Nuclear /\ i \in aborted
    BY DEF SwallowedOnlyBy
<1>1. /\ FeedTypes /\ Faithful(Here) /\ DonePartsRead /\ found = {}
      /\ i \in Item /\ upstream[i] \in {"listed", "bare", "mended"}
    BY DEF IInvFeeds, Listed
<1>2. CASE i \in memory.seen \cup memory.older
    <2>1. Accounted(i, {})
        BY <1>1, <1>2, FeedFacts DEF Faithful
    <2> QED BY <2>1 DEF Accounted
<1>3. CASE i <= memory.mark
    <2>1. adapter.keeps = "mark"
        <3>1. memory.mark # 0
            BY <1>1, <1>3 DEF Item, FeedTypes
        <3> QED BY <1>1, <3>1, FeedFacts, UnreadFacts DEF Faithful, Suits
    <2>2. memory.mark \in given \cup {0}
        BY <1>1, <2>1, FeedFacts DEF Faithful
    <2>3. i # memory.mark /\ memory.mark \in given
        BY <1>1, <1>3, <2>2 DEF Item, FeedTypes
    <2>4. memory.mark > i
        BY <1>1, <1>3, <2>3, FeedFacts DEF Item, Memories
    <2> QED BY <2>1, <2>3, <2>4
<1>4. CASE Home(i) \in memory.done
    <2>1. adapter = ImbPiracy /\ adapter.bare = "swallowed"
        BY <1>1, <1>4, FeedFacts DEF Faithful, Suits
    <2>2. PICK j \in Item : Home(j) = Home(i) /\ (j \in given \/ upstream[j] \in {"bare", "mended", "gone"})
        BY <1>1, <1>4 DEF DonePartsRead
    <2>3. CASE j = i
        BY <1>1, <2>1, <2>2, <2>3
    <2>4. CASE j # i
        BY <2>1, <2>2, <2>4
    <2> QED BY <2>3, <2>4
<1> QED BY <1>2, <1>3, <1>4 DEF Ignored

LEMMA RepeatedStep ==
    ASSUME IInvFeeds, Next
    PROVE  \A i \in (found' \ found) \cap given :
              LET before == Reading(Head(asking))[i - 1] IN
              CASE adapter.keeps = "nothing"     -> TRUE
                [] adapter.keeps = "set"         -> i \in before.spilled
                [] adapter.keeps = "generations" -> i \notin Range(before.recent)
                [] adapter.keeps = "mark"        -> FALSE
<1> SUFFICES ASSUME NEW i \in found', i \notin found, i \in given
             PROVE  LET before == Reading(Head(asking))[i - 1] IN
                    CASE adapter.keeps = "nothing"     -> TRUE
                      [] adapter.keeps = "set"         -> i \in before.spilled
                      [] adapter.keeps = "generations" -> i \notin Range(before.recent)
                      [] adapter.keeps = "mark"        -> FALSE
    OBVIOUS
<1>1. PICK p \in Nat : Answer(p)
    <2>1. ASSUME NEW p \in 1 .. adapter.parts, Refuse(p) \/ Fail(p) PROVE FALSE
        BY <2>1 DEF Refuse, Fail, Trouble, Abort, Skip, End
    <2>2. ASSUME NEW j \in Item, Publish(j) \/ Mend(j) \/ Withdraw(j) PROVE FALSE
        BY <2>2 DEF Publish, Mend, Withdraw, Becomes
    <2>3. ~BeginPoll /\ ~Rested /\ ~Restart /\ ~EndPoll
        BY DEF BeginPoll, Rested, Restart, EndPoll
    <2> QED BY <2>1, <2>2, <2>3 DEF Next, Quiet, Request
<1>2. FeedTypes /\ Faithful(Here) /\ Head(asking) = p /\ found' = Reading(p)[items].found
    BY <1>1 DEF IInvFeeds, Answer
<1>3. ReadSoFar(p, items)
    BY <1>2, ReadingFacts, FeedFacts
<1>4. Forgotten(Reading(p)[i - 1], i, memory.mark)
    BY <1>2, <1>3 DEF ReadSoFar
<1>5. adapter.keeps # "mark"
    <2> SUFFICES ASSUME adapter.keeps = "mark" PROVE FALSE
        OBVIOUS
    <2>1. i > memory.mark /\ i \in 0 .. memory.mark /\ memory.mark \in Nat
        BY <1>2, <1>4, FeedFacts DEF Faithful, Forgotten, Memories
    <2> QED BY <2>1
<1>6. adapter.keeps \in {"nothing", "set", "generations", "mark"}
    BY <1>2, FeedFacts DEF Suits
<1> QED BY <1>2, <1>4, <1>5, <1>6 DEF Forgotten

-----------------------------------------------------------------------------
(* Streams: the inductive invariant.                                       *)
StreamSuits(s) ==
    /\ s.resumes \in {"live", "cursor", "polls"}
    /\ s.resumes = "cursor" => s.retries /\ ~s.barred /\ ~s.merges
    /\ s.resumes = "polls" => ~s.merges

LEMMA StreamsSuit == \A s \in Streams!Followed : StreamSuits(s)
<1> USE DEF StreamSuits, Streams!Live
<1>1. StreamSuits(Streams!Ais) /\ StreamSuits(Streams!CertStream) /\ StreamSuits(Streams!Shodan)
    BY DEF Streams!Ais, Streams!CertStream, Streams!Shodan
<1>2. StreamSuits(Streams!Bgp) /\ StreamSuits(Streams!Bluesky) /\ StreamSuits(Streams!Telegram)
    BY DEF Streams!Bgp, Streams!Bluesky, Streams!Telegram
<1> HIDE DEF StreamSuits
<1> QED BY <1>1, <1>2 DEF Streams!Followed

(* The messages up to this one have been read, or missed.                  *)
Behind == sent - Len(wire)

StreamTypes ==
    /\ stream \in Streams!Followed /\ sent \in Nat /\ cursor \in 0 .. sent
    /\ given \subseteq 1 .. sent
    /\ wire \in Seq(Nat) /\ Len(wire) <= sent /\ \A k \in 1 .. Len(wire) : wire[k] = Behind + k
    /\ wire # <<>> => link = "up" /\ stream.resumes # "polls"
    /\ link \in {"joining", "seeding", "dead"} \/ due => stream.resumes = "polls"
    /\ stream.resumes = "cursor" => link \in {"down", "up", "mute", "deaf"}

(* What a stream that only listens has passed is broadcast or lost.        *)
ListensInOrder == stream.resumes = "live" =>
    /\ given \subseteq 1 .. Behind
    /\ \A s \in known : stream.merges /\ \E j \in given : Streams!Subject(j) = s
    /\ \A i \in 1 .. Behind : i \in given \/ Streams!Lost(i)

(* The cursor is the newest message broadcast, and a connection brings     *)
(* what comes after it, at most with the message itself.                   *)
ResumesAtCursor == stream.resumes = "cursor" =>
    /\ cursor = 0 => given = {}
    /\ cursor # 0 => /\ cursor \in given /\ given \subseteq 1 .. cursor
                     /\ link = "up" => Behind \in {cursor - 1, cursor}
    /\ \A i \in 1 .. sent : \/ i \in given \/ Streams!Lost(i)
                            \/ i > IF cursor = 0 THEN Behind ELSE cursor

(* Polls have reached what lies below the newest message known.            *)
PollsInOrder == stream.resumes = "polls" =>
    /\ link \in {"up", "dead"} /\ cursor # 0 => given \subseteq 1 .. cursor
    /\ \A i \in 1 .. sent : \/ i \in given \cup outage \cup cut
                            \/ link \in {"up", "dead"} /\ i > cursor

IInvStreams == StreamTypes /\ ListensInOrder /\ ResumesAtCursor /\ PollsInOrder

LEMMA WireFacts ==
    ASSUME StreamTypes
    PROVE  /\ sent \in Nat /\ cursor \in Nat /\ Len(wire) \in Nat /\ Behind \in 0 .. sent
           /\ given \in SUBSET (1 .. sent) /\ StreamSuits(stream)
           /\ Range(wire) = Behind + 1 .. sent
           /\ wire # <<>> => /\ Behind < sent /\ Head(wire) = Behind + 1
                             /\ Tail(wire) \in Seq(Nat) /\ Len(Tail(wire)) = Len(wire) - 1
                             /\ \A k \in 1 .. Len(Tail(wire)) : Tail(wire)[k] = Behind + 1 + k
           /\ wire = <<>> => Behind = sent
<1> DEFINE n == Len(wire)
           b == Behind
<1>1. /\ sent \in Nat /\ cursor \in Nat /\ n \in Nat /\ n <= sent /\ wire \in Seq(Nat) /\ b = sent - n
      /\ DOMAIN wire = 1 .. n /\ \A k \in 1 .. n : wire[k] = b + k
    BY DEF StreamTypes, Behind
<1>2. b \in 0 .. sent
    BY <1>1
<1>3. Range(wire) = b + 1 .. sent
    <2> HIDE DEF n, b
    <2>1. \A k \in 1 .. n : b + k \in b + 1 .. sent
        BY <1>1, <1>2
    <2>2. \A i \in b + 1 .. sent : i - b \in 1 .. n /\ b + (i - b) = i
        BY <1>1, <1>2
    <2>3. ASSUME NEW i \in b + 1 .. sent PROVE \E k \in DOMAIN wire : wire[k] = i
        <3> DEFINE k == i - b
        <3>1. k \in 1 .. n /\ b + k = i
            BY <2>2
        <3> HIDE DEF k
        <3> QED BY <1>1, <3>1
    <2> QED BY <1>1, <2>1, <2>3 DEF Range
<1>4. ASSUME wire # <<>>
      PROVE  /\ b < sent /\ Head(wire) = b + 1
             /\ Tail(wire) \in Seq(Nat) /\ Len(Tail(wire)) = n - 1
             /\ \A k \in 1 .. Len(Tail(wire)) : Tail(wire)[k] = b + 1 + k
    <2>1. /\ n # 0 /\ Head(wire) = wire[1] /\ Tail(wire) \in Seq(Nat) /\ Len(Tail(wire)) = n - 1
          /\ \A k \in 1 .. n - 1 : Tail(wire)[k] = wire[k + 1]
        BY <1>1, <1>4, HeadTailProperties, EmptySeq
    <2> HIDE DEF n, b
    <2>2. 1 \in 1 .. n /\ \A k \in 1 .. n - 1 : k + 1 \in 1 .. n
        BY <1>1, <2>1
    <2>3. \A k \in 1 .. n - 1 : Tail(wire)[k] = b + (k + 1) /\ b + (k + 1) = b + 1 + k
        BY <1>1, <1>2, <2>1, <2>2
    <2> QED BY <1>1, <1>2, <2>1, <2>2, <2>3
<1>5. wire = <<>> => n = 0 /\ b = sent
    BY <1>1
<1> QED BY <1>1, <1>2, <1>3, <1>4, <1>5, StreamsSuit DEF StreamTypes

(* Only the place where the stream stands changes, and a backfill may      *)
(* broadcast.                                                              *)
LEMMA StreamMoves ==
    ASSUME IInvStreams, UNCHANGED <<stream, sent, wire, cursor, outage, cut>>,
           given \subseteq given', given' \subseteq 1 .. sent, known' \subseteq known,
           stream.resumes # "polls" => given' = given /\ link' = link,
           link \in {"up", "dead"} <=> link' \in {"up", "dead"},
           link \in {"up", "dead"} => given' = given,
           due' => stream.resumes = "polls"
    PROVE  IInvStreams'
<1>1. StreamTypes /\ ListensInOrder /\ ResumesAtCursor /\ PollsInOrder /\ StreamSuits(stream)
    BY WireFacts DEF IInvStreams
<1>2. Behind' = Behind
    BY DEF Behind
<1>3. StreamTypes'
    BY <1>1, <1>2 DEF StreamTypes
<1>4. ListensInOrder'
    BY <1>1, <1>2 DEF ListensInOrder, Streams!Lost
<1>5. ResumesAtCursor'
    BY <1>1, <1>2 DEF ResumesAtCursor, Streams!Lost
<1>6. PollsInOrder'
    BY <1>1 DEF PollsInOrder
<1> QED BY <1>3, <1>4, <1>5, <1>6 DEF IInvStreams

LEMMA StreamPublishes == ASSUME IInvStreams, Streams!Publish PROVE IInvStreams'
<1>1. /\ StreamTypes /\ ListensInOrder /\ ResumesAtCursor /\ PollsInOrder
      /\ StreamSuits(stream) /\ sent \in Nat /\ Len(wire) \in Nat /\ cursor \in 0 .. sent
      /\ given \in SUBSET (1 .. sent) /\ wire \in Seq(Nat) /\ Behind \in 0 .. sent
      /\ wire = <<>> => Behind = sent
    BY WireFacts DEF IInvStreams, StreamTypes
<1>2. /\ sent' = sent + 1
      /\ wire' = IF link = "up" /\ stream.resumes # "polls" THEN Append(wire, sent + 1) ELSE wire
      /\ outage' = IF link \in {"up", "dead"} THEN outage ELSE outage \cup {sent + 1}
      /\ UNCHANGED <<stream, link, cursor, known, due, given, cut>>
    BY DEF Streams!Publish
<1>3. \A i \in 1 .. sent' : i \in 1 .. sent \/ i = sent + 1
    BY <1>1, <1>2
<1>4. CASE link = "up" /\ stream.resumes # "polls"
    <2>1. /\ wire' \in Seq(Nat) /\ Len(wire') = Len(wire) + 1
          /\ wire'[Len(wire) + 1] = sent + 1 /\ \A k \in 1 .. Len(wire) : wire'[k] = wire[k]
        BY <1>1, <1>2, <1>4, AppendProperties
    <2>2. Behind' = Behind /\ Behind + (Len(wire) + 1) = sent + 1
        BY <1>1, <1>2, <2>1 DEF Behind
    <2>3. \A k \in 1 .. Len(wire') : wire'[k] = Behind' + k
        <3> SUFFICES ASSUME NEW k \in 1 .. Len(wire) + 1 PROVE wire'[k] = Behind + k
            BY <2>1, <2>2
        <3>1. CASE k \in 1 .. Len(wire)
            BY <1>1, <2>1, <3>1 DEF StreamTypes
        <3>2. CASE k = Len(wire) + 1
            BY <2>1, <2>2, <3>2
        <3> QED BY <1>1, <3>1, <3>2
    <2>4. StreamTypes'
        <3>1. Len(wire') <= sent' /\ cursor \in 0 .. sent' /\ given \subseteq 1 .. sent'
            BY <1>1, <1>2, <2>1 DEF StreamTypes
        <3> QED BY <1>1, <1>2, <1>4, <2>1, <2>3, <3>1 DEF StreamTypes
    <2>5. ListensInOrder'
        BY <1>1, <1>2, <1>4, <2>2 DEF ListensInOrder, Streams!Lost
    <2>6. ResumesAtCursor'
        <3>1. sent + 1 > (IF cursor = 0 THEN Behind ELSE cursor)
            BY <1>1
        <3> QED BY <1>1, <1>2, <1>3, <1>4, <2>2, <3>1 DEF ResumesAtCursor, Streams!Lost
    <2> QED BY <1>2, <1>4, <2>4, <2>5, <2>6 DEF IInvStreams, PollsInOrder
<1>5. CASE ~(link = "up" /\ stream.resumes # "polls")
    <2>1. wire = <<>> /\ wire' = <<>> /\ Behind = sent /\ Behind' = sent + 1 /\ Len(wire') = 0
        <3>1. wire = <<>> /\ wire' = <<>>
            BY <1>1, <1>2, <1>5 DEF StreamTypes
        <3>2. Len(wire') = 0
            BY <3>1
        <3> QED BY <1>1, <1>2, <3>1, <3>2 DEF Behind
    <2>2. StreamTypes'
        <3>1. Len(wire') <= sent' /\ cursor \in 0 .. sent' /\ given \subseteq 1 .. sent'
            BY <1>1, <1>2, <2>1 DEF StreamTypes
        <3> QED BY <1>1, <1>2, <1>5, <2>1, <3>1 DEF StreamTypes
    <2>3. stream.resumes # "polls" => outage' = outage \cup {sent + 1}
        BY <1>1, <1>2, <1>5 DEF StreamTypes
    <2>4. ListensInOrder'
        <3> SUFFICES ASSUME stream.resumes = "live" PROVE ListensInOrder'
            BY <1>2 DEF ListensInOrder
        <3>1. given \subseteq 1 .. Behind'
            BY <1>1, <2>1
        <3>2. \A i \in 1 .. Behind' : i \in given \/ Streams!Lost(i)'
            BY <1>1, <1>2, <1>3, <2>1, <2>3 DEF ListensInOrder, Streams!Lost
        <3> QED BY <1>1, <1>2, <3>1, <3>2 DEF ListensInOrder
    <2>5. ResumesAtCursor'
        <3> SUFFICES ASSUME stream.resumes = "cursor" PROVE ResumesAtCursor'
            BY <1>2 DEF ResumesAtCursor
        <3>1. ASSUME NEW i \in 1 .. sent'
              PROVE  \/ i \in given \/ Streams!Lost(i)'
                     \/ i > IF cursor = 0 THEN Behind' ELSE cursor
            <4>1. CASE i \in 1 .. sent
                <5>1. \/ i \in given \/ Streams!Lost(i)
                      \/ i > IF cursor = 0 THEN Behind ELSE cursor
                    BY <1>1, <4>1 DEF ResumesAtCursor
                <5>2. Streams!Lost(i) => Streams!Lost(i)'
                    BY <1>2, <2>3 DEF Streams!Lost
                <5> QED BY <1>1, <2>1, <4>1, <5>1, <5>2
            <4>2. CASE i = sent + 1
                <5>1. cursor = 0 => Streams!Lost(i)'
                    BY <1>1, <1>2, <2>3, <4>2 DEF ResumesAtCursor, Streams!Lost
                <5>2. sent + 1 > cursor
                    BY <1>1
                <5> QED BY <4>2, <5>1, <5>2
            <4> QED BY <1>3, <4>1, <4>2
        <3> QED BY <1>1, <1>2, <1>5, <3>1 DEF ResumesAtCursor
    <2>6. PollsInOrder'
        BY <1>1, <1>2, <1>3 DEF PollsInOrder
    <2> QED BY <2>2, <2>4, <2>5, <2>6 DEF IInvStreams
<1> QED BY <1>4, <1>5

LEMMA NothingComes == ASSUME wire' = <<>>, UNCHANGED sent, sent \in Nat
                      PROVE  wire' \in Seq(Nat) /\ Len(wire') = 0 /\ Behind' = sent
<1>1. Len(wire') = 0
    OBVIOUS
<1> QED BY <1>1 DEF Behind

LEMMA StreamConnects == ASSUME IInvStreams, Streams!Connect PROVE IInvStreams'
<1>1. /\ StreamTypes /\ ListensInOrder /\ ResumesAtCursor /\ PollsInOrder
      /\ StreamSuits(stream) /\ sent \in Nat /\ cursor \in Nat /\ cursor <= sent
      /\ given \in SUBSET (1 .. sent) /\ wire = <<>> /\ Behind = sent /\ link = "down"
    BY WireFacts DEF IInvStreams, StreamTypes, Streams!Connect
<1>2. /\ link' = (IF stream.resumes = "polls" THEN "joining" ELSE "up")
      /\ wire' \in Streams!Resumed(cursor)
      /\ cursor' = (IF stream.resumes = "polls" THEN 0 ELSE cursor)
      /\ known' = {} /\ due' = FALSE /\ UNCHANGED <<stream, sent, given, outage, cut>>
    BY DEF Streams!Connect
<1>3. CASE stream.resumes = "cursor" /\ cursor # 0
    <2>1. PICK c \in {cursor - 1, cursor} : wire' = [k \in 1 .. sent - c |-> c + k]
        BY <1>2, <1>3 DEF Streams!Resumed
    <2> DEFINE n == sent - c
    <2>2. n \in Nat /\ c \in Nat /\ sent - n = c /\ n <= sent
        BY <1>1, <1>3
    <2>3. wire' = [k \in 1 .. n |-> c + k] /\ \A k \in 1 .. n : c + k \in Nat
        BY <2>1, <2>2
    <2> HIDE DEF n
    <2>4. wire' \in Seq(Nat) /\ Len(wire') = n /\ \A k \in 1 .. n : wire'[k] = c + k
        BY <2>2, <2>3
    <2>5. Behind' = c
        BY <1>2, <2>2, <2>4 DEF Behind
    <2>6. StreamTypes'
        BY <1>1, <1>2, <1>3, <2>2, <2>4, <2>5 DEF StreamTypes
    <2>7. ResumesAtCursor'
        BY <1>1, <1>2, <1>3, <2>5 DEF ResumesAtCursor, Streams!Lost
    <2> QED BY <1>2, <1>3, <2>6, <2>7 DEF IInvStreams, ListensInOrder, PollsInOrder
<1>4. CASE ~(stream.resumes = "cursor" /\ cursor # 0)
    <2>1. wire' = <<>>
        BY <1>2, <1>4 DEF Streams!Resumed
    <2>2. wire' \in Seq(Nat) /\ Len(wire') = 0 /\ Behind' = sent
        BY <1>1, <1>2, <2>1, NothingComes
    <2>3. StreamTypes'
        BY <1>1, <1>2, <2>1, <2>2 DEF StreamTypes, StreamSuits
    <2>4. ListensInOrder'
        BY <1>1, <1>2, <2>2 DEF ListensInOrder, Streams!Lost
    <2>5. ResumesAtCursor'
        BY <1>1, <1>2, <1>4, <2>2 DEF ResumesAtCursor, Streams!Lost
    <2>6. PollsInOrder'
        BY <1>1, <1>2 DEF PollsInOrder
    <2> QED BY <2>3, <2>4, <2>5, <2>6 DEF IInvStreams
<1> QED BY <1>3, <1>4

LEMMA StreamLapses ==
    ASSUME IInvStreams, NEW places, Streams!Lapse(places), link' \in {"down", "mute", "over"},
           stream.resumes = "cursor" => link' # "over",
           UNCHANGED <<stream, sent, cursor, known, given, cut>>
    PROVE  IInvStreams'
<1>1. /\ StreamTypes /\ ListensInOrder /\ ResumesAtCursor /\ PollsInOrder
      /\ StreamSuits(stream) /\ sent \in Nat /\ cursor \in Nat /\ cursor <= sent
      /\ given \in SUBSET (1 .. sent) /\ Range(wire) = Behind + 1 .. sent /\ Behind \in 0 .. sent
    BY WireFacts DEF IInvStreams, StreamTypes
<1>2. /\ wire' = <<>> /\ due' = FALSE /\ outage \subseteq outage' /\ Range(wire) \subseteq outage'
      /\ stream.resumes = "polls" => {i \in 1 .. sent : i > cursor} \subseteq outage'
    BY DEF Streams!Lapse, Streams!Published, Streams!Range, Range
<1>3. wire' \in Seq(Nat) /\ Len(wire') = 0 /\ Behind' = sent
    BY <1>1, <1>2, NothingComes
<1>4. StreamTypes'
    BY <1>1, <1>2, <1>3 DEF StreamTypes
<1>5. \A i \in 1 .. sent : i <= Behind \/ i \in outage'
    BY <1>1, <1>2
<1>6. ListensInOrder'
    <2> SUFFICES ASSUME stream.resumes = "live" PROVE ListensInOrder'
        BY DEF ListensInOrder
    <2>1. ASSUME NEW i \in 1 .. sent PROVE i \in given \/ Streams!Lost(i)'
        <3>1. CASE i \in 1 .. Behind
            BY <1>1, <1>2, <3>1 DEF ListensInOrder, Streams!Lost
        <3>2. CASE i \in outage'
            BY <3>2 DEF Streams!Lost
        <3> QED BY <1>1, <1>5, <3>1, <3>2
    <2> QED BY <1>1, <1>3, <2>1 DEF ListensInOrder
<1>7. ResumesAtCursor'
    <2> SUFFICES ASSUME stream.resumes = "cursor" PROVE ResumesAtCursor'
        BY DEF ResumesAtCursor
    <2>1. ASSUME NEW i \in 1 .. sent
          PROVE  i \in given \/ Streams!Lost(i)' \/ i > IF cursor = 0 THEN sent ELSE cursor
        <3>1. Streams!Lost(i) => Streams!Lost(i)'
            BY <1>2 DEF Streams!Lost
        <3>2. ASSUME cursor = 0, ~(i <= Behind) PROVE Streams!Lost(i)'
            BY <1>1, <1>5, <3>2 DEF ResumesAtCursor, Streams!Lost
        <3> QED BY <1>1, <3>1, <3>2 DEF ResumesAtCursor
    <2> QED BY <1>1, <1>3, <2>1 DEF ResumesAtCursor
<1>8. PollsInOrder'
    BY <1>1, <1>2 DEF PollsInOrder
<1> QED BY <1>4, <1>6, <1>7, <1>8 DEF IInvStreams

LEMMA StreamReads == ASSUME IInvStreams, Streams!Read PROVE IInvStreams'
<1> DEFINE i == Head(wire)
<1>1. /\ StreamTypes /\ ListensInOrder /\ ResumesAtCursor
      /\ StreamSuits(stream) /\ sent \in Nat /\ cursor \in Nat /\ cursor <= sent
      /\ Len(wire) \in Nat /\ Len(wire) <= sent
      /\ given \in SUBSET (1 .. sent) /\ Behind \in 0 .. sent /\ Behind < sent /\ i = Behind + 1
      /\ Tail(wire) \in Seq(Nat) /\ Len(Tail(wire)) = Len(wire) - 1
      /\ \A k \in 1 .. Len(Tail(wire)) : Tail(wire)[k] = Behind + 1 + k
      /\ link = "up" /\ stream.resumes # "polls"
    BY WireFacts DEF IInvStreams, StreamTypes, Streams!Read
<1>2. /\ given' = given \cup Streams!Heard(i) /\ wire' = Tail(wire)
      /\ known' = (IF stream.merges THEN known \cup {Streams!Subject(i)} ELSE known)
      /\ cursor' = (IF stream.resumes = "cursor" THEN i ELSE cursor)
      /\ UNCHANGED <<stream, sent, link, due, outage, cut>>
    BY DEF Streams!Read, Streams!Broadcast
<1>3. /\ Streams!Heard(i) = {i} \/ (/\ Streams!Heard(i) = {} /\ stream.merges
                                    /\ Streams!Subject(i) \in known)
      /\ ~stream.merges => Streams!Heard(i) = {i}
    BY DEF Streams!Heard
<1> HIDE DEF i
<1>4. Behind' = i /\ Behind' = Behind + 1 /\ Len(wire') <= sent /\ i \in 1 .. sent
    BY <1>1, <1>2 DEF Behind
<1>5. StreamTypes'
    <2>1. given' \subseteq 1 .. sent
        BY <1>1, <1>2, <1>3, <1>4
    <2>2. cursor' \in 0 .. sent
        BY <1>1, <1>2, <1>4
    <2> QED BY <1>1, <1>2, <1>4, <2>1, <2>2 DEF StreamTypes
<1>6. ASSUME stream.resumes = "live" PROVE ListensInOrder'
    <2>1. given' \subseteq 1 .. Behind'
        <3>1. given \subseteq 1 .. Behind
            BY <1>1, <1>6 DEF ListensInOrder
        <3>2. \A j \in given : j \in 1 .. Behind + 1
            BY <1>1, <3>1
        <3>3. i \in 1 .. Behind + 1
            BY <1>1
        <3> QED BY <1>2, <1>3, <1>4, <3>2, <3>3
    <2>2. ASSUME NEW s \in known' PROVE stream.merges /\ \E j \in given' : Streams!Subject(j) = s
        <3>1. CASE s \in known
            BY <1>1, <1>2, <1>6, <3>1 DEF ListensInOrder
        <3>2. CASE s \notin known
            BY <1>2, <1>3, <2>2, <3>2
        <3> QED BY <3>1, <3>2
    <2>3. ASSUME NEW j \in 1 .. Behind' PROVE j \in given' \/ Streams!Lost(j)'
        <3>1. CASE j \in 1 .. Behind
            BY <1>1, <1>2, <1>6, <3>1 DEF ListensInOrder, Streams!Lost
        <3>2. CASE j = i
            <4>1. CASE Streams!Heard(i) = {i}
                BY <1>2, <3>2, <4>1
            <4>2. CASE stream.merges /\ Streams!Subject(i) \in known
                <5>1. PICK q \in given : Streams!Subject(q) = Streams!Subject(i)
                    BY <1>1, <1>6, <4>2 DEF ListensInOrder
                <5>2. q < i
                    BY <1>1, <1>6 DEF ListensInOrder
                <5> QED BY <1>2, <1>6, <3>2, <4>2, <5>1, <5>2 DEF Streams!Lost
            <4> QED BY <1>3, <4>1, <4>2
        <3> QED BY <1>1, <1>4, <3>1, <3>2
    <2> QED BY <1>2, <2>1, <2>2, <2>3 DEF ListensInOrder
<1>7. ASSUME stream.resumes = "cursor" PROVE ResumesAtCursor'
    <2>1. given' = given \cup {i} /\ cursor' = i /\ i # 0
        BY <1>1, <1>2, <1>3, <1>4, <1>7 DEF StreamSuits
    <2>2. \A j \in given : j <= i
        BY <1>1, <1>7 DEF ResumesAtCursor
    <2>3. given' \subseteq 1 .. i
        BY <1>1, <1>4, <2>1, <2>2
    <2>4. ASSUME NEW j \in 1 .. sent PROVE j \in given' \/ Streams!Lost(j)' \/ j > i
        <3>0. j <= i \/ j > i
            BY <1>4
        <3> SUFFICES ASSUME j <= i, j # i PROVE j \in given' \/ Streams!Lost(j)'
            BY <3>0, <2>1
        <3>1. ~(j > IF cursor = 0 THEN Behind ELSE cursor)
            BY <1>1, <1>7 DEF ResumesAtCursor
        <3>2. j \in given \/ Streams!Lost(j)
            BY <1>1, <1>7, <3>1 DEF ResumesAtCursor
        <3>3. i > j
            BY <1>4
        <3>4. Streams!Lost(j) => Streams!Lost(j)'
            BY <1>2, <1>7, <2>1, <3>3 DEF Streams!Lost
        <3> QED BY <2>1, <3>2, <3>4
    <2> QED BY <1>2, <1>4, <2>1, <2>3, <2>4 DEF ResumesAtCursor
<1> QED BY <1>1, <1>2, <1>5, <1>6, <1>7 DEF IInvStreams, ListensInOrder, ResumesAtCursor, PollsInOrder

(* Telegram looks up the newest message, or fails to.                      *)
LEMMA StreamSeeds == ASSUME IInvStreams, Streams!Seed PROVE IInvStreams'
<1>1. /\ StreamTypes /\ PollsInOrder /\ sent \in Nat /\ given \in SUBSET (1 .. sent)
      /\ link = "seeding" /\ stream.resumes = "polls"
      /\ cursor' \in {0, sent} /\ link' = "up" /\ UNCHANGED <<stream, sent, wire, known, due, given, outage, cut>>
    BY WireFacts DEF IInvStreams, StreamTypes, Streams!Seed
<1>2. StreamTypes'
    BY <1>1 DEF StreamTypes, Behind
<1>3. PollsInOrder'
    BY <1>1 DEF PollsInOrder
<1> QED BY <1>1, <1>2, <1>3 DEF IInvStreams, ListensInOrder, ResumesAtCursor

(* Some of the newest messages are collected: then none is newer.          *)
LEMMA NewestCollected ==
    ASSUME StreamTypes, NEW n \in Nat, NEW read, read = {i \in Streams!Page : i > sent - n}
    PROVE  /\ read \subseteq 1 .. sent /\ \A i \in read : i > cursor
           /\ Streams!Marked(cursor, read) \in {cursor, sent}
           /\ Streams!Marked(cursor, read) \in read \/ (read = {} /\ Streams!Marked(cursor, read) = cursor)
<1>1. sent \in Nat /\ cursor \in Nat /\ Limit \in Nat /\ Limit > 0
    BY WireFacts, SourcesAssumption DEF Streams!StreamsAssumption
<1>2. read \subseteq 1 .. sent /\ \A i \in read : i > cursor
    BY DEF Streams!Page, Streams!Published
<1>3. CASE read = {}
    BY <1>2, <1>3 DEF Streams!Marked
<1>4. CASE read # {}
    <2>1. PICK i \in read : i \in 1 .. sent /\ i > cursor /\ i > sent - n
        BY <1>2, <1>4
    <2>2. sent > cursor /\ sent > sent - n /\ sent + Limit > sent /\ sent \in 1 .. sent
        BY <1>1, <2>1
    <2>3. sent \in read
        BY <2>2 DEF Streams!Page, Streams!Published
    <2>4. \A j \in read : sent >= j
        BY <1>1, <1>2
    <2>5. Streams!Newest(read) = sent
        <3> DEFINE t == CHOOSE j \in read : \A k \in read : j >= k
        <3>1. t \in read /\ \A k \in read : t >= k
            BY <2>3, <2>4
        <3>2. t \in 1 .. sent /\ t >= sent
            BY <1>2, <2>3, <3>1
        <3> HIDE DEF t
        <3>3. t = sent
            BY <1>1, <3>2
        <3> QED BY <3>3 DEF Streams!Newest, t
    <2> QED BY <1>2, <1>4, <2>3, <2>5 DEF Streams!Marked
<1> QED BY <1>3, <1>4

LEMMA StreamCollects ==
    ASSUME IInvStreams, stream.resumes = "polls", link \in {"up", "dead"},
           NEW n \in Nat, NEW read, read = {i \in Streams!Page : i > sent - n}, Streams!Collect(read),
           due' = FALSE, outage \subseteq outage',
           link' \in {"up", "dead"} \/ (link' = "down" /\ {i \in 1 .. sent : i > cursor'} \subseteq outage'),
           UNCHANGED <<stream, sent, wire, known>>
    PROVE  IInvStreams'
<1>1. /\ StreamTypes /\ PollsInOrder /\ sent \in Nat /\ cursor \in Nat /\ cursor <= sent
      /\ given \in SUBSET (1 .. sent) /\ wire = <<>>
    BY WireFacts DEF IInvStreams, StreamTypes
<1>2. /\ given' = given \cup read /\ cursor' = Streams!Marked(cursor, read)
      /\ cut' = cut \cup {i \in (1 .. sent) \ read : cursor < i /\ i < cursor'}
    BY DEF Streams!Collect, Streams!Broadcast, Streams!Published
<1>3. /\ read \subseteq 1 .. sent /\ \A i \in read : i > cursor
      /\ cursor' \in {cursor, sent} /\ (cursor' \in read \/ (read = {} /\ cursor' = cursor))
    BY <1>1, <1>2, NewestCollected
<1>4. StreamTypes'
    <2>1. given' \subseteq 1 .. sent
        BY <1>1, <1>2, <1>3
    <2>2. cursor' \in 0 .. sent
        BY <1>1, <1>3
    <2> QED BY <1>1, <2>1, <2>2 DEF StreamTypes, Behind
<1>5. PollsInOrder'
    <2>1. ASSUME cursor' # 0 PROVE given' \subseteq 1 .. cursor'
        <3>1. CASE cursor' = sent
            BY <1>1, <1>2, <1>3, <3>1
        <3>2. CASE read = {} /\ cursor' = cursor
            BY <1>1, <1>2, <2>1, <3>2 DEF PollsInOrder
        <3> QED BY <1>3, <3>1, <3>2
    <2>2. ASSUME NEW i \in 1 .. sent
          PROVE  i \in given' \cup outage' \cup cut' \/ (link' \in {"up", "dead"} /\ i > cursor')
        <3>1. i \in given \cup outage \cup cut \/ i > cursor
            BY <1>1 DEF PollsInOrder
        <3>2. CASE i \in given \cup outage \cup cut
            BY <1>2, <3>2
        <3>3. CASE i > cursor /\ i < cursor'
            BY <1>2, <3>3
        <3>4. CASE i > cursor /\ i = cursor'
            BY <1>1, <1>2, <1>3, <3>4
        <3>5. CASE i > cursor'
            BY <3>5
        <3>6. cursor' \in Nat
            BY <1>1, <1>3
        <3> QED BY <3>1, <3>2, <3>3, <3>4, <3>5, <3>6
    <2> QED BY <2>1, <2>2 DEF PollsInOrder
<1> QED BY <1>4, <1>5 DEF IInvStreams, ListensInOrder, ResumesAtCursor

LEMMA StreamPolls == ASSUME IInvStreams, Streams!Poll \/ Streams!FailedPoll PROVE IInvStreams'
<1>1. /\ due /\ due' = FALSE /\ stream.resumes = "polls" /\ sent \in Nat /\ cursor \in Nat
    BY WireFacts DEF IInvStreams, StreamTypes, Streams!Poll, Streams!FailedPoll
<1>2. CASE Streams!Poll
    <2>1. Streams!Page = {i \in Streams!Page : i > sent - sent}
        BY <1>1 DEF Streams!Page, Streams!Published
    <2> QED BY <1>1, <1>2, <2>1, StreamCollects DEF Streams!Poll
<1>3. CASE Streams!FailedPoll
    <2>1. \/ link' = "down" /\ outage' = outage \cup {i \in 1 .. sent : i > cursor'}
          \/ UNCHANGED <<link, outage>>
        BY <1>3 DEF Streams!FailedPoll, Streams!Reconnect, Streams!Published
    <2>2. IsFiniteSet(Streams!Page) /\ Cardinality(Streams!Page) \in Nat
        <3>1. IsFiniteSet(1 .. sent) /\ Streams!Page \subseteq 1 .. sent
            BY <1>1, FS_Interval DEF Streams!Page, Streams!Published
        <3> QED BY <3>1, FS_Subset, FS_CardinalityType
    <2>3. PICK n \in Nat : link \in {"up", "dead"} /\ Streams!Collect({i \in Streams!Page : i > sent - n})
        <3>1. CASE link = "up" /\ \E n \in 0 .. Cardinality(Streams!Page) :
                                     Streams!Collect({i \in Streams!Page : i > sent - n})
            <4>1. PICK n \in 0 .. Cardinality(Streams!Page) :
                      Streams!Collect({i \in Streams!Page : i > sent - n})
                BY <3>1
            <4>2. n \in Nat
                BY <2>2
            <4> QED BY <3>1, <4>1, <4>2
        <3>2. CASE link = "dead" /\ Streams!Collect({})
            <4>1. {i \in Streams!Page : i > sent - 0} = {}
                BY <1>1 DEF Streams!Page, Streams!Published
            <4> QED BY <3>2, <4>1
        <3> QED BY <1>3, <3>1, <3>2 DEF Streams!FailedPoll
    <2> QED BY <1>1, <1>3, <2>1, <2>3, StreamCollects DEF Streams!FailedPoll
<1> QED BY <1>2, <1>3

(* At the start, of the program and of its history.                        *)
StreamStarted ==
    /\ stream \in Streams!Followed /\ sent \in Nat /\ link \in Streams!Listening
    /\ wire = <<>> /\ cursor = 0 /\ known = {} /\ due = FALSE
    /\ given = {} /\ outage = 1 .. sent /\ cut = {}

LEMMA StreamStartsEmpty == StreamStarted => IInvStreams
<1> SUFFICES ASSUME StreamStarted PROVE IInvStreams
    OBVIOUS
<1> USE DEF StreamStarted
<1>1. Behind = sent
    BY DEF Behind
<1>2. Len(wire) = 0 /\ sent \in Nat
    OBVIOUS
<1>3. StreamTypes
    BY <1>1, <1>2 DEF StreamTypes, Streams!Listening
<1>4. ListensInOrder
    BY <1>1 DEF ListensInOrder, Streams!Lost
<1>5. ResumesAtCursor
    BY <1>1 DEF ResumesAtCursor, Streams!Lost
<1>6. PollsInOrder
    BY DEF PollsInOrder, Streams!Listening
<1> QED BY <1>3, <1>4, <1>5, <1>6 DEF IInvStreams

LEMMA StreamsAct == ASSUME IInvStreams, Streams!Next PROVE IInvStreams'
<1>1. StreamTypes /\ StreamSuits(stream) /\ sent \in Nat /\ given \in SUBSET (1 .. sent)
    BY WireFacts DEF IInvStreams
<1>2. CASE Streams!Publish
    BY <1>2, StreamPublishes
<1>3. CASE Streams!Connect
    BY <1>3, StreamConnects
<1>4. CASE Streams!Unresolved
    BY <1>1, <1>4, StreamMoves DEF Streams!Unresolved, StreamTypes
<1>5. CASE Streams!Disconnect
    <2>1. PICK places \in SUBSET {"down", "over", "mute"} :
              Streams!Lapse(places) /\ (stream.retries => "over" \notin places)
        BY <1>5 DEF Streams!Disconnect
    <2>2. link' \in places
        BY <2>1 DEF Streams!Lapse
    <2> QED BY <1>1, <1>5, <2>1, <2>2, StreamLapses DEF Streams!Disconnect, StreamSuits
<1>6. CASE Streams!Noticed
    <2>1. Streams!Lapse({"down"}) /\ link' = "down"
        BY <1>6 DEF Streams!Noticed, Streams!Lapse
    <2> QED BY <1>6, <2>1, StreamLapses DEF Streams!Noticed
<1>7. CASE Streams!Bar
    <2>1. PICK places \in SUBSET {"down", "over"} : Streams!Lapse(places)
        BY <1>7 DEF Streams!Bar
    <2>2. link' \in places /\ stream.barred
        BY <1>7, <2>1 DEF Streams!Lapse, Streams!Bar
    <2> QED BY <1>1, <1>7, <2>1, <2>2, StreamLapses DEF Streams!Bar, StreamSuits
<1>8. CASE Streams!Read
    BY <1>8, StreamReads
<1>9. ASSUME NEW s \in {0, 1}, Streams!Expire(s) PROVE IInvStreams'
    BY <1>1, <1>9, StreamMoves DEF Streams!Expire, StreamTypes
<1>10. CASE Streams!Backfill
    <2>1. given \subseteq given' /\ given' \subseteq 1 .. sent
        BY <1>1, <1>10 DEF Streams!Backfill, Streams!Broadcast, Streams!Published
    <2> QED BY <1>1, <1>10, <2>1, StreamMoves DEF Streams!Backfill, StreamTypes
<1>11. CASE Streams!Seed
    BY <1>11, StreamSeeds
<1>12. CASE Streams!Tick
    BY <1>1, <1>12, StreamMoves DEF Streams!Tick, StreamTypes
<1>13. CASE Streams!Poll \/ Streams!FailedPoll
    BY <1>13, StreamPolls
<1>14. CASE Streams!Die
    BY <1>1, <1>14, StreamMoves DEF Streams!Die, StreamTypes
<1>15. CASE Streams!Regain
    BY <1>1, <1>15, StreamMoves DEF Streams!Regain, StreamTypes
<1>16. CASE Streams!Restart
    <2>1. StreamStarted'
        BY <1>1, <1>16 DEF StreamStarted, Streams!Restart, StreamTypes, Streams!Published, Streams!Listening
    <2>2. StreamStarted' => IInvStreams'
        BY StreamStartsEmpty, PTL
    <2> QED BY <2>1, <2>2
<1> QED BY <1>2, <1>3, <1>4, <1>5, <1>6, <1>7, <1>8, <1>9, <1>10, <1>11, <1>12, <1>13, <1>14, <1>15, <1>16
        DEF Streams!Next

LEMMA SilentFollows == ASSUME IInvStreams PROVE Streams!SilentOnlyBy
<1> SUFFICES ASSUME link \notin {"deaf", "mute"}, NEW i \in 1 .. sent, i \notin given, ~Streams!Lost(i)
             PROVE  Streams!Coming(i)
    BY DEF Streams!SilentOnlyBy, Streams!Published
<1>1. /\ StreamTypes /\ ListensInOrder /\ ResumesAtCursor /\ PollsInOrder /\ StreamSuits(stream)
      /\ sent \in Nat /\ cursor \in Nat /\ Behind \in 0 .. sent /\ Range(wire) = Behind + 1 .. sent
      /\ wire = <<>> => Behind = sent
    BY WireFacts DEF IInvStreams
<1>2. \A j : j \in Streams!Range(wire) <=> j \in Range(wire)
    BY DEF Streams!Range, Range
<1>3. CASE stream.resumes = "live"
    <2>1. ~(i \in 1 .. Behind)
        BY <1>1, <1>3 DEF ListensInOrder
    <2>2. i \in Range(wire)
        BY <1>1, <2>1
    <2> QED BY <1>2, <1>3, <2>2 DEF Streams!Coming
<1>4. CASE stream.resumes = "cursor"
    <2>1. i > IF cursor = 0 THEN Behind ELSE cursor
        BY <1>1, <1>4 DEF ResumesAtCursor
    <2>2. link \in {"up", "down"}
        BY <1>1, <1>4 DEF StreamTypes
    <2>3. CASE link = "up"
        <3>1. i > Behind
            BY <1>1, <1>4, <2>1, <2>3 DEF ResumesAtCursor
        <3>2. i \in Range(wire)
            BY <1>1, <3>1
        <3> QED BY <1>2, <1>4, <2>3, <3>2 DEF Streams!Coming
    <2>4. CASE link = "down"
        <3>1. Behind = sent
            BY <1>1, <2>4 DEF StreamTypes
        <3>2. cursor # 0 /\ i > cursor
            BY <1>1, <2>1, <3>1
        <3> QED BY <1>4, <2>4, <3>2 DEF Streams!Coming
    <2> QED BY <2>2, <2>3, <2>4
<1>5. CASE stream.resumes = "polls"
    BY <1>1, <1>5 DEF PollsInOrder, Streams!Coming, Streams!Lost
<1> QED BY <1>1, <1>3, <1>4, <1>5 DEF StreamSuits

LEMMA AgainStep ==
    ASSUME IInvStreams, Streams!Next
    PROVE  \A i \in bus' \cap given :
              \/ link = "joining"
              \/ stream.resumes = "polls" /\ cursor = 0
              \/ stream.resumes = "cursor" /\ i = cursor
<1> SUFFICES ASSUME NEW i \in bus', i \in given, link # "joining"
             PROVE  \/ stream.resumes = "polls" /\ cursor = 0
                    \/ stream.resumes = "cursor" /\ i = cursor
    OBVIOUS
<1>1. /\ StreamTypes /\ ListensInOrder /\ ResumesAtCursor /\ PollsInOrder /\ StreamSuits(stream)
      /\ sent \in Nat /\ cursor \in Nat /\ Behind \in 0 .. sent
      /\ wire # <<>> => Head(wire) = Behind + 1
    BY WireFacts DEF IInvStreams
<1>2. Streams!Read \/ Streams!Poll \/ Streams!FailedPoll
    BY DEF Streams!Next, Streams!Publish, Streams!Connect, Streams!Unresolved, Streams!Disconnect,
           Streams!Noticed, Streams!Bar, Streams!Lapse, Streams!Expire, Streams!Backfill,
           Streams!Seed, Streams!Tick, Streams!Die, Streams!Regain, Streams!Restart
<1>3. CASE Streams!Read
    <2>1. i = Behind + 1 /\ stream.resumes # "polls" /\ link = "up"
        BY <1>1, <1>3 DEF Streams!Read, Streams!Broadcast, Streams!Heard, StreamTypes
    <2>2. stream.resumes # "live"
        BY <1>1, <2>1 DEF ListensInOrder
    <2>3. cursor # 0 /\ i <= cursor /\ Behind \in {cursor - 1, cursor}
        BY <1>1, <2>1, <2>2 DEF StreamSuits, ResumesAtCursor
    <2> QED BY <1>1, <2>1, <2>2, <2>3 DEF StreamSuits
<1>4. CASE Streams!Poll \/ Streams!FailedPoll
    <2>1. stream.resumes = "polls" /\ link \in {"up", "dead"} /\ i \in Streams!Page
        BY <1>1, <1>4 DEF Streams!Poll, Streams!FailedPoll, Streams!Collect, Streams!Broadcast, StreamTypes
    <2>2. i > cursor
        BY <2>1 DEF Streams!Page
    <2>3. cursor # 0 => i <= cursor
        BY <1>1, <2>1 DEF PollsInOrder
    <2> QED BY <1>1, <2>1, <2>2, <2>3 DEF Streams!Page, Streams!Published
<1> QED BY <1>2, <1>3, <1>4

-----------------------------------------------------------------------------
(* The table of events: its invariant.                                     *)
RowsKept ==
    /\ rows \in [1 .. MaxItems -> 0 .. 2] /\ written \subseteq 1 .. MaxItems
    /\ \A i \in 1 .. MaxItems : rows[i] > 0 => i \in written
    /\ naming.time = "day" => naming.id = "source"
    /\ RowMissingOnlyBy

LEMMA OneRowFacts ==
    /\ \A i, j : OneRow(i, j) => i = j \/ naming.id = "source"
    /\ \A i, j, k : OneRow(i, j) /\ OneRow(j, k) => OneRow(i, k)
    /\ \A i, j : i # j /\ OneRow(i, j) => naming.id = "source" /\ naming.time = "day"
    /\ \A i, j, k : i # j /\ OneRow(i, j) => (OneRow(i, k) <=> OneRow(j, k))
<1> QED BY DEF OneRow

LEMMA AfterFacts ==
    ASSUME RowsKept, NEW batch, NEW lost, rows' = After(batch, lost)
    PROVE  /\ rows' \in [1 .. MaxItems -> 0 .. 2]
           /\ \A i \in 1 .. MaxItems :
                 /\ New(i, batch \ lost) => rows'[i] = One(rows[i]) /\ rows'[i] > 0
                 /\ ~New(i, batch \ lost) => rows'[i] = rows[i]
                 /\ rows[i] > 0 => rows'[i] > 0
<1>1. rows \in [1 .. MaxItems -> 0 .. 2] /\ DOMAIN rows = 1 .. MaxItems
    BY DEF RowsKept
<1>2. \A n \in 0 .. 2 : One(n) \in 1 .. 2
    BY DEF One
<1>3. rows' = [i \in 1 .. MaxItems |-> IF New(i, batch \ lost) THEN One(rows[i]) ELSE rows[i]]
    BY <1>1 DEF After
<1>4. \A i \in 1 .. MaxItems : rows'[i] = IF New(i, batch \ lost) THEN One(rows[i]) ELSE rows[i]
    BY <1>3
<1>5. \A i \in 1 .. MaxItems : rows[i] \in 0 .. 2 /\ One(rows[i]) \in 1 .. 2
    BY <1>1, <1>2
<1>6. rows' \in [1 .. MaxItems -> 0 .. 2]
    BY <1>3, <1>5
<1>7. ASSUME NEW i \in 1 .. MaxItems
      PROVE  /\ New(i, batch \ lost) => rows'[i] = One(rows[i]) /\ rows'[i] > 0
             /\ ~New(i, batch \ lost) => rows'[i] = rows[i]
             /\ rows[i] > 0 => rows'[i] > 0
    <2>1. rows[i] \in 0 .. 2 /\ One(rows[i]) \in 1 .. 2
        BY <1>5
    <2>2. CASE New(i, batch \ lost)
        BY <1>4, <2>1, <2>2
    <2>3. CASE ~New(i, batch \ lost)
        BY <1>4, <2>3
    <2> QED BY <2>2, <2>3
<1> QED BY <1>6, <1>7

(* An event of a batch has a row of its own, or another has that row.      *)
LEMMA RowOrOther ==
    ASSUME RowsKept, NEW batch, batch \subseteq 1 .. MaxItems, NEW lost, rows' = After(batch, lost),
           NEW i \in batch \ lost, rows'[i] = 0
    PROVE  naming.id = "source" /\ \E j \in 1 .. MaxItems : j # i /\ rows'[j] > 0
<1> DEFINE B == batch \ lost
           S == {j \in B : OneRow(i, j) /\ j < i}
<1>1. /\ MaxItems \in Nat /\ DOMAIN rows = 1 .. MaxItems /\ B \subseteq 1 .. MaxItems /\ i \in B
      /\ rows \in [1 .. MaxItems -> 0 .. 2] /\ i \in Nat
    <2>1. MaxItems \in Nat
        BY SourcesAssumption
    <2>2. rows \in [1 .. MaxItems -> 0 .. 2] /\ DOMAIN rows = 1 .. MaxItems
        BY DEF RowsKept
    <2>3. B \subseteq 1 .. MaxItems /\ i \in B
        OBVIOUS
    <2> QED BY <2>1, <2>2, <2>3
<1> HIDE DEF B
<1>2. \A j \in 1 .. MaxItems : /\ New(j, B) => rows'[j] > 0
                               /\ ~New(j, B) => rows'[j] = rows[j]
                               /\ rows[j] > 0 => rows'[j] > 0
    BY AfterFacts DEF B
<1>3. i \in 1 .. MaxItems /\ ~New(i, B) /\ rows[i] = 0
    BY <1>1, <1>2
<1>4. CASE Present(i, rows)
    <2>1. PICK j \in 1 .. MaxItems : rows[j] > 0 /\ OneRow(i, j)
        BY <1>1, <1>4 DEF Present
    <2>2. j # i
        BY <1>3, <2>1
    <2> QED BY <1>2, <2>1, <2>2, OneRowFacts
<1>5. CASE ~Present(i, rows)
    <2>0. \E j \in B : j < i /\ OneRow(i, j)
        BY <1>1, <1>3, <1>5 DEF New
    <2>1. S # {} /\ S \subseteq Nat
        <3>1. S # {}
            BY <2>0
        <3>2. S \subseteq B /\ B \subseteq Nat
            BY <1>1
        <3> QED BY <3>1, <3>2
    <2>2. PICK j \in S : \A k \in S : j <= k
        <3> HIDE DEF S
        <3> QED BY <2>1, LeastElement
    <2>3. j \in B /\ OneRow(i, j) /\ j < i /\ j # i /\ j \in 1 .. MaxItems /\ j \in Nat
        BY <1>1, <2>1, <2>2
    <2>4. naming.id = "source"
        BY <2>3, OneRowFacts
    <2>5. CASE Present(j, rows)
        <3>1. PICK k \in 1 .. MaxItems : rows[k] > 0 /\ OneRow(j, k)
            BY <1>1, <2>5 DEF Present
        <3>2. k # i
            BY <1>3, <3>1
        <3> QED BY <1>2, <2>4, <3>1, <3>2
    <2>6. CASE ~Present(j, rows)
        <3>1. ASSUME NEW k \in B, k < j, OneRow(j, k) PROVE FALSE
            <4>1. OneRow(i, k) /\ k < i /\ k \in Nat
                BY <1>1, <2>3, <3>1, OneRowFacts
            <4>2. k \in S
                BY <4>1
            <4>3. j <= k
                BY <2>2, <4>2
            <4> QED BY <2>3, <3>1, <4>1, <4>3
        <3>2. New(j, B)
            BY <2>3, <2>6, <3>1 DEF New
        <3> QED BY <1>2, <2>3, <2>4, <3>2
    <2> QED BY <2>5, <2>6
<1> QED BY <1>4, <1>5

LEMMA BatchWritten ==
    ASSUME RowsKept, NEW batch, batch \subseteq 1 .. MaxItems, Persist(batch),
           \A i \in (1 .. MaxItems) \ batch : Overlooked(i) => Overlooked(i)'
    PROVE  RowsKept'
<1>1. PICK failed \in SUBSET ((batch \cap Unlucky) \ unwritten) :
          /\ \E same \in SUBSET {i \in batch \ failed :
                                  OneMoment(i, {j \in batch \ failed : j < i})} :
                rows' = After(batch, failed \cup same)
          /\ unwritten' = unwritten \cup failed /\ written' = written \cup batch
          /\ UNCHANGED naming
    BY DEF Persist
<1>2. PICK same \in SUBSET {i \in batch \ failed : OneMoment(i, {j \in batch \ failed : j < i})} :
          rows' = After(batch, failed \cup same)
    BY <1>1
<1> DEFINE lost == failed \cup same
<1>3. rows' = After(batch, lost)
    BY <1>2
<1> HIDE DEF lost
<1>4. /\ rows' \in [1 .. MaxItems -> 0 .. 2]
      /\ \A i \in 1 .. MaxItems :
            /\ New(i, batch \ lost) => rows'[i] > 0
            /\ ~New(i, batch \ lost) => rows'[i] = rows[i]
            /\ rows[i] > 0 => rows'[i] > 0
    BY <1>3, AfterFacts
<1>5. /\ MaxItems \in Nat /\ written \subseteq 1 .. MaxItems /\ RowMissingOnlyBy
      /\ DOMAIN rows = 1 .. MaxItems /\ DOMAIN rows' = 1 .. MaxItems
      /\ \A i \in 1 .. MaxItems : rows[i] > 0 => i \in written
      /\ \A i \in 1 .. MaxItems : rows[i] \in 0 .. 2
    BY <1>4, SourcesAssumption DEF RowsKept
<1>6. ASSUME NEW i \in 1 .. MaxItems, rows'[i] > 0 PROVE i \in written'
    BY <1>1, <1>4, <1>5, <1>6 DEF New
<1>7. ASSUME NEW i \in written', rows'[i] = 0, i \notin unwritten', ~(Overlooked(i)')
      PROVE  naming.id = "source" /\ \E j \in 1 .. MaxItems : j # i /\ rows'[j] > 0
    <2>1. CASE i \in written /\ i \notin batch
        <3>1. i \in 1 .. MaxItems /\ rows[i] = 0 /\ ~Overlooked(i)
            BY <1>4, <1>5, <1>7, <2>1
        <3>2. naming.id = "source" /\ \E j \in 1 .. MaxItems : j # i /\ rows[j] > 0
            BY <1>1, <1>5, <1>7, <2>1, <3>1 DEF RowMissingOnlyBy
        <3> QED BY <1>4, <3>2
    <2>2. CASE i \in batch /\ i \notin same
        <3>1. i \in batch \ lost
            BY <1>1, <1>7, <2>2 DEF lost
        <3>2. rows'[i] = 0 /\ batch \subseteq 1 .. MaxItems
            BY <1>7
        <3>3. \A k \in batch \ lost : rows'[k] = 0 =>
                  naming.id = "source" /\ \E j \in 1 .. MaxItems : j # k /\ rows'[j] > 0
            BY <1>3, RowOrOther
        <3> QED BY <3>1, <3>2, <3>3
    <2>3. CASE i \in same
        <3> DEFINE B == batch \ failed
        <3>1. i \in B /\ naming.id = "source" /\ naming.time = "now" /\ \E j \in B : j < i
            BY <1>2, <2>3 DEF OneMoment
        <3>2. B # {} /\ B \subseteq Nat
            BY <3>1
        <3>3. PICK j \in B : \A k \in B : j <= k
            <4> HIDE DEF B
            <4> QED BY <3>2, LeastElement
        <3>4. j \in 1 .. MaxItems /\ ~\E k \in B : k < j
            BY <3>2, <3>3
        <3>5. j \notin same
            BY <1>2, <3>4 DEF OneMoment
        <3>6. New(j, batch \ lost)
            <4>1. \A k : ~OneRow(j, k)
                BY <3>1 DEF OneRow
            <4> QED BY <3>3, <3>5, <4>1 DEF New, Present, lost
        <3>7. j # i
            BY <2>3, <3>5
        <3> QED BY <1>4, <3>1, <3>4, <3>6, <3>7
    <2> QED BY <1>1, <1>7, <2>1, <2>2, <2>3
<1>8. RowMissingOnlyBy'
    BY <1>1, <1>5, <1>7 DEF RowMissingOnlyBy
<1> QED BY <1>1, <1>4, <1>5, <1>6, <1>8 DEF RowsKept

(* A row more for an item that had one.                                    *)
LEMMA SecondRow ==
    ASSUME RowsKept, NEW batch, Persist(batch), NEW i \in DOMAIN rows, rows'[i] > 1, rows[i] <= 1
    PROVE  ~Steady(i) /\ i \in written /\ i \in batch
<1>1. PICK lost : rows' = After(batch, lost)
    BY DEF Persist
<1>2. /\ i \in 1 .. MaxItems /\ rows[i] \in 0 .. 2 /\ DOMAIN rows = 1 .. MaxItems
      /\ rows[i] > 0 => i \in written
      /\ naming.time = "day" => naming.id = "source"
    BY DEF RowsKept
<1>3. New(i, batch \ lost) /\ One(rows[i]) > 1
    <2>1. \A j \in 1 .. MaxItems :
              /\ New(j, batch \ lost) => rows'[j] = One(rows[j])
              /\ ~New(j, batch \ lost) => rows'[j] = rows[j]
        BY ONLY RowsKept, <1>1, AfterFacts
    <2> QED BY <1>2, <2>1
<1>4. rows[i] > 0 /\ i \in written
    BY <1>2, <1>3 DEF One
<1>5. ~OneRow(i, i)
    BY <1>2, <1>3, <1>4 DEF New, Present
<1>6. naming.time # "day"
    BY <1>2, <1>5 DEF OneRow
<1> QED BY <1>3, <1>4, <1>5, <1>6 DEF Steady, New

-----------------------------------------------------------------------------
(* The adapters over the table: a behaviour follows one adapter, of either *)
(* kind.                                                                   *)
IInvSources ==
    /\ kind \in {"polled", "stream"}
    /\ kind = "polled" => IInvFeeds /\ StreamsSleep
    /\ kind = "stream" => IInvStreams /\ FeedsSleep /\ sent <= Messages
    /\ RowsKept
    /\ waiting \in [1 .. MaxItems -> Nat]

LEMMA InitSources == SourcesInit => IInvSources
<1> SUFFICES ASSUME SourcesInit PROVE IInvSources
    OBVIOUS
<1>1. RowsKept
    <2>1. naming.time = "day" => naming.id = "source"
        <3>1. CASE \E c \in Cases : naming = c[3]
            BY <3>1, SourcesAssumption
        <3>2. CASE \E c \in Streaming : naming = c[2]
            BY <3>2, SourcesAssumption
        <3> QED BY <3>1, <3>2 DEF SourcesInit
    <2>2. rows = [i \in 1 .. MaxItems |-> 0] /\ written = {}
        BY DEF SourcesInit
    <2> QED BY <2>1, <2>2 DEF RowsKept, RowMissingOnlyBy
<1>4. waiting \in [1 .. MaxItems -> Nat]
    BY DEF SourcesInit
<1>2. CASE kind = "polled" /\ Init /\ StreamsSleep
    <2>1. PICK c \in Cases : adapter = c[1] /\ items = c[2]
        BY <1>2 DEF Init
    <2>2. adapter \in Adapters /\ items \in Nat /\ items <= MaxItems
        BY <2>1, FeedsAssumption, SourcesAssumption
    <2>3. Started
        BY <1>2, <2>2 DEF Init, Started, Conditions
    <2> QED BY <1>1, <1>2, <1>4, <2>3, StartsEmpty DEF IInvSources
<1>3. CASE kind = "stream" /\ Streams!Init /\ FeedsSleep
    <2>1. sent = 0 /\ Messages \in Nat
        BY <1>3, SourcesAssumption DEF Streams!Init, Streams!StreamsAssumption
    <2>2. StreamStarted
        BY <1>3, <2>1 DEF Streams!Init, StreamStarted
    <2> QED BY <1>1, <1>3, <1>4, <2>1, <2>2, StreamStartsEmpty DEF IInvSources
<1> QED BY <1>2, <1>3 DEF SourcesInit

(* What a step broadcasts are items of the adapter.                        *)
LEMMA FoundBounds ==
    ASSUME IInvFeeds
    PROVE  found \subseteq 1 .. MaxItems
<1>1. /\ items \in Nat /\ items <= MaxItems /\ MaxItems \in Nat /\ found \subseteq 1 .. items
    BY FeedFacts, SourcesAssumption DEF IInvFeeds, FeedTypes, Item
<1> QED BY <1>1

LEMMA BusBounds ==
    ASSUME IInvStreams, Streams!Next, sent <= Messages
    PROVE  bus' \subseteq 1 .. MaxItems /\ sent' <= Messages
<1>1. sent \in Nat /\ Messages \in Nat /\ MaxItems \in Nat /\ Messages <= MaxItems
    BY WireFacts, SourcesAssumption DEF IInvStreams, Streams!StreamsAssumption
<1>2. bus' \subseteq given'
    BY DEF Streams!Next, Streams!Publish, Streams!Connect, Streams!Unresolved, Streams!Disconnect,
           Streams!Noticed, Streams!Bar, Streams!Lapse, Streams!Expire, Streams!Backfill,
           Streams!Seed, Streams!Tick, Streams!Die, Streams!Regain, Streams!Restart, Streams!Read,
           Streams!Poll, Streams!FailedPoll, Streams!Collect, Streams!Broadcast
<1>3. sent' \in {sent, sent + 1} /\ (sent' # sent => sent < Messages)
    BY DEF Streams!Next, Streams!Publish, Streams!Connect, Streams!Unresolved, Streams!Disconnect,
           Streams!Noticed, Streams!Bar, Streams!Expire, Streams!Backfill,
           Streams!Seed, Streams!Tick, Streams!Die, Streams!Regain, Streams!Restart, Streams!Read,
           Streams!Poll, Streams!FailedPoll
<1>4. given' \subseteq 1 .. sent'
    BY StreamsAct DEF IInvStreams, StreamTypes
<1> QED BY <1>1, <1>2, <1>3, <1>4

LEMMA AdaptersStand ==
    ASSUME UNCHANGED <<kind, vars, streamVars>>
    PROVE  /\ IInvFeeds => IInvFeeds'
           /\ IInvStreams => IInvStreams'
           /\ StreamsSleep => StreamsSleep'
           /\ FeedsSleep => FeedsSleep'
           /\ sent' = sent
<1>1. IInvFeeds => IInvFeeds'
    BY FeedsStand DEF vars, feedState, IInvFeeds, FeedTypes, NothingToLose
<1>2. IInvStreams => IInvStreams'
    <2> SUFFICES ASSUME IInvStreams PROVE IInvStreams'
        OBVIOUS
    <2>1. given \in SUBSET (1 .. sent)
        BY WireFacts DEF IInvStreams
    <2> QED BY <2>1, StreamMoves DEF vars, streamVars, IInvStreams, StreamTypes
<1> QED BY <1>1, <1>2 DEF StreamsSleep, FeedsSleep, vars, streamVars

LEMMA RowsStand ==
    ASSUME RowsKept, UNCHANGED <<kind, streamVars, channelVars, rowVars>>
    PROVE  RowsKept'
<1>1. \A i : Overlooked(i)' <=> Overlooked(i)
    BY DEF Overlooked, streamVars, channelVars
<1> QED BY <1>1 DEF RowsKept, RowMissingOnlyBy, rowVars

LEMMA PolledActs == ASSUME IInvSources, PolledStep PROVE IInvSources'
<1>1. /\ kind = "polled" /\ kind' = "polled" /\ IInvFeeds /\ StreamsSleep /\ RowsKept
      /\ UNCHANGED streamVars /\ UNCHANGED channelVars /\ Next
    BY DEF IInvSources, PolledStep, Next
<1>2. IInvFeeds' /\ StreamsSleep'
    BY <1>1, FeedsStep DEF StreamsSleep, streamVars
<1>3. RowsKept'
    <2>1. CASE UNCHANGED rowVars
        BY <1>1, <2>1, RowsStand
    <2>2. CASE Persist(found)
        BY <1>1, <2>2, FoundBounds, BatchWritten DEF Overlooked
    <2> QED BY <2>1, <2>2 DEF PolledStep
<1> QED BY <1>1, <1>2, <1>3 DEF IInvSources, channelVars

(* The forwarder finds in the channel what was broadcast since the start,  *)
(* for a restart broadcasts nothing.                                       *)
LEMMA SilentRestart ==
    ASSUME Streams!Next
    PROVE  stream' = stream /\ (restarts' # restarts => bus' = {})
<1> QED BY DEF Streams!Next, Streams!Publish, Streams!Connect, Streams!Unresolved, Streams!Disconnect,
               Streams!Noticed, Streams!Bar, Streams!Lapse, Streams!Expire, Streams!Backfill,
               Streams!Seed, Streams!Tick, Streams!Die, Streams!Regain, Streams!Restart,
               Streams!Read, Streams!Poll, Streams!FailedPoll

LEMMA StreamActs == ASSUME IInvSources, StreamStep PROVE IInvSources'
<1>1. /\ kind = "stream" /\ kind' = "stream" /\ IInvStreams /\ FeedsSleep /\ RowsKept
      /\ sent <= Messages /\ UNCHANGED feedVars /\ Streams!Next
      /\ written' = written \cup bus' /\ UNCHANGED <<naming, rows, unwritten, hidden>>
      /\ waiting \in [1 .. MaxItems -> Nat]
    BY DEF IInvSources, StreamStep
<1>2. IInvStreams' /\ FeedsSleep'
    BY <1>1, StreamsAct DEF FeedsSleep, feedVars
<1>3. bus' \subseteq 1 .. MaxItems /\ sent' <= Messages
    BY <1>1, BusBounds
<1>4. /\ waiting' \in [1 .. MaxItems -> Nat] /\ missed \subseteq missed'
      /\ \A i \in 1 .. MaxItems : waiting[i] > 0 => waiting'[i] > 0 \/ i \in missed'
      /\ \A i \in bus' : waiting'[i] > 0
    <2>1. CASE restarts' = restarts
        <3>1. waiting' = [i \in 1 .. MaxItems |-> waiting[i] + IF i \in bus' THEN 1 ELSE 0]
            BY <1>1, <2>1 DEF StreamStep
        <3>2. \A i \in 1 .. MaxItems : waiting[i] \in Nat
            BY <1>1
        <3>3. missed' = missed
            BY <2>1 DEF StreamStep
        <3> QED BY <1>3, <3>1, <3>2, <3>3
    <2>2. CASE restarts' # restarts
        <3>1. /\ waiting' = [i \in 1 .. MaxItems |-> 0]
              /\ missed' = missed \cup {i \in 1 .. MaxItems : waiting[i] > 0}
            BY <1>1, <2>2 DEF StreamStep
        <3>2. bus' = {}
            BY <1>1, <2>2, SilentRestart
        <3> QED BY <3>1, <3>2
    <2> QED BY <2>1, <2>2
<1>5. /\ \A i \in 1 .. MaxItems : Overlooked(i) => Overlooked(i)'
      /\ \A i \in bus' : Overlooked(i)'
    BY <1>1, <1>4, SilentRestart DEF Overlooked
<1>6. RowsKept'
    <2>1. RowMissingOnlyBy'
        BY <1>1, <1>5 DEF RowsKept, RowMissingOnlyBy
    <2> QED BY <1>1, <1>3, <2>1 DEF RowsKept
<1> QED BY <1>1, <1>2, <1>3, <1>4, <1>6 DEF IInvSources

(* The forwarder changes nothing the stream knows of.                      *)
LEMMA ForwarderActs == ASSUME IInvSources, ForwarderStep PROVE IInvSources'
<1>1. PICK i \in 1 .. MaxItems : Forward(i) \/ Lag(i)
    BY DEF ForwarderStep, IInvSources
<1>2. /\ kind = "stream" /\ UNCHANGED <<kind, vars, streamVars>>
      /\ waiting \in [1 .. MaxItems -> Nat] /\ waiting[i] > 0 /\ RowsKept
      /\ waiting' = [waiting EXCEPT ![i] = @ - 1] /\ missed \subseteq missed'
    <2>1. TakeOut(i) /\ missed \subseteq missed'
        BY <1>1 DEF Forward, Lag
    <2>2. kind = "stream" /\ waiting \in [1 .. MaxItems -> Nat] /\ RowsKept
        BY DEF ForwarderStep, IInvSources
    <2> QED BY <2>1, <2>2 DEF TakeOut
<1>3. /\ waiting' \in [1 .. MaxItems -> Nat]
      /\ \A j \in (1 .. MaxItems) \ {i} : waiting'[j] = waiting[j]
    BY <1>2
<1>4. \A j \in (1 .. MaxItems) \ {i} : Overlooked(j) => Overlooked(j)'
    BY <1>2, <1>3 DEF Overlooked, streamVars
<1>5. RowsKept'
    <2>1. CASE Persist({i})
        BY <1>2, <1>4, <2>1, BatchWritten
    <2>2. CASE UNCHANGED rowVars /\ (~stream.signs \/ i \in missed')
        <3>1. Overlooked(i)'
            BY <1>2, <2>2 DEF Overlooked, streamVars
        <3>2. RowMissingOnlyBy'
            BY <1>2, <1>4, <2>2, <3>1 DEF RowsKept, RowMissingOnlyBy, rowVars
        <3> QED BY <1>2, <2>2, <3>2 DEF RowsKept, rowVars
    <2> QED BY <1>1, <2>1, <2>2 DEF Forward, Lag
<1> QED BY <1>2, <1>3, <1>5, AdaptersStand DEF IInvSources

(* The inductive invariant, of every adapter and stream there may be.      *)
THEOREM SourcesInvariance == SourcesSpec => []IInvSources
<1>1. IInvSources /\ [SourcesNext]_allVars => IInvSources'
    <2> SUFFICES ASSUME IInvSources, [SourcesNext]_allVars PROVE IInvSources'
        OBVIOUS
    <2>1. CASE PolledStep
        BY <2>1, PolledActs
    <2>2. CASE StreamStep
        BY <2>2, StreamActs
    <2>3. CASE ForwarderStep
        BY <2>3, ForwarderActs
    <2>4. CASE UNCHANGED allVars
        <3>1. UNCHANGED <<kind, vars, streamVars, rowVars, channelVars>>
            BY <2>4 DEF allVars
        <3> QED BY <3>1, AdaptersStand, RowsStand DEF IInvSources, channelVars
    <2> QED BY <2>1, <2>2, <2>3, <2>4 DEF SourcesNext
<1> QED BY <1>1, InitSources, PTL DEF SourcesSpec

(* No item is passed over in silence: what is not broadcast has been       *)
(* refused by an adapter that marked it seen, came below a date, was lost  *)
(* with a connection or cut off a poll (sources/src).                      *)
THEOREM NothingPassedOverElse == SourcesSpec => []PassedOverOnlyBy
<1>1. IInvSources => PassedOverOnlyBy
    <2> SUFFICES ASSUME IInvSources PROVE PassedOverOnlyBy
        OBVIOUS
    <2>1. CASE kind = "polled"
        <3>1. Streams!SilentOnlyBy
            BY <2>1 DEF IInvSources, StreamsSleep, Streams!SilentOnlyBy, Streams!Published
        <3> QED BY <2>1, <3>1, SwallowedFollows DEF IInvSources, PassedOverOnlyBy
    <2>2. CASE kind = "stream"
        <3>1. SwallowedOnlyBy
            BY <2>2 DEF IInvSources, FeedsSleep, SwallowedOnlyBy
        <3> QED BY <2>2, <3>1, SilentFollows DEF IInvSources, PassedOverOnlyBy
    <2> QED BY <2>1, <2>2 DEF IInvSources
<1> QED BY <1>1, SourcesInvariance, PTL

(* A second broadcast has one of the reasons that its adapter's memory     *)
(* gives: nothing is kept, a set was emptied, a generation was pushed out, *)
(* a stream resumed below what it had read (sources/src).                  *)
THEOREM NothingRepeatedElse == SourcesSpec => BroadcastAgainOnlyBy
<1> DEFINE Repeats == \A i \in (found' \ found) \cap given :
          LET before == Reading(Head(asking))[i - 1] IN
          CASE adapter.keeps = "nothing"     -> TRUE
            [] adapter.keeps = "set"         -> i \in before.spilled
            [] adapter.keeps = "generations" -> i \notin Range(before.recent)
            [] adapter.keeps = "mark"        -> FALSE
           Agains == \A i \in bus' \cap given :
              \/ link = "joining"
              \/ stream.resumes = "polls" /\ cursor = 0
              \/ stream.resumes = "cursor" /\ i = cursor
<1>1. IInvSources /\ [SourcesNext]_allVars => [Repeats]_vars /\ [Agains]_Streams!vars
    <2> SUFFICES ASSUME IInvSources, [SourcesNext]_allVars
                 PROVE  [Repeats]_vars /\ [Agains]_Streams!vars
        OBVIOUS
    <2>1. CASE PolledStep
        <3>1. kind = "polled" /\ IInvFeeds /\ Next /\ bus' = {}
            BY <2>1 DEF IInvSources, PolledStep, Next, StreamsSleep, streamVars
        <3>2. Repeats
            BY <3>1, RepeatedStep
        <3>3. Agains
            BY <3>1
        <3> HIDE DEF Repeats, Agains
        <3> QED BY <3>2, <3>3
    <2>2. CASE StreamStep
        <3>1. kind = "stream" /\ IInvStreams /\ Streams!Next /\ found' = {}
            BY <2>2 DEF IInvSources, StreamStep, FeedsSleep, feedVars
        <3>2. Repeats
            BY <3>1
        <3>3. Agains
            BY <3>1, AgainStep
        <3> HIDE DEF Repeats, Agains
        <3> QED BY <3>2, <3>3
    <2>3. CASE UNCHANGED allVars \/ ForwarderStep
        <3>1. UNCHANGED vars /\ UNCHANGED Streams!vars
            <4>1. CASE UNCHANGED allVars
                BY <4>1 DEF allVars, vars, streamVars, Streams!vars
            <4>2. CASE ForwarderStep
                <5>1. PICK i \in DOMAIN waiting : TakeOut(i)
                    BY <4>2 DEF ForwarderStep, Forward, Lag
                <5>2. UNCHANGED <<kind, vars, streamVars>>
                    BY <5>1 DEF TakeOut
                <5> QED BY <5>2 DEF vars, streamVars, Streams!vars
            <4> QED BY <2>3, <4>1, <4>2
        <3> HIDE DEF Repeats, Agains
        <3> QED BY <3>1
    <2> QED BY <2>1, <2>2, <2>3 DEF SourcesNext
<1> QED BY <1>1, SourcesInvariance, PTL
        DEF SourcesSpec, BroadcastAgainOnlyBy, RepeatedOnlyBy, Streams!AgainOnlyBy

(* An item that was broadcast and has no row is one of which a write       *)
(* failed, or shares the row of another (db.queries.rs insert_event), or   *)
(* waits for the forwarder of its stream or was passed over by it          *)
(* (registry.rs start_all).                                                *)
THEOREM NoRowMissingElse == SourcesSpec => []RowMissingOnlyBy
<1>1. IInvSources => RowMissingOnlyBy
    BY DEF IInvSources, RowsKept
<1> QED BY <1>1, SourcesInvariance, PTL

(* A second row is written only for an event that names the moment it was  *)
(* built or nothing, and after a restart if the adapter goes by a date     *)
(* (db.queries.rs insert_event, registry.rs persist_event).                *)
THEOREM NoRowTwiceElse == SourcesSpec => RowTwiceOnlyBy
<1> DEFINE Twice == \A i \in DOMAIN rows : rows'[i] > 1 /\ rows[i] <= 1 =>
          /\ ~Steady(i) /\ i \in written
          /\ kind = "polled" /\ adapter.keeps = "mark" => i \notin given
<1>1. IInvSources /\ [SourcesNext]_allVars => [Twice]_allVars
    <2> SUFFICES ASSUME IInvSources, SourcesNext, NEW i \in DOMAIN rows, rows'[i] > 1, rows[i] <= 1
                 PROVE  /\ ~Steady(i) /\ i \in written
                        /\ kind = "polled" /\ adapter.keeps = "mark" => i \notin given
        OBVIOUS
    <2>1. RowsKept /\ rows[i] \in 0 .. 2
        BY DEF IInvSources, RowsKept
    <2>2. CASE kind = "polled" /\ Persist(found)
        <3>1. ~Steady(i) /\ i \in written /\ i \in found
            BY <2>1, <2>2, SecondRow
        <3> QED BY <2>2, <3>1 DEF IInvSources, IInvFeeds
    <2>3. CASE kind = "stream" /\ \E j : Persist({j})
        BY <2>1, <2>3, SecondRow
    <2>4. CASE UNCHANGED rows
        BY <2>1, <2>4
    <2> QED BY <2>2, <2>3, <2>4
            DEF SourcesNext, PolledStep, StreamStep, ForwarderStep, Forward, Lag, rowVars
<1> QED BY <1>1, SourcesInvariance, PTL DEF SourcesSpec, RowTwiceOnlyBy

-----------------------------------------------------------------------------
(* The registry, for any sources, thresholds, capacity of the channel and  *)
(* number of restarts: the inductive invariant.                            *)

(* A forwarder that is to write "healthy" has its flag up, has taken an    *)
(* event of its stream's own, and has not written it since the start.      *)
AnnouncesOnce ==
    \A f \in Streamed :
       /\ hand[f] = "announcing" => greeted[f] /\ f \in heard /\ f \notin promoted
       /\ f \in promoted => greeted[f]

IInvRegistry == RegistryTypes /\ ParkedPollerIsDown /\ HealthyByOwnEvents /\ AnnouncesOnce

(* What a forwarder has not received, within the channel's capacity.       *)
InboxFits ==
    /\ inbox \in [Streamed -> Seq(Source)]
    /\ \A f \in Streamed : Len(inbox[f]) <= BusSize

(* What the channel holds back for a receiver stays within its capacity.   *)
LEMMA ReceivedType ==
    ASSUME NEW q \in Seq(Source), Len(q) <= BusSize, NEW s \in Source
    PROVE  Received(q, s) \in Seq(Source) /\ Len(Received(q, s)) <= BusSize
<1> USE RegistryAssumption
<1>1. CASE Len(q) < BusSize
    BY <1>1 DEF Received
<1>2. CASE ~(Len(q) < BusSize)
    <2>1. q # <<>>
        BY <1>2
    <2>2. Tail(q) \in Seq(Source) /\ Len(Tail(q)) = Len(q) - 1
        BY <2>1
    <2> QED BY <1>2, <2>2 DEF Received
<1> QED BY <1>1, <1>2

LEMMA SendType ==
    ASSUME RegistryTypes, NEW s \in Source, Send(s)
    PROVE  InboxFits'
BY ReceivedType DEF RegistryTypes, Send, InboxFits

LEMMA InitRegistry == RegistryInit => IInvRegistry
BY RegistryAssumption
   DEF RegistryInit, IInvRegistry, RegistryTypes, InboxFits, ParkedPollerIsDown, HealthyByOwnEvents, AnnouncesOnce,
       Source, Start, Places, Statuses

(* A step of the task of s: it changes task, failures and health of s only *)
(* and leaves them as they may be.                                         *)
OwnStep(s, place, n, status) ==
    /\ place \in Places /\ n \in Nat /\ status \in Statuses
    /\ task' = [task EXCEPT ![s] = place]
    /\ failures' = [failures EXCEPT ![s] = n]
    /\ health' = [health EXCEPT ![s] = status]
    /\ s \in Polled /\ place # "parked" => n < PollGivesUp
    /\ s \in Streamed /\ place # "parked" => n < StreamGivesUp
    /\ s \in Polled /\ place = "parked" => status = "error"
    /\ s \in Streamed /\ status = "healthy" => s \in heard
    /\ enabled' \in [Polled -> BOOLEAN]
    /\ InboxFits'
    /\ UNCHANGED <<hand, greeted, heard, promoted>>
    /\ starts' \in 0..MaxStarts

LEMMA TaskStep ==
    ASSUME IInvRegistry, NEW s \in Source, NEW place, NEW n, NEW status,
           OwnStep(s, place, n, status)
    PROVE  IInvRegistry'
<1> USE DEF IInvRegistry, RegistryTypes, InboxFits, OwnStep
<1>1. RegistryTypes'
    BY DEF Source
<1>2. ParkedPollerIsDown'
    BY DEF ParkedPollerIsDown, Source
<1>3. HealthyByOwnEvents'
    BY DEF HealthyByOwnEvents, Source
<1>4. AnnouncesOnce'
    BY DEF AnnouncesOnce
<1> QED BY <1>1, <1>2, <1>3, <1>4

LEMMA SourceStep ==
    ASSUME IInvRegistry, NEW s \in Source, Wake(s) \/ Refused(s)
    PROVE  IInvRegistry'
<1> USE RegistryAssumption DEF Goto
<1>1. CASE Wake(s)
    <2>1. failures' = [failures EXCEPT ![s] = failures[s]]
          /\ health' = [health EXCEPT ![s] = health[s]]
        BY <1>1 DEF Wake, IInvRegistry, RegistryTypes, InboxFits
    <2>2. /\ s \in Polled => failures[s] < PollGivesUp
          /\ s \in Streamed => failures[s] < StreamGivesUp
          /\ s \in Streamed /\ health[s] = "healthy" => s \in heard
        BY <1>1 DEF Wake, IInvRegistry, RegistryTypes, InboxFits, HealthyByOwnEvents
    <2>3. failures[s] \in Nat /\ health[s] \in Statuses
        BY DEF IInvRegistry, RegistryTypes, InboxFits
    <2>4. OwnStep(s, "due", failures[s], health[s])
        BY <1>1, <2>1, <2>2, <2>3 DEF OwnStep, Wake, forwarderVars, IInvRegistry, RegistryTypes, InboxFits, Places
    <2> QED BY <2>4, TaskStep
<1>2. CASE Refused(s)
    <2>1. failures' = [failures EXCEPT ![s] = failures[s]] /\ failures[s] \in Nat
        BY <1>2 DEF Refused, IInvRegistry, RegistryTypes, InboxFits
    <2>2. OwnStep(s, "parked", failures[s], "error")
        BY <1>2, <2>1
        DEF OwnStep, Refused, forwarderVars, Report, IInvRegistry, RegistryTypes, InboxFits, Places, Statuses
    <2> QED BY <2>2, TaskStep
<1> QED BY <1>1, <1>2

LEMMA PollTaskStep ==
    ASSUME IInvRegistry, NEW s \in Polled, StartPoll(s) \/ PollReturns(s) \/ Toggle(s)
    PROVE  IInvRegistry'
<1> USE RegistryAssumption DEF Goto, Report, Count
<1>0. s \in Source /\ s \notin Streamed /\ failures[s] \in Nat /\ health[s] \in Statuses
    BY DEF Source, IInvRegistry, RegistryTypes, InboxFits
<1>1. CASE StartPoll(s)
    <2>1. failures' = [failures EXCEPT ![s] = failures[s]]
          /\ health' = [health EXCEPT ![s] = health[s]]
          /\ failures[s] < PollGivesUp
        BY <1>1 DEF StartPoll, IInvRegistry, RegistryTypes, InboxFits
    <2> DEFINE place == IF enabled[s] THEN "busy" ELSE "sleeping"
    <2>2. place \in Places /\ place # "parked"
        BY DEF Places
    <2>3. task' = [task EXCEPT ![s] = place]
        BY <1>1 DEF StartPoll
    <2> HIDE DEF place
    <2>4. OwnStep(s, place, failures[s], health[s])
        BY <1>0, <1>1, <2>1, <2>2, <2>3 DEF OwnStep, StartPoll, forwarderVars, IInvRegistry, RegistryTypes, InboxFits
    <2> QED BY <1>0, <2>4, TaskStep
<1>2. CASE \E some \in BOOLEAN : PollSucceeds(s, some)
    <2>1. PICK some \in BOOLEAN : PollSucceeds(s, some)
        BY <1>2
    <2>2. InboxFits'
        BY <1>0, <2>1, SendType DEF PollSucceeds, IInvRegistry, RegistryTypes, InboxFits
    <2>3. OwnStep(s, "sleeping", 0, "healthy")
        BY <1>0, <2>1, <2>2
        DEF OwnStep, PollSucceeds, IInvRegistry, RegistryTypes, InboxFits, Places, Statuses
    <2> QED BY <1>0, <2>3, TaskStep
<1>3. CASE \E status \in {"rate_limited", "error"} : PollFails(s, status)
    <2>1. PICK status \in {"rate_limited", "error"} : PollFails(s, status)
        BY <1>3
    <2> DEFINE n    == failures[s] + 1
               last == Exhausted(n, PollGivesUp)
               place == IF last THEN "parked" ELSE "sleeping"
               final == FinalStatus(status, last)
    <2>2. /\ place \in Places /\ final \in Statuses /\ n \in Nat
          /\ place # "parked" => n < PollGivesUp
          /\ place = "parked" => final = "error"
        BY <1>0, <2>1 DEF FinalStatus, Exhausted, Places, Statuses
    <2>3. /\ task' = [task EXCEPT ![s] = place]
          /\ failures' = [failures EXCEPT ![s] = n]
          /\ health' = [health EXCEPT ![s] = final]
        BY <2>1 DEF PollFails
    <2> HIDE DEF n, last, place, final
    <2>4. OwnStep(s, place, n, final)
        BY <1>0, <2>1, <2>2, <2>3 DEF OwnStep, PollFails, forwarderVars, IInvRegistry, RegistryTypes, InboxFits
    <2> QED BY <1>0, <2>4, TaskStep
<1>4. CASE Refused(s)
    BY <1>0, <1>4, SourceStep
<1>5. CASE Toggle(s)
    BY <1>5 DEF Toggle, forwarderVars, IInvRegistry, RegistryTypes, InboxFits, ParkedPollerIsDown, HealthyByOwnEvents, AnnouncesOnce
<1> QED BY <1>1, <1>2, <1>3, <1>4, <1>5 DEF PollReturns

LEMMA StreamTaskStep ==
    ASSUME IInvRegistry, NEW s \in Streamed,
           Connect(s) \/ Emit(s) \/ StreamEnds(s) \/ StreamFails(s)
    PROVE  IInvRegistry'
<1> USE RegistryAssumption DEF Goto, Report, Count
<1>0. s \in Source /\ s \notin Polled /\ failures[s] \in Nat /\ health[s] \in Statuses
    BY DEF Source, IInvRegistry, RegistryTypes, InboxFits
<1>1. CASE Connect(s)
    <2>1. failures' = [failures EXCEPT ![s] = failures[s]] /\ failures[s] < StreamGivesUp
        BY <1>1 DEF Connect, IInvRegistry, RegistryTypes, InboxFits
    <2>2. OwnStep(s, "busy", failures[s], "connecting")
        BY <1>0, <1>1, <2>1
        DEF OwnStep, Connect, forwarderVars, IInvRegistry, RegistryTypes, InboxFits, Places, Statuses
    <2> QED BY <1>0, <2>2, TaskStep
<1>2. CASE Emit(s)
    <2>1. InboxFits'
        BY <1>0, <1>2, SendType DEF Emit, IInvRegistry
    <2> QED BY <1>2, <2>1 DEF Emit, IInvRegistry, RegistryTypes, InboxFits, ParkedPollerIsDown, HealthyByOwnEvents, AnnouncesOnce
<1>3. CASE StreamEnds(s)
    <2>1. /\ health' = [health EXCEPT ![s] = health[s]]
          /\ health[s] = "healthy" => s \in heard
        BY <1>3 DEF StreamEnds, IInvRegistry, RegistryTypes, InboxFits, HealthyByOwnEvents
    <2>2. /\ UNCHANGED <<enabled, inbox, hand, greeted, heard, promoted, starts>>
          /\ task' = [task EXCEPT ![s] = "sleeping"]
          /\ failures' = [failures EXCEPT ![s] = 0]
          /\ 0 < StreamGivesUp /\ "sleeping" \in Places
        BY <1>3 DEF StreamEnds, forwarderVars, Places
    <2>3. OwnStep(s, "sleeping", 0, health[s])
        BY <1>0, <2>1, <2>2 DEF OwnStep, IInvRegistry, RegistryTypes, InboxFits
    <2> QED BY <1>0, <2>3, TaskStep
<1>4. CASE StreamFails(s)
    <2> DEFINE n == failures[s] + 1
               place == IF Exhausted(n, StreamGivesUp) THEN "parked" ELSE "sleeping"
    <2>1. place \in Places /\ n \in Nat /\ (place # "parked" => n < StreamGivesUp)
        BY <1>0 DEF Places, Exhausted
    <2>2. task' = [task EXCEPT ![s] = place] /\ failures' = [failures EXCEPT ![s] = n]
        BY <1>4 DEF StreamFails
    <2> HIDE DEF n, place
    <2>3. OwnStep(s, place, n, "error")
        BY <1>0, <1>4, <2>1, <2>2 DEF OwnStep, StreamFails, forwarderVars, IInvRegistry, RegistryTypes, InboxFits, Statuses
    <2> QED BY <1>0, <2>3, TaskStep
<1> QED BY <1>1, <1>2, <1>3, <1>4

(* A forwarder keeps only events of its stream's own: no other source's    *)
(* events carry its name.                                                  *)
LEMMA TakeStep ==
    ASSUME IInvRegistry, NEW f \in Streamed, Take(f)
    PROVE  IInvRegistry'
<1> DEFINE sender == Head(inbox[f])
<1>1. /\ inbox[f] \in Seq(Source) /\ inbox[f] # <<>> /\ sender \in Source
      /\ Tail(inbox[f]) \in Seq(Source) /\ Len(Tail(inbox[f])) = Len(inbox[f]) - 1
    BY DEF Take, IInvRegistry, RegistryTypes
<1>2. InboxFits'
    <2>1. inbox' = [inbox EXCEPT ![f] = Tail(inbox[f])]
        BY DEF Take
    <2> QED BY <1>1, <2>1, RegistryAssumption DEF IInvRegistry, RegistryTypes, InboxFits
<1>3. UNCHANGED <<task, failures, health, enabled, promoted, starts>>
    BY DEF Take
<1>4. /\ heard' \in {heard, heard \cup {sender}}
      /\ greeted' \in {greeted, [greeted EXCEPT ![f] = TRUE]}
      /\ hand' \in {hand, [hand EXCEPT ![f] = "free"], [hand EXCEPT ![f] = "announcing"]}
    BY DEF Take
<1>5. RegistryTypes'
    BY <1>1, <1>2, <1>3, <1>4 DEF IInvRegistry, RegistryTypes, InboxFits
<1>6. ParkedPollerIsDown' /\ HealthyByOwnEvents'
    BY <1>3, <1>4 DEF IInvRegistry, ParkedPollerIsDown, HealthyByOwnEvents
<1>7. AnnouncesOnce'
    <2>1. CASE Matches(f, sender)
        <3>1. sender = f
            BY <1>1, <2>1, RegistryAssumption DEF Matches
        <3>2. /\ heard' = heard \cup {f} /\ promoted' = promoted
              /\ greeted' = [greeted EXCEPT ![f] = TRUE]
              /\ hand' = [hand EXCEPT ![f] = IF greeted[f] THEN "free" ELSE "announcing"]
            BY <1>3, <2>1, <3>1 DEF Take, Promotes
        <3> QED BY <3>2 DEF IInvRegistry, RegistryTypes, AnnouncesOnce
    <2>2. CASE ~Matches(f, sender)
        BY <1>3, <2>2 DEF Take, IInvRegistry, AnnouncesOnce
    <2> QED BY <2>1, <2>2
<1> QED BY <1>5, <1>6, <1>7 DEF IInvRegistry

LEMMA AnnounceStep ==
    ASSUME IInvRegistry, NEW f \in Streamed, Announce(f)
    PROVE  IInvRegistry'
<1>1. f \in Source /\ f \notin Polled
    BY RegistryAssumption DEF Source
<1>2. RegistryTypes'
    BY <1>1 DEF Announce, Report, IInvRegistry, RegistryTypes, Statuses
<1>3. ParkedPollerIsDown'
    BY <1>1 DEF Announce, Report, IInvRegistry, RegistryTypes, ParkedPollerIsDown, Source
<1>4. HealthyByOwnEvents'
    BY <1>1 DEF Announce, Report, IInvRegistry, RegistryTypes, HealthyByOwnEvents, AnnouncesOnce, Source
<1>5. AnnouncesOnce'
    BY DEF Announce, IInvRegistry, RegistryTypes, AnnouncesOnce
<1> QED BY <1>2, <1>3, <1>4, <1>5 DEF IInvRegistry

LEMMA RegistryRestarts == IInvRegistry /\ RestartAll => IInvRegistry'
BY RegistryAssumption
   DEF RestartAll, IInvRegistry, RegistryTypes, ParkedPollerIsDown, HealthyByOwnEvents,
       AnnouncesOnce, Source, Start, Places

(* The invariant holds in every reachable state.                           *)
THEOREM RegistryInvariance == RegistrySpec => []IInvRegistry
<1>1. IInvRegistry /\ [RegistryNext]_registryVars => IInvRegistry'
    <2> SUFFICES ASSUME IInvRegistry, [RegistryNext]_registryVars PROVE IInvRegistry'
        OBVIOUS
    <2>1. CASE UNCHANGED registryVars
        BY <2>1 DEF registryVars, forwarderVars, IInvRegistry, RegistryTypes, ParkedPollerIsDown,
                    HealthyByOwnEvents, AnnouncesOnce
    <2>2. CASE RegistryNext
        BY <2>2, SourceStep, PollTaskStep, StreamTaskStep, TakeStep, AnnounceStep, RegistryRestarts
           DEF RegistryNext, Source
    <2> QED BY <2>1, <2>2
<1> QED BY <1>1, InitRegistry, PTL DEF RegistrySpec

(* A polled source whose task has returned is reported down, for any       *)
(* thresholds.                                                             *)
THEOREM PollerReportedDown == RegistrySpec => []ParkedPollerIsDown
<1>1. IInvRegistry => ParkedPollerIsDown
    BY DEF IInvRegistry
<1> QED BY <1>1, RegistryInvariance, PTL

(* A stream is reported healthy on account of its own events only.         *)
THEOREM HealthyMeansOwnEvents == RegistrySpec => []HealthyByOwnEvents
<1>1. IInvRegistry => HealthyByOwnEvents
    BY DEF IInvRegistry
<1> QED BY <1>1, RegistryInvariance, PTL

(* What health says of a source is true of its tasks.                      *)
THEOREM StatusesAlwaysHonest == RegistrySpec => []StatusHonest
<1>1. IInvRegistry => StatusHonest
    BY DEF IInvRegistry, StatusHonest
<1> QED BY <1>1, RegistryInvariance, PTL

(* A step that turns the status of a stream healthy is its forwarder's.    *)
LEMMA HealthyStep ==
    ASSUME IInvRegistry, [RegistryNext]_registryVars, NEW f \in promoted, health'[f] = "healthy"
    PROVE  health[f] = "healthy"
<1> USE DEF Goto, Report
<1>0. f \in Streamed /\ f \in Source /\ f \notin Polled /\ hand[f] # "announcing" /\ RegistryTypes
    BY RegistryAssumption DEF Source, IInvRegistry, RegistryTypes, AnnouncesOnce
<1>1. ASSUME NEW s \in Source, Wake(s) \/ Refused(s)
      PROVE  health[f] = "healthy"
    BY <1>0, <1>1 DEF Wake, Refused, RegistryTypes
<1>2. ASSUME NEW s \in Polled, StartPoll(s) \/ PollReturns(s) \/ Toggle(s)
      PROVE  health[f] = "healthy"
    BY <1>0, <1>2
    DEF StartPoll, PollReturns, PollSucceeds, PollFails, Refused, Toggle, RegistryTypes
<1>3. ASSUME NEW s \in Streamed, Connect(s) \/ Emit(s) \/ StreamEnds(s) \/ StreamFails(s)
      PROVE  health[f] = "healthy"
    BY <1>0, <1>3 DEF Connect, Emit, StreamEnds, StreamFails, RegistryTypes
<1>4. ASSUME NEW g \in Streamed, Take(g) \/ Announce(g)
      PROVE  health[f] = "healthy"
    BY <1>0, <1>4 DEF Take, Announce, RegistryTypes
<1>5. CASE RestartAll
    BY <1>5 DEF RestartAll
<1> QED BY <1>1, <1>2, <1>3, <1>4, <1>5 DEF RegistryNext, registryVars, Source

(* From one start to the next a stream turns healthy once at most, however *)
(* the writes of its two tasks fall (registry.rs start_all).               *)
THEOREM HealthyAtMostOnce == RegistrySpec => HealthyOnce
<1>1. IInvRegistry /\ [RegistryNext]_registryVars =>
        [ \A f \in promoted : health'[f] = "healthy" => health[f] = "healthy" ]_registryVars
    BY HealthyStep
<1> QED BY <1>1, RegistryInvariance, PTL DEF RegistrySpec, HealthyOnce
=============================================================================
