---------------------------- MODULE Limits_proof ----------------------------
(***************************************************************************)
(* Proofs about what keeps the system from reporting too often or not at   *)
(* all: the correlation window and its incidents, alert rules, and the     *)
(* rate limiter of web searches.  They hold for any events, places, spans, *)
(* caps and cooldowns.                                                     *)
(***************************************************************************)
EXTENDS Alerts, WebSearchProperties, SequenceTheorems, FiniteSetTheorems, TLAPS

-----------------------------------------------------------------------------
(* Logs in the order of their ages.                                        *)
Aged(log) == \A p \in DOMAIN log : log[p].age \in Nat
Sorted(log) == \A p, q \in DOMAIN log : p < q => log[p].age >= log[q].age

LEMMA Interval == \A n \in Nat : IsFiniteSet(1..n) /\ Cardinality(1..n) = n
BY FS_Interval

(* What is too old is what is in front.                                    *)
LEMMA OverdueFacts ==
    ASSUME NEW X, NEW log \in Seq(X), Aged(log), Sorted(log), NEW age \in Nat
    PROVE  /\ Overdue(log, age) \in 0..Len(log)
           /\ \A p \in 1..Overdue(log, age) : log[p].age >= age
           /\ \A p \in Overdue(log, age) + 1..Len(log) : log[p].age < age
<1> DEFINE S == {p \in DOMAIN log : \A q \in 1..p : log[q].age >= age}
           n == Cardinality(S)
<1>1. Len(log) \in Nat /\ DOMAIN log = 1..Len(log)
    BY LenProperties
<1>2. IsFiniteSet(S) /\ n \in Nat /\ n <= Len(log)
    BY <1>1, Interval, FS_Subset, FS_CardinalityType
<1>3. \A p \in S : p \in 1..Len(log) /\ 1..p \subseteq S /\ log[p].age >= age
    BY <1>1
<1> HIDE DEF S
<1>4. ASSUME NEW p \in S PROVE p \in 1..n
    <2>1. p \in Nat /\ Cardinality(1..p) = p /\ p >= 1
        BY <1>3, Interval
    <2>2. Cardinality(1..p) <= Cardinality(S)
        BY <1>2, <1>3, FS_Subset
    <2>3. p <= n
        BY <2>1, <2>2
    <2> QED BY <1>2, <2>1, <2>3
<1>5. S \subseteq 1..n /\ IsFiniteSet(1..n) /\ Cardinality(1..n) = n
    BY <1>2, <1>4, Interval
<1>6. S = 1..n
    BY <1>5, FS_Subset
<1>7. \A p \in 1..n : log[p].age >= age
    BY <1>3, <1>6
<1>8. ASSUME NEW p \in n + 1..Len(log) PROVE log[p].age < age
    <2>1. p \notin S /\ p \in DOMAIN log
        BY <1>1, <1>2, <1>6
    <2>2. PICK q \in 1..p : ~(log[q].age >= age)
        BY <2>1 DEF S
    <2>3. q \in DOMAIN log /\ q <= p /\ p \in Nat /\ q \in Nat
        BY <1>1, <2>1
    <2>4. log[q].age \in Nat /\ log[p].age \in Nat
        BY <2>1, <2>3 DEF Aged
    <2>5. log[q].age >= log[p].age
        BY <2>1, <2>3, <2>4 DEF Sorted
    <2> QED BY <2>2, <2>4, <2>5
<1>9. Overdue(log, age) = n
    BY DEF Overdue, S
<1> QED BY <1>2, <1>7, <1>8, <1>9

LEMMA TailFacts ==
    ASSUME NEW X, NEW log \in Seq(X), NEW n \in 0..Len(log)
    PROVE  /\ SubSeq(log, n + 1, Len(log)) \in Seq(X)
           /\ Len(SubSeq(log, n + 1, Len(log))) = Len(log) - n
           /\ \A p \in 1..Len(log) - n : SubSeq(log, n + 1, Len(log))[p] = log[p + n]
<1>1. Len(log) \in Nat /\ n \in Nat
    BY LenProperties
<1> DEFINE l == Len(log)
           first == n + 1
<1>2. l \in Nat /\ first \in Int /\ l \in Int /\ first \in 1..l + 1
    BY <1>1
<1>3. \A i \in first..l : log[i] \in X
    BY <1>2, ElementOfSeq
<1> HIDE DEF first
<1>4. /\ SubSeq(log, first, l) \in Seq(X)
      /\ Len(SubSeq(log, first, l)) = IF first <= l THEN l - first + 1 ELSE 0
      /\ \A i \in 1..l - first + 1 : SubSeq(log, first, l)[i] = log[first + i - 1]
    BY <1>2, <1>3, SubSeqProperties
<1>5. l - first + 1 = l - n /\ \A p \in 1..l - n : first + p - 1 = p + n
    BY <1>1 DEF first
<1>6. Len(SubSeq(log, first, l)) = l - n
    <2>1. n \in Nat /\ n <= l /\ first = n + 1
        BY <1>1 DEF first
    <2> HIDE DEF l
    <2> QED BY ONLY <1>2, <1>4, <1>5, <2>1
<1> QED BY <1>4, <1>5, <1>6 DEF first

LEMMA YoungerFacts ==
    ASSUME NEW X, NEW log \in Seq(X), Aged(log), Sorted(log), NEW age \in Nat
    PROVE  /\ Younger(log, age) \in Seq(X)
           /\ Overdue(log, age) \in 0..Len(log)
           /\ Len(Younger(log, age)) = Len(log) - Overdue(log, age)
           /\ \A p \in 1..Len(Younger(log, age)) :
                 /\ Younger(log, age)[p] = log[p + Overdue(log, age)]
                 /\ p + Overdue(log, age) \in DOMAIN log
                 /\ Younger(log, age)[p].age < age
           /\ \A p \in 1..Len(log) : log[p].age < age => p > Overdue(log, age)
<1> DEFINE n == Overdue(log, age)
<1>1. /\ n \in 0..Len(log) /\ \A p \in 1..n : log[p].age >= age
      /\ \A p \in n + 1..Len(log) : log[p].age < age
    BY OverdueFacts
<1>2. Len(log) \in Nat /\ DOMAIN log = 1..Len(log)
    BY LenProperties
<1> HIDE DEF n
<1>3. /\ SubSeq(log, n + 1, Len(log)) \in Seq(X)
      /\ Len(SubSeq(log, n + 1, Len(log))) = Len(log) - n
      /\ \A p \in 1..Len(log) - n : SubSeq(log, n + 1, Len(log))[p] = log[p + n]
    BY <1>1, TailFacts
<1>4. Younger(log, age) = SubSeq(log, n + 1, Len(log))
    BY DEF Younger, n
<1>5. \A p \in 1..Len(log) - n : p + n \in n + 1..Len(log) /\ p + n \in 1..Len(log)
    BY <1>1, <1>2
<1>6. ASSUME NEW p \in 1..Len(log), log[p].age < age PROVE p > n
    <2>1. p \in 1..n => ~(log[p].age < age)
        BY <1>1, <1>2 DEF Aged
    <2> QED BY <1>1, <1>2, <1>6, <2>1
<1> QED BY <1>1, <1>2, <1>3, <1>4, <1>5, <1>6 DEF n

(* A part of a log in its order.                                           *)
LEMMA NthFacts ==
    ASSUME NEW rows, IsFiniteSet(rows), rows \subseteq Nat
    PROVE  /\ Cardinality(rows) \in Nat
           /\ \A n \in 1..Cardinality(rows) : Nth(rows, n) \in rows
           /\ \A n, m \in 1..Cardinality(rows) : n < m => Nth(rows, n) < Nth(rows, m)
<1> DEFINE c == Cardinality(rows)
           Under(x) == {q \in rows : q < x}
           rank == [x \in rows |-> Cardinality(Under(x))]
<1>1. c \in Nat
    BY FS_CardinalityType
<1>2. \A x \in rows : IsFiniteSet(Under(x)) /\ Cardinality(Under(x)) \in 0..c - 1
    <2> SUFFICES ASSUME NEW x \in rows
                 PROVE  IsFiniteSet(Under(x)) /\ Cardinality(Under(x)) \in 0..c - 1
        OBVIOUS
    <2>1. Under(x) \subseteq rows /\ x \notin Under(x)
        OBVIOUS
    <2>2. /\ IsFiniteSet(Under(x)) /\ Cardinality(Under(x)) <= c
          /\ Cardinality(Under(x)) # c
        BY <2>1, FS_Subset
    <2>3. Cardinality(Under(x)) \in Nat
        BY <2>2, FS_CardinalityType
    <2> QED BY <1>1, <2>2, <2>3
<1>3. ASSUME NEW x \in rows, NEW y \in rows, x < y
      PROVE  rank[x] < rank[y]
    <2>1. x \in Nat /\ y \in Nat /\ \A z \in rows : z \in Nat
        OBVIOUS
    <2>2. Under(x) \subseteq Under(y) /\ x \in Under(y) /\ x \notin Under(x)
        <3>1. \A z \in rows : z < x => z < y
            BY <1>3, <2>1
        <3>2. ~(x < x)
            BY <2>1
        <3> QED BY <1>3, <3>1, <3>2
    <2> HIDE DEF Under
    <2>3. Cardinality(Under(x)) <= Cardinality(Under(y)) /\ Cardinality(Under(x)) # Cardinality(Under(y))
        BY <1>2, <2>2, FS_Subset
    <2>4. Cardinality(Under(x)) \in Nat /\ Cardinality(Under(y)) \in Nat
        BY <1>1, <1>2
    <2> QED BY <2>3, <2>4
<1> HIDE DEF Under
<1>4. \A x \in rows : rank[x] \in 0..c - 1
    BY <1>2
<1>5. \A x, y \in rows : x < y \/ x = y \/ y < x
    OBVIOUS
<1>6. rank \in Injection(rows, 0..c - 1)
    <2>1. rank \in [rows -> 0..c - 1]
        BY <1>4
    <2>2. ASSUME NEW x \in rows, NEW y \in rows, rank[x] = rank[y] PROVE x = y
        BY <1>1, <1>3, <1>4, <1>5, <2>2
    <2> QED BY <2>1, <2>2 DEF Injection, IsInjective
<1>7. IsFiniteSet(0..c - 1) /\ Cardinality(0..c - 1) = c
    <2>1. \A n \in Nat : IsFiniteSet(0..n - 1) /\ Cardinality(0..n - 1) = n
        BY FS_Interval
    <2> QED BY <1>1, <2>1
<1>8. rank \in Surjection(rows, 0..c - 1)
    BY <1>6, <1>7, FS_Injection
<1> HIDE DEF rank
<1>9. \A n \in 1..c : \E x \in rows : rank[x] = n - 1
    <2>1. \A n \in 1..c : n - 1 \in 0..c - 1
        BY <1>1
    <2> QED BY <1>8, <2>1 DEF Surjection
<1>10. \A x \in rows : rank[x] = Cardinality({q \in rows : q < x})
    BY DEF rank, Under
<1>11. \A n \in 1..c : Nth(rows, n) \in rows /\ rank[Nth(rows, n)] = n - 1
    BY <1>9, <1>10 DEF Nth
<1>12. ASSUME NEW n \in 1..c, NEW m \in 1..c, n < m PROVE Nth(rows, n) < Nth(rows, m)
    <2>1. n \in Nat /\ m \in Nat
        BY <1>1
    <2>2. ~(rank[Nth(rows, m)] < rank[Nth(rows, n)]) /\ rank[Nth(rows, m)] # rank[Nth(rows, n)]
        BY <1>11, <1>12, <2>1
    <2> QED BY <1>3, <1>5, <1>11, <2>2
<1> QED BY <1>1, <1>11, <1>12

LEMMA KeptFacts ==
    ASSUME NEW X, NEW log \in Seq(X), NEW rows \in SUBSET DOMAIN log
    PROVE  /\ Kept(log, rows) \in Seq(X) /\ Len(Kept(log, rows)) = Cardinality(rows)
           /\ Cardinality(rows) \in 0..Len(log)
           /\ \A n \in 1..Cardinality(rows) :
                 /\ Nth(rows, n) \in DOMAIN log
                 /\ Kept(log, rows)[n] = log[Nth(rows, n)]
           /\ \A n, m \in 1..Cardinality(rows) : n < m => Nth(rows, n) < Nth(rows, m)
<1>1. Len(log) \in Nat /\ DOMAIN log = 1..Len(log)
    BY LenProperties
<1>2. IsFiniteSet(rows) /\ Cardinality(rows) <= Len(log) /\ rows \subseteq Nat
    BY <1>1, Interval, FS_Subset
<1>3. /\ Cardinality(rows) \in Nat /\ \A n \in 1..Cardinality(rows) : Nth(rows, n) \in rows
      /\ \A n, m \in 1..Cardinality(rows) : n < m => Nth(rows, n) < Nth(rows, m)
    BY <1>2, NthFacts
<1>4. \A n \in 1..Cardinality(rows) : log[Nth(rows, n)] \in X
    BY <1>1, <1>3, ElementOfSeq
<1> QED BY <1>1, <1>2, <1>3, <1>4, IsASeq, LenProperties DEF Kept
-----------------------------------------------------------------------------
(* The correlation window.                                                 *)
AnyEvent == UNION {Traffic[t].events : t \in DOMAIN Traffic}
Entry == [event : AnyEvent, age : Nat]

LogTypes ==
    /\ traffic \in DOMAIN Traffic
    /\ window \in Seq(Entry) /\ heard \in Seq(Entry)
    /\ uptime \in 0..SixHours + 1 /\ restarts \in Nat

(* What is known of the last six hours is in order and no older.           *)
HeardInOrder == Sorted(heard) /\ \A p \in DOMAIN heard : heard[p].age <= SixHours

(* What the window holds that came since the start is known, and is as old *)
(* as it looks.                                                            *)
Earlier == Len(window) - Len(heard)
KnownSinceStart ==
    \A q \in DOMAIN window : window[q].age < uptime =>
        q > Earlier /\ heard[q - Earlier].age = window[q].age

IInvWindow == LogTypes /\ HeardInOrder /\ WindowConsistent /\ KnownSinceStart

LEMMA CorrelationBounds ==
    /\ Hour \in Nat /\ SixHours \in Nat /\ WindowAge \in Nat
    /\ Hour > 0 /\ Hour <= SixHours /\ SixHours <= WindowAge
BY CorrelationAssumption

LEMMA EntryFields ==
    ASSUME NEW log \in Seq(Entry), NEW p \in DOMAIN log
    PROVE  log[p] \in Entry /\ log[p].event \in AnyEvent /\ log[p].age \in Nat
<1>1. p \in 1..Len(log)
    BY LenProperties
<1>2. log[p] \in Entry
    BY <1>1, ElementOfSeq
<1> QED BY <1>2 DEF Entry

LEMMA EntriesAged == \A log \in Seq(Entry) : Aged(log)
BY EntryFields DEF Aged

LEMMA OlderFacts ==
    ASSUME NEW log \in Seq(Entry)
    PROVE  /\ Older(log) \in Seq(Entry) /\ Len(Older(log)) = Len(log)
           /\ DOMAIN Older(log) = DOMAIN log
           /\ \A p \in DOMAIN log : /\ Older(log)[p].event = log[p].event
                                    /\ Older(log)[p].age = log[p].age + 1
<1>1. Len(log) \in Nat /\ DOMAIN log = 1..Len(log)
    BY LenProperties
<1>2. ASSUME NEW p \in DOMAIN log
      PROVE  /\ [log[p] EXCEPT !.age = @ + 1] \in Entry
             /\ [log[p] EXCEPT !.age = @ + 1].event = log[p].event
             /\ [log[p] EXCEPT !.age = @ + 1].age = log[p].age + 1
    <2>1. log[p] \in Entry /\ log[p].age \in Nat
        BY EntryFields
    <2> QED BY <2>1 DEF Entry
<1>3. Older(log) = [p \in 1..Len(log) |-> [log[p] EXCEPT !.age = @ + 1]]
    BY <1>1 DEF Older
<1>4. Older(log) \in Seq(Entry) /\ Len(Older(log)) = Len(log)
    BY <1>1, <1>2, <1>3, IsASeq, LenProperties
<1> QED BY <1>1, <1>2, <1>3, <1>4

LEMMA AppendFacts ==
    ASSUME NEW log \in Seq(Entry), NEW e \in AnyEvent, NEW grown,
           grown = Append(log, [event |-> e, age |-> 0])
    PROVE  /\ grown \in Seq(Entry) /\ Len(grown) = Len(log) + 1 /\ Len(log) \in Nat
           /\ DOMAIN grown = 1..Len(log) + 1 /\ DOMAIN log = 1..Len(log)
           /\ \A p \in 1..Len(log) : grown[p] = log[p]
           /\ grown[Len(log) + 1] = [event |-> e, age |-> 0]
           /\ Last(grown).event = e
<1>1. [event |-> e, age |-> 0] \in Entry
    BY DEF Entry
<1>2. Len(log) \in Nat /\ DOMAIN log = 1..Len(log)
    BY LenProperties
<1>3. /\ grown \in Seq(Entry) /\ Len(grown) = Len(log) + 1
      /\ \A p \in 1..Len(log) : grown[p] = log[p]
      /\ grown[Len(log) + 1] = [event |-> e, age |-> 0]
    BY <1>1, AppendProperties
<1>4. DOMAIN grown = 1..Len(log) + 1
    BY <1>3, LenProperties
<1> QED BY <1>2, <1>3, <1>4 DEF Last

LEMMA IndexFacts ==
    ASSUME NEW a \in Seq(Entry), NEW b \in Seq(Entry), Len(a) = Len(b),
           \A p \in DOMAIN a : a[p].event = b[p].event
    PROVE  Index(a) = Index(b)
BY LenProperties DEF Index

LEMMA InitWindow == Init => IInvWindow
<1> SUFFICES ASSUME Init PROVE IInvWindow
    OBVIOUS
<1>1. window = <<>> /\ heard = <<>> /\ byKind = {} /\ uptime = SixHours + 1 /\ restarts = 0 /\ traffic \in DOMAIN Traffic
    BY DEF Init
<1>2. <<>> \in Seq(Entry) /\ Len(<<>>) = 0 /\ DOMAIN <<>> = {}
    OBVIOUS
<1>3. LogTypes
    BY <1>1, <1>2, CorrelationBounds DEF LogTypes
<1>4. Index(window) = {}
    BY <1>1, <1>2 DEF Index
<1> QED BY <1>1, <1>2, <1>3, <1>4 DEF IInvWindow, HeardInOrder, Sorted, WindowConsistent, KnownSinceStart

(* An event goes to the end of the window.                                 *)
LEMMA ReceiveWindow ==
    ASSUME IInvWindow, NEW e \in Traffic[traffic].events, Receive(e)
    PROVE  IInvWindow' /\ e \in AnyEvent
<1>1. e \in AnyEvent /\ LogTypes
    BY DEF IInvWindow, LogTypes, AnyEvent
<1>2. /\ heard' = Append(heard, [event |-> e, age |-> 0])
      /\ window' = Append(window, [event |-> e, age |-> 0])
      /\ byKind' = byKind \cup {<<e.kind, Len(window) + 1>>}
      /\ traffic' = traffic /\ uptime' = uptime /\ restarts' = restarts
    BY DEF Receive
<1> DEFINE n == Len(window)
           k == Len(heard)
<1>3. /\ window' \in Seq(Entry) /\ Len(window') = n + 1 /\ n \in Nat
      /\ DOMAIN window' = 1..n + 1 /\ DOMAIN window = 1..n
      /\ \A p \in 1..n : window'[p] = window[p]
      /\ window'[n + 1] = [event |-> e, age |-> 0]
    BY <1>1, <1>2, AppendFacts DEF LogTypes
<1>4. /\ heard' \in Seq(Entry) /\ Len(heard') = k + 1 /\ k \in Nat
      /\ DOMAIN heard' = 1..k + 1 /\ DOMAIN heard = 1..k
      /\ \A p \in 1..k : heard'[p] = heard[p]
      /\ heard'[k + 1] = [event |-> e, age |-> 0]
    BY <1>1, <1>2, AppendFacts DEF LogTypes
<1>5. /\ byKind = Index(window) /\ k <= n
      /\ \A p, q \in 1..n : p < q => window[p].age >= window[q].age
      /\ \A p \in 1..k : window[n - k + p].event = heard[p].event /\ window[n - k + p].age <= heard[p].age
      /\ \A p, q \in 1..k : p < q => heard[p].age >= heard[q].age
      /\ \A p \in 1..k : heard[p].age <= SixHours
      /\ \A q \in 1..n : window[q].age < uptime => q > n - k /\ heard[q - (n - k)].age = window[q].age
    BY <1>3, <1>4 DEF IInvWindow, WindowConsistent, HeardInOrder, Sorted, KnownSinceStart, Earlier
<1>6. /\ \A p \in 1..n : window[p].age \in Nat
      /\ \A p \in 1..k : heard[p].age \in Nat
    BY <1>1, <1>3, <1>4, EntryFields DEF LogTypes
<1>7. LogTypes'
    BY <1>1, <1>2, <1>3, <1>4 DEF LogTypes
<1>8. byKind' = Index(window')
    <2>1. Index(window') = {<<window'[p].event.kind, p>> : p \in 1..n} \cup {<<window'[n + 1].event.kind, n + 1>>}
        BY <1>3 DEF Index
    <2>2. Index(window') = Index(window) \cup {<<e.kind, n + 1>>}
        BY <1>3, <2>1 DEF Index
    <2> QED BY <1>2, <1>5, <2>2
<1> HIDE DEF n, k
<1>9. \A p, q \in 1..n + 1 : p < q => window'[p].age >= window'[q].age
    <2> SUFFICES ASSUME NEW p \in 1..n + 1, NEW q \in 1..n + 1, p < q PROVE window'[p].age >= window'[q].age
        OBVIOUS
    <2>1. p \in 1..n
        BY <1>3
    <2>2. CASE q = n + 1
        BY <1>3, <1>6, <2>1, <2>2
    <2>3. CASE q # n + 1
        <3>1. q \in 1..n
            BY <1>3, <2>3
        <3> QED BY <1>3, <1>5, <2>1, <3>1
    <2> QED BY <2>2, <2>3
<1>10. \A p, q \in 1..k + 1 : p < q => heard'[p].age >= heard'[q].age
    <2> SUFFICES ASSUME NEW p \in 1..k + 1, NEW q \in 1..k + 1, p < q PROVE heard'[p].age >= heard'[q].age
        OBVIOUS
    <2>1. p \in 1..k
        BY <1>4
    <2>2. CASE q = k + 1
        BY <1>4, <1>6, <2>1, <2>2
    <2>3. CASE q # k + 1
        <3>1. q \in 1..k
            BY <1>4, <2>3
        <3> QED BY <1>4, <1>5, <2>1, <3>1
    <2> QED BY <2>2, <2>3
<1>11. \A p \in 1..k + 1 : heard'[p].age <= SixHours
    <2> SUFFICES ASSUME NEW p \in 1..k + 1 PROVE heard'[p].age <= SixHours
        OBVIOUS
    <2>1. CASE p = k + 1
        BY <1>4, <2>1, CorrelationBounds
    <2>2. CASE p # k + 1
        <3>1. p \in 1..k
            BY <1>4, <2>2
        <3> QED BY <1>4, <1>5, <3>1
    <2> QED BY <2>1, <2>2
<1>12. Len(window') - Len(heard') = n - k /\ Len(heard') <= Len(window')
    BY <1>3, <1>4, <1>5
<1>13. \A p \in 1..k + 1 : /\ window'[n - k + p].event = heard'[p].event
                           /\ window'[n - k + p].age <= heard'[p].age
    <2> SUFFICES ASSUME NEW p \in 1..k + 1
                 PROVE  /\ window'[n - k + p].event = heard'[p].event
                        /\ window'[n - k + p].age <= heard'[p].age
        OBVIOUS
    <2>1. CASE p = k + 1
        <3>1. n - k + p = n + 1
            BY <1>3, <1>4, <2>1
        <3> QED BY <1>3, <1>4, <2>1, <3>1
    <2>2. CASE p # k + 1
        <3>1. p \in 1..k /\ n - k + p \in 1..n
            BY <1>3, <1>4, <1>5, <2>2
        <3> QED BY <1>3, <1>4, <1>5, <3>1
    <2> QED BY <2>1, <2>2
<1>14. \A q \in 1..n + 1 : window'[q].age < uptime' => q > n - k /\ heard'[q - (n - k)].age = window'[q].age
    <2> SUFFICES ASSUME NEW q \in 1..n + 1, window'[q].age < uptime'
                 PROVE  q > n - k /\ heard'[q - (n - k)].age = window'[q].age
        OBVIOUS
    <2>1. CASE q = n + 1
        <3>1. q - (n - k) = k + 1 /\ q > n - k
            BY <1>3, <1>4, <1>5, <2>1
        <3> QED BY <1>3, <1>4, <2>1, <3>1
    <2>2. CASE q # n + 1
        <3>1. q \in 1..n
            BY <1>3, <2>2
        <3>2. q > n - k /\ heard[q - (n - k)].age = window[q].age
            BY <1>2, <1>3, <1>5, <3>1
        <3>3. q - (n - k) \in 1..k
            BY <1>3, <1>4, <1>5, <3>1, <3>2
        <3> QED BY <1>3, <1>4, <3>1, <3>2, <3>3
    <2> QED BY <2>1, <2>2
<1>15. WindowConsistent'
    BY <1>3, <1>4, <1>8, <1>9, <1>12, <1>13 DEF WindowConsistent
<1>16. HeardInOrder' /\ KnownSinceStart'
    BY <1>3, <1>4, <1>10, <1>11, <1>12, <1>14 DEF HeardInOrder, Sorted, KnownSinceStart, Earlier
<1> QED BY <1>1, <1>7, <1>15, <1>16 DEF IInvWindow

(* Only what is older than anything known of falls out of the window.      *)
LEMMA PruneWindow ==
    ASSUME IInvWindow, Prune
    PROVE  IInvWindow'
<1> DEFINE n == Overdue(window, WindowAge + 1)
           l == Len(window)
           k == Len(heard)
<1>1. /\ window' = SubSeq(window, n + 1, Len(window)) /\ byKind' = Reindexed(window', n)
      /\ UNCHANGED <<traffic, heard, uptime, restarts>>
    BY DEF Prune
<1>2. /\ LogTypes /\ window \in Seq(Entry) /\ heard \in Seq(Entry) /\ Aged(window)
      /\ Sorted(window) /\ WindowAge + 1 \in Nat
    BY EntriesAged, CorrelationBounds DEF IInvWindow, LogTypes, WindowConsistent, Sorted
<1>3. /\ Younger(window, WindowAge + 1) \in Seq(Entry) /\ n \in 0..l
      /\ Len(Younger(window, WindowAge + 1)) = l - n
      /\ \A p \in 1..Len(Younger(window, WindowAge + 1)) :
            Younger(window, WindowAge + 1)[p] = window[p + n] /\ p + n \in DOMAIN window
      /\ \A p \in 1..l : window[p].age < WindowAge + 1 => p > n
    <2> HIDE DEF n, l
    <2> QED BY <1>2, YoungerFacts DEF n, l
<1>4. window' = Younger(window, WindowAge + 1)
    BY <1>1 DEF Younger
<1>5. l \in Nat /\ DOMAIN window = 1..l /\ k \in Nat /\ DOMAIN heard = 1..k
    BY <1>2, LenProperties
<1>6. /\ window' \in Seq(Entry) /\ Len(window') = l - n /\ DOMAIN window' = 1..l - n
      /\ \A p \in 1..l - n : window'[p] = window[p + n] /\ p + n \in 1..l
    BY <1>3, <1>4, <1>5, LenProperties
<1>7. /\ byKind = Index(window) /\ k <= l
      /\ \A p, q \in 1..l : p < q => window[p].age >= window[q].age
      /\ \A p \in 1..k : window[l - k + p].event = heard[p].event /\ window[l - k + p].age <= heard[p].age
      /\ \A p \in 1..k : heard[p].age <= SixHours
      /\ \A q \in 1..l : window[q].age < uptime => q > l - k /\ heard[q - (l - k)].age = window[q].age
    BY <1>5 DEF IInvWindow, WindowConsistent, HeardInOrder, KnownSinceStart, Earlier
<1>8. byKind' = Index(window')
    <2>1. CASE n = 0
        <3>1. byKind' = byKind
            BY <1>1, <2>1 DEF Reindexed
        <3>2. Len(window) = Len(window') /\ \A p \in DOMAIN window : window[p].event = window'[p].event
            BY <1>5, <1>6, <2>1
        <3> QED BY <1>2, <1>6, <1>7, <3>1, <3>2, IndexFacts
    <2>2. CASE n # 0
        BY <1>1, <2>2 DEF Reindexed
    <2> QED BY <2>1, <2>2
<1>9. n <= l - k
    <2>1. CASE k = 0
        BY <1>3, <1>5, <2>1
    <2>2. CASE k # 0
        <3>1. 1 \in 1..k /\ l - k + 1 \in 1..l
            BY <1>5, <1>7, <2>2
        <3>2. window[l - k + 1].age <= heard[1].age /\ heard[1].age <= SixHours
            BY <1>7, <3>1
        <3>3. window[l - k + 1].age \in Nat /\ heard[1].age \in Nat
            BY <1>2, <1>5, <3>1, EntryFields
        <3>4. window[l - k + 1].age < WindowAge + 1
            BY <3>2, <3>3, CorrelationBounds
        <3>5. l - k + 1 > n
            BY <1>3, <3>1, <3>4
        <3> QED BY <1>3, <1>5, <3>5
    <2> QED BY <2>1, <2>2
<1> HIDE DEF n, l, k
<1>10. \A p, q \in 1..l - n : p < q => window'[p].age >= window'[q].age
    <2> SUFFICES ASSUME NEW p \in 1..l - n, NEW q \in 1..l - n, p < q PROVE window'[p].age >= window'[q].age
        OBVIOUS
    <2>1. p + n \in 1..l /\ q + n \in 1..l /\ p + n < q + n
        BY <1>3, <1>5, <1>6
    <2> QED BY <1>6, <1>7, <2>1
<1>11. \A p \in 1..k : window'[l - n - k + p].event = heard[p].event /\ window'[l - n - k + p].age <= heard[p].age
    <2> SUFFICES ASSUME NEW p \in 1..k
                 PROVE  window'[l - n - k + p].event = heard[p].event /\ window'[l - n - k + p].age <= heard[p].age
        OBVIOUS
    <2>1. l - n - k + p \in 1..l - n /\ (l - n - k + p) + n = l - k + p
        BY <1>3, <1>5, <1>9
    <2> QED BY <1>6, <1>7, <2>1
<1>12. \A q \in 1..l - n : window'[q].age < uptime => q > l - n - k /\ heard[q - (l - n - k)].age = window'[q].age
    <2> SUFFICES ASSUME NEW q \in 1..l - n, window'[q].age < uptime
                 PROVE  q > l - n - k /\ heard[q - (l - n - k)].age = window'[q].age
        OBVIOUS
    <2>1. q + n \in 1..l /\ window'[q] = window[q + n]
        BY <1>6
    <2>2. q + n > l - k /\ heard[(q + n) - (l - k)].age = window[q + n].age
        <3>1. window[q + n].age < uptime
            BY <2>1
        <3>2. \A x \in 1..l : window[x].age < uptime => x > l - k /\ heard[x - (l - k)].age = window[x].age
            BY <1>7
        <3> QED BY ONLY <2>1, <3>1, <3>2
    <2>3. q > l - n - k /\ (q + n) - (l - k) = q - (l - n - k)
        BY <1>3, <1>5, <2>2
    <2> QED BY <2>1, <2>2, <2>3
<1>13. Len(heard') = k /\ DOMAIN heard' = 1..k /\ Len(window') - Len(heard') = l - n - k /\ heard' = heard
    BY <1>1, <1>5, <1>6 DEF k
<1>14. WindowConsistent'
    <2>1. \A p, q \in DOMAIN window' : p < q => window'[p].age >= window'[q].age
        BY <1>6, <1>10
    <2>2. \A p \in DOMAIN heard' : /\ window'[Len(window') - Len(heard') + p].event = heard'[p].event
                                   /\ window'[Len(window') - Len(heard') + p].age <= heard'[p].age
        BY <1>11, <1>13
    <2>3. byKind' = Index(window')
        BY <1>8
    <2>4. Len(heard') <= Len(window')
        BY <1>3, <1>5, <1>6, <1>9, <1>13
    <2> QED BY <2>1, <2>2, <2>3, <2>4 DEF WindowConsistent
<1>15. KnownSinceStart'
    BY <1>1, <1>6, <1>12, <1>13 DEF KnownSinceStart, Earlier
<1>16. LogTypes' /\ HeardInOrder'
    BY <1>1, <1>2, <1>6 DEF LogTypes, IInvWindow, HeardInOrder, Sorted
<1> QED BY <1>14, <1>15, <1>16 DEF IInvWindow

(* Time passes for the window and for what is known alike.                 *)
LEMMA ElapseWindow ==
    ASSUME IInvWindow, Elapse
    PROVE  IInvWindow'
<1> DEFINE l == Len(window)
           k == Len(heard)
           past == Older(heard)
           n == Overdue(past, SixHours + 1)
<1>1. /\ window' = Older(window) /\ heard' = Younger(past, SixHours + 1)
      /\ uptime' = (IF uptime > SixHours THEN uptime ELSE uptime + 1)
      /\ UNCHANGED <<traffic, byKind, restarts>>
    BY DEF Elapse
<1>2. /\ LogTypes /\ window \in Seq(Entry) /\ heard \in Seq(Entry) /\ SixHours + 1 \in Nat
      /\ uptime \in 0..SixHours + 1
    BY CorrelationBounds DEF IInvWindow, LogTypes
<1>3. l \in Nat /\ DOMAIN window = 1..l /\ k \in Nat /\ DOMAIN heard = 1..k
    BY <1>2, LenProperties
<1>4. /\ byKind = Index(window) /\ k <= l
      /\ \A p, q \in 1..l : p < q => window[p].age >= window[q].age
      /\ \A p, q \in 1..k : p < q => heard[p].age >= heard[q].age
      /\ \A p \in 1..k : window[l - k + p].event = heard[p].event /\ window[l - k + p].age <= heard[p].age
      /\ \A p \in 1..k : heard[p].age <= SixHours
      /\ \A q \in 1..l : window[q].age < uptime => q > l - k /\ heard[q - (l - k)].age = window[q].age
    BY <1>3 DEF IInvWindow, WindowConsistent, HeardInOrder, Sorted, KnownSinceStart, Earlier
<1>5. /\ \A p \in 1..l : window[p].age \in Nat
      /\ \A p \in 1..k : heard[p].age \in Nat
    BY <1>2, <1>3, EntryFields
<1>6. /\ window' \in Seq(Entry) /\ Len(window') = l /\ DOMAIN window' = 1..l
      /\ \A p \in 1..l : window'[p].event = window[p].event /\ window'[p].age = window[p].age + 1
    BY <1>1, <1>2, <1>3, OlderFacts
<1>7. /\ past \in Seq(Entry) /\ Len(past) = k /\ DOMAIN past = 1..k
      /\ \A p \in 1..k : past[p].event = heard[p].event /\ past[p].age = heard[p].age + 1
    BY <1>2, <1>3, OlderFacts
<1> HIDE DEF past
<1>8. Sorted(past) /\ Aged(past)
    <2>1. \A p, q \in 1..k : p < q => past[p].age >= past[q].age
        <3> SUFFICES ASSUME NEW p \in 1..k, NEW q \in 1..k, p < q PROVE past[p].age >= past[q].age
            OBVIOUS
        <3>1. heard[p].age >= heard[q].age /\ heard[p].age \in Nat /\ heard[q].age \in Nat
            BY <1>4, <1>5
        <3> QED BY <1>7, <3>1
    <2> QED BY <1>7, <2>1, EntriesAged DEF Sorted
<1>9. /\ heard' \in Seq(Entry) /\ n \in 0..k /\ Len(heard') = k - n
      /\ \A p \in 1..k - n : /\ heard'[p] = past[p + n] /\ p + n \in 1..k
                             /\ heard'[p].age < SixHours + 1
      /\ \A p \in 1..k : past[p].age < SixHours + 1 => p > n
    BY <1>1, <1>2, <1>7, <1>8, YoungerFacts
<1>10. DOMAIN heard' = 1..k - n
    BY <1>9, LenProperties
<1> HIDE DEF n, l, k
<1>11. \A p \in 1..k - n : /\ heard'[p].event = heard[p + n].event
                           /\ heard'[p].age = heard[p + n].age + 1
    BY <1>7, <1>9
<1>12. \A p, q \in 1..l : p < q => window'[p].age >= window'[q].age
    <2> SUFFICES ASSUME NEW p \in 1..l, NEW q \in 1..l, p < q PROVE window'[p].age >= window'[q].age
        OBVIOUS
    <2>1. window[p].age >= window[q].age /\ window[p].age \in Nat /\ window[q].age \in Nat
        BY <1>4, <1>5
    <2>2. window'[p].age = window[p].age + 1 /\ window'[q].age = window[q].age + 1
        BY <1>6
    <2> QED BY <2>1, <2>2
<1>13. \A p, q \in 1..k - n : p < q => heard'[p].age >= heard'[q].age
    <2> SUFFICES ASSUME NEW p \in 1..k - n, NEW q \in 1..k - n, p < q PROVE heard'[p].age >= heard'[q].age
        OBVIOUS
    <2>1. p + n \in 1..k /\ q + n \in 1..k /\ p + n < q + n
        BY <1>3, <1>9
    <2>2. heard[p + n].age >= heard[q + n].age /\ heard[p + n].age \in Nat /\ heard[q + n].age \in Nat
        BY <1>4, <1>5, <2>1
    <2> QED BY <1>11, <2>2
<1>14. \A p \in 1..k - n : heard'[p].age <= SixHours
    <2> SUFFICES ASSUME NEW p \in 1..k - n PROVE heard'[p].age <= SixHours
        OBVIOUS
    <2>1. p + n \in 1..k /\ heard'[p].age < SixHours + 1 /\ heard'[p].age = heard[p + n].age + 1
        BY <1>9, <1>11
    <2>2. heard[p + n].age \in Nat
        BY <1>5, <2>1
    <2> QED BY <2>1, <2>2, CorrelationBounds
<1>15. Len(window') - Len(heard') = l - k + n /\ Len(heard') <= Len(window') /\ Len(heard') = k - n
    BY <1>3, <1>4, <1>6, <1>9
<1>16. \A p \in 1..k - n : /\ window'[l - k + n + p].event = heard'[p].event
                           /\ window'[l - k + n + p].age <= heard'[p].age
    <2> SUFFICES ASSUME NEW p \in 1..k - n
                 PROVE  /\ window'[l - k + n + p].event = heard'[p].event
                        /\ window'[l - k + n + p].age <= heard'[p].age
        OBVIOUS
    <2>1. p + n \in 1..k /\ l - k + n + p = l - k + (p + n) /\ l - k + (p + n) \in 1..l
        BY <1>3, <1>4, <1>9
    <2>2. window[l - k + (p + n)].event = heard[p + n].event /\ window[l - k + (p + n)].age <= heard[p + n].age
        BY <1>4, <2>1
    <2>3. window[l - k + (p + n)].age \in Nat /\ heard[p + n].age \in Nat
        BY <1>5, <2>1
    <2>4. window'[l - k + (p + n)].event = window[l - k + (p + n)].event
          /\ window'[l - k + (p + n)].age = window[l - k + (p + n)].age + 1
        BY <1>6, <2>1
    <2> QED BY <1>11, <2>1, <2>2, <2>3, <2>4
<1>17. \A q \in 1..l : window'[q].age < uptime' =>
           q > l - k + n /\ heard'[q - (l - k + n)].age = window'[q].age
    <2> SUFFICES ASSUME NEW q \in 1..l, window'[q].age < uptime'
                 PROVE  q > l - k + n /\ heard'[q - (l - k + n)].age = window'[q].age
        OBVIOUS
    <2>1. window'[q].age = window[q].age + 1 /\ window[q].age \in Nat
        BY <1>5, <1>6
    <2>2. window[q].age < uptime /\ window[q].age + 1 < SixHours + 1
        <3>1. CASE uptime > SixHours
            BY <1>1, <1>2, <2>1, <3>1, CorrelationBounds
        <3>2. CASE ~(uptime > SixHours)
            BY <1>1, <1>2, <2>1, <3>2, CorrelationBounds
        <3> QED BY <3>1, <3>2
    <2>3. q > l - k /\ heard[q - (l - k)].age = window[q].age
        BY <1>4, <2>2
    <2>4. q - (l - k) \in 1..k
        BY <1>3, <1>4, <2>3
    <2>5. past[q - (l - k)].age < SixHours + 1
        BY <1>7, <2>2, <2>3, <2>4
    <2>6. q - (l - k) > n
        BY <1>9, <2>4, <2>5
    <2>7. q > l - k + n /\ q - (l - k + n) \in 1..k - n /\ (q - (l - k + n)) + n = q - (l - k)
        BY <1>3, <1>9, <2>4, <2>6
    <2> QED BY <1>11, <2>1, <2>3, <2>7
<1>18. byKind' = Index(window')
    BY <1>1, <1>2, <1>3, <1>4, <1>6, IndexFacts DEF l
<1>19. LogTypes'
    BY <1>1, <1>2, <1>6, <1>9, CorrelationBounds DEF LogTypes
<1>20. WindowConsistent'
    BY <1>6, <1>10, <1>12, <1>15, <1>16, <1>18 DEF WindowConsistent
<1>21. HeardInOrder' /\ KnownSinceStart'
    BY <1>6, <1>10, <1>13, <1>14, <1>15, <1>17 DEF HeardInOrder, Sorted, KnownSinceStart, Earlier
<1> QED BY <1>19, <1>20, <1>21 DEF IInvWindow

(* A start fills the window with what it reads.                            *)
LEMMA RestartWindow ==
    ASSUME IInvWindow, Restart
    PROVE  IInvWindow'
<1> DEFINE recent == Younger(heard, SixHours)
<1>1. PICK rows \in SUBSET DOMAIN recent : heard' = Kept(recent, rows)
    BY DEF Restart
<1>2. /\ window' = [p \in DOMAIN heard' |-> [event |-> heard'[p].event, age |-> 0]]
      /\ byKind' = Index(window') /\ uptime' = 0 /\ restarts' = restarts + 1 /\ traffic' = traffic
    BY DEF Restart
<1>3. LogTypes /\ heard \in Seq(Entry) /\ Sorted(heard) /\ Aged(heard) /\ SixHours \in Nat
    BY EntriesAged, CorrelationBounds DEF IInvWindow, LogTypes, HeardInOrder
<1>4. /\ recent \in Seq(Entry) /\ Overdue(heard, SixHours) \in 0..Len(heard)
      /\ \A p \in 1..Len(recent) : /\ recent[p] = heard[p + Overdue(heard, SixHours)]
                                   /\ p + Overdue(heard, SixHours) \in DOMAIN heard
                                   /\ recent[p].age < SixHours
    BY <1>3, YoungerFacts
<1>5. Len(heard) \in Nat
    BY <1>3, LenProperties
<1> HIDE DEF recent
<1>6. Len(recent) \in Nat /\ DOMAIN recent = 1..Len(recent)
    BY <1>4, LenProperties
<1>7. Sorted(recent)
    <2> SUFFICES ASSUME NEW p \in 1..Len(recent), NEW q \in 1..Len(recent), p < q
                 PROVE  recent[p].age >= recent[q].age
        BY <1>6 DEF Sorted
    <2> DEFINE o == Overdue(heard, SixHours)
    <2>1. o \in Nat
        BY <1>4, <1>5
    <2> HIDE DEF o
    <2>2. p + o \in DOMAIN heard /\ q + o \in DOMAIN heard /\ p + o < q + o
        BY <1>4, <1>6, <2>1 DEF o
    <2>3. heard[p + o].age >= heard[q + o].age
        BY <1>3, <2>2 DEF Sorted
    <2> QED BY <1>4, <2>3 DEF o
<1> DEFINE c == Cardinality(rows)
<1>8. /\ heard' \in Seq(Entry) /\ Len(heard') = c /\ c \in Nat
      /\ \A n \in 1..c : Nth(rows, n) \in DOMAIN recent /\ heard'[n] = recent[Nth(rows, n)]
      /\ \A n, m \in 1..c : n < m => Nth(rows, n) < Nth(rows, m)
    BY <1>1, <1>4, <1>6, KeptFacts
<1> HIDE DEF c
<1>9. DOMAIN heard' = 1..c
    BY <1>8, LenProperties
<1>10. HeardInOrder'
    <2>1. \A n, m \in 1..c : n < m => heard'[n].age >= heard'[m].age
        BY <1>7, <1>8 DEF Sorted
    <2>2. \A n \in 1..c : heard'[n].age <= SixHours
        <3> SUFFICES ASSUME NEW n \in 1..c PROVE heard'[n].age <= SixHours
            OBVIOUS
        <3>1. recent[Nth(rows, n)].age < SixHours /\ recent[Nth(rows, n)].age \in Nat
            BY <1>4, <1>6, <1>8, EntryFields
        <3> QED BY <1>3, <1>8, <3>1
    <2> QED BY <1>9, <2>1, <2>2 DEF HeardInOrder, Sorted
<1>11. \A n \in 1..c : heard'[n].event \in AnyEvent /\ heard'[n].age \in Nat
    BY <1>8, <1>9, EntryFields
<1>12. \A n \in 1..c : [event |-> heard'[n].event, age |-> 0] \in Entry
    BY <1>11 DEF Entry
<1>13. /\ window' \in Seq(Entry) /\ Len(window') = c /\ DOMAIN window' = 1..c
       /\ \A n \in 1..c : window'[n].event = heard'[n].event /\ window'[n].age = 0
    BY <1>2, <1>8, <1>9, <1>12, IsASeq, LenProperties
<1>14. WindowConsistent'
    <2>1. Len(window') - Len(heard') = 0 /\ Len(heard') <= Len(window')
        BY <1>8, <1>13
    <2>2. \A p \in 1..c : 0 + p = p
        BY <1>8
    <2>3. \A p, q \in 1..c : p < q => window'[p].age >= window'[q].age
        BY <1>13
    <2>4. \A p \in 1..c : window'[0 + p].event = heard'[p].event /\ window'[0 + p].age <= heard'[p].age
        BY <1>11, <1>13, <2>2
    <2>5. \A p \in DOMAIN heard' : /\ window'[Len(window') - Len(heard') + p].event = heard'[p].event
                                   /\ window'[Len(window') - Len(heard') + p].age <= heard'[p].age
        BY <1>9, <2>1, <2>4
    <2>6. byKind' = Index(window') /\ DOMAIN window' = 1..c /\ Len(heard') <= Len(window')
        BY <1>2, <1>13, <2>1
    <2>7. \A p, q \in DOMAIN window' : p < q => window'[p].age >= window'[q].age
        BY <2>3, <2>6
    <2> QED BY <2>5, <2>6, <2>7 DEF WindowConsistent
<1>15. KnownSinceStart'
    BY <1>2, <1>13 DEF KnownSinceStart
<1>16. LogTypes'
    BY <1>2, <1>3, <1>8, <1>13, CorrelationBounds DEF LogTypes
<1> QED BY <1>10, <1>14, <1>15, <1>16 DEF IInvWindow

LEMMA WindowStep ==
    ASSUME IInvWindow, [Next]_vars
    PROVE  IInvWindow'
<1>1. ASSUME NEW e \in Traffic[traffic].events, Receive(e) PROVE IInvWindow'
    BY <1>1, ReceiveWindow
<1>2. ASSUME NEW n \in DOMAIN incidents, Persist(n) PROVE IInvWindow'
    BY <1>2 DEF Persist, IInvWindow, LogTypes, HeardInOrder, Sorted, WindowConsistent, KnownSinceStart, Earlier
<1>3. CASE UNCHANGED vars
    BY <1>3 DEF vars, IInvWindow, LogTypes, HeardInOrder, Sorted, WindowConsistent, KnownSinceStart, Earlier
<1> QED BY <1>1, <1>2, <1>3, PruneWindow, ElapseWindow, RestartWindow DEF Next

(* Alert rules leave the window and the incidents to themselves.           *)
LEMMA AlertsStep == [AlertsNext]_allVars => [Next]_vars
BY DEF AlertsNext, Next, allVars, RefreshRules, CreateRule, DeleteRule, PersistAlert

THEOREM CorrelationUnderAlerts == AlertsSpec => Spec
<1>1. AlertsInit => Init
    BY DEF AlertsInit
<1> QED BY <1>1, AlertsStep, PTL DEF AlertsSpec, Spec

(* Every query of the window, made through its index, reads the events it  *)
(* holds, and it holds all the process knows of.                           *)
THEOREM WindowAlwaysConsistent == AlertsSpec => []WindowConsistent
<1>1. Init /\ [][Next]_vars => []IInvWindow
    <2>1. IInvWindow /\ [Next]_vars => IInvWindow'
        BY WindowStep
    <2> QED BY InitWindow, <2>1, PTL
<1>2. IInvWindow => WindowConsistent
    BY DEF IInvWindow
<1> QED BY <1>1, <1>2, CorrelationUnderAlerts, PTL DEF Spec
-----------------------------------------------------------------------------
(* Incidents.                                                              *)
Value == {None} \cup UNION {{e.place, e.region, e.country, e.domain, e.cell} : e \in AnyEvent}
Incidents ==
    [rule : {r.id : r \in Rules}, place : Value, region : Value, tag : Value, age : Nat,
     active : BOOLEAN, restored : BOOLEAN, stored : BOOLEAN, start : Nat]

(* What expired within six hours, or lost its place, is of an earlier      *)
(* process, and what expired will not be active again.                     *)
History(i, now) ==
    /\ i.start <= now
    /\ i.restored => i.start < now
    /\ ~i.active /\ i.age < SixHours => i.start < now
    /\ ~i.active => ~i.stored \/ i.age >= Hour

IncidentTypes ==
    /\ traffic \in DOMAIN Traffic /\ restarts \in Nat
    /\ incidents \in Seq(Incidents) /\ Sorted(incidents)
    /\ \A n \in DOMAIN incidents : History(incidents[n], restarts)

IInvIncidents == IncidentTypes /\ OnePerCooldown

LEMMA RuleIds == \A r, s \in Rules : r.id = s.id => r = s
BY DEF Rules, InfraAttack, MilitaryStrike, ConfirmedStrike, CoordinatedShutdown,
       MaritimeEnforcement, AptStaging, ConflictThermalCluster, GpsMilitary,
       OsintStrike, MilitarySurge

LEMMA IncidentFields ==
    ASSUME NEW i \in Incidents
    PROVE  /\ i.age \in Nat /\ i.start \in Nat
           /\ i.active \in BOOLEAN /\ i.restored \in BOOLEAN /\ i.stored \in BOOLEAN
BY DEF Incidents

LEMMA IncidentsAt ==
    ASSUME incidents \in Seq(Incidents), NEW n \in DOMAIN incidents
    PROVE  incidents[n] \in Incidents
BY ElementOfSeq, LenProperties

(* An incident whatever happens to it afterwards.                          *)
Follows(j, i) ==
    /\ j.rule = i.rule /\ j.place = i.place /\ j.region = i.region /\ j.tag = i.tag
    /\ j.start = i.start /\ j.age >= i.age /\ (j.active => i.active)

LEMMA FollowsStands ==
    ASSUME NEW r, NEW i, NEW j, NEW i2, NEW j2, Follows(i2, i), Follows(j2, j), Stands(r, i2, j2)
    PROVE  Stands(r, i, j)
BY DEF Follows, Stands, Covers, SameRegion

LEMMA FollowsRepeat ==
    ASSUME NEW r, NEW i, NEW j, NEW i2, NEW j2, Follows(i2, i), Follows(j2, j), MayRepeat(r, i, j)
    PROVE  MayRepeat(r, i2, j2)
BY DEF Follows, MayRepeat

(* Nothing that only ages, expires or forgets incidents makes two of one.  *)
LEMMA Survivors ==
    ASSUME IInvIncidents, incidents' \in Seq(Incidents), NEW o \in Nat,
           Len(incidents') + o = Len(incidents),
           \A p \in 1..Len(incidents') : Follows(incidents'[p], incidents[p + o])
    PROVE  OnePerCooldown'
<1>1. /\ Len(incidents') \in Nat /\ DOMAIN incidents' = 1..Len(incidents')
      /\ Len(incidents) \in Nat /\ DOMAIN incidents = 1..Len(incidents)
    BY LenProperties DEF IInvIncidents, IncidentTypes
<1> SUFFICES ASSUME NEW n \in 1..Len(incidents'), NEW m \in 1..n - 1, NEW r \in Rules,
                    incidents'[n].rule = r.id,
                    Stands(r, incidents'[m], incidents'[n]), incidents'[m].age < SixHours
             PROVE  MayRepeat(r, incidents'[m], incidents'[n])
    BY <1>1 DEF OnePerCooldown, IInvIncidents, IncidentTypes
<1>2. /\ m \in 1..Len(incidents') /\ m + o \in 1..(n + o) - 1
      /\ n + o \in 1..Len(incidents) /\ m + o \in 1..Len(incidents)
    BY <1>1
<1> DEFINE i == incidents[m + o]
           j == incidents[n + o]
<1>3. Follows(incidents'[m], i) /\ Follows(incidents'[n], j)
    BY <1>2
<1>4. j.rule = r.id /\ Stands(r, i, j)
    BY <1>3, FollowsStands DEF Follows
<1>5. i.age < SixHours
    <2>1. i \in Incidents /\ incidents'[m] \in Incidents
        BY <1>1, <1>2, ElementOfSeq DEF IInvIncidents, IncidentTypes
    <2> QED BY <1>3, <2>1, IncidentFields, CorrelationBounds DEF Follows
<1>6. MayRepeat(r, i, j)
    BY <1>1, <1>2, <1>4, <1>5 DEF IInvIncidents, OnePerCooldown
<1> QED BY <1>3, <1>6, FollowsRepeat

LEMMA IncidentFacts ==
    ASSUME NEW r \in Rules, NEW e \in AnyEvent, restarts \in Nat
    PROVE  /\ Incident(r, e) \in Incidents
           /\ Incident(r, e).rule = r.id /\ Incident(r, e).place = e.place
           /\ Incident(r, e).region = e.region /\ Incident(r, e).age = 0
           /\ Incident(r, e).active /\ ~Incident(r, e).restored /\ ~Incident(r, e).stored
           /\ Incident(r, e).start = restarts
           /\ r.by = "country" => Incident(r, e).tag = e.country
           /\ r.by = "domain" => Incident(r, e).tag = e.domain
           /\ r.by = "cell" => Incident(r, e).tag = e.cell
<1> DEFINE tag == CASE r.by = "country" -> e.country
                    [] r.by = "domain" -> e.domain
                    [] r.by = "cell" -> e.cell
                    [] OTHER -> None
<1>1. /\ e.place \in Value /\ e.region \in Value /\ e.country \in Value
      /\ e.domain \in Value /\ e.cell \in Value /\ None \in Value
    BY DEF Value
<1>2. tag \in Value
    BY <1>1
<1>3. /\ r.by = "country" => tag = e.country
      /\ r.by = "domain" => tag = e.domain
      /\ r.by = "cell" => tag = e.cell
    OBVIOUS
<1> HIDE DEF tag
<1>4. Incident(r, e) = [rule |-> r.id, place |-> e.place, region |-> e.region, tag |-> tag,
                        age |-> 0, active |-> TRUE, restored |-> FALSE, stored |-> FALSE, start |-> restarts]
    BY DEF Incident, tag
<1>5. Incident(r, e) \in Incidents
    BY <1>1, <1>2, <1>4 DEF Incidents
<1> QED BY <1>3, <1>4, <1>5

(* The elements of a finite set in some order, each once.                  *)
LEMMA SequenceOfSet ==
    ASSUME NEW S, IsFiniteSet(S)
    PROVE  /\ Cardinality(S) \in Nat /\ SetToSeq(S) \in Seq(S)
           /\ Len(SetToSeq(S)) = Cardinality(S)
           /\ \A n \in 1..Cardinality(S) : SetToSeq(S)[n] \in S
           /\ \A n, m \in 1..Cardinality(S) : SetToSeq(S)[n] = SetToSeq(S)[m] => n = m
           /\ \A x \in S : \E n \in 1..Cardinality(S) : SetToSeq(S)[n] = x
<1>1. PICK n \in Nat : ExistsBijection(1..n, S)
    BY FS_NatBijection
<1>2. Cardinality(S) = n
    BY <1>1, FS_CountingElements
<1>3. \E f \in [1..n -> S] : IsInjective(f)
    BY <1>1 DEF ExistsBijection, Bijection, Injection
<1>4. SetToSeq(S) \in [1..n -> S] /\ IsInjective(SetToSeq(S))
    BY <1>2, <1>3 DEF SetToSeq
<1>5. SetToSeq(S) \in Seq(S) /\ Len(SetToSeq(S)) = n
    BY <1>4, IsASeq, LenProperties
<1>6. SetToSeq(S) \in Injection(1..n, S) /\ Cardinality(1..n) = n
    BY <1>4, Interval DEF Injection
<1>7. SetToSeq(S) \in Surjection(1..n, S)
    BY <1>2, <1>6, FS_Injection
<1> QED BY <1>2, <1>4, <1>5, <1>7 DEF IsInjective, Surjection

LEMMA FiniteImage ==
    ASSUME NEW S, IsFiniteSet(S), NEW g, g = [x \in S |-> g[x]]
    PROVE  IsFiniteSet({g[x] : x \in S})
<1>1. g \in Surjection(S, {g[x] : x \in S})
    BY DEF Surjection
<1> QED BY <1>1, FS_Surjection

LEMMA RulesFinite == IsFiniteSet(Rules)
<1>1. ASSUME NEW a, NEW b PROVE IsFiniteSet({a, b})
    <2>1. IsFiniteSet({a} \cup {b})
        BY FS_Singleton, FS_Union
    <2>2. {a, b} = {a} \cup {b}
        OBVIOUS
    <2> QED BY <2>1, <2>2
<1>2. ASSUME NEW a, NEW b, NEW c, NEW d PROVE IsFiniteSet({a, b, c, d})
    <2>1. IsFiniteSet({a, b} \cup {c, d})
        BY <1>1, FS_Union
    <2>2. {a, b, c, d} = {a, b} \cup {c, d}
        OBVIOUS
    <2> QED BY <2>1, <2>2
<1> DEFINE four == {InfraAttack, MilitaryStrike, ConfirmedStrike, CoordinatedShutdown}
           more == {MaritimeEnforcement, AptStaging, ConflictThermalCluster, GpsMilitary}
           last == {OsintStrike, MilitarySurge}
<1>3. IsFiniteSet(four \cup more)
    BY <1>2, FS_Union
<1>4. IsFiniteSet((four \cup more) \cup last)
    <2> HIDE DEF four, more
    <2>1. IsFiniteSet(last)
        BY <1>1
    <2> HIDE DEF last
    <2> QED BY <1>3, <2>1, FS_Union
<1>5. Rules = (four \cup more) \cup last
    BY DEF Rules
<1> QED BY <1>4, <1>5

(* The incidents an event raises: one for each rule that fires.            *)
Firing(e) == {x \in Triggered(e) : Fires(x, e)}
Raised(e) == {Incident(r, e) : r \in Firing(e)}

LEMMA RaisedFacts ==
    ASSUME NEW e \in AnyEvent, Receive(e), incidents \in Seq(Incidents), restarts \in Nat
    PROVE  /\ incidents' \in Seq(Incidents)
           /\ Len(incidents) \in Nat /\ Len(incidents') \in Nat /\ Len(incidents') >= Len(incidents)
           /\ DOMAIN incidents = 1..Len(incidents) /\ DOMAIN incidents' = 1..Len(incidents')
           /\ \A n \in 1..Len(incidents) : incidents'[n] = incidents[n]
           /\ \A n \in Len(incidents) + 1..Len(incidents') :
                 \E r \in Firing(e) : r \in Rules /\ incidents'[n] = Incident(r, e)
           /\ \A n, m \in Len(incidents) + 1..Len(incidents') : incidents'[n] = incidents'[m] => n = m
           /\ \A r \in Firing(e) : \E n \in Len(incidents) + 1..Len(incidents') : incidents'[n] = Incident(r, e)
<1> DEFINE l == Len(incidents)
           s == SetToSeq(Raised(e))
           c == Cardinality(Raised(e))
<1>1. incidents' = incidents \o SetToSeq({Incident(r, e) : r \in {x \in Triggered(e) : Fires(x, e)}})
    BY DEF Receive
<1>2. incidents' = incidents \o s
    BY <1>1 DEF Raised, Firing
<1>3. Firing(e) \subseteq Rules
    BY DEF Firing, Triggered
<1>4. IsFiniteSet(Raised(e))
    <2> DEFINE g == [r \in Firing(e) |-> Incident(r, e)]
    <2>1. IsFiniteSet(Firing(e)) /\ g = [x \in Firing(e) |-> g[x]]
        BY <1>3, RulesFinite, FS_Subset
    <2>2. {g[x] : x \in Firing(e)} = Raised(e)
        BY DEF Raised
    <2> HIDE DEF g
    <2> QED BY <2>1, <2>2, FiniteImage
<1>5. Raised(e) \subseteq Incidents
    BY <1>3, IncidentFacts DEF Raised
<1>6. /\ c \in Nat /\ Len(s) = c /\ \A n \in 1..c : s[n] \in Raised(e)
      /\ \A n, m \in 1..c : s[n] = s[m] => n = m
      /\ \A x \in Raised(e) : \E n \in 1..c : s[n] = x
      /\ s \in Seq(Raised(e))
    BY <1>4, SequenceOfSet
<1> HIDE DEF s, c
<1>7. s \in Seq(Incidents)
    <2>1. s \in [1..c -> Incidents]
        BY <1>5, <1>6, SeqDef, LenProperties
    <2> QED BY <1>6, <2>1, IsASeq
<1>8. /\ incidents' \in Seq(Incidents) /\ Len(incidents') = l + c
      /\ \A i \in 1..l + c : incidents'[i] = IF i <= l THEN incidents[i] ELSE s[i - l]
    BY <1>2, <1>6, <1>7, ConcatProperties
<1>9. l \in Nat /\ DOMAIN incidents = 1..l /\ DOMAIN incidents' = 1..l + c
    BY <1>8, LenProperties
<1> HIDE DEF l
<1>10. \A n \in 1..l : incidents'[n] = incidents[n]
    BY <1>6, <1>8, <1>9
<1>11. \A n \in l + 1..l + c : n - l \in 1..c /\ incidents'[n] = s[n - l]
    BY <1>6, <1>8, <1>9
<1>12. \A n \in l + 1..l + c : \E r \in Firing(e) : r \in Rules /\ incidents'[n] = Incident(r, e)
    BY <1>3, <1>6, <1>11 DEF Raised
<1>13. \A n, m \in l + 1..l + c : incidents'[n] = incidents'[m] => n = m
    <2> SUFFICES ASSUME NEW n \in l + 1..l + c, NEW m \in l + 1..l + c, incidents'[n] = incidents'[m] PROVE n = m
        OBVIOUS
    <2>1. n - l = m - l
        BY <1>6, <1>11
    <2> QED BY <1>6, <1>9, <2>1
<1>14. ASSUME NEW r \in Firing(e)
       PROVE  \E n \in l + 1..l + c : incidents'[n] = Incident(r, e)
    <2>1. PICK n \in 1..c : s[n] = Incident(r, e)
        BY <1>6 DEF Raised
    <2>2. n + l \in l + 1..l + c /\ (n + l) - l = n
        BY <1>6, <1>9
    <2> QED BY <1>11, <2>1, <2>2
<1>15. l + c \in Nat /\ l + c >= l
    BY <1>6, <1>9
<1> QED BY <1>8, <1>9, <1>10, <1>12, <1>13, <1>14, <1>15 DEF l

(* An incident that stands for an event, and is active, keeps it from      *)
(* being raised again, unless it has lost its place.                       *)
LEMMA NotSuppressed ==
    ASSUME NEW r \in Rules, NEW e \in AnyEvent, NEW i \in Incidents, i \in ToSet(incidents),
           ~Suppressed(r, e), restarts \in Nat, Stands(r, i, Incident(r, e)), i.active
    PROVE  i.restored /\ r.by \in {"place", "placeOrRegion"} /\ i.place # None
<1>1. ~Covers(r, InMemory(i), e)
    BY DEF Suppressed
<1>2. Covers(r, i, e)
    BY IncidentFacts DEF Stands, Covers, SameRegion
<1>3. i.restored
    BY <1>1, <1>2 DEF InMemory
<1>4. /\ InMemory(i).rule = i.rule /\ InMemory(i).tag = i.tag /\ InMemory(i).region = i.region
    BY DEF InMemory, Incidents
<1> QED BY <1>1, <1>2, <1>3, <1>4 DEF Covers, SameRegion

LEMMA ReceiveIncidents ==
    ASSUME IInvIncidents, NEW e \in Traffic[traffic].events, Receive(e)
    PROVE  IInvIncidents'
<1> DEFINE l == Len(incidents)
           k == Len(incidents')
<1>1. e \in AnyEvent /\ IncidentTypes /\ OnePerCooldown /\ restarts' = restarts /\ traffic' = traffic
    BY DEF IInvIncidents, IncidentTypes, AnyEvent, Receive
<1>2. /\ incidents' \in Seq(Incidents) /\ l \in Nat /\ k \in Nat /\ k >= l
      /\ DOMAIN incidents = 1..l /\ DOMAIN incidents' = 1..k
      /\ \A n \in 1..l : incidents'[n] = incidents[n]
      /\ \A n \in l + 1..k : \E r \in Firing(e) : r \in Rules /\ incidents'[n] = Incident(r, e)
      /\ \A n, m \in l + 1..k : incidents'[n] = incidents'[m] => n = m
    BY <1>1, RaisedFacts DEF IncidentTypes
<1> HIDE DEF l, k
<1>3. \A n \in l + 1..k : /\ incidents'[n].age = 0 /\ incidents'[n].active
                          /\ ~incidents'[n].restored /\ incidents'[n].start = restarts
    BY <1>1, <1>2, IncidentFacts DEF IncidentTypes
<1>4. \A n \in 1..k : n \in 1..l \/ n \in l + 1..k
    BY <1>2
<1>5. \A n \in 1..k : incidents'[n] \in Incidents
    BY <1>2, ElementOfSeq DEF k
<1>6. Sorted(incidents')
    <2> SUFFICES ASSUME NEW p \in 1..k, NEW q \in 1..k, p < q PROVE incidents'[p].age >= incidents'[q].age
        BY <1>2 DEF Sorted
    <2>1. CASE q \in 1..l
        <3>1. p \in 1..l
            BY <1>2, <2>1
        <3> QED BY <1>1, <1>2, <2>1, <3>1 DEF IncidentTypes, Sorted
    <2>2. CASE q \in l + 1..k
        <3>1. incidents'[p].age \in Nat /\ incidents'[q].age = 0
            BY <1>3, <1>5, <2>2, IncidentFields
        <3> QED BY <3>1
    <2> QED BY <1>4, <2>1, <2>2
<1>7. \A n \in 1..k : History(incidents'[n], restarts')
    <2> SUFFICES ASSUME NEW n \in 1..k PROVE History(incidents'[n], restarts')
        OBVIOUS
    <2>1. CASE n \in 1..l
        BY <1>1, <1>2, <2>1 DEF IncidentTypes
    <2>2. CASE n \in l + 1..k
        BY <1>1, <1>3, <2>2 DEF History, IncidentTypes
    <2> QED BY <1>4, <2>1, <2>2
<1>8. OnePerCooldown'
    <2> SUFFICES ASSUME NEW n \in 1..k, NEW m \in 1..n - 1, NEW r \in Rules, incidents'[n].rule = r.id,
                        Stands(r, incidents'[m], incidents'[n]), incidents'[m].age < SixHours
                 PROVE  MayRepeat(r, incidents'[m], incidents'[n])
        BY <1>2 DEF OnePerCooldown
    <2>1. m \in 1..k
        BY <1>2
    <2>2. CASE n \in 1..l
        <3>1. m \in 1..l
            BY <1>2, <2>2
        <3> QED BY <1>1, <1>2, <2>2, <3>1 DEF OnePerCooldown
    <2>3. CASE n \in l + 1..k
        <3>1. PICK r2 \in Firing(e) : r2 \in Rules /\ incidents'[n] = Incident(r2, e)
            BY <1>2, <2>3
        <3>2. r2 = r
            BY <1>1, <3>1, RuleIds, IncidentFacts DEF IncidentTypes
        <3>3. CASE m \in 1..l
            <4> DEFINE i == incidents[m]
            <4>1. i \in Incidents /\ i \in ToSet(incidents) /\ History(i, restarts) /\ incidents'[m] = i
                BY <1>1, <1>2, <3>3, IncidentsAt DEF IncidentTypes, ToSet
            <4>2. ~Suppressed(r, e)
                BY <3>1, <3>2 DEF Firing, Fires
            <4>3. incidents'[n].start = restarts
                BY <1>3, <2>3
            <4>4. CASE i.active
                <5>1. i.restored /\ r.by \in {"place", "placeOrRegion"} /\ i.place # None
                    BY <1>1, <3>1, <3>2, <4>1, <4>2, <4>4, NotSuppressed DEF IncidentTypes
                <5> QED BY <4>1, <4>3, <5>1 DEF MayRepeat, History
            <4>5. CASE ~i.active
                BY <4>1, <4>3, <4>5 DEF MayRepeat, History
            <4> QED BY <4>4, <4>5
        <3>4. CASE m \in l + 1..k
            <4>1. PICK r1 \in Firing(e) : r1 \in Rules /\ incidents'[m] = Incident(r1, e)
                BY <1>2, <3>4
            <4>2. incidents'[m].rule = r.id
                BY DEF Stands, Covers
            <4>3. r1 = r
                BY <1>1, <4>1, <4>2, RuleIds, IncidentFacts DEF IncidentTypes
            <4>4. m = n
                BY <1>2, <2>3, <3>1, <3>2, <3>4, <4>1, <4>3
            <4> QED BY <1>2, <4>4
        <3> QED BY <1>4, <2>1, <3>3, <3>4
    <2> QED BY <1>4, <2>2, <2>3
<1> QED BY <1>1, <1>2, <1>6, <1>7, <1>8 DEF IInvIncidents, IncidentTypes

LEMMA IncidentAges ==
    ASSUME NEW i \in Incidents, NEW now \in Nat, History(i, now), NEW j, j = [i EXCEPT !.age = @ + 1]
    PROVE  j \in Incidents /\ j.age = i.age + 1 /\ Follows(j, i) /\ History(j, now)
<1>1. i.age \in Nat /\ i.start \in Nat
    BY IncidentFields
<1>2. /\ j \in Incidents /\ j.age = i.age + 1
      /\ j.rule = i.rule /\ j.place = i.place /\ j.region = i.region /\ j.tag = i.tag
      /\ j.active = i.active /\ j.restored = i.restored /\ j.stored = i.stored /\ j.start = i.start
    BY <1>1 DEF Incidents
<1> QED BY <1>1, <1>2, CorrelationBounds DEF Follows, History

LEMMA IncidentExpires ==
    ASSUME NEW i \in Incidents, NEW now \in Nat, History(i, now),
           NEW j, j = [i EXCEPT !.active = @ /\ i.age < SixHours]
    PROVE  j \in Incidents /\ j.age = i.age /\ Follows(j, i) /\ History(j, now)
<1>1. i.age \in Nat /\ i.start \in Nat
    BY IncidentFields
<1>2. (i.active /\ i.age < SixHours) \in BOOLEAN
    OBVIOUS
<1>3. /\ j \in Incidents /\ j.age = i.age
      /\ j.rule = i.rule /\ j.place = i.place /\ j.region = i.region /\ j.tag = i.tag
      /\ j.active = (i.active /\ i.age < SixHours)
      /\ j.restored = i.restored /\ j.stored = i.stored /\ j.start = i.start
    BY <1>2 DEF Incidents
<1>4. j.active <=> i.active /\ i.age < SixHours
    BY <1>3
<1>5. Follows(j, i)
    BY <1>1, <1>3, <1>4 DEF Follows
<1>6. History(j, now)
    <2>1. ~(i.age < SixHours) => i.age >= Hour
        BY <1>1, CorrelationBounds
    <2> QED BY <1>3, <1>4, <2>1 DEF History
<1> QED BY <1>3, <1>5, <1>6

LEMMA IncidentPersists ==
    ASSUME NEW i \in Incidents, NEW now \in Nat, History(i, now), i.start = now,
           NEW j, j = [i EXCEPT !.stored = TRUE]
    PROVE  j \in Incidents /\ j.age = i.age /\ Follows(j, i) /\ History(j, now)
<1>1. i.age \in Nat /\ i.start \in Nat
    BY IncidentFields
<1>2. /\ j \in Incidents /\ j.age = i.age
      /\ j.rule = i.rule /\ j.place = i.place /\ j.region = i.region /\ j.tag = i.tag
      /\ j.active = i.active /\ j.restored = i.restored /\ j.start = i.start
    BY DEF Incidents
<1> QED BY <1>1, <1>2, CorrelationBounds DEF Follows, History

LEMMA IncidentReloads ==
    ASSUME NEW i \in Incidents, NEW now \in Nat, History(i, now), NEW j, j = Reloaded(i)
    PROVE  j \in Incidents /\ j.age = i.age /\ Follows(j, i) /\ History(j, now + 1)
<1>1. i.age \in Nat /\ i.start \in Nat
    BY IncidentFields
<1>2. (i.stored /\ i.age < Hour) \in BOOLEAN
    OBVIOUS
<1>3. /\ j \in Incidents /\ j.age = i.age
      /\ j.rule = i.rule /\ j.place = i.place /\ j.region = i.region /\ j.tag = i.tag
      /\ j.active = (i.stored /\ i.age < Hour)
      /\ j.stored = i.stored /\ j.start = i.start
    BY <1>2 DEF Incidents, Reloaded
<1>4. i.start < now + 1
    BY <1>1 DEF History
<1>5. j.active <=> i.stored /\ i.age < Hour
    BY <1>3
<1>6. i.age < Hour => ~(i.age >= Hour)
    BY <1>1, CorrelationBounds
<1>7. j.active => i.active
    BY <1>5, <1>6 DEF History
<1>8. History(j, now + 1)
    <2>1. ~(i.age < Hour) => i.age >= Hour
        BY <1>1, CorrelationBounds
    <2>2. i.start <= now + 1
        BY <1>1, <1>4
    <2> QED BY <1>3, <1>4, <1>5, <2>1, <2>2 DEF History
<1> QED BY <1>1, <1>3, <1>7, <1>8 DEF Follows

(* The same incidents, each changed in one of those ways.                  *)
LEMMA IncidentsChange ==
    ASSUME IInvIncidents, DOMAIN incidents' = DOMAIN incidents,
           incidents' = [n \in DOMAIN incidents |-> incidents'[n]], traffic' = traffic, restarts' \in Nat,
           NEW d \in Nat,
           \A n \in DOMAIN incidents : /\ incidents'[n] \in Incidents /\ incidents'[n].age = incidents[n].age + d
                                       /\ Follows(incidents'[n], incidents[n])
                                       /\ History(incidents'[n], restarts')
    PROVE  IInvIncidents'
<1>1. Len(incidents) \in Nat /\ DOMAIN incidents = 1..Len(incidents)
    BY LenProperties DEF IInvIncidents, IncidentTypes
<1>2. incidents' \in Seq(Incidents) /\ Len(incidents') = Len(incidents)
    BY <1>1, IsASeq, LenProperties
<1>3. \A n \in DOMAIN incidents : incidents[n].age \in Nat
    BY IncidentsAt, IncidentFields DEF IInvIncidents, IncidentTypes
<1>4. Sorted(incidents')
    <2> SUFFICES ASSUME NEW p \in DOMAIN incidents, NEW q \in DOMAIN incidents, p < q
                 PROVE  incidents'[p].age >= incidents'[q].age
        BY DEF Sorted
    <2>1. incidents[p].age >= incidents[q].age /\ incidents[p].age \in Nat /\ incidents[q].age \in Nat
        BY <1>3 DEF IInvIncidents, IncidentTypes, Sorted
    <2> QED BY <2>1
<1>5. OnePerCooldown'
    <2>1. \A p \in 1..Len(incidents) : p + 0 = p
        BY <1>1
    <2>2. Len(incidents') + 0 = Len(incidents)
        BY <1>1, <1>2
    <2> QED BY <1>1, <1>2, <2>1, <2>2, Survivors
<1> QED BY <1>2, <1>4, <1>5 DEF IInvIncidents, IncidentTypes

LEMMA PruneIncidents ==
    ASSUME IInvIncidents, Prune
    PROVE  IInvIncidents'
<1> DEFINE is == ActiveFor(incidents, SixHours)
           o == Overdue(is, SixHours)
           l == Len(incidents)
<1>1. incidents' = Younger(is, SixHours) /\ UNCHANGED <<traffic, restarts>>
    BY DEF Prune, Expired
<1>2. /\ IncidentTypes /\ restarts \in Nat /\ SixHours \in Nat /\ l \in Nat /\ DOMAIN incidents = 1..l
    BY LenProperties, CorrelationBounds DEF IInvIncidents, IncidentTypes
<1>3. is = [n \in 1..l |-> is[n]] /\ \A n \in 1..l : is[n] = [incidents[n] EXCEPT !.active = @ /\ incidents[n].age < SixHours]
    BY <1>2 DEF ActiveFor
<1> HIDE DEF is
<1>4. \A n \in 1..l : /\ is[n] \in Incidents /\ is[n].age = incidents[n].age
                      /\ Follows(is[n], incidents[n]) /\ History(is[n], restarts)
    BY <1>2, <1>3, IncidentsAt, IncidentExpires DEF IncidentTypes
<1>5. is \in Seq(Incidents) /\ Len(is) = l /\ DOMAIN is = 1..l
    BY <1>2, <1>3, <1>4, IsASeq, LenProperties
<1>6. Sorted(is) /\ Aged(is)
    BY <1>2, <1>4, <1>5, IncidentFields DEF IncidentTypes, Sorted, Aged
<1>7. /\ incidents' \in Seq(Incidents) /\ o \in 0..l /\ Len(incidents') = l - o
      /\ \A p \in 1..l - o : incidents'[p] = is[p + o] /\ p + o \in 1..l
    BY <1>1, <1>2, <1>5, <1>6, YoungerFacts
<1> HIDE DEF o, l
<1>8. DOMAIN incidents' = 1..l - o
    BY <1>7, LenProperties
<1>9. Sorted(incidents')
    <2> SUFFICES ASSUME NEW p \in 1..l - o, NEW q \in 1..l - o, p < q PROVE incidents'[p].age >= incidents'[q].age
        BY <1>8 DEF Sorted
    <2>1. p + o \in 1..l /\ q + o \in 1..l /\ p + o < q + o
        BY <1>2, <1>7
    <2> QED BY <1>5, <1>6, <1>7, <2>1 DEF Sorted
<1>10. \A p \in 1..l - o : Follows(incidents'[p], incidents[p + o]) /\ History(incidents'[p], restarts)
    BY <1>4, <1>7
<1>11. OnePerCooldown'
    <2>1. o \in Nat /\ Len(incidents') + o = Len(incidents)
        BY <1>2, <1>7 DEF l
    <2> QED BY <1>7, <1>10, <2>1, Survivors
<1> QED BY <1>1, <1>2, <1>7, <1>8, <1>9, <1>10, <1>11 DEF IInvIncidents, IncidentTypes

LEMMA InitIncidents == Init => IInvIncidents
<1> SUFFICES ASSUME Init PROVE IInvIncidents
    OBVIOUS
<1>1. incidents = <<>> /\ restarts = 0 /\ traffic \in DOMAIN Traffic
    BY DEF Init
<1>2. <<>> \in Seq(Incidents) /\ DOMAIN <<>> = {}
    OBVIOUS
<1> QED BY <1>1, <1>2 DEF IInvIncidents, IncidentTypes, Sorted, OnePerCooldown

LEMMA IncidentsStep ==
    ASSUME IInvIncidents, [Next]_vars
    PROVE  IInvIncidents'
<1>0. /\ IncidentTypes /\ restarts \in Nat
      /\ \A n \in DOMAIN incidents : incidents[n] \in Incidents /\ History(incidents[n], restarts) /\ incidents[n].age \in Nat
    BY IncidentsAt, IncidentFields DEF IInvIncidents, IncidentTypes
<1>1. ASSUME NEW e \in Traffic[traffic].events, Receive(e) PROVE IInvIncidents'
    BY <1>1, ReceiveIncidents
<1>2. ASSUME NEW n \in DOMAIN incidents, Persist(n) PROVE IInvIncidents'
    <2>1. /\ incidents' = [incidents EXCEPT ![n].stored = TRUE] /\ incidents[n].start = restarts
          /\ traffic' = traffic /\ restarts' = restarts
        BY <1>2 DEF Persist
    <2>2. /\ DOMAIN incidents' = DOMAIN incidents /\ incidents' = [m \in DOMAIN incidents |-> incidents'[m]]
          /\ \A m \in DOMAIN incidents \ {n} : incidents'[m] = incidents[m]
          /\ incidents'[n] = [incidents[n] EXCEPT !.stored = TRUE]
        BY <2>1
    <2>3. /\ incidents'[n] \in Incidents /\ incidents'[n].age = incidents[n].age
          /\ Follows(incidents'[n], incidents[n]) /\ History(incidents'[n], restarts)
        BY <1>0, <2>1, <2>2, IncidentPersists
    <2>4. \A m \in DOMAIN incidents : Follows(incidents[m], incidents[m])
        BY <1>0 DEF Follows
    <2>5. \A m \in DOMAIN incidents : incidents'[m].age = incidents[m].age + 0
        <3>1. \A m \in DOMAIN incidents : incidents'[m].age = incidents[m].age
            BY <2>2, <2>3
        <3> QED BY <1>0, <3>1
    <2>6. \A m \in DOMAIN incidents : /\ incidents'[m] \in Incidents /\ Follows(incidents'[m], incidents[m])
                                      /\ History(incidents'[m], restarts')
        BY <1>0, <2>1, <2>2, <2>3, <2>4
    <2> QED BY <1>0, <2>1, <2>2, <2>5, <2>6, IncidentsChange
<1>3. CASE Prune
    BY <1>3, PruneIncidents
<1>4. CASE Elapse
    <2>1. incidents' = Older(incidents) /\ traffic' = traffic /\ restarts' = restarts
        BY <1>4 DEF Elapse
    <2>2. /\ DOMAIN incidents' = DOMAIN incidents /\ incidents' = [m \in DOMAIN incidents |-> incidents'[m]]
          /\ \A m \in DOMAIN incidents : incidents'[m] = [incidents[m] EXCEPT !.age = @ + 1]
        BY <2>1 DEF Older
    <2>3. \A m \in DOMAIN incidents : /\ incidents'[m] \in Incidents /\ incidents'[m].age = incidents[m].age + 1
                                      /\ Follows(incidents'[m], incidents[m])
                                      /\ History(incidents'[m], restarts')
        BY <1>0, <2>1, <2>2, IncidentAges
    <2> QED BY <1>0, <2>1, <2>2, <2>3, IncidentsChange
<1>5. CASE Restart
    <2>1. incidents' = [n \in DOMAIN incidents |-> Reloaded(incidents[n])] /\ traffic' = traffic /\ restarts' = restarts + 1
        BY <1>5 DEF Restart
    <2>2. /\ DOMAIN incidents' = DOMAIN incidents /\ incidents' = [m \in DOMAIN incidents |-> incidents'[m]]
          /\ \A m \in DOMAIN incidents : incidents'[m] = Reloaded(incidents[m])
        BY <2>1
    <2>3. \A m \in DOMAIN incidents : /\ incidents'[m] \in Incidents /\ incidents'[m].age = incidents[m].age
                                      /\ Follows(incidents'[m], incidents[m])
                                      /\ History(incidents'[m], restarts')
        BY <1>0, <2>1, <2>2, IncidentReloads
    <2>4. \A m \in DOMAIN incidents : incidents'[m].age = incidents[m].age + 0
        BY <1>0, <2>3
    <2> QED BY <1>0, <2>1, <2>2, <2>3, <2>4, IncidentsChange
<1>6. CASE UNCHANGED vars
    BY <1>6 DEF vars, IInvIncidents, IncidentTypes, Sorted, OnePerCooldown
<1> QED BY <1>1, <1>2, <1>3, <1>4, <1>5, <1>6 DEF Next

(* Within six hours one incident of a rule for a place, a country or a     *)
(* domain, and a second only on account of a start.                        *)
THEOREM OneAlwaysPerCooldown == AlertsSpec => []OnePerCooldown
<1>1. Init /\ [][Next]_vars => []IInvIncidents
    <2>1. IInvIncidents /\ [Next]_vars => IInvIncidents'
        BY IncidentsStep
    <2> QED BY InitIncidents, <2>1, PTL
<1>2. IInvIncidents => OnePerCooldown
    BY DEF IInvIncidents
<1> QED BY <1>1, <1>2, CorrelationUnderAlerts, PTL DEF Spec
-----------------------------------------------------------------------------
(* Alerts.                                                                 *)
Alert == [rule : AlertRule, age : Nat, start : Nat, pending : BOOLEAN]
HourCount == [age : Nat, count : Nat]

AlertTypes ==
    /\ traffic \in DOMAIN Traffic /\ restarts \in Nat
    /\ IsFiniteSet(ruleRows) /\ ruleRows \subseteq AlertRule
    /\ IsFiniteSet(alertRules) /\ alertRules \subseteq AlertRule
    /\ lastFired \in [AlertRule -> Nat \cup {None}]
    /\ hourly \in [AlertRule -> HourCount \cup {None}]
    /\ alerts \in Seq(Alert) /\ Sorted(alerts)
    /\ \A n \in DOMAIN alerts : alerts[n].start <= restarts

(* What the tracker knows of the alerts a rule has fired in this process:  *)
(* how long ago the last one was, and how many there were in the hour it   *)
(* counts.  Of the hour before there may be one less than the rule is      *)
(* allowed, for the first alert of an hour lies behind once it is over.    *)
Mine(a) == {m \in DOMAIN alerts : alerts[m].rule = a /\ alerts[m].start = restarts}
Within(a, age) == {m \in Mine(a) : alerts[m].age < age}
Running(a) == hourly[a] # None /\ hourly[a].age < Hour
InHour(a) == {m \in Mine(a) : alerts[m].age <= hourly[a].age}
BeforeHour(a) == {m \in Mine(a) : hourly[a].age < alerts[m].age /\ alerts[m].age < Hour}
MostAtOnce(a) == IF PerHour[a] = 0 THEN 1 ELSE PerHour[a]

LastKnown(a) ==
    \A m \in Mine(a) : alerts[m].age < TwoHours => lastFired[a] # None /\ lastFired[a] <= alerts[m].age

Counts(a) ==
    /\ hourly[a].count = Cardinality(InHour(a)) /\ hourly[a].count <= MostAtOnce(a)
    /\ \E m \in Mine(a) : alerts[m].age = hourly[a].age
    /\ Cardinality(BeforeHour(a)) + 1 <= MostAtOnce(a)

Quiet(a) ==
    /\ Cardinality(Within(a, Hour)) + 1 <= MostAtOnce(a)
    /\ \A m \in Mine(a) : alerts[m].age > 0

Tracked(a) ==
    /\ LastKnown(a)
    /\ Running(a) => Counts(a)
    /\ ~Running(a) => Quiet(a)

IInvAlerts == AlertTypes /\ AlertsLimited /\ \A a \in AlertRule : Tracked(a)

LEMMA AlertBounds ==
    /\ TwoHours \in Nat /\ Hour <= TwoHours /\ TwoHours <= SixHours
    /\ \A a \in AlertRule : Cooldown[a] \in Nat /\ PerHour[a] \in Nat /\ MostAtOnce(a) \in Nat
    /\ None \notin Nat /\ None \notin HourCount
BY AlertsAssumption, CorrelationBounds DEF HourCount, MostAtOnce

LEMMA AlertFields ==
    ASSUME NEW j \in Alert
    PROVE  j.rule \in AlertRule /\ j.age \in Nat /\ j.start \in Nat
BY DEF Alert

LEMMA AlertsAt ==
    ASSUME alerts \in Seq(Alert), NEW n \in DOMAIN alerts
    PROVE  alerts[n] \in Alert /\ alerts[n].rule \in AlertRule /\ alerts[n].age \in Nat /\ alerts[n].start \in Nat
<1>1. alerts[n] \in Alert
    BY ElementOfSeq, LenProperties
<1> QED BY <1>1, AlertFields

LEMMA AlertDomain ==
    ASSUME alerts \in Seq(Alert)
    PROVE  Len(alerts) \in Nat /\ DOMAIN alerts = 1..Len(alerts) /\ IsFiniteSet(DOMAIN alerts)
BY LenProperties, Interval

LEMMA Counting ==
    ASSUME alerts \in Seq(Alert), NEW S \in SUBSET DOMAIN alerts
    PROVE  IsFiniteSet(S) /\ Cardinality(S) \in Nat
BY AlertDomain, FS_Subset, FS_CardinalityType

(* The positions of a log that a part is dropped from.                     *)
LEMMA ShiftFacts ==
    ASSUME NEW S, IsFiniteSet(S), NEW T, T \subseteq Nat, NEW o \in Nat,
           \A t \in T : t + o \in S
    PROVE  /\ IsFiniteSet(T) /\ Cardinality(T) \in Nat /\ Cardinality(S) \in Nat
           /\ Cardinality(T) <= Cardinality(S)
           /\ (\A s \in S : \E t \in T : s = t + o) => Cardinality(T) = Cardinality(S)
<1> DEFINE g == [t \in T |-> t + o]
<1>1. g \in Injection(T, S)
    <2>1. g \in [T -> S]
        OBVIOUS
    <2>2. \A t, u \in T : t + o = u + o => t = u
        OBVIOUS
    <2> QED BY <2>1, <2>2 DEF Injection, IsInjective
<1>2. (\A s \in S : \E t \in T : s = t + o) => g \in Surjection(T, S)
    BY <1>1 DEF Injection, Surjection
<1> HIDE DEF g
<1> QED BY <1>1, <1>2, FS_Injection, FS_CardinalityType

(* AlertsLimited, for one alert.                                           *)
SinceThen(n, age) ==
    {m \in 1..n : /\ alerts[m].rule = alerts[n].rule /\ alerts[m].start = alerts[n].start
                  /\ alerts[m].age - alerts[n].age < age}
LimitedAt(n) ==
    /\ SinceThen(n, Cooldown[alerts[n].rule]) \cap SinceThen(n, TwoHours) \subseteq {n}
    /\ Cardinality(SinceThen(n, Hour)) <=
          IF PerHour[alerts[n].rule] = 0 THEN 1 ELSE 2 * PerHour[alerts[n].rule] - 1

LEMMA Limited == AlertsLimited <=> \A n \in DOMAIN alerts : LimitedAt(n)
BY DEF AlertsLimited, LimitedAt, SinceThen

(* The alerts an event fires: one for each rule that may.                  *)
Fired(e) == {a \in Matching(e) : CanFire(a)}
NewAlert(a) == [rule |-> a, age |-> 0, start |-> restarts, pending |-> TRUE]

LEMMA FiredFacts ==
    ASSUME AlertTypes, NEW e, Evaluate(e)
    PROVE  /\ alerts' \in Seq(Alert) /\ Len(alerts) \in Nat /\ Len(alerts') \in Nat /\ Len(alerts') >= Len(alerts)
           /\ DOMAIN alerts = 1..Len(alerts) /\ DOMAIN alerts' = 1..Len(alerts')
           /\ Fired(e) \subseteq AlertRule
           /\ \A n \in 1..Len(alerts) : alerts'[n] = alerts[n]
           /\ \A n \in Len(alerts) + 1..Len(alerts') :
                 alerts'[n].rule \in Fired(e) /\ alerts'[n].age = 0 /\ alerts'[n].start = restarts
           /\ \A n, m \in Len(alerts) + 1..Len(alerts') : alerts'[n].rule = alerts'[m].rule => n = m
           /\ \A a \in Fired(e) : \E n \in Len(alerts) + 1..Len(alerts') : alerts'[n].rule = a
<1> DEFINE l == Len(alerts)
           S == {NewAlert(a) : a \in Fired(e)}
           s == SetToSeq(S)
           c == Cardinality(S)
<1>1. alerts' = alerts \o s
    BY DEF Evaluate, Fired, NewAlert
<1>2. Fired(e) \subseteq alertRules /\ Fired(e) \subseteq AlertRule
    BY DEF Fired, Matching, Asked, AlertTypes
<1>3. IsFiniteSet(S)
    <2> DEFINE g == [a \in Fired(e) |-> NewAlert(a)]
    <2>1. IsFiniteSet(Fired(e)) /\ g = [a \in Fired(e) |-> g[a]]
        BY <1>2, FS_Subset DEF AlertTypes
    <2>2. {g[x] : x \in Fired(e)} = S
        OBVIOUS
    <2> HIDE DEF g, S
    <2> QED BY <2>1, <2>2, FiniteImage
<1>4. S \subseteq Alert
    <2>1. restarts \in Nat
        BY DEF AlertTypes
    <2>2. ASSUME NEW a \in AlertRule PROVE NewAlert(a) \in Alert
        BY <2>1 DEF Alert, NewAlert
    <2> QED BY <1>2, <2>2
<1>5. \A x \in S : x.rule \in Fired(e) /\ x = NewAlert(x.rule) /\ x.age = 0 /\ x.start = restarts
    BY DEF NewAlert
<1>6. \A a \in Fired(e) : NewAlert(a) \in S /\ NewAlert(a).rule = a
    BY DEF NewAlert
<1> HIDE DEF S
<1>7. /\ c \in Nat /\ Len(s) = c /\ \A n \in 1..c : s[n] \in S
      /\ \A n, m \in 1..c : s[n] = s[m] => n = m
      /\ \A x \in S : \E n \in 1..c : s[n] = x
      /\ s \in Seq(S)
    BY <1>3, SequenceOfSet
<1> HIDE DEF s, c
<1>8. s \in Seq(Alert)
    <2>1. s \in [1..c -> Alert]
        BY <1>4, <1>7, SeqDef, LenProperties
    <2> QED BY <1>7, <2>1, IsASeq
<1>9. /\ alerts' \in Seq(Alert) /\ Len(alerts') = l + c
      /\ \A i \in 1..l + c : alerts'[i] = IF i <= l THEN alerts[i] ELSE s[i - l]
    <2>1. alerts \in Seq(Alert)
        BY DEF AlertTypes
    <2>2. /\ alerts \o s \in Seq(Alert) /\ Len(alerts \o s) = Len(alerts) + Len(s)
          /\ \A i \in 1..Len(alerts) + Len(s) :
                (alerts \o s)[i] = IF i <= Len(alerts) THEN alerts[i] ELSE s[i - Len(alerts)]
        BY <1>8, <2>1, ConcatProperties
    <2>3. Len(s) = c
        BY <1>7
    <2> QED BY <1>1, <2>2, <2>3
<1>10. l \in Nat /\ DOMAIN alerts = 1..l /\ DOMAIN alerts' = 1..l + c
    BY <1>9, LenProperties DEF AlertTypes
<1> HIDE DEF l
<1>11. \A n \in 1..l : alerts'[n] = alerts[n]
    BY <1>7, <1>9, <1>10
<1>12. \A n \in l + 1..l + c : n - l \in 1..c /\ alerts'[n] = s[n - l]
    BY <1>7, <1>9, <1>10
<1>13. \A n \in l + 1..l + c : alerts'[n].rule \in Fired(e) /\ alerts'[n].age = 0 /\ alerts'[n].start = restarts
    BY <1>5, <1>7, <1>12
<1>14. \A n, m \in l + 1..l + c : alerts'[n].rule = alerts'[m].rule => n = m
    <2> SUFFICES ASSUME NEW n \in l + 1..l + c, NEW m \in l + 1..l + c, alerts'[n].rule = alerts'[m].rule PROVE n = m
        OBVIOUS
    <2>1. s[n - l] = s[m - l]
        BY <1>5, <1>7, <1>12
    <2>2. n - l = m - l
        BY <1>7, <1>12, <2>1
    <2> QED BY <1>7, <1>10, <2>2
<1>15. ASSUME NEW a \in Fired(e)
       PROVE  \E n \in l + 1..l + c : alerts'[n].rule = a
    <2>1. PICK n \in 1..c : s[n] = NewAlert(a)
        BY <1>6, <1>7
    <2>2. n + l \in l + 1..l + c /\ (n + l) - l = n
        BY <1>7, <1>10
    <2> QED BY <1>6, <1>12, <2>1, <2>2
<1>16. l + c \in Nat /\ l + c >= l
    BY <1>7, <1>10
<1> QED BY <1>2, <1>9, <1>10, <1>11, <1>13, <1>14, <1>15, <1>16 DEF l

LEMMA LastFiredAt ==
    ASSUME AlertTypes, NEW a \in AlertRule
    PROVE  /\ lastFired[a] # None => lastFired[a] \in Nat
           /\ hourly[a] # None => hourly[a] \in HourCount /\ hourly[a].age \in Nat /\ hourly[a].count \in Nat
           /\ Running(a) => hourly[a] \in HourCount /\ hourly[a].age \in Nat /\ hourly[a].count \in Nat /\ hourly[a].age < Hour
<1>1. lastFired[a] \in Nat \cup {None} /\ hourly[a] \in HourCount \cup {None}
    BY DEF AlertTypes
<1>2. hourly[a] \in HourCount => hourly[a].age \in Nat /\ hourly[a].count \in Nat
    BY DEF HourCount
<1> QED BY <1>1, <1>2 DEF Running

LEMMA MineFacts ==
    ASSUME AlertTypes, NEW a \in AlertRule
    PROVE  /\ \A m \in Mine(a) : m \in DOMAIN alerts /\ alerts[m].age \in Nat
           /\ Mine(a) \subseteq DOMAIN alerts
BY AlertsAt DEF Mine, AlertTypes

(* A rule of which nothing changed.                                        *)
LEMMA SameCounts ==
    ASSUME NEW a, Mine(a)' = Mine(a), \A m \in Mine(a) : alerts'[m].age = alerts[m].age,
           hourly'[a] = hourly[a]
    PROVE  /\ Running(a)' = Running(a) /\ Counts(a)' = Counts(a) /\ Quiet(a)' = Quiet(a)
<1>1. Running(a)' = Running(a)
    BY DEF Running
<1>2. InHour(a)' = InHour(a) /\ BeforeHour(a)' = BeforeHour(a) /\ Within(a, Hour)' = Within(a, Hour)
    BY DEF InHour, BeforeHour, Within
<1>3. (\E m \in Mine(a) : alerts[m].age = hourly[a].age)' = (\E m \in Mine(a) : alerts[m].age = hourly[a].age)
    OBVIOUS
<1>4. (\A m \in Mine(a) : alerts[m].age > 0)' = (\A m \in Mine(a) : alerts[m].age > 0)
    OBVIOUS
<1> QED BY <1>1, <1>2, <1>3, <1>4 DEF Counts, Quiet, MostAtOnce

(* A rule that fires: it is a cooldown since it did, ...                   *)
LEMMA FiresApart ==
    ASSUME AlertTypes, NEW a \in AlertRule, Tracked(a), CanFire(a), NEW m \in Mine(a)
    PROVE  alerts[m].age >= Cooldown[a] \/ alerts[m].age >= TwoHours
<1>1. alerts[m].age \in Nat /\ Cooldown[a] \in Nat /\ TwoHours \in Nat
    BY MineFacts, AlertBounds
<1>2. CASE alerts[m].age < TwoHours
    <2>1. lastFired[a] # None /\ lastFired[a] <= alerts[m].age /\ lastFired[a] \in Nat
        BY <1>2, LastFiredAt DEF Tracked, LastKnown
    <2>2. lastFired[a] >= Cooldown[a]
        BY <2>1 DEF CanFire
    <2> QED BY <1>1, <2>1, <2>2
<1> QED BY <1>1, <1>2

(* ... and in the last hour it fired often, but not too often.             *)
LEMMA FiresSeldom ==
    ASSUME AlertTypes, NEW a \in AlertRule, Tracked(a), CanFire(a)
    PROVE  /\ Cardinality(Within(a, Hour)) \in Nat
           /\ Cardinality(Within(a, Hour)) + 1 <= IF PerHour[a] = 0 THEN 1 ELSE 2 * PerHour[a] - 1
           /\ Running(a) => hourly[a].count + 1 <= PerHour[a]
<1>1. /\ PerHour[a] \in Nat /\ alerts \in Seq(Alert) /\ Within(a, Hour) \subseteq DOMAIN alerts
      /\ InHour(a) \subseteq DOMAIN alerts /\ BeforeHour(a) \subseteq DOMAIN alerts
    BY AlertBounds, MineFacts DEF AlertTypes, Within, InHour, BeforeHour
<1>2. /\ IsFiniteSet(Within(a, Hour)) /\ Cardinality(Within(a, Hour)) \in Nat
      /\ IsFiniteSet(InHour(a)) /\ Cardinality(InHour(a)) \in Nat
      /\ IsFiniteSet(BeforeHour(a)) /\ Cardinality(BeforeHour(a)) \in Nat
    BY <1>1, Counting
<1>3. CASE Running(a)
    <2>1. /\ hourly[a].age \in Nat /\ hourly[a].count \in Nat /\ hourly[a].age < Hour
          /\ hourly[a].count = Cardinality(InHour(a))
          /\ Cardinality(BeforeHour(a)) + 1 <= MostAtOnce(a)
        BY <1>3, LastFiredAt DEF Tracked, Counts
    <2>2. hourly[a].count < PerHour[a]
        BY <1>3, <2>1, CorrelationBounds DEF CanFire, HourAllows, Running
    <2>3. Within(a, Hour) \subseteq InHour(a) \cup BeforeHour(a)
        BY <2>1, MineFacts DEF Within, InHour, BeforeHour
    <2>4. /\ IsFiniteSet(InHour(a) \cup BeforeHour(a))
          /\ Cardinality(InHour(a) \cup BeforeHour(a))
                = Cardinality(InHour(a)) + Cardinality(BeforeHour(a)) - Cardinality(InHour(a) \cap BeforeHour(a))
        BY <1>2, FS_Union
    <2>5. Cardinality(InHour(a) \cap BeforeHour(a)) \in Nat
        BY <1>1, Counting
    <2>6. Cardinality(Within(a, Hour)) <= Cardinality(InHour(a)) + Cardinality(BeforeHour(a))
        <3>1. Cardinality(Within(a, Hour)) <= Cardinality(InHour(a) \cup BeforeHour(a))
            BY <2>3, <2>4, FS_Subset
        <3> QED BY <1>2, <2>4, <2>5, <3>1
    <2>7. MostAtOnce(a) = PerHour[a]
        BY <1>1, <2>1, <2>2 DEF MostAtOnce
    <2> QED BY <1>1, <1>2, <2>1, <2>2, <2>6, <2>7
<1>4. CASE ~Running(a)
    BY <1>1, <1>2, <1>4 DEF Tracked, Quiet, MostAtOnce
<1> QED BY <1>2, <1>3, <1>4

LEMMA EvaluateTracked ==
    ASSUME AlertTypes, \A x \in AlertRule : Tracked(x), NEW e, Evaluate(e), restarts' = restarts,
           NEW a \in AlertRule
    PROVE  Tracked(a)'
<1> DEFINE l == Len(alerts)
           k == Len(alerts')
<1>1. /\ alerts' \in Seq(Alert) /\ l \in Nat /\ k \in Nat /\ k >= l
      /\ DOMAIN alerts = 1..l /\ DOMAIN alerts' = 1..k /\ Fired(e) \subseteq AlertRule
      /\ \A n \in 1..l : alerts'[n] = alerts[n]
      /\ \A n \in l + 1..k : alerts'[n].rule \in Fired(e) /\ alerts'[n].age = 0 /\ alerts'[n].start = restarts
      /\ \A n, m \in l + 1..k : alerts'[n].rule = alerts'[m].rule => n = m
      /\ \A x \in Fired(e) : \E n \in l + 1..k : alerts'[n].rule = x
    BY FiredFacts
<1> HIDE DEF l, k
<1>2. /\ lastFired' = [x \in AlertRule |-> IF x \in Fired(e) THEN 0 ELSE lastFired[x]]
      /\ hourly' = [x \in AlertRule |-> IF x \in Fired(e) THEN Counted(hourly[x]) ELSE hourly[x]]
    BY DEF Evaluate, Fired
<1>3. \A n \in 1..k : n \in 1..l \/ n \in l + 1..k
    BY <1>1
<1>4. \A n \in 1..l : n \in 1..k /\ n \notin l + 1..k
    BY <1>1
<1>5. CASE a \notin Fired(e)
    <2>1. lastFired'[a] = lastFired[a] /\ hourly'[a] = hourly[a]
        BY <1>2, <1>5
    <2>2. Mine(a)' = Mine(a)
        BY <1>1, <1>3, <1>4, <1>5 DEF Mine
    <2>3. \A m \in Mine(a) : alerts'[m].age = alerts[m].age
        BY <1>1 DEF Mine
    <2>4. LastKnown(a)'
        BY <2>1, <2>2, <2>3 DEF LastKnown, Tracked
    <2>5. Running(a)' = Running(a) /\ Counts(a)' = Counts(a) /\ Quiet(a)' = Quiet(a)
        BY <2>1, <2>2, <2>3, SameCounts
    <2> QED BY <2>4, <2>5 DEF Tracked
<1>6. CASE a \in Fired(e)
    <2>1. PICK n \in l + 1..k : alerts'[n].rule = a
        BY <1>1, <1>6
    <2>2. lastFired'[a] = 0 /\ hourly'[a] = Counted(hourly[a]) /\ CanFire(a)
        BY <1>2, <1>6 DEF Fired
    <2>3. alerts'[n].age = 0 /\ alerts'[n].start = restarts /\ n \in 1..k /\ n \notin 1..l
        BY <1>1, <2>1
    <2>4. Mine(a)' = Mine(a) \cup {n} /\ n \notin Mine(a)
        BY <1>1, <1>3, <1>4, <2>1, <2>3 DEF Mine
    <2>5. \A m \in Mine(a) : alerts'[m] = alerts[m] /\ alerts[m].age \in Nat
        BY <1>1, MineFacts
    <2>6. None # 0 /\ lastFired'[a] # None
        BY <2>2, AlertBounds
    <2>7. LastKnown(a)'
        BY <2>2, <2>3, <2>4, <2>5, <2>6 DEF LastKnown
    <2>8. /\ Cardinality(Within(a, Hour)) \in Nat
          /\ Running(a) => hourly[a].count + 1 <= PerHour[a]
        BY <2>2, FiresSeldom
    <2>9. CASE Running(a)
        <3>1. /\ hourly[a] \in HourCount /\ hourly[a].age \in Nat /\ hourly[a].count \in Nat /\ hourly[a].age < Hour
              /\ hourly[a] # None
            BY <2>9, LastFiredAt DEF Running
        <3>2. hourly'[a] = [hourly[a] EXCEPT !.count = @ + 1]
            BY <2>2, <3>1, CorrelationBounds DEF Counted
        <3>3. hourly'[a].age = hourly[a].age /\ hourly'[a].count = hourly[a].count + 1 /\ hourly'[a] \in HourCount
            BY <3>1, <3>2 DEF HourCount
        <3>4. InHour(a)' = InHour(a) \cup {n} /\ n \notin InHour(a)
            BY <2>3, <2>4, <2>5, <3>1, <3>3 DEF InHour
        <3>5. BeforeHour(a)' = BeforeHour(a)
            BY <2>3, <2>4, <2>5, <3>1, <3>3 DEF BeforeHour
        <3>6. IsFiniteSet(InHour(a))
            BY MineFacts, Counting DEF InHour, AlertTypes
        <3>7. Cardinality(InHour(a)') = Cardinality(InHour(a)) + 1
            BY <3>4, <3>6, FS_AddElement
        <3>8. Counts(a)
            BY <2>9 DEF Tracked
        <3>9. hourly[a].count + 1 <= MostAtOnce(a)
            BY <2>8, <2>9, <3>1, AlertBounds DEF MostAtOnce
        <3>10. \E m \in Mine(a)' : alerts'[m].age = hourly'[a].age
            BY <2>4, <2>5, <3>3, <3>8 DEF Counts
        <3>11. Counts(a)'
            BY <3>3, <3>5, <3>7, <3>8, <3>9, <3>10 DEF Counts, MostAtOnce
        <3>12. Running(a)'
            BY <3>1, <3>3, AlertBounds DEF Running
        <3> QED BY <2>7, <3>11, <3>12 DEF Tracked
    <2>10. CASE ~Running(a)
        <3>1. hourly'[a] = [age |-> 0, count |-> 1]
            <4>1. hourly[a] = None \/ hourly[a].age >= Hour
                BY <2>10, LastFiredAt, CorrelationBounds DEF Running
            <4> QED BY <2>2, <4>1 DEF Counted
        <3>2. Quiet(a)
            BY <2>10 DEF Tracked
        <3>3. InHour(a)' = {n}
            BY <2>3, <2>4, <2>5, <3>1, <3>2 DEF InHour, Quiet
        <3>4. BeforeHour(a)' = Within(a, Hour)
            BY <2>3, <2>4, <2>5, <3>1, <3>2 DEF BeforeHour, Within, Quiet
        <3>5. Cardinality(InHour(a)') = 1
            BY <3>3, FS_Singleton
        <3>6. 1 <= MostAtOnce(a)
            BY AlertBounds DEF MostAtOnce
        <3>7. Counts(a)'
            BY <2>3, <2>4, <3>1, <3>2, <3>4, <3>5, <3>6 DEF Counts, Quiet, MostAtOnce
        <3>8. Running(a)'
            BY <3>1, AlertBounds, CorrelationBounds DEF Running, HourCount
        <3> QED BY <2>7, <3>7, <3>8 DEF Tracked
    <2> QED BY <2>9, <2>10
<1> QED BY <1>5, <1>6

(* Alerts that only age, some of the oldest forgotten.                     *)
LEMMA StillLimited ==
    ASSUME alerts \in Seq(Alert), alerts' \in Seq(Alert), NEW o \in Nat, NEW d \in Nat,
           NEW n \in DOMAIN alerts', n + o \in DOMAIN alerts, LimitedAt(n + o),
           \A p \in 1..n : /\ alerts'[p].rule = alerts[p + o].rule
                           /\ alerts'[p].start = alerts[p + o].start
                           /\ alerts'[p].age = alerts[p + o].age + d
    PROVE  LimitedAt(n)'
<1>1. /\ n \in Nat /\ n \in 1..n /\ DOMAIN alerts = 1..Len(alerts) /\ Len(alerts) \in Nat
      /\ \A p \in 1..n : p + o \in 1..n + o /\ p + o \in DOMAIN alerts
    BY LenProperties
<1>2. \A p \in 1..n : alerts[p + o].age \in Nat /\ alerts[n + o].age \in Nat
    BY <1>1, AlertsAt
<1>3. \A p \in 1..n : alerts'[p].age - alerts'[n].age = alerts[p + o].age - alerts[n + o].age
    <2> SUFFICES ASSUME NEW p \in 1..n
                 PROVE  alerts'[p].age - alerts'[n].age = alerts[p + o].age - alerts[n + o].age
        OBVIOUS
    <2>1. alerts[p + o].age \in Nat /\ alerts[n + o].age \in Nat
        BY <1>2
    <2>2. alerts'[p].age = alerts[p + o].age + d /\ alerts'[n].age = alerts[n + o].age + d
        BY <1>1
    <2> DEFINE x == alerts[p + o].age
               y == alerts[n + o].age
    <2> HIDE DEF x, y
    <2>3. x \in Nat /\ y \in Nat => (x + d) - (y + d) = x - y
        OBVIOUS
    <2> QED BY <2>1, <2>2, <2>3 DEF x, y
<1>4. alerts'[n].rule = alerts[n + o].rule /\ alerts[n + o].rule \in AlertRule
    BY <1>1, AlertsAt
<1>5. ASSUME NEW age, NEW p \in SinceThen(n, age)'
      PROVE  p \in 1..n /\ p + o \in SinceThen(n + o, age)
    <2>1. /\ p \in 1..n /\ alerts'[p].rule = alerts'[n].rule /\ alerts'[p].start = alerts'[n].start
          /\ alerts'[p].age - alerts'[n].age < age
        BY <1>5 DEF SinceThen
    <2> QED BY <1>1, <1>3, <2>1 DEF SinceThen
<1>6. SinceThen(n, Cooldown[alerts[n].rule])' \cap SinceThen(n, TwoHours)' \subseteq {n}
    <2>1. (Cooldown[alerts[n].rule])' = Cooldown[alerts[n + o].rule] /\ TwoHours' = TwoHours
        BY <1>4
    <2> SUFFICES ASSUME NEW p, p \in SinceThen(n, Cooldown[alerts[n].rule])', p \in SinceThen(n, TwoHours)'
                 PROVE  p = n
        OBVIOUS
    <2>2. p \in 1..n /\ p + o \in SinceThen(n + o, Cooldown[alerts[n + o].rule]) /\ p + o \in SinceThen(n + o, TwoHours)
        BY <1>5, <2>1
    <2>3. p + o = n + o
        BY <2>2 DEF LimitedAt
    <2> QED BY <1>1, <2>2, <2>3
<1>7. Cardinality(SinceThen(n, Hour)') <= Cardinality(SinceThen(n + o, Hour))
      /\ Cardinality(SinceThen(n, Hour)') \in Nat /\ Cardinality(SinceThen(n + o, Hour)) \in Nat
    <2> DEFINE S == SinceThen(n + o, Hour)
               T == SinceThen(n, Hour)'
    <2>1. \A p \in T : p \in Nat /\ p + o \in S
        BY <1>1, <1>5
    <2>2. S \subseteq DOMAIN alerts
        BY <1>1 DEF SinceThen
    <2>3. IsFiniteSet(S)
        BY <2>2, Counting
    <2> HIDE DEF S, T
    <2>4. Cardinality(T) \in Nat /\ Cardinality(S) \in Nat /\ Cardinality(T) <= Cardinality(S)
        BY <2>1, <2>3, ShiftFacts
    <2> QED BY <2>4 DEF S, T
<1> DEFINE most(a) == IF PerHour[a] = 0 THEN 1 ELSE 2 * PerHour[a] - 1
<1>8. Cardinality(SinceThen(n, Hour)') <= most(alerts'[n].rule)
    <2>1. Cardinality(SinceThen(n + o, Hour)) <= most(alerts[n + o].rule)
        BY DEF LimitedAt
    <2>2. PerHour[alerts[n + o].rule] \in Nat
        BY <1>4, AlertBounds
    <2>3. most(alerts[n + o].rule) \in Int
        BY <2>2
    <2> HIDE DEF most
    <2> QED BY <1>4, <1>7, <2>1, <2>3
<1> QED BY <1>6, <1>8 DEF LimitedAt

LEMMA EvaluateTypes ==
    ASSUME AlertTypes, NEW e, Evaluate(e), restarts' = restarts, traffic' = traffic
    PROVE  AlertTypes'
<1> DEFINE l == Len(alerts)
           k == Len(alerts')
<1>1. /\ alerts' \in Seq(Alert) /\ l \in Nat /\ k \in Nat /\ k >= l
      /\ DOMAIN alerts = 1..l /\ DOMAIN alerts' = 1..k
      /\ \A n \in 1..l : alerts'[n] = alerts[n]
      /\ \A n \in l + 1..k : alerts'[n].age = 0 /\ alerts'[n].start = restarts
    BY FiredFacts
<1> HIDE DEF l, k
<1>2. \A n \in 1..k : n \in 1..l \/ n \in l + 1..k
    BY <1>1
<1>3. \A n \in 1..k : alerts'[n].age \in Nat
    BY <1>1, ElementOfSeq, AlertFields DEF k
<1>4. Sorted(alerts')
    <2> SUFFICES ASSUME NEW p \in 1..k, NEW q \in 1..k, p < q PROVE alerts'[p].age >= alerts'[q].age
        BY <1>1 DEF Sorted
    <2>1. CASE q \in 1..l
        <3>1. p \in 1..l
            BY <1>1, <2>1
        <3> QED BY <1>1, <2>1, <3>1 DEF AlertTypes, Sorted
    <2>2. CASE q \in l + 1..k
        BY <1>1, <1>3, <2>2
    <2> QED BY <1>2, <2>1, <2>2
<1>5. \A n \in 1..k : alerts'[n].start <= restarts
    BY <1>1, <1>2 DEF AlertTypes
<1>6. ASSUME NEW a \in AlertRule PROVE Counted(hourly[a]) \in HourCount
    <2>1. CASE hourly[a] = None
        BY <2>1 DEF Counted, HourCount
    <2>2. CASE hourly[a] # None
        <3>1. hourly[a] \in HourCount
            BY <2>2, LastFiredAt
        <3> QED BY <3>1 DEF Counted, HourCount
    <2> QED BY <2>1, <2>2
<1>7. lastFired' \in [AlertRule -> Nat \cup {None}]
    BY DEF Evaluate, AlertTypes
<1>8. hourly' \in [AlertRule -> HourCount \cup {None}]
    BY <1>6 DEF Evaluate, AlertTypes
<1>9. ruleRows' = ruleRows /\ alertRules' = alertRules
    BY DEF Evaluate
<1> QED BY <1>1, <1>4, <1>5, <1>7, <1>8, <1>9 DEF AlertTypes

LEMMA EvaluateLimited ==
    ASSUME IInvAlerts, NEW e, Evaluate(e), restarts' = restarts, traffic' = traffic,
           NEW n \in DOMAIN alerts'
    PROVE  LimitedAt(n)'
<1> DEFINE l == Len(alerts)
           k == Len(alerts')
<1>0. AlertTypes /\ \A x \in AlertRule : Tracked(x)
    BY DEF IInvAlerts
<1>1. /\ alerts' \in Seq(Alert) /\ alerts \in Seq(Alert) /\ l \in Nat /\ k \in Nat /\ k >= l
      /\ DOMAIN alerts = 1..l /\ DOMAIN alerts' = 1..k /\ Fired(e) \subseteq AlertRule
      /\ \A m \in 1..l : alerts'[m] = alerts[m]
      /\ \A m \in l + 1..k : alerts'[m].rule \in Fired(e) /\ alerts'[m].age = 0 /\ alerts'[m].start = restarts
      /\ \A m, j \in l + 1..k : alerts'[m].rule = alerts'[j].rule => m = j
    BY <1>0, FiredFacts DEF AlertTypes
<1> HIDE DEF l, k
<1>2. n \in 1..k /\ (n \in 1..l \/ n \in l + 1..k)
    BY <1>1
<1>3. CASE n \in 1..l
    <2>1. LimitedAt(n)
        BY <1>1, <1>3, Limited DEF IInvAlerts
    <2>2. n + 0 = n /\ 0 \in Nat /\ \A p \in 1..n : p \in 1..l /\ p + 0 = p
        BY <1>1, <1>3
    <2>3. \A p \in 1..n : alerts[p].age \in Nat /\ alerts[p].age + 0 = alerts[p].age
        BY <1>1, <2>2, AlertsAt
    <2>4. \A p \in 1..n : /\ alerts'[p].rule = alerts[p + 0].rule
                          /\ alerts'[p].start = alerts[p + 0].start
                          /\ alerts'[p].age = alerts[p + 0].age + 0
        BY <1>1, <2>2, <2>3
    <2>5. n + 0 \in DOMAIN alerts /\ LimitedAt(n + 0) /\ n \in DOMAIN alerts'
        BY <1>1, <1>3, <2>1, <2>2
    <2> QED BY <1>1, <2>2, <2>4, <2>5, StillLimited
<1>4. CASE n \in l + 1..k
    <2> DEFINE a == alerts'[n].rule
    <2>1. a \in Fired(e) /\ a \in AlertRule /\ Tracked(a) /\ CanFire(a) /\ alerts'[n].age = 0 /\ alerts'[n].start = restarts
        BY <1>0, <1>1, <1>4 DEF Fired
    <2> HIDE DEF a
    <2>2. ASSUME NEW m \in 1..n, alerts'[m].rule = alerts'[n].rule, alerts'[m].start = alerts'[n].start, m # n
          PROVE  m \in Mine(a) /\ alerts[m].age \in Nat /\ alerts'[m].age = alerts[m].age
        <3>1. m \in 1..l \/ m \in l + 1..k
            BY <1>1, <1>2
        <3>2. m \notin l + 1..k
            BY <1>1, <1>4, <2>2
        <3>3. m \in 1..l /\ alerts'[m] = alerts[m]
            BY <1>1, <3>1, <3>2
        <3> QED BY <1>1, <2>1, <2>2, <3>3, AlertsAt DEF Mine, a
    <2>3. SinceThen(n, Cooldown[alerts[n].rule])' \cap SinceThen(n, TwoHours)' \subseteq {n}
        <3> SUFFICES ASSUME NEW m \in 1..n, alerts'[m].rule = alerts'[n].rule, alerts'[m].start = alerts'[n].start,
                            alerts'[m].age - alerts'[n].age < Cooldown[a], alerts'[m].age - alerts'[n].age < TwoHours,
                            m # n
                     PROVE  FALSE
            BY DEF SinceThen, a
        <3>1. m \in Mine(a) /\ alerts[m].age \in Nat /\ alerts'[m].age = alerts[m].age
            BY <2>2
        <3>2. alerts[m].age < Cooldown[a] /\ alerts[m].age < TwoHours
            BY <2>1, <3>1
        <3>3. alerts[m].age >= Cooldown[a] \/ alerts[m].age >= TwoHours
            BY <1>0, <2>1, <3>1, FiresApart
        <3> QED BY <2>1, <3>1, <3>2, <3>3, AlertBounds
    <2>4. Cardinality(SinceThen(n, Hour)') <= Cardinality(Within(a, Hour)) + 1
        <3> DEFINE T == SinceThen(n, Hour)'
        <3>1. T \subseteq Within(a, Hour) \cup {n}
            <4> SUFFICES ASSUME NEW m \in T, m # n PROVE m \in Within(a, Hour)
                OBVIOUS
            <4>1. /\ m \in 1..n /\ alerts'[m].rule = alerts'[n].rule /\ alerts'[m].start = alerts'[n].start
                  /\ alerts'[m].age - alerts'[n].age < Hour
                BY DEF SinceThen
            <4>2. m \in Mine(a) /\ alerts[m].age \in Nat /\ alerts'[m].age = alerts[m].age
                BY <2>2, <4>1
            <4> QED BY <2>1, <4>1, <4>2 DEF Within
        <3>2. n \notin Within(a, Hour)
            BY <1>1, <1>4 DEF Within, Mine
        <3>3. IsFiniteSet(Within(a, Hour)) /\ Cardinality(Within(a, Hour)) \in Nat
            BY <1>1, Counting DEF Within, Mine
        <3> HIDE DEF T
        <3>4. /\ IsFiniteSet(Within(a, Hour) \cup {n})
              /\ Cardinality(Within(a, Hour) \cup {n}) = Cardinality(Within(a, Hour)) + 1
            BY <3>2, <3>3, FS_AddElement
        <3>5. Cardinality(T) <= Cardinality(Within(a, Hour)) + 1
            BY <3>1, <3>4, FS_Subset
        <3> QED BY <3>5 DEF T
    <2>5. /\ Cardinality(Within(a, Hour)) \in Nat
          /\ Cardinality(Within(a, Hour)) + 1 <= IF PerHour[a] = 0 THEN 1 ELSE 2 * PerHour[a] - 1
        BY <1>0, <2>1, FiresSeldom
    <2>6. Cardinality(SinceThen(n, Hour)') \in Nat
        <3>1. SinceThen(n, Hour)' \subseteq 1..n /\ n \in Nat
            BY <1>1, <1>2 DEF SinceThen
        <3> QED BY <3>1, Interval, FS_Subset, FS_CardinalityType
    <2>7. PerHour[a] \in Nat
        BY <2>1, AlertBounds
    <2>8. Cardinality(SinceThen(n, Hour)') <= IF PerHour[a] = 0 THEN 1 ELSE 2 * PerHour[a] - 1
        BY <2>4, <2>5, <2>6, <2>7
    <2> QED BY <2>3, <2>8 DEF LimitedAt, a
<1> QED BY <1>2, <1>3, <1>4

LEMMA EvaluateAlerts ==
    ASSUME IInvAlerts, NEW e, Evaluate(e), restarts' = restarts, traffic' = traffic
    PROVE  IInvAlerts'
<1>1. AlertTypes /\ \A x \in AlertRule : Tracked(x)
    BY DEF IInvAlerts
<1>2. AlertTypes' /\ \A x \in AlertRule : Tracked(x)'
    BY <1>1, EvaluateTypes, EvaluateTracked
<1>3. \A n \in DOMAIN alerts' : LimitedAt(n)'
    BY EvaluateLimited
<1>4. AlertsLimited'
    BY <1>3 DEF AlertsLimited, LimitedAt, SinceThen
<1> QED BY <1>2, <1>4 DEF IInvAlerts

(* What changes the rules alone.                                           *)
LEMMA RulesAlone ==
    ASSUME IInvAlerts, UNCHANGED <<traffic, restarts, lastFired, hourly, alerts>>,
           IsFiniteSet(ruleRows'), ruleRows' \subseteq AlertRule,
           IsFiniteSet(alertRules'), alertRules' \subseteq AlertRule
    PROVE  IInvAlerts'
<1>1. AlertTypes'
    BY DEF IInvAlerts, AlertTypes, Sorted
<1>2. AlertsLimited'
    BY DEF IInvAlerts, AlertsLimited
<1>3. \A a \in AlertRule : Tracked(a)'
    <2> SUFFICES ASSUME NEW a \in AlertRule PROVE Tracked(a)'
        OBVIOUS
    <2>1. Mine(a)' = Mine(a) /\ \A m \in Mine(a) : alerts'[m].age = alerts[m].age
        BY DEF Mine
    <2>2. Running(a)' = Running(a) /\ Counts(a)' = Counts(a) /\ Quiet(a)' = Quiet(a)
        BY <2>1, SameCounts
    <2>3. LastKnown(a)' = LastKnown(a)
        BY <2>1 DEF LastKnown
    <2> QED BY <2>2, <2>3 DEF Tracked, IInvAlerts
<1> QED BY <1>1, <1>2, <1>3 DEF IInvAlerts

LEMMA RefreshAlerts ==
    ASSUME IInvAlerts, RefreshRules
    PROVE  IInvAlerts'
<1>1. /\ alertRules' \in Loads /\ lastFired' = Cleaned(lastFired)
      /\ hourly' = [a \in AlertRule |-> IF Cleaned(Begun)[a] = None THEN None ELSE hourly[a]]
      /\ traffic' = traffic /\ restarts' = restarts /\ ruleRows' = ruleRows /\ alerts' = alerts
    BY DEF RefreshRules, vars
<1>2. AlertTypes /\ AlertsLimited /\ \A a \in AlertRule : Tracked(a)
    BY DEF IInvAlerts
<1>3. IsFiniteSet(alertRules') /\ alertRules' \subseteq AlertRule
    BY <1>1, <1>2, FS_EmptySet DEF AlertTypes, Loads
<1>4. lastFired' \in [AlertRule -> Nat \cup {None}] /\ hourly' \in [AlertRule -> HourCount \cup {None}]
    BY <1>1, <1>2 DEF AlertTypes, Cleaned
<1>5. AlertTypes'
    BY <1>1, <1>2, <1>3, <1>4 DEF AlertTypes, Sorted
<1>6. AlertsLimited'
    BY <1>1, <1>2 DEF AlertsLimited
<1>7. ASSUME NEW a \in AlertRule PROVE Tracked(a)'
    <2>1. Mine(a)' = Mine(a) /\ \A m \in Mine(a) : alerts[m].age \in Nat /\ alerts'[m].age = alerts[m].age
        BY <1>1, <1>2, MineFacts DEF Mine
    <2>2. lastFired'[a] = IF lastFired[a] # None /\ lastFired[a] >= TwoHours THEN None ELSE lastFired[a]
        BY <1>1 DEF Cleaned
    <2>3. LastKnown(a)'
        <3> SUFFICES ASSUME NEW m \in Mine(a), alerts[m].age < TwoHours
                     PROVE  lastFired'[a] # None /\ lastFired'[a] <= alerts[m].age
            BY <2>1 DEF LastKnown
        <3>1. lastFired[a] # None /\ lastFired[a] <= alerts[m].age /\ lastFired[a] \in Nat /\ alerts[m].age \in Nat
            BY <1>2, <2>1, LastFiredAt DEF Tracked, LastKnown
        <3>2. ~(lastFired[a] >= TwoHours)
            BY <3>1, AlertBounds
        <3> QED BY <2>2, <3>1, <3>2
    <2>4. CASE Running(a)
        <3>1. hourly[a] # None /\ hourly[a].age \in Nat /\ hourly[a].age < Hour
            BY <1>2, <2>4, LastFiredAt DEF Running
        <3>2. Begun[a] = hourly[a].age /\ ~(hourly[a].age >= TwoHours)
            BY <3>1, AlertBounds, CorrelationBounds DEF Begun
        <3>3. Cleaned(Begun)[a] # None
            BY <3>1, <3>2, AlertBounds DEF Cleaned
        <3>4. hourly'[a] = hourly[a]
            BY <1>1, <3>3
        <3>5. Running(a)' = Running(a) /\ Counts(a)' = Counts(a) /\ Quiet(a)' = Quiet(a)
            BY <2>1, <3>4, SameCounts
        <3> QED BY <1>2, <2>3, <3>5 DEF Tracked
    <2>5. CASE ~Running(a)
        <3>1. hourly'[a] = None \/ hourly'[a] = hourly[a]
            BY <1>1
        <3>2. ~Running(a)'
            BY <2>5, <3>1 DEF Running
        <3>3. Within(a, Hour)' = Within(a, Hour)
            BY <2>1 DEF Within
        <3>4. Quiet(a)'
            BY <1>2, <2>1, <2>5, <3>3 DEF Tracked, Quiet, MostAtOnce
        <3> QED BY <2>3, <3>2, <3>4 DEF Tracked
    <2> QED BY <2>4, <2>5
<1> QED BY <1>5, <1>6, <1>7 DEF IInvAlerts

(* What changes nothing of alerts but whether they are being written.      *)
LEMMA OnlyWritten ==
    ASSUME AlertTypes, AlertsLimited, alerts' = [n \in DOMAIN alerts |-> alerts'[n]],
           \A n \in DOMAIN alerts : /\ alerts'[n] \in Alert /\ alerts'[n].rule = alerts[n].rule
                                    /\ alerts'[n].start = alerts[n].start /\ alerts'[n].age = alerts[n].age
    PROVE  /\ alerts' \in Seq(Alert) /\ DOMAIN alerts' = DOMAIN alerts
           /\ Sorted(alerts') /\ AlertsLimited'
<1>1. Len(alerts) \in Nat /\ DOMAIN alerts = 1..Len(alerts) /\ alerts \in Seq(Alert) /\ Sorted(alerts)
    BY LenProperties DEF AlertTypes
<1>2. alerts' \in Seq(Alert) /\ DOMAIN alerts' = DOMAIN alerts
    BY <1>1, IsASeq
<1>3. Sorted(alerts')
    BY <1>1, <1>2 DEF Sorted
<1>4. ASSUME NEW n \in DOMAIN alerts' PROVE LimitedAt(n)'
    <2>1. LimitedAt(n) /\ n + 0 = n /\ \A p \in 1..n : p \in DOMAIN alerts /\ p + 0 = p
        BY <1>1, <1>2, Limited
    <2>2. \A p \in 1..n : alerts[p].age + 0 = alerts[p].age
        BY <1>1, <2>1, AlertsAt
    <2>3. \A p \in 1..n : /\ alerts'[p].rule = alerts[p + 0].rule
                          /\ alerts'[p].start = alerts[p + 0].start
                          /\ alerts'[p].age = alerts[p + 0].age + 0
        BY <2>1, <2>2
    <2>4. LimitedAt(n + 0) /\ n + 0 \in DOMAIN alerts /\ 0 \in Nat
        BY <1>2, <2>1
    <2> QED BY <1>1, <1>2, <2>3, <2>4, StillLimited
<1>5. AlertsLimited'
    BY <1>4 DEF AlertsLimited, LimitedAt, SinceThen
<1> QED BY <1>2, <1>3, <1>5

LEMMA PersistAlerts ==
    ASSUME IInvAlerts, NEW n \in DOMAIN alerts, PersistAlert(n)
    PROVE  IInvAlerts'
<1>1. /\ alerts' = [alerts EXCEPT ![n].pending = FALSE]
      /\ UNCHANGED <<traffic, restarts, ruleRows, alertRules, lastFired, hourly>>
    BY DEF PersistAlert, vars
<1>2. AlertTypes /\ AlertsLimited /\ \A a \in AlertRule : Tracked(a)
    BY DEF IInvAlerts
<1>3. \A m \in DOMAIN alerts : alerts[m] \in Alert
    BY <1>2, AlertsAt DEF AlertTypes
<1>4. /\ \A m \in DOMAIN alerts \ {n} : alerts'[m] = alerts[m]
      /\ alerts'[n] = [alerts[n] EXCEPT !.pending = FALSE]
      /\ alerts' = [m \in DOMAIN alerts |-> alerts'[m]]
    BY <1>1
<1>5. /\ alerts'[n] \in Alert /\ alerts'[n].rule = alerts[n].rule
      /\ alerts'[n].start = alerts[n].start /\ alerts'[n].age = alerts[n].age
    BY <1>3, <1>4 DEF Alert
<1>6. \A m \in DOMAIN alerts : /\ alerts'[m] \in Alert /\ alerts'[m].rule = alerts[m].rule
                               /\ alerts'[m].start = alerts[m].start /\ alerts'[m].age = alerts[m].age
    BY <1>3, <1>4, <1>5
<1>7. alerts' \in Seq(Alert) /\ DOMAIN alerts' = DOMAIN alerts /\ Sorted(alerts') /\ AlertsLimited'
    BY <1>2, <1>4, <1>6, OnlyWritten
<1>8. AlertTypes'
    BY <1>1, <1>2, <1>6, <1>7 DEF AlertTypes
<1>9. ASSUME NEW a \in AlertRule PROVE Tracked(a)'
    <2>1. Mine(a)' = Mine(a)
        BY <1>1, <1>6, <1>7 DEF Mine
    <2>2. \A m \in Mine(a) : alerts'[m].age = alerts[m].age
        BY <1>6 DEF Mine
    <2>3. Running(a)' = Running(a) /\ Counts(a)' = Counts(a) /\ Quiet(a)' = Quiet(a)
        BY <1>1, <2>1, <2>2, SameCounts
    <2>4. LastKnown(a)'
        BY <1>1, <1>2, <2>1, <2>2 DEF LastKnown, Tracked
    <2> QED BY <1>2, <2>3, <2>4 DEF Tracked
<1> QED BY <1>7, <1>8, <1>9 DEF IInvAlerts

(* A start knows nothing of what was fired before.                         *)
LEMMA RestartAlertsKept ==
    ASSUME IInvAlerts, RestartAlerts, restarts' = restarts + 1, traffic' = traffic
    PROVE  IInvAlerts'
<1>1. /\ alertRules' = {} /\ lastFired' = [a \in AlertRule |-> None] /\ hourly' = [a \in AlertRule |-> None]
      /\ alerts' = [n \in DOMAIN alerts |-> [alerts[n] EXCEPT !.pending = FALSE]]
      /\ ruleRows' = ruleRows
    BY DEF RestartAlerts
<1>2. AlertTypes /\ AlertsLimited /\ restarts \in Nat /\ \A n \in DOMAIN alerts : alerts[n].start <= restarts
    BY DEF IInvAlerts, AlertTypes
<1>3. \A m \in DOMAIN alerts : alerts[m] \in Alert /\ alerts[m].start \in Nat
    BY <1>2, AlertsAt DEF AlertTypes
<1>4. alerts' = [m \in DOMAIN alerts |-> alerts'[m]]
    BY <1>1
<1>5. \A m \in DOMAIN alerts : /\ alerts'[m] \in Alert /\ alerts'[m].rule = alerts[m].rule
                               /\ alerts'[m].start = alerts[m].start /\ alerts'[m].age = alerts[m].age
    BY <1>1, <1>3 DEF Alert
<1>6. alerts' \in Seq(Alert) /\ DOMAIN alerts' = DOMAIN alerts /\ Sorted(alerts') /\ AlertsLimited'
    BY <1>2, <1>4, <1>5, OnlyWritten
<1>7. \A n \in DOMAIN alerts : alerts'[n].start < restarts + 1 /\ alerts'[n].start <= restarts + 1
    BY <1>2, <1>3, <1>5
<1>8. AlertTypes'
    <2>1. lastFired' \in [AlertRule -> Nat \cup {None}] /\ hourly' \in [AlertRule -> HourCount \cup {None}]
        BY <1>1
    <2>2. IsFiniteSet(alertRules') /\ alertRules' \subseteq AlertRule
        BY <1>1, FS_EmptySet
    <2>3. restarts' \in Nat /\ traffic' \in DOMAIN Traffic
        BY <1>2 DEF AlertTypes
    <2>4. \A n \in DOMAIN alerts' : alerts'[n].start <= restarts'
        BY <1>6, <1>7
    <2>5. IsFiniteSet(ruleRows') /\ ruleRows' \subseteq AlertRule
        BY <1>1, <1>2 DEF AlertTypes
    <2> QED BY <1>6, <2>1, <2>2, <2>3, <2>4, <2>5 DEF AlertTypes
<1>9. ASSUME NEW a \in AlertRule PROVE Tracked(a)'
    <2>1. \A n \in DOMAIN alerts : alerts'[n].start # restarts'
        BY <1>2, <1>3, <1>7, <1>5
    <2>2. Mine(a)' = {}
        BY <1>6, <2>1 DEF Mine
    <2>3. ~Running(a)'
        BY <1>1 DEF Running
    <2>4. Within(a, Hour)' = {}
        BY <2>2 DEF Within
    <2>5. Cardinality(Within(a, Hour)') + 1 <= MostAtOnce(a)
        BY <2>4, FS_EmptySet, AlertBounds DEF MostAtOnce
    <2> QED BY <2>2, <2>3, <2>5 DEF Tracked, LastKnown, Quiet, MostAtOnce
<1> QED BY <1>6, <1>8, <1>9 DEF IInvAlerts

(* Alerts grow older; those of more than six hours ago are forgotten.      *)
LEMMA AlertsAge ==
    ASSUME AlertTypes, NEW o, o = Overdue(Older(alerts), SixHours + 1),
           alerts' = Younger(Older(alerts), SixHours + 1)
    PROVE  /\ alerts' \in Seq(Alert) /\ Sorted(alerts')
           /\ o \in 0..Len(alerts) /\ Len(alerts) \in Nat /\ Len(alerts') = Len(alerts) - o
           /\ DOMAIN alerts = 1..Len(alerts) /\ DOMAIN alerts' = 1..Len(alerts) - o
           /\ \A p \in 1..Len(alerts) - o : /\ p + o \in 1..Len(alerts)
                                            /\ alerts'[p].rule = alerts[p + o].rule
                                            /\ alerts'[p].start = alerts[p + o].start
                                            /\ alerts'[p].age = alerts[p + o].age + 1
           /\ \A p \in 1..Len(alerts) : alerts[p].age < SixHours => p > o
<1> DEFINE l == Len(alerts)
           past == Older(alerts)
<1>1. alerts \in Seq(Alert) /\ Sorted(alerts) /\ l \in Nat /\ DOMAIN alerts = 1..l /\ SixHours \in Nat
    BY LenProperties, CorrelationBounds DEF AlertTypes
<1>2. \A p \in 1..l : alerts[p] \in Alert /\ alerts[p].age \in Nat
    BY <1>1, AlertsAt
<1>3. past = [p \in 1..l |-> past[p]] /\ \A p \in 1..l : past[p] = [alerts[p] EXCEPT !.age = @ + 1]
    BY <1>1 DEF Older
<1> HIDE DEF past
<1>4. \A p \in 1..l : /\ past[p] \in Alert /\ past[p].age = alerts[p].age + 1
                      /\ past[p].rule = alerts[p].rule /\ past[p].start = alerts[p].start
    <2> SUFFICES ASSUME NEW p \in 1..l
                 PROVE  /\ past[p] \in Alert /\ past[p].age = alerts[p].age + 1
                        /\ past[p].rule = alerts[p].rule /\ past[p].start = alerts[p].start
        OBVIOUS
    <2>1. /\ alerts[p] \in Alert /\ alerts[p].age \in Nat /\ alerts[p].age + 1 \in Nat
          /\ past[p] = [alerts[p] EXCEPT !.age = alerts[p].age + 1]
        BY <1>2, <1>3
    <2> QED BY <2>1 DEF Alert
<1>5. past \in Seq(Alert) /\ Len(past) = l /\ DOMAIN past = 1..l
    BY <1>1, <1>3, <1>4, IsASeq, LenProperties
<1>6. Sorted(past) /\ Aged(past)
    <2>1. \A p \in 1..l : past[p].age \in Nat
        BY <1>2, <1>4
    <2>2. \A p, q \in 1..l : p < q => past[p].age >= past[q].age
        <3> SUFFICES ASSUME NEW p \in 1..l, NEW q \in 1..l, p < q PROVE past[p].age >= past[q].age
            OBVIOUS
        <3>1. alerts[p].age >= alerts[q].age /\ alerts[p].age \in Nat /\ alerts[q].age \in Nat
            BY <1>1, <1>2 DEF Sorted
        <3> QED BY <1>4, <3>1
    <2> QED BY <1>5, <2>1, <2>2 DEF Sorted, Aged
<1>7. /\ alerts' \in Seq(Alert) /\ o \in 0..l /\ Len(alerts') = l - o
      /\ \A p \in 1..l - o : alerts'[p] = past[p + o] /\ p + o \in 1..l
      /\ \A p \in 1..l : past[p].age < SixHours + 1 => p > o
    BY <1>1, <1>5, <1>6, YoungerFacts DEF past
<1> HIDE DEF l
<1>8. DOMAIN alerts' = 1..l - o
    BY <1>7, LenProperties
<1>9. Sorted(alerts')
    <2> SUFFICES ASSUME NEW p \in 1..l - o, NEW q \in 1..l - o, p < q PROVE alerts'[p].age >= alerts'[q].age
        BY <1>8 DEF Sorted
    <2>1. p + o \in 1..l /\ q + o \in 1..l /\ p + o < q + o
        BY <1>1, <1>7
    <2> QED BY <1>5, <1>6, <1>7, <2>1 DEF Sorted
<1>10. \A p \in 1..l : alerts[p].age < SixHours => p > o
    BY <1>1, <1>2, <1>4, <1>7
<1> QED BY <1>1, <1>4, <1>7, <1>8, <1>9, <1>10 DEF l

LEMMA ElapseTracked ==
    ASSUME IInvAlerts, ElapseAlerts, restarts' = restarts, NEW a \in AlertRule
    PROVE  Tracked(a)'
<1> DEFINE o == Overdue(Older(alerts), SixHours + 1)
           l == Len(alerts)
<1>1. /\ alerts' = Younger(Older(alerts), SixHours + 1)
      /\ lastFired'[a] = (IF lastFired[a] = None \/ lastFired[a] = SixHours THEN lastFired[a] ELSE lastFired[a] + 1)
      /\ hourly'[a] = (IF hourly[a] = None \/ hourly[a].age = SixHours THEN hourly[a]
                       ELSE [hourly[a] EXCEPT !.age = @ + 1])
    BY DEF ElapseAlerts
<1>2. AlertTypes /\ Tracked(a) /\ alerts \in Seq(Alert)
    BY DEF IInvAlerts, AlertTypes
<1> HIDE DEF o, l
<1>3. /\ o \in 0..l /\ l \in Nat
      /\ DOMAIN alerts = 1..l /\ DOMAIN alerts' = 1..l - o
      /\ \A p \in 1..l - o : /\ p + o \in 1..l
                             /\ alerts'[p].rule = alerts[p + o].rule
                             /\ alerts'[p].start = alerts[p + o].start
                             /\ alerts'[p].age = alerts[p + o].age + 1
      /\ \A p \in 1..l : alerts[p].age < SixHours => p > o
    BY <1>1, <1>2, AlertsAge DEF o, l
<1>4. \A m \in Mine(a) : m \in 1..l /\ alerts[m].age \in Nat
    BY <1>2, <1>3, MineFacts
<1>5. \A m \in Mine(a)' : m \in Nat /\ m + o \in Mine(a) /\ alerts'[m].age = alerts[m + o].age + 1
    BY <1>3 DEF Mine
<1>6. ASSUME NEW m \in Mine(a), alerts[m].age < SixHours
      PROVE  m - o \in Mine(a)' /\ (m - o) + o = m
    <2>1. m \in 1..l /\ m > o
        BY <1>3, <1>4, <1>6
    <2>2. m - o \in 1..l - o /\ (m - o) + o = m
        BY <1>3, <2>1
    <2>3. alerts[m].rule = a /\ alerts[m].start = restarts
        BY DEF Mine
    <2>4. alerts'[m - o].rule = alerts[m].rule /\ alerts'[m - o].start = alerts[m].start
        BY <1>3, <2>2
    <2> QED BY <1>3, <2>2, <2>3, <2>4 DEF Mine
<1>7. /\ hourly[a] # None => hourly[a] \in HourCount /\ hourly[a].age \in Nat /\ hourly[a].count \in Nat
      /\ lastFired[a] # None => lastFired[a] \in Nat
      /\ Hour \in Nat /\ SixHours \in Nat /\ TwoHours \in Nat /\ Hour <= TwoHours /\ TwoHours <= SixHours
      /\ MostAtOnce(a) \in Nat
    BY <1>2, LastFiredAt, AlertBounds, CorrelationBounds
<1>8. LastKnown(a)'
    <2> SUFFICES ASSUME NEW m \in Mine(a)', alerts'[m].age < TwoHours
                 PROVE  lastFired'[a] # None /\ lastFired'[a] <= alerts'[m].age
        BY DEF LastKnown
    <2>1. m + o \in Mine(a) /\ alerts'[m].age = alerts[m + o].age + 1 /\ alerts[m + o].age \in Nat
        BY <1>4, <1>5
    <2>2. alerts[m + o].age < TwoHours
        BY <1>7, <2>1
    <2>3. lastFired[a] # None /\ lastFired[a] <= alerts[m + o].age /\ lastFired[a] \in Nat
        BY <1>2, <1>7, <2>1, <2>2 DEF Tracked, LastKnown
    <2>4. lastFired[a] + 1 # None
        BY <2>3, AlertBounds
    <2> QED BY <1>1, <2>1, <2>3, <2>4
<1>9. ASSUME NEW S, IsFiniteSet(S), NEW T, T \subseteq Mine(a)', \A m \in T : m + o \in S
      PROVE  /\ IsFiniteSet(T) /\ Cardinality(T) \in Nat /\ Cardinality(S) \in Nat
             /\ Cardinality(T) <= Cardinality(S)
             /\ (\A s \in S : \E t \in T : s = t + o) => Cardinality(T) = Cardinality(S)
    <2>1. T \subseteq Nat /\ o \in Nat
        BY <1>3, <1>5, <1>9
    <2> QED BY <1>9, <2>1, ShiftFacts
<1>10. /\ IsFiniteSet(Within(a, Hour)) /\ IsFiniteSet(InHour(a)) /\ IsFiniteSet(BeforeHour(a))
    BY <1>2, Counting DEF Within, InHour, BeforeHour, Mine
<1>11. ASSUME Running(a)' PROVE Counts(a)'
    <2>1. hourly'[a] # None /\ hourly'[a].age < Hour
        BY <1>11 DEF Running
    <2>2. hourly[a] # None /\ hourly[a].age # SixHours
        BY <1>1, <1>7, <2>1
    <2>3. /\ hourly'[a] = [hourly[a] EXCEPT !.age = @ + 1] /\ hourly[a] \in HourCount
          /\ hourly[a].age \in Nat /\ hourly[a].count \in Nat
        BY <1>1, <1>7, <2>2
    <2>4. hourly'[a].age = hourly[a].age + 1 /\ hourly'[a].count = hourly[a].count
        BY <2>3 DEF HourCount
    <2>5. hourly[a].age + 1 < Hour /\ hourly[a].age < SixHours
        BY <1>7, <2>1, <2>3, <2>4
    <2>6. Running(a) /\ Counts(a)
        BY <1>2, <1>7, <2>2, <2>3, <2>5 DEF Running, Tracked
    <2>7. Cardinality(InHour(a)') = Cardinality(InHour(a))
        <3>1. InHour(a)' \subseteq Mine(a)' /\ \A m \in InHour(a)' : m + o \in InHour(a)
            BY <1>4, <1>5, <1>7, <2>3, <2>4 DEF InHour
        <3>2. ASSUME NEW m \in InHour(a) PROVE \E t \in InHour(a)' : m = t + o
            <4>1. m \in Mine(a) /\ alerts[m].age <= hourly[a].age /\ alerts[m].age \in Nat
                BY <1>4 DEF InHour
            <4>2. m - o \in Mine(a)' /\ (m - o) + o = m
                BY <1>6, <1>7, <2>3, <2>5, <4>1
            <4>3. m - o \in InHour(a)'
                BY <1>5, <2>3, <2>4, <4>1, <4>2 DEF InHour
            <4> QED BY <4>2, <4>3
        <3> QED BY <1>9, <1>10, <3>1, <3>2
    <2>8. Cardinality(BeforeHour(a)') <= Cardinality(BeforeHour(a)) /\ Cardinality(BeforeHour(a)') \in Nat
          /\ Cardinality(BeforeHour(a)) \in Nat
        <3>1. BeforeHour(a)' \subseteq Mine(a)' /\ \A m \in BeforeHour(a)' : m + o \in BeforeHour(a)
            BY <1>4, <1>5, <1>7, <2>3, <2>4 DEF BeforeHour
        <3> QED BY <1>9, <1>10, <3>1
    <2>9. \E m \in Mine(a)' : alerts'[m].age = hourly'[a].age
        <3>1. PICK m \in Mine(a) : alerts[m].age = hourly[a].age
            BY <2>6 DEF Counts
        <3>2. m - o \in Mine(a)' /\ (m - o) + o = m
            BY <1>6, <2>5, <3>1
        <3> QED BY <1>5, <2>4, <3>1, <3>2
    <2>10. hourly'[a].count = Cardinality(InHour(a)') /\ hourly'[a].count <= MostAtOnce(a)
        BY <2>4, <2>6, <2>7 DEF Counts
    <2>11. Cardinality(BeforeHour(a)') + 1 <= MostAtOnce(a)
        BY <1>7, <2>6, <2>8 DEF Counts
    <2> QED BY <2>9, <2>10, <2>11 DEF Counts, MostAtOnce
<1>12. ASSUME ~Running(a)' PROVE Quiet(a)'
    <2>1. Within(a, Hour)' \subseteq Mine(a)' /\ \A m \in Within(a, Hour)' : m + o \in Within(a, Hour - 1)
        BY <1>4, <1>5, <1>7 DEF Within
    <2>2. \A m \in Mine(a)' : alerts'[m].age > 0
        BY <1>4, <1>5
    <2>3. Cardinality(Within(a, Hour)') + 1 <= MostAtOnce(a)
        <3>1. CASE Running(a)
            <4>1. /\ hourly[a] # None /\ hourly[a].age < Hour /\ hourly[a] \in HourCount
                  /\ hourly[a].age \in Nat /\ hourly[a].count \in Nat /\ Counts(a)
                BY <1>2, <1>7, <3>1 DEF Running, Tracked
            <4>2. hourly'[a] = [hourly[a] EXCEPT !.age = @ + 1]
                BY <1>1, <1>7, <4>1
            <4>3. hourly'[a].age = hourly[a].age + 1 /\ hourly'[a] \in HourCount
                BY <4>1, <4>2 DEF HourCount
            <4>4. hourly[a].age + 1 = Hour
                BY <1>7, <1>12, <4>1, <4>3, AlertBounds DEF Running
            <4>5. PICK first \in Mine(a) : alerts[first].age = hourly[a].age
                BY <4>1 DEF Counts
            <4>6. first \in InHour(a) /\ Within(a, Hour - 1) \subseteq InHour(a) \ {first}
                BY <1>4, <1>7, <4>1, <4>4, <4>5 DEF InHour, Within
            <4>7. IsFiniteSet(InHour(a) \ {first}) /\ Cardinality(InHour(a) \ {first}) = Cardinality(InHour(a)) - 1
                BY <1>10, <4>6, FS_RemoveElement
            <4>8. \A m \in Within(a, Hour)' : m + o \in InHour(a) \ {first}
                BY <2>1, <4>6
            <4>9. /\ Cardinality(Within(a, Hour)') <= Cardinality(InHour(a) \ {first})
                  /\ Cardinality(Within(a, Hour)') \in Nat
                BY <1>9, <2>1, <4>7, <4>8
            <4>10. Cardinality(InHour(a)) = hourly[a].count /\ hourly[a].count <= MostAtOnce(a)
                BY <4>1 DEF Counts
            <4> QED BY <1>7, <4>1, <4>7, <4>9, <4>10
        <3>2. CASE ~Running(a)
            <4>1. \A m \in Within(a, Hour)' : m + o \in Within(a, Hour)
                BY <1>4, <1>7, <2>1 DEF Within
            <4>2. Cardinality(Within(a, Hour)') <= Cardinality(Within(a, Hour)) /\ Cardinality(Within(a, Hour)') \in Nat
                  /\ Cardinality(Within(a, Hour)) \in Nat
                BY <1>9, <1>10, <2>1, <4>1
            <4>3. Cardinality(Within(a, Hour)) + 1 <= MostAtOnce(a)
                BY <1>2, <3>2 DEF Tracked, Quiet
            <4> QED BY <1>7, <4>2, <4>3
        <3> QED BY <3>1, <3>2
    <2> QED BY <2>2, <2>3 DEF Quiet, MostAtOnce
<1> QED BY <1>8, <1>11, <1>12 DEF Tracked

LEMMA ElapseAlertsKept ==
    ASSUME IInvAlerts, ElapseAlerts, restarts' = restarts, traffic' = traffic
    PROVE  IInvAlerts'
<1> DEFINE o == Overdue(Older(alerts), SixHours + 1)
           l == Len(alerts)
<1>1. /\ alerts' = Younger(Older(alerts), SixHours + 1)
      /\ lastFired' = [a \in AlertRule |->
            IF lastFired[a] = None \/ lastFired[a] = SixHours THEN lastFired[a] ELSE lastFired[a] + 1]
      /\ hourly' = [a \in AlertRule |->
            IF hourly[a] = None \/ hourly[a].age = SixHours THEN hourly[a]
            ELSE [hourly[a] EXCEPT !.age = @ + 1]]
      /\ ruleRows' = ruleRows /\ alertRules' = alertRules
    BY DEF ElapseAlerts
<1>2. AlertTypes /\ AlertsLimited /\ alerts \in Seq(Alert) /\ \A n \in DOMAIN alerts : alerts[n].start <= restarts
    BY DEF IInvAlerts, AlertTypes
<1> HIDE DEF o, l
<1>3. /\ alerts' \in Seq(Alert) /\ Sorted(alerts') /\ o \in 0..l /\ l \in Nat
      /\ DOMAIN alerts = 1..l /\ DOMAIN alerts' = 1..l - o
      /\ \A p \in 1..l - o : /\ p + o \in 1..l
                             /\ alerts'[p].rule = alerts[p + o].rule
                             /\ alerts'[p].start = alerts[p + o].start
                             /\ alerts'[p].age = alerts[p + o].age + 1
    BY <1>1, <1>2, AlertsAge DEF o, l
<1>4. AlertTypes'
    <2>1. lastFired' \in [AlertRule -> Nat \cup {None}]
        <3>1. \A a \in AlertRule : lastFired[a] # None => lastFired[a] + 1 \in Nat
            BY <1>2, LastFiredAt
        <3> QED BY <1>1, <1>2, <3>1 DEF AlertTypes
    <2>2. hourly' \in [AlertRule -> HourCount \cup {None}]
        <3>1. \A h \in HourCount : [h EXCEPT !.age = @ + 1] \in HourCount
            BY DEF HourCount
        <3>2. \A a \in AlertRule : hourly[a] # None => hourly[a] \in HourCount
            BY <1>2, LastFiredAt
        <3> QED BY <1>1, <3>1, <3>2
    <2>3. \A n \in DOMAIN alerts' : alerts'[n].start <= restarts'
        BY <1>2, <1>3
    <2> QED BY <1>1, <1>2, <1>3, <2>1, <2>2, <2>3 DEF AlertTypes
<1>5. ASSUME NEW n \in DOMAIN alerts' PROVE LimitedAt(n)'
    <2>1. n \in 1..l - o /\ n + o \in DOMAIN alerts /\ \A p \in 1..n : p \in 1..l - o
        BY <1>3
    <2>2. LimitedAt(n + o) /\ o \in Nat /\ 1 \in Nat
        BY <1>2, <1>3, <2>1, Limited
    <2> QED BY <1>2, <1>3, <2>1, <2>2, StillLimited
<1>6. AlertsLimited'
    BY <1>5 DEF AlertsLimited, LimitedAt, SinceThen
<1> QED BY <1>4, <1>6, ElapseTracked DEF IInvAlerts

LEMMA InitAlerts == AlertsInit => IInvAlerts
<1> SUFFICES ASSUME AlertsInit PROVE IInvAlerts
    OBVIOUS
<1>1. /\ traffic \in DOMAIN Traffic /\ restarts = 0 /\ ruleRows = {} /\ alertRules = {} /\ alerts = <<>>
      /\ lastFired = [a \in AlertRule |-> None] /\ hourly = [a \in AlertRule |-> None]
    BY DEF AlertsInit, Init
<1>2. <<>> \in Seq(Alert) /\ DOMAIN <<>> = {}
    OBVIOUS
<1>3. AlertTypes
    BY <1>1, <1>2, FS_EmptySet DEF AlertTypes, Sorted
<1>4. AlertsLimited
    BY <1>1, <1>2 DEF AlertsLimited
<1>5. ASSUME NEW a \in AlertRule PROVE Tracked(a)
    <2>1. Mine(a) = {} /\ Within(a, Hour) = {} /\ ~Running(a)
        BY <1>1, <1>2 DEF Mine, Within, Running
    <2> QED BY <2>1, FS_EmptySet, AlertBounds DEF Tracked, LastKnown, Quiet, MostAtOnce
<1> QED BY <1>3, <1>4, <1>5 DEF IInvAlerts

LEMMA AlertsKept ==
    ASSUME IInvAlerts, [AlertsNext]_allVars
    PROVE  IInvAlerts'
<1>1. /\ IsFiniteSet(ruleRows) /\ ruleRows \subseteq AlertRule /\ restarts \in Nat
      /\ IsFiniteSet(alertRules) /\ alertRules \subseteq AlertRule /\ traffic \in DOMAIN Traffic
    BY DEF IInvAlerts, AlertTypes
<1>2. ASSUME NEW e \in Traffic[traffic].events, Receive(e), Evaluate(e) PROVE IInvAlerts'
    BY <1>2, EvaluateAlerts DEF Receive
<1>3. ASSUME NEW n \in DOMAIN incidents, Persist(n), UNCHANGED alertVars PROVE IInvAlerts'
    BY <1>1, <1>3, RulesAlone DEF Persist, alertVars
<1>4. CASE Prune /\ UNCHANGED alertVars
    BY <1>1, <1>4, RulesAlone DEF Prune, alertVars
<1>5. CASE Elapse /\ ElapseAlerts
    BY <1>5, ElapseAlertsKept DEF Elapse
<1>6. CASE Restart /\ RestartAlerts
    BY <1>6, RestartAlertsKept DEF Restart
<1>7. ASSUME NEW a \in AlertRule, CreateRule(a) PROVE IInvAlerts'
    <2>1. /\ UNCHANGED <<traffic, restarts, lastFired, hourly, alerts, alertRules>>
          /\ ruleRows' = ruleRows \cup {a}
        BY <1>7 DEF CreateRule, vars
    <2>2. IsFiniteSet(ruleRows')
        BY <1>1, <2>1, FS_AddElement
    <2> QED BY <1>1, <2>1, <2>2, RulesAlone
<1>8. ASSUME NEW a \in AlertRule, DeleteRule(a) PROVE IInvAlerts'
    <2>1. /\ UNCHANGED <<traffic, restarts, lastFired, hourly, alerts, alertRules>>
          /\ ruleRows' = ruleRows \ {a}
        BY <1>8 DEF DeleteRule, vars
    <2>2. IsFiniteSet(ruleRows')
        BY <1>1, <2>1, FS_Subset
    <2> QED BY <1>1, <2>1, <2>2, RulesAlone
<1>9. CASE UNCHANGED allVars
    BY <1>1, <1>9, RulesAlone DEF allVars, vars, alertVars
<1> QED BY <1>2, <1>3, <1>4, <1>5, <1>6, <1>7, <1>8, <1>9, RefreshAlerts, PersistAlerts DEF AlertsNext

(* The alerts of a rule are its cooldown apart, and not too many an hour,  *)
(* whatever rules are created, deleted and read in between.                *)
THEOREM AlertsAlwaysLimited == AlertsSpec => []AlertsLimited
<1>1. IInvAlerts /\ [AlertsNext]_allVars => IInvAlerts'
    BY AlertsKept
<1>2. IInvAlerts => AlertsLimited
    BY DEF IInvAlerts
<1> QED BY <1>1, <1>2, InitAlerts, PTL DEF AlertsSpec
-----------------------------------------------------------------------------
(* Patterns.                                                               *)

(* What military_surge remembers of an aircraft came with an event.        *)
SightingsHeard ==
    \A s \in sightings : \E p \in DOMAIN heard :
        /\ s = [hex |-> heard[p].event.hex, cell |-> heard[p].event.cell, age |-> heard[p].age]
        /\ heard[p].event.hex # None

IInvReports == IInvWindow /\ IInvIncidents /\ SightingsHeard

LEMMA RuleFacts ==
    ASSUME NEW r \in Rules
    PROVE  /\ r.span \in Nat
           /\ \A k \in DOMAIN r.needs : r.needs[k] \in Nat
           /\ "notam" \in DOMAIN r.needs => r.needs["notam"] = 1
           /\ r.by \in {"country", "domain", "place", "placeOrRegion", "cell"}
           /\ r.by = "cell" <=> r = MilitarySurge
<1>1. /\ FiveMinutes \in Nat /\ TenMinutes \in Nat /\ HalfHour \in Nat /\ Hour \in Nat /\ SixHours \in Nat
      /\ Banners \in Nat /\ Anomalies \in Nat /\ Outages \in Nat /\ Censorships \in Nat
      /\ Detections \in Nat /\ MinAircraft \in Nat
    BY CorrelationAssumption
<1>2. CASE r = InfraAttack
    BY <1>1, <1>2 DEF InfraAttack, MilitarySurge
<1>3. CASE r = MilitaryStrike
    BY <1>1, <1>3 DEF MilitaryStrike, MilitarySurge
<1>4. CASE r = ConfirmedStrike
    BY <1>1, <1>4 DEF ConfirmedStrike, MilitarySurge
<1>5. CASE r = CoordinatedShutdown
    BY <1>1, <1>5 DEF CoordinatedShutdown, MilitarySurge
<1>6. CASE r = MaritimeEnforcement
    BY <1>1, <1>6 DEF MaritimeEnforcement, MilitarySurge
<1>7. CASE r = AptStaging
    BY <1>1, <1>7 DEF AptStaging, MilitarySurge
<1>8. CASE r = ConflictThermalCluster
    BY <1>1, <1>8 DEF ConflictThermalCluster, MilitarySurge
<1>9. CASE r = GpsMilitary
    BY <1>1, <1>9 DEF GpsMilitary, MilitarySurge
<1>10. CASE r = OsintStrike
    BY <1>1, <1>10 DEF OsintStrike, MilitarySurge
<1>11. CASE r = MilitarySurge
    BY <1>1, <1>11 DEF MilitarySurge
<1> QED BY <1>2, <1>3, <1>4, <1>5, <1>6, <1>7, <1>8, <1>9, <1>10, <1>11 DEF Rules

(* What a query finds through an exact index.                              *)
LEMMA RecentFacts ==
    ASSUME NEW w \in Seq(Entry), NEW k, NEW span
    PROVE  /\ \A f \in Recent(w, Index(w), k, span) :
                 /\ f[1] \in DOMAIN w /\ f = <<f[1], w[f[1]].event>> /\ f[2] = w[f[1]].event
                 /\ w[f[1]].event.kind = k /\ w[f[1]].age <= span
           /\ \A p \in DOMAIN w : w[p].event.kind = k /\ w[p].age <= span =>
                 <<p, w[p].event>> \in Recent(w, Index(w), k, span)
           /\ IsFiniteSet(Recent(w, Index(w), k, span))
<1>1. \A f \in Recent(w, Index(w), k, span) :
         \E p \in DOMAIN w : f = <<p, w[p].event>> /\ w[p].event.kind = k /\ w[p].age <= span
    BY DEF Recent, Index
<1>2. ASSUME NEW p \in DOMAIN w, w[p].event.kind = k, w[p].age <= span
      PROVE  <<p, w[p].event>> \in Recent(w, Index(w), k, span)
    <2>1. <<w[p].event.kind, p>> \in Index(w)
        BY DEF Index
    <2>2. <<k, p>> \in {y \in Index(w) : y[1] = k /\ w[y[2]].age <= span}
        BY <1>2, <2>1
    <2> QED BY <2>2 DEF Recent
<1>3. IsFiniteSet(Recent(w, Index(w), k, span))
    <2> DEFINE g == [p \in DOMAIN w |-> <<p, w[p].event>>]
    <2>1. IsFiniteSet(DOMAIN w)
        BY LenProperties, Interval
    <2>2. IsFiniteSet({g[p] : p \in DOMAIN w})
        <3>1. g = [p \in DOMAIN w |-> g[p]]
            OBVIOUS
        <3> HIDE DEF g
        <3> QED BY <2>1, <3>1, FiniteImage
    <2>3. Recent(w, Index(w), k, span) \subseteq {g[p] : p \in DOMAIN w}
        BY <1>1
    <2> HIDE DEF g
    <2> QED BY <2>2, <2>3, FS_Subset
<1> QED BY <1>1, <1>2, <1>3

(* What completes a rule's pattern in one log does so in another that has  *)
(* it too, at other positions.                                             *)
LEMMA CompleteTransfers ==
    ASSUME NEW r \in Rules, NEW t, NEW v \in Seq(Entry), NEW w \in Seq(Entry), NEW o \in Int,
           \A p \in DOMAIN v : v[p].age <= r.span =>
               p + o \in DOMAIN w /\ w[p + o].event = v[p].event /\ w[p + o].age <= r.span,
           Complete(r, t, v, Index(v))
    PROVE  Complete(r, t, w, Index(w))
<1> SUFFICES ASSUME NEW k \in DOMAIN r.needs
             PROVE  Cardinality(Corroborating(r, t, k, Recent(w, Index(w), k, r.span))) >= r.needs[k]
    BY DEF Complete
<1> DEFINE A == Recent(v, Index(v), k, r.span)
           B == Recent(w, Index(w), k, r.span)
           Local(found) == {f \in found : f[2].fit /\ Belongs(r, t, f[2])}
           Region(found) == {f \in found : f[2].fit /\ SameRegion(t, f[2])}
           move(f) == <<f[1] + o, f[2]>>
<1>1. /\ DOMAIN v \subseteq Nat /\ IsFiniteSet(A) /\ IsFiniteSet(B) /\ r.needs[k] \in Nat
      /\ Cardinality(Corroborating(r, t, k, A)) >= r.needs[k]
    BY LenProperties, RecentFacts, RuleFacts DEF Complete
<1>2. ASSUME NEW f \in A
      PROVE  f[1] \in Nat /\ f = <<f[1], f[2]>> /\ move(f) \in B
    <2>1. /\ f[1] \in DOMAIN v /\ f = <<f[1], v[f[1]].event>> /\ f[2] = v[f[1]].event
          /\ v[f[1]].event.kind = k /\ v[f[1]].age <= r.span
        BY RecentFacts
    <2>2. f[1] + o \in DOMAIN w /\ w[f[1] + o].event = f[2] /\ w[f[1] + o].age <= r.span
        BY <2>1
    <2>3. <<f[1] + o, w[f[1] + o].event>> \in B
        BY <2>1, <2>2, RecentFacts
    <2> QED BY <1>1, <2>1, <2>2, <2>3
<1>3. Corroborating(r, t, k, A) = (IF k = "notam" /\ t.place # None /\ Local(A) = {} THEN Region(A) ELSE Local(A))
      /\ Corroborating(r, t, k, B) = (IF k = "notam" /\ t.place # None /\ Local(B) = {} THEN Region(B) ELSE Local(B))
    <2>1. \A found : /\ Local(found) = {f \in {x \in found : x[2].fit} : Belongs(r, t, f[2])}
                     /\ Region(found) = {f \in {x \in found : x[2].fit} : SameRegion(t, f[2])}
        OBVIOUS
    <2> HIDE DEF A, B
    <2> QED BY <2>1 DEF Corroborating
<1>4. (\A f \in Local(A) : move(f) \in Local(B)) /\ (\A f \in Region(A) : move(f) \in Region(B))
    BY <1>2
<1>5. /\ Local(A) \subseteq A /\ Region(A) \subseteq A /\ Local(B) \subseteq B /\ Region(B) \subseteq B
    OBVIOUS
<1> HIDE DEF A, B, Local, Region
<1>6. IsFiniteSet(Local(A)) /\ IsFiniteSet(Region(A)) /\ IsFiniteSet(Local(B)) /\ IsFiniteSet(Region(B))
    BY <1>1, <1>5, FS_Subset
<1>7. CASE k = "notam"
    <2>1. r.needs[k] = 1
        BY <1>7, RuleFacts
    <2>2. IsFiniteSet(Corroborating(r, t, k, A)) /\ IsFiniteSet(Corroborating(r, t, k, B))
        BY <1>3, <1>6
    <2>3. Corroborating(r, t, k, A) # {}
        <3>1. Cardinality({}) = 0
            BY FS_EmptySet
        <3>2. ~(0 >= 1)
            OBVIOUS
        <3> QED BY <1>1, <2>1, <3>1, <3>2
    <2>4. Corroborating(r, t, k, B) # {}
        BY <1>3, <1>4, <2>3
    <2>5. Cardinality(Corroborating(r, t, k, B)) \in Nat /\ Cardinality(Corroborating(r, t, k, B)) # 0
        BY <2>2, <2>4, FS_CardinalityType, FS_EmptySet
    <2> QED BY <2>1, <2>5 DEF B
<1>8. CASE k # "notam"
    <2> DEFINE g == [f \in Local(A) |-> move(f)]
    <2>1. g \in Injection(Local(A), Local(B))
        <3>1. g \in [Local(A) -> Local(B)]
            BY <1>4
        <3>2. \A f, h \in Local(A) : move(f) = move(h) => f = h
            <4> SUFFICES ASSUME NEW f \in Local(A), NEW h \in Local(A), move(f) = move(h) PROVE f = h
                OBVIOUS
            <4>1. f[1] \in Nat /\ h[1] \in Nat /\ f = <<f[1], f[2]>> /\ h = <<h[1], h[2]>>
                BY <1>2, <1>5
            <4>2. f[1] + o = h[1] + o /\ f[2] = h[2]
                OBVIOUS
            <4> QED BY <4>1, <4>2
        <3> QED BY <3>1, <3>2 DEF Injection, IsInjective
    <2> HIDE DEF g
    <2>2. Cardinality(Local(A)) <= Cardinality(Local(B))
        BY <1>6, <2>1, FS_Injection
    <2>3. Cardinality(Local(A)) \in Nat /\ Cardinality(Local(B)) \in Nat
        BY <1>6, FS_CardinalityType
    <2>4. Corroborating(r, t, k, A) = Local(A) /\ Corroborating(r, t, k, B) = Local(B)
        BY <1>3, <1>8
    <2> QED BY <1>1, <2>2, <2>3, <2>4 DEF B
<1> QED BY <1>7, <1>8

LEMMA IncidentCovers ==
    ASSUME NEW e \in AnyEvent, NEW r \in Triggered(e), restarts \in Nat
    PROVE  r \in Rules /\ Covers(r, Incident(r, e), e)
<1>1. /\ r \in Rules
      /\ r.by = "place" => e.place # None
      /\ r.by = "placeOrRegion" => {e.place, e.region} # {None}
    BY DEF Triggered
<1>2. e.place # None => <<e.place, e.place>> \in Cover
    BY CorrelationAssumption DEF AnyEvent
<1>3. /\ Incident(r, e).rule = r.id /\ Incident(r, e).place = e.place
      /\ Incident(r, e).region = e.region
      /\ r.by = "country" => Incident(r, e).tag = e.country
      /\ r.by = "domain" => Incident(r, e).tag = e.domain
      /\ r.by = "cell" => Incident(r, e).tag = e.cell
    BY <1>1, IncidentFacts
<1>4. r.by \in {"country", "domain", "place", "placeOrRegion", "cell"}
    BY <1>1, RuleFacts
<1>5. r.by = "placeOrRegion" /\ e.place = None => e.region # None
    BY <1>1
<1> QED BY <1>1, <1>2, <1>3, <1>4, <1>5 DEF Covers, SameRegion

(* Only an event adds to what is known.                                    *)
LEMMA HeardGrows ==
    ASSUME IInvWindow, Next, Len(heard') > Len(heard)
    PROVE  \E e \in Traffic[traffic].events : Receive(e) /\ e = Last(heard').event
<1>1. heard \in Seq(Entry) /\ Len(heard) \in Nat /\ Sorted(heard) /\ Aged(heard) /\ SixHours \in Nat
    BY EntriesAged, LenProperties, CorrelationBounds DEF IInvWindow, LogTypes, HeardInOrder
<1>2. ASSUME NEW e \in Traffic[traffic].events, Receive(e) PROVE e = Last(heard').event
    <2>1. heard' = Append(heard, [event |-> e, age |-> 0]) /\ e \in AnyEvent
        BY <1>2 DEF Receive, AnyEvent, IInvWindow, LogTypes
    <2>2. Len(heard') = Len(heard) + 1 /\ heard'[Len(heard) + 1] = [event |-> e, age |-> 0]
        BY <1>1, <2>1, AppendFacts
    <2> QED BY <2>2 DEF Last
<1>3. ~Prune /\ ~\E n \in DOMAIN incidents : Persist(n)
    BY <1>1 DEF Prune, Persist
<1>4. ~Elapse
    <2> SUFFICES ASSUME Elapse PROVE FALSE
        OBVIOUS
    <2>1. heard' = Younger(Older(heard), SixHours + 1)
        BY DEF Elapse
    <2>2. /\ Older(heard) \in Seq(Entry) /\ Len(Older(heard)) = Len(heard) /\ DOMAIN Older(heard) = DOMAIN heard
          /\ \A p \in DOMAIN heard : Older(heard)[p].age = heard[p].age + 1
        BY <1>1, OlderFacts
    <2>3. Sorted(Older(heard)) /\ Aged(Older(heard))
        BY <1>1, <2>2 DEF Sorted, Aged
    <2>4. Overdue(Older(heard), SixHours + 1) \in 0..Len(heard)
          /\ Len(heard') = Len(heard) - Overdue(Older(heard), SixHours + 1)
        BY <1>1, <2>1, <2>2, <2>3, YoungerFacts
    <2> QED BY <1>1, <2>4
<1>5. ~Restart
    <2> SUFFICES ASSUME Restart PROVE FALSE
        OBVIOUS
    <2> DEFINE recent == Younger(heard, SixHours)
    <2>1. PICK rows \in SUBSET DOMAIN recent : heard' = Kept(recent, rows)
        BY DEF Restart
    <2>2. recent \in Seq(Entry) /\ Overdue(heard, SixHours) \in 0..Len(heard)
          /\ Len(recent) = Len(heard) - Overdue(heard, SixHours)
        BY <1>1, YoungerFacts
    <2> HIDE DEF recent
    <2>3. Len(heard') = Cardinality(rows) /\ Cardinality(rows) \in 0..Len(recent)
        BY <2>1, <2>2, KeptFacts
    <2> QED BY <1>1, <2>2, <2>3
<1> QED BY <1>2, <1>3, <1>4, <1>5 DEF Next

LEMMA SightingsStep ==
    ASSUME IInvWindow, SightingsHeard, [Next]_vars
    PROVE  SightingsHeard'
<1> DEFINE Of(x) == [hex |-> x.event.hex, cell |-> x.event.cell, age |-> x.age]
<1>1. heard \in Seq(Entry) /\ Len(heard) \in Nat /\ DOMAIN heard = 1..Len(heard)
      /\ SixHours \in Nat /\ \A p \in DOMAIN heard : heard[p].age \in Nat
    BY LenProperties, EntryFields, CorrelationBounds DEF IInvWindow, LogTypes
<1>2. \A s \in sightings : \E p \in 1..Len(heard) : s = Of(heard[p]) /\ heard[p].event.hex # None
    BY <1>1 DEF SightingsHeard
<1>3. ASSUME NEW e \in Traffic[traffic].events, Receive(e) PROVE SightingsHeard'
    <2>1. /\ heard' = Append(heard, [event |-> e, age |-> 0]) /\ e \in AnyEvent
          /\ sightings' = IF e.hex = None THEN sightings ELSE Noted(sightings, e)
        BY <1>3 DEF Receive, AnyEvent, IInvWindow, LogTypes
    <2>2. /\ DOMAIN heard' = 1..Len(heard) + 1 /\ \A p \in 1..Len(heard) : heard'[p] = heard[p]
          /\ heard'[Len(heard) + 1] = [event |-> e, age |-> 0]
        BY <1>1, <2>1, AppendFacts
    <2>3. \A s \in sightings' : s \in sightings \/ (e.hex # None /\ s = [hex |-> e.hex, cell |-> e.cell, age |-> 0])
        <3>1. CASE e.hex = None
            BY <2>1, <3>1
        <3>2. CASE e.hex # None
            BY <2>1, <3>2 DEF Noted
        <3> QED BY <3>1, <3>2
    <2> SUFFICES ASSUME NEW s \in sightings'
                 PROVE  \E p \in DOMAIN heard' : s = Of(heard'[p]) /\ heard'[p].event.hex # None
        BY DEF SightingsHeard
    <2>4. CASE s \in sightings
        <3>1. PICK p \in 1..Len(heard) : s = Of(heard[p]) /\ heard[p].event.hex # None
            BY <1>2, <2>4
        <3> QED BY <1>1, <2>2, <3>1
    <2>5. CASE e.hex # None /\ s = [hex |-> e.hex, cell |-> e.cell, age |-> 0]
        <3>1. Len(heard) + 1 \in DOMAIN heard'
            BY <1>1, <2>2
        <3> QED BY <2>2, <2>5, <3>1
    <2> QED BY <2>3, <2>4, <2>5
<1>4. CASE Elapse
    <2> DEFINE past == Older(heard)
               n == Overdue(past, SixHours + 1)
    <2>1. /\ heard' = Younger(past, SixHours + 1)
          /\ sightings' = {[s EXCEPT !.age = @ + 1] : s \in {x \in sightings : x.age < SixHours}}
        BY <1>4 DEF Elapse
    <2>2. /\ past \in Seq(Entry) /\ Len(past) = Len(heard) /\ DOMAIN past = DOMAIN heard
          /\ \A p \in DOMAIN heard : past[p].event = heard[p].event /\ past[p].age = heard[p].age + 1
        BY <1>1, OlderFacts
    <2> HIDE DEF past
    <2>3. Sorted(past) /\ Aged(past)
        <3>1. \A p \in DOMAIN past : past[p].age \in Nat
            BY <1>1, <2>2
        <3>2. \A p, q \in DOMAIN past : p < q => past[p].age >= past[q].age
            <4> SUFFICES ASSUME NEW p \in DOMAIN heard, NEW q \in DOMAIN heard, p < q
                         PROVE  past[p].age >= past[q].age
                BY <2>2
            <4>1. heard[p].age >= heard[q].age
                BY DEF IInvWindow, HeardInOrder, Sorted
            <4> QED BY <1>1, <2>2, <4>1
        <3> QED BY <3>1, <3>2 DEF Sorted, Aged
    <2>4. /\ heard' \in Seq(Entry) /\ n \in 0..Len(heard) /\ Len(heard') = Len(heard) - n
          /\ \A p \in 1..Len(heard') : heard'[p] = past[p + n]
          /\ \A p \in 1..Len(heard) : past[p].age < SixHours + 1 => p > n
        <3>1. SixHours + 1 \in Nat
            BY CorrelationBounds
        <3>2. /\ past \in Seq(Entry) /\ Len(past) = Len(heard)
              /\ heard' = Younger(past, SixHours + 1)
            BY <2>1, <2>2
        <3> HIDE DEF IInvWindow
        <3> QED BY ONLY <2>3, <3>1, <3>2, YoungerFacts
    <2> HIDE DEF n
    <2>5. DOMAIN heard' = 1..Len(heard) - n
        BY <2>4, LenProperties
    <2> SUFFICES ASSUME NEW aged \in sightings'
                 PROVE  \E p \in DOMAIN heard' : aged = Of(heard'[p]) /\ heard'[p].event.hex # None
        BY DEF SightingsHeard
    <2>6. PICK s \in sightings : s.age < SixHours /\ aged = [s EXCEPT !.age = @ + 1]
        BY <2>1
    <2>7. PICK p \in 1..Len(heard) : s = Of(heard[p]) /\ heard[p].event.hex # None
        BY <1>2, <2>6
    <2>8. heard[p].age < SixHours /\ past[p].age < SixHours + 1
        BY <1>1, <2>2, <2>7, <2>6
    <2>9. p - n \in 1..Len(heard) - n /\ (p - n) + n = p
        BY <1>1, <2>4, <2>8
    <2>10. heard'[p - n].event = heard[p].event /\ heard'[p - n].age = heard[p].age + 1
        BY <1>1, <2>2, <2>4, <2>9
    <2>11. aged = Of(heard'[p - n])
        BY <2>7, <2>10, <2>6
    <2> QED BY <2>5, <2>7, <2>9, <2>10, <2>11
<1>5. CASE Restart
    BY <1>5 DEF Restart, SightingsHeard
<1>6. CASE Prune \/ (\E n \in DOMAIN incidents : Persist(n)) \/ UNCHANGED vars
    BY <1>6 DEF Prune, Persist, vars, SightingsHeard
<1> QED BY <1>3, <1>4, <1>5, <1>6 DEF Next

(* The window and what is known, after an event.                           *)
LEMMA AfterReceipt ==
    ASSUME IInvReports, NEW e \in Traffic[traffic].events, Receive(e)
    PROVE  /\ e \in AnyEvent /\ restarts \in Nat /\ incidents \in Seq(Incidents)
           /\ window' \in Seq(Entry) /\ heard' \in Seq(Entry) /\ byKind' = Index(window')
           /\ Len(window') \in Nat /\ Len(heard') \in Nat /\ Len(heard') <= Len(window')
           /\ DOMAIN window' = 1..Len(window') /\ DOMAIN heard' = 1..Len(heard')
           /\ \A p \in DOMAIN window' : window'[p].age \in Nat
           /\ \A p \in DOMAIN heard' : heard'[p].age \in Nat
           /\ WindowConsistent' /\ KnownSinceStart' /\ uptime' = uptime /\ uptime \in Nat
<1>1. IInvWindow /\ IncidentTypes /\ [Next]_vars /\ uptime' = uptime
    BY DEF IInvReports, IInvIncidents, Next, Receive
<1>2. IInvWindow' /\ e \in AnyEvent
    BY <1>1, ReceiveWindow
<1>3. LogTypes' /\ WindowConsistent' /\ KnownSinceStart'
    BY <1>2 DEF IInvWindow
<1>4. window' \in Seq(Entry) /\ heard' \in Seq(Entry)
    BY <1>3 DEF LogTypes
<1>5. /\ Len(window') \in Nat /\ Len(heard') \in Nat
      /\ DOMAIN window' = 1..Len(window') /\ DOMAIN heard' = 1..Len(heard')
    BY <1>4, LenProperties
<1>6. /\ \A p \in DOMAIN window' : window'[p].age \in Nat
      /\ \A p \in DOMAIN heard' : heard'[p].age \in Nat
    BY <1>4, EntryFields
<1>7. uptime \in Nat
    BY <1>1, CorrelationBounds DEF IInvWindow, LogTypes
<1>8. byKind' = Index(window') /\ Len(heard') <= Len(window')
    BY <1>3 DEF WindowConsistent
<1> QED BY <1>1, <1>2, <1>3, <1>4, <1>5, <1>6, <1>7, <1>8 DEF IncidentTypes

(* A pattern the event completes is complete in the window too; its rule   *)
(* fires or is suppressed.                                                 *)
LEMMA ReportedStep ==
    ASSUME IInvReports, NEW e \in Traffic[traffic].events, Receive(e)
    PROVE  Reported(e)
<1> SUFFICES ASSUME NEW r \in Triggered(e), r # MilitarySurge, Due(r, e)
             PROVE  \E i \in ToSet(incidents') : i.active /\ Covers(r, i, e)
    BY DEF Reported
<1>1. /\ e \in AnyEvent /\ restarts \in Nat /\ incidents \in Seq(Incidents)
      /\ window' \in Seq(Entry) /\ heard' \in Seq(Entry) /\ byKind' = Index(window')
      /\ Len(window') \in Nat /\ Len(heard') \in Nat /\ Len(heard') <= Len(window')
      /\ DOMAIN window' = 1..Len(window') /\ DOMAIN heard' = 1..Len(heard')
      /\ \A p \in DOMAIN window' : window'[p].age \in Nat
      /\ \A p \in DOMAIN heard' : heard'[p].age \in Nat
      /\ WindowConsistent'
    BY AfterReceipt
<1>2. /\ DOMAIN incidents = 1..Len(incidents) /\ DOMAIN incidents' = 1..Len(incidents')
      /\ Len(incidents) \in Nat /\ Len(incidents') \in Nat /\ Len(incidents') >= Len(incidents)
      /\ \A n \in 1..Len(incidents) : incidents'[n] = incidents[n]
      /\ \A x \in Firing(e) : \E n \in Len(incidents) + 1..Len(incidents') : incidents'[n] = Incident(x, e)
    BY <1>1, RaisedFacts
<1>3. r \in Rules /\ Covers(r, Incident(r, e), e) /\ Incident(r, e).active
    BY <1>1, IncidentCovers, IncidentFacts
<1>4. CASE Suppressed(r, e)
    <2>1. PICK n \in DOMAIN incidents : incidents[n].active /\ Covers(r, InMemory(incidents[n]), e)
        BY <1>4 DEF Suppressed, ToSet
    <2> DEFINE i == incidents[n]
    <2>2. i \in Incidents
        BY <1>1, IncidentsAt
    <2>3. Covers(r, i, e)
        <3>1. CASE ~i.restored
            BY <2>1, <3>1 DEF InMemory
        <3>2. CASE i.restored
            <4>1. /\ InMemory(i).rule = i.rule /\ InMemory(i).tag = i.tag /\ InMemory(i).region = i.region
                  /\ InMemory(i).place = None
                BY <2>2, <3>2 DEF InMemory, Incidents
            <4> QED BY <2>1, <4>1 DEF Covers, SameRegion
        <3> QED BY <3>1, <3>2
    <2>4. i \in ToSet(incidents')
        BY <1>2 DEF ToSet
    <2> QED BY <2>1, <2>3, <2>4
<1>5. CASE ~Suppressed(r, e)
    <2> DEFINE o == Len(window') - Len(heard')
    <2>1. Complete(r, e, heard', Index(heard'))
        BY DEF Due
    <2>2. ASSUME NEW p \in DOMAIN heard', heard'[p].age <= r.span
          PROVE  p + o \in DOMAIN window' /\ window'[p + o].event = heard'[p].event /\ window'[p + o].age <= r.span
        <3>1. o + p = p + o /\ p + o \in DOMAIN window'
            BY <1>1
        <3>2. window'[o + p].event = heard'[p].event /\ window'[o + p].age <= heard'[p].age
            BY <1>1 DEF WindowConsistent
        <3>3. r.span \in Nat /\ window'[p + o].age \in Nat /\ heard'[p].age \in Nat
            BY <1>1, <1>3, <3>1, RuleFacts
        <3> HIDE DEF o
        <3> QED BY <2>2, <3>1, <3>2, <3>3
    <2>3. o \in Int
        BY <1>1
    <2> HIDE DEF o
    <2>4. Complete(r, e, window', byKind')
        BY <1>1, <1>3, <2>1, <2>2, <2>3, CompleteTransfers
    <2>5. r \in Firing(e)
        BY <1>5, <2>4 DEF Firing, Fires
    <2>6. PICK n \in Len(incidents) + 1..Len(incidents') : incidents'[n] = Incident(r, e)
        BY <1>2, <2>5
    <2>7. n \in DOMAIN incidents'
        BY <1>2
    <2> QED BY <1>3, <2>6, <2>7 DEF ToSet
<1> QED BY <1>4, <1>5

(* A rule that fires has its pattern among what is known, if all it looks  *)
(* at came after the start.                                                *)
LEMMA WarrantedStep ==
    ASSUME IInvReports, NEW e \in Traffic[traffic].events, Receive(e)
    PROVE  Warranted(e)
<1>1. /\ e \in AnyEvent /\ restarts \in Nat /\ incidents \in Seq(Incidents)
      /\ window' \in Seq(Entry) /\ heard' \in Seq(Entry) /\ byKind' = Index(window')
      /\ Len(window') \in Nat /\ Len(heard') \in Nat /\ Len(heard') <= Len(window')
      /\ DOMAIN window' = 1..Len(window') /\ DOMAIN heard' = 1..Len(heard')
      /\ \A p \in DOMAIN window' : window'[p].age \in Nat
      /\ \A p \in DOMAIN heard' : heard'[p].age \in Nat
      /\ WindowConsistent' /\ KnownSinceStart' /\ uptime' = uptime /\ uptime \in Nat
    BY AfterReceipt
<1> SUFFICES ASSUME NEW n \in DOMAIN incidents' \ DOMAIN incidents
             PROVE  \E r \in Rules : /\ r.id = incidents'[n].rule
                                     /\ Due(r, e) \/ (r # MilitarySurge /\ uptime <= r.span)
    BY DEF Warranted
<1>2. \E r \in Firing(e) : r \in Rules /\ incidents'[n] = Incident(r, e)
    <2>1. /\ DOMAIN incidents = 1..Len(incidents) /\ DOMAIN incidents' = 1..Len(incidents')
          /\ Len(incidents) \in Nat /\ Len(incidents') \in Nat
          /\ \A m \in Len(incidents) + 1..Len(incidents') :
                 \E r \in Firing(e) : r \in Rules /\ incidents'[m] = Incident(r, e)
        BY <1>1, RaisedFacts
    <2>2. n \in Len(incidents) + 1..Len(incidents')
        BY <2>1
    <2> QED BY <2>1, <2>2
<1>3. PICK r \in Firing(e) : r \in Rules /\ incidents'[n] = Incident(r, e)
    BY <1>2
<1>4. r.id = incidents'[n].rule /\ Fires(r, e)
    BY <1>1, <1>3, IncidentFacts DEF Firing
<1>5. CASE r = MilitarySurge
    <2> DEFINE S == {y \in ToSet(heard') : y.event.hex # None /\ y.event.cell = e.cell}
               Known == {x.event.hex : x \in S}
               Seen == {s.hex : s \in {x \in sightings' : x.cell = e.cell}}
    <2>1. Cardinality(Seen) >= MinAircraft
        BY <1>4, <1>5 DEF Fires, Surges, AircraftIn
    <2>2. SightingsHeard'
        <3>1. [Next]_vars /\ IInvWindow /\ SightingsHeard
            BY DEF Next, IInvReports
        <3> QED BY <3>1, SightingsStep
    <2>3. Seen \subseteq Known
        <3> SUFFICES ASSUME NEW s \in sightings', s.cell = e.cell PROVE s.hex \in Known
            OBVIOUS
        <3>1. PICK p \in DOMAIN heard' :
                  /\ s = [hex |-> heard'[p].event.hex, cell |-> heard'[p].event.cell, age |-> heard'[p].age]
                  /\ heard'[p].event.hex # None
            BY <2>2 DEF SightingsHeard
        <3>2. heard'[p] \in S
            BY <3>1 DEF ToSet
        <3> QED BY <3>1, <3>2
    <2>4. IsFiniteSet(Known)
        <3> DEFINE P == {p \in DOMAIN heard' : heard'[p].event.hex # None /\ heard'[p].event.cell = e.cell}
                   g == [p \in P |-> heard'[p].event.hex]
        <3>1. IsFiniteSet(P)
            BY <1>1, Interval, FS_Subset
        <3>2. g = [p \in P |-> g[p]] /\ Known \subseteq {g[p] : p \in P}
            BY DEF ToSet
        <3> HIDE DEF g, P, Known
        <3>3. IsFiniteSet({g[p] : p \in P})
            BY <3>1, <3>2, FiniteImage
        <3> QED BY <3>2, <3>3, FS_Subset
    <2> HIDE DEF Seen, Known
    <2>5. /\ Cardinality(Seen) <= Cardinality(Known) /\ Cardinality(Seen) \in Nat
          /\ Cardinality(Known) \in Nat /\ MinAircraft \in Nat
        BY <2>3, <2>4, FS_Subset, FS_CardinalityType, CorrelationAssumption
    <2>6. MinAircraft <= Cardinality(Known)
        BY <2>1, <2>5
    <2>7. Due(r, e)
        BY <1>5, <2>6 DEF Due, Known
    <2> QED BY <1>3, <1>4, <2>7
<1>6. CASE r # MilitarySurge /\ ~(uptime <= r.span)
    <2> DEFINE o == Len(heard') - Len(window')
    <2>1. Complete(r, e, window', Index(window'))
        BY <1>1, <1>4, <1>6 DEF Fires
    <2>2. r.span \in Nat
        BY <1>3, RuleFacts
    <2>3. ASSUME NEW p \in DOMAIN window', window'[p].age <= r.span
          PROVE  p + o \in DOMAIN heard' /\ heard'[p + o].event = window'[p].event /\ heard'[p + o].age <= r.span
        <3> DEFINE d == Len(window') - Len(heard')
        <3>1. window'[p].age < uptime'
            BY <1>1, <1>6, <2>2, <2>3
        <3>2. p > d /\ heard'[p - d].age = window'[p].age
            BY <1>1, <3>1 DEF KnownSinceStart, Earlier
        <3>3. p - d \in DOMAIN heard' /\ d + (p - d) = p /\ p - d = p + o
            <4>1. p \in Nat /\ p <= Len(window') /\ p > Len(window') - Len(heard')
                BY <1>1, <3>2
            <4>2. p - (Len(window') - Len(heard')) \in 1..Len(heard')
                BY <1>1, <4>1
            <4>3. \A x, y, z \in Int : (y - z) + (x - (y - z)) = x /\ x - (y - z) = x + (z - y)
                OBVIOUS
            <4> QED BY <1>1, <4>1, <4>2, <4>3
        <3>4. window'[d + (p - d)].event = heard'[p - d].event
            BY <1>1, <3>3 DEF WindowConsistent
        <3> HIDE DEF d, o
        <3> QED BY <2>3, <3>2, <3>3, <3>4
    <2>4. o \in Int
        BY <1>1
    <2> HIDE DEF o
    <2>5. Complete(r, e, heard', Index(heard'))
        BY <1>1, <1>3, <2>1, <2>3, <2>4, CompleteTransfers
    <2> QED BY <1>3, <1>4, <1>6, <2>5 DEF Due
<1>7. CASE r # MilitarySurge /\ uptime <= r.span
    BY <1>3, <1>4, <1>7
<1> QED BY <1>5, <1>6, <1>7

(* Every pattern is reported and every report is warranted.                *)
THEOREM PatternsAlwaysReported == AlertsSpec => PatternsReported
<1> DEFINE Grown == Len(heard') > Len(heard) =>
                        Reported(Last(heard').event) /\ Warranted(Last(heard').event)
<1>1. Init => IInvReports
    <2>1. Init => SightingsHeard
        BY DEF Init, SightingsHeard
    <2> QED BY <2>1, InitWindow, InitIncidents DEF IInvReports
<1>2. IInvReports /\ [Next]_vars => IInvReports'
    BY WindowStep, IncidentsStep, SightingsStep DEF IInvReports
<1>3. IInvReports /\ [Next]_vars => [Grown]_vars
    <2> SUFFICES ASSUME IInvReports, Next, Len(heard') > Len(heard)
                 PROVE  Reported(Last(heard').event) /\ Warranted(Last(heard').event)
        OBVIOUS
    <2>1. PICK e \in Traffic[traffic].events : Receive(e) /\ e = Last(heard').event
        BY HeardGrows DEF IInvReports
    <2>2. Reported(e) /\ Warranted(e)
        BY <2>1, ReportedStep, WarrantedStep
    <2> QED BY <2>1, <2>2
<1> QED BY <1>1, <1>2, <1>3, CorrelationUnderAlerts, PTL DEF Spec, PatternsReported
-----------------------------------------------------------------------------
(* The rate limiter of web searches.                                       *)
(* A query is proper or is not, whatever the search is for.                *)
LEMMA Propers == \A purpose \in Purpose : Proper(purpose) \subseteq BOOLEAN
BY DEF Proper

(* The constants one by one.                                               *)
LEMMA SearchBounds ==
    /\ SearchCooldown \in Nat /\ SearchCooldown > 0
    /\ HourLength \in Nat /\ HourLength > 0 /\ HourlyCap \in Nat /\ HourlyCap > 0
    /\ DayLength \in Nat /\ DayLength > 0 /\ DailyCap \in Nat /\ DailyCap > 0
BY SearchAssumption

LEMMA LimiterFields ==
    ASSUME NEW l \in Limiter
    PROVE  /\ l.since \in 0..SearchCooldown
           /\ l.hour \in 0..HourLength /\ l.hourly \in 0..HourlyCap
           /\ l.day \in 0..DayLength /\ l.daily \in 0..DailyCap
BY DEF Limiter

LEMMA NewLimiterType == NewLimiter \in Limiter
BY SearchBounds DEF NewLimiter, Limiter

(* What looking at the limiter does: each window stays as it is, or starts *)
(* again.                                                                  *)
LEMMA LookedFacts ==
    ASSUME NEW l \in Limiter
    PROVE  /\ Looked(l) \in Limiter
           /\ Looked(l).since = l.since
           /\ \/ Looked(l).hour = l.hour /\ Looked(l).hourly = l.hourly
              \/ Looked(l).hour = 0 /\ Looked(l).hourly = 0 /\ l.hour > 0
           /\ \/ Looked(l).day = l.day /\ Looked(l).daily = l.daily
              \/ Looked(l).day = 0 /\ Looked(l).daily = 0 /\ l.day > 0
<1>1. /\ DayReset(l) \in Limiter
      /\ DayReset(l).since = l.since /\ DayReset(l).hour = l.hour /\ DayReset(l).hourly = l.hourly
      /\ \/ DayReset(l).day = l.day /\ DayReset(l).daily = l.daily
         \/ DayReset(l).day = 0 /\ DayReset(l).daily = 0 /\ l.day > 0
    <2>1. CASE l.day >= DayLength
        <3>1. DayReset(l) = [l EXCEPT !.day = 0, !.daily = 0]
            BY <2>1 DEF DayReset
        <3>2. l.day > 0
            BY <2>1, SearchBounds, LimiterFields
        <3>3. 0 \in 0..DayLength /\ 0 \in 0..DailyCap
            BY SearchBounds
        <3>4. DayReset(l) \in Limiter
            BY <3>1, <3>3, Zenon DEF Limiter
        <3> QED BY <3>1, <3>2, <3>4 DEF Limiter
    <2>2. CASE ~(l.day >= DayLength)
        BY <2>2 DEF DayReset
    <2> QED BY <2>1, <2>2
<1>2. ASSUME NEW d \in Limiter
      PROVE  /\ HourReset(d) \in Limiter
             /\ HourReset(d).since = d.since /\ HourReset(d).day = d.day /\ HourReset(d).daily = d.daily
             /\ \/ HourReset(d).hour = d.hour /\ HourReset(d).hourly = d.hourly
                \/ HourReset(d).hour = 0 /\ HourReset(d).hourly = 0 /\ d.hour > 0
    <2>1. CASE d.hour >= HourLength
        <3>1. HourReset(d) = [d EXCEPT !.hour = 0, !.hourly = 0]
            BY <2>1 DEF HourReset
        <3>2. d.hour > 0
            BY <2>1, SearchBounds, LimiterFields
        <3>3. 0 \in 0..HourLength /\ 0 \in 0..HourlyCap
            BY SearchBounds
        <3>4. HourReset(d) \in Limiter
            BY <3>1, <3>3, Zenon DEF Limiter
        <3> QED BY <3>1, <3>2, <3>4 DEF Limiter
    <2>2. CASE ~(d.hour >= HourLength)
        BY <2>2 DEF HourReset
    <2> QED BY <2>1, <2>2
<1> QED BY <1>1, <1>2 DEF Looked

(* What a granted slot does.                                               *)
LEMMA TakenFacts ==
    ASSUME NEW l \in Limiter, Grants(l)
    PROVE  /\ Taken(l) \in Limiter
           /\ l.since = SearchCooldown /\ Taken(l).since = 0
           /\ \/ Taken(l).hour = l.hour /\ Taken(l).hourly = l.hourly + 1
              \/ Taken(l).hour = 0 /\ Taken(l).hourly = 1 /\ l.hour > 0
           /\ \/ Taken(l).day = l.day /\ Taken(l).daily = l.daily + 1
              \/ Taken(l).day = 0 /\ Taken(l).daily = 1 /\ l.day > 0
<1> DEFINE k == Looked(l)
<1>1. k \in Limiter
    BY LookedFacts
<1>2. k.hourly < HourlyCap /\ k.daily < DailyCap /\ l.since >= SearchCooldown
    BY DEF Grants, WithinCaps
<1>3. Taken(l) = [k EXCEPT !.since = 0, !.hourly = @ + 1, !.daily = @ + 1]
    BY DEF Taken
<1> HIDE DEF k
<1>4. 0 \in 0..SearchCooldown /\ k.hourly + 1 \in 0..HourlyCap /\ k.daily + 1 \in 0..DailyCap
    BY <1>1, <1>2, SearchBounds, LimiterFields
<1>5. Taken(l) \in Limiter
    BY <1>1, <1>3, <1>4, Zenon DEF Limiter
<1>6. /\ Taken(l).since = 0 /\ Taken(l).hour = k.hour /\ Taken(l).day = k.day
      /\ Taken(l).hourly = k.hourly + 1 /\ Taken(l).daily = k.daily + 1
    BY <1>1, <1>3 DEF Limiter
<1>7. l.since = SearchCooldown
    BY <1>2, SearchBounds, LimiterFields
<1> QED BY <1>5, <1>6, <1>7, LookedFacts DEF k

(* A task that moves on is still one of a situation.                       *)
LEMMA BecomesFacts ==
    ASSUME tasks \subseteq Situation \X Places, NEW t \in tasks,
           NEW place \in Places, Becomes(t, place)
    PROVE  /\ tasks' \subseteq Situation \X Places
           /\ place # "asked" =>
                 \A s \in Situation : <<s, "asked">> \in tasks' => <<s, "asked">> \in tasks
<1>1. t[1] \in Situation
    OBVIOUS
<1>2. <<t[1], place>> \in Situation \X Places
    BY <1>1, Zenon
<1>3. tasks' = (tasks \ {t}) \cup {<<t[1], place>>}
    BY DEF Becomes
<1>4. tasks' \subseteq Situation \X Places
    BY <1>2, <1>3
<1>5. ASSUME place # "asked", NEW s \in Situation, <<s, "asked">> \in tasks'
      PROVE  <<s, "asked">> \in tasks
    <2>1. <<s, "asked">> # <<t[1], place>>
        BY <1>5
    <2> QED BY <1>3, <1>5, <2>1
<1> QED BY <1>4, <1>5

LEMMA EmptyResults == <<>> \in Seq(Situation \X BOOLEAN)
OBVIOUS

(* While no request is sent, the windows of the history follow those of    *)
(* the limiter.                                                            *)
LEMMA WindowsFacts ==
    ASSUME limiter \in Limiter, limiter' \in Limiter, LimiterKnows, Windows,
           sentHour \in Nat, sentDay \in Nat,
           \/ limiter'.hour = limiter.hour /\ limiter'.hourly >= limiter.hourly
           \/ limiter'.hour = 0 /\ limiter.hour > 0,
           \/ limiter'.day = limiter.day /\ limiter'.daily >= limiter.daily
           \/ limiter'.day = 0 /\ limiter.day > 0
    PROVE  /\ sentHour' \in Nat /\ sentHour' <= limiter'.hourly
           /\ sentDay' \in Nat /\ sentDay' <= limiter'.daily
<1>1. /\ limiter.hour \in Nat /\ limiter.day \in Nat
      /\ limiter.hourly \in Nat /\ limiter.daily \in Nat
      /\ limiter'.hour \in Nat /\ limiter'.day \in Nat
      /\ limiter'.hourly \in Nat /\ limiter'.daily \in Nat
    BY SearchBounds, LimiterFields
<1>2. sentHour' \in Nat /\ sentHour' <= limiter'.hourly
    BY <1>1 DEF Windows, LimiterKnows
<1>3. sentDay' \in Nat /\ sentDay' <= limiter'.daily
    BY <1>1 DEF Windows, LimiterKnows
<1> QED BY <1>2, <1>3

(* A slot that is taken, and no request yet.                               *)
LEMMA TakenWindows ==
    ASSUME limiter \in Limiter, LimiterKnows, Windows, Grants(limiter),
           limiter' = Taken(limiter), sentHour \in Nat, sentDay \in Nat,
           lastSent \in 0..SearchCooldown, lastSent' = lastSent
    PROVE  /\ limiter' \in Limiter /\ LimiterKnows'
           /\ sentHour' \in Nat /\ sentDay' \in Nat
<1>1. /\ limiter' \in Limiter /\ limiter'.since = 0
      /\ \/ limiter'.hour = limiter.hour /\ limiter'.hourly = limiter.hourly + 1
         \/ limiter'.hour = 0 /\ limiter'.hourly = 1 /\ limiter.hour > 0
      /\ \/ limiter'.day = limiter.day /\ limiter'.daily = limiter.daily + 1
         \/ limiter'.day = 0 /\ limiter'.daily = 1 /\ limiter.day > 0
    BY TakenFacts
<1>2. limiter.hourly \in Nat /\ limiter.daily \in Nat
    BY SearchBounds, LimiterFields
<1>3. /\ \/ limiter'.hour = limiter.hour /\ limiter'.hourly >= limiter.hourly
         \/ limiter'.hour = 0 /\ limiter.hour > 0
      /\ \/ limiter'.day = limiter.day /\ limiter'.daily >= limiter.daily
         \/ limiter'.day = 0 /\ limiter.day > 0
    BY <1>1, <1>2
<1>4. /\ sentHour' \in Nat /\ sentHour' <= limiter'.hourly
      /\ sentDay' \in Nat /\ sentDay' <= limiter'.daily
    BY <1>1, <1>3, WindowsFacts
<1>5. limiter'.since <= lastSent'
    BY <1>1, SearchBounds
<1> QED BY <1>1, <1>4, <1>5 DEF LimiterKnows

(* A look at the limiter that ends in a refusal.                           *)
LEMMA LookedWindows ==
    ASSUME limiter \in Limiter, LimiterKnows, Windows,
           limiter' \in {limiter, Looked(limiter)}, sentHour \in Nat, sentDay \in Nat,
           lastSent' = lastSent
    PROVE  /\ limiter' \in Limiter /\ LimiterKnows'
           /\ sentHour' \in Nat /\ sentDay' \in Nat
<1>1. /\ limiter' \in Limiter /\ limiter'.since = limiter.since
      /\ \/ limiter'.hour = limiter.hour /\ limiter'.hourly = limiter.hourly
         \/ limiter'.hour = 0 /\ limiter'.hourly = 0 /\ limiter.hour > 0
      /\ \/ limiter'.day = limiter.day /\ limiter'.daily = limiter.daily
         \/ limiter'.day = 0 /\ limiter'.daily = 0 /\ limiter.day > 0
    BY LookedFacts
<1>2. limiter.hourly \in Nat /\ limiter.daily \in Nat
    BY SearchBounds, LimiterFields
<1>3. /\ \/ limiter'.hour = limiter.hour /\ limiter'.hourly >= limiter.hourly
         \/ limiter'.hour = 0 /\ limiter.hour > 0
      /\ \/ limiter'.day = limiter.day /\ limiter'.daily >= limiter.daily
         \/ limiter'.day = 0 /\ limiter.day > 0
    BY <1>1, <1>2
<1>4. /\ sentHour' \in Nat /\ sentHour' <= limiter'.hourly
      /\ sentDay' \in Nat /\ sentDay' <= limiter'.daily
    BY <1>1, <1>3, WindowsFacts
<1>5. limiter'.since <= lastSent'
    BY <1>1 DEF LimiterKnows
<1> QED BY <1>1, <1>4, <1>5 DEF LimiterKnows

(* The inductive invariant of the limiter.                                 *)
THEOREM SearchInvariance == SearchSpec => []IInvSearch
<1>1. SearchInit => IInvSearch
    <2>1. SearchInit => LimiterKnows /\ limiter \in Limiter
        BY SearchBounds, NewLimiterType DEF SearchInit, LimiterKnows, NewLimiter
    <2>2. SearchInit => results \in Seq(Situation \X BOOLEAN)
        BY EmptyResults, Zenon DEF SearchInit
    <2>3. SearchInit => /\ live \subseteq Situation /\ asking \subseteq Situation
                  /\ tasks \subseteq Situation \X Places
                  /\ circuitOpen \in BOOLEAN
        BY Zenon DEF SearchInit
    <2>4. SearchInit => lastSent \in 0..SearchCooldown /\ sentHour \in Nat /\ sentDay \in Nat
        BY SearchBounds DEF SearchInit
    <2> QED BY <2>1, <2>2, <2>3, <2>4, Zenon DEF IInvSearch, TypeOKSearch
<1>2. IInvSearch /\ [SearchNext]_searchVars => IInvSearch'
    <2> SUFFICES ASSUME IInvSearch, [SearchNext]_searchVars PROVE IInvSearch'
        OBVIOUS
    <2> USE DEF IInvSearch, TypeOKSearch
    <2>0. limiter \in Limiter /\ LimiterKnows
        OBVIOUS
    <2>1. ASSUME NEW s \in Situation, Appear(s) \/ Vanish(s) PROVE IInvSearch'
        BY <2>1 DEF Appear, Vanish, history, LimiterKnows
    <2>2. ASSUME NEW s \in Situation, Spawn(s) PROVE IInvSearch'
        <3>1. limiter' = Taken(limiter) /\ Windows /\ lastSent' = lastSent /\ Grants(limiter)
            BY <2>2 DEF Spawn
        <3>2. LimiterKnows' /\ limiter' \in Limiter /\ sentHour' \in Nat /\ sentDay' \in Nat
            BY <2>0, <3>1, TakenWindows
        <3> QED BY <2>2, <3>2 DEF Spawn, Places
    <2>11. ASSUME NEW s \in Situation, TurnedAway(s) PROVE IInvSearch'
        <3>1. limiter' = Looked(limiter) /\ Windows /\ lastSent' = lastSent
            BY <2>11 DEF TurnedAway
        <3>2. LimiterKnows' /\ limiter' \in Limiter /\ sentHour' \in Nat /\ sentDay' \in Nat
            BY <2>0, <3>1, LookedWindows
        <3> QED BY <2>11, <3>2 DEF TurnedAway
    <2>3. ASSUME NEW t \in tasks, Refused(t) PROVE IInvSearch'
        <3>1. limiter' = (IF circuitOpen THEN limiter ELSE Looked(limiter)) /\ Windows /\ lastSent' = lastSent
            BY <2>3 DEF Refused
        <3>2. LimiterKnows' /\ limiter' \in Limiter /\ sentHour' \in Nat /\ sentDay' \in Nat
            BY <2>0, <3>1, LookedWindows
        <3>3. tasks' \subseteq Situation \X Places
            BY <2>3, BecomesFacts DEF Refused, Places
        <3> QED BY <2>3, <3>2, <3>3 DEF Refused
    <2>4. ASSUME NEW t \in tasks, NEW proper \in BOOLEAN, Ask(t, proper) PROVE IInvSearch'
        <3>1. limiter' = Taken(limiter) /\ Grants(limiter)
            BY <2>4 DEF Ask
        <3>2. CASE proper
            <4>1. LimiterKnows' /\ limiter' \in Limiter /\ sentHour' \in Nat /\ sentDay' \in Nat
                <5>1. /\ lastSent' = 0
                      /\ sentHour' = IF limiter'.hour < limiter.hour THEN 1 ELSE sentHour + 1
                      /\ sentDay' = IF limiter'.day < limiter.day THEN 1 ELSE sentDay + 1
                    BY <2>4, <3>2 DEF Ask
                <5>2. /\ limiter' \in Limiter /\ limiter'.since = 0
                      /\ \/ limiter'.hour = limiter.hour /\ limiter'.hourly = limiter.hourly + 1
                         \/ limiter'.hour = 0 /\ limiter'.hourly = 1 /\ limiter.hour > 0
                      /\ \/ limiter'.day = limiter.day /\ limiter'.daily = limiter.daily + 1
                         \/ limiter'.day = 0 /\ limiter'.daily = 1 /\ limiter.day > 0
                    BY <2>0, <3>1, TakenFacts
                <5>3. /\ limiter.hour \in Nat /\ limiter.day \in Nat
                      /\ limiter.hourly \in Nat /\ limiter.daily \in Nat
                      /\ sentHour \in Nat /\ sentDay \in Nat
                    BY <2>0, SearchBounds, LimiterFields
                <5> HIDE DEF IInvSearch, TypeOKSearch
                <5>4. sentHour' \in Nat /\ sentHour' <= limiter'.hourly
                    BY <2>0, <5>1, <5>2, <5>3 DEF LimiterKnows
                <5>5. sentDay' \in Nat /\ sentDay' <= limiter'.daily
                    BY <2>0, <5>1, <5>2, <5>3 DEF LimiterKnows
                <5> QED BY <5>1, <5>2, <5>4, <5>5 DEF LimiterKnows
            <4>2. lastSent' \in 0..SearchCooldown /\ tasks' \subseteq Situation \X Places
                BY <2>4, <3>2, SearchBounds, BecomesFacts DEF Ask, Places
            <4> QED BY <2>4, <3>2, <4>1, <4>2 DEF Ask
        <3>3. CASE ~proper
            <4>1. LimiterKnows' /\ limiter' \in Limiter /\ sentHour' \in Nat /\ sentDay' \in Nat
                <5>1. Windows /\ lastSent' = lastSent
                    BY <2>4, <3>3 DEF Ask
                <5> QED BY <2>0, <3>1, <5>1, TakenWindows
            <4>2. tasks' \subseteq Situation \X Places
                BY <2>4, <3>3, BecomesFacts DEF Ask, Places
            <4> QED BY <2>4, <3>3, <4>1, <4>2 DEF Ask
        <3> QED BY <3>2, <3>3
    <2>5. ASSUME NEW t \in tasks, Answer(t) PROVE IInvSearch'
        <3>1. tasks' \subseteq Situation \X Places /\ circuitOpen' \in BOOLEAN
            BY <2>5, BecomesFacts DEF Answer, Places
        <3> QED BY <2>5, <3>1 DEF Answer, history, LimiterKnows
    <2>6. ASSUME NEW t \in tasks, Return(t) PROVE IInvSearch'
        <3>1. Returned(t) \in Seq(Situation \X BOOLEAN)
            <4>1. t[1] \in Situation /\ (t[2] = "found") \in BOOLEAN
                OBVIOUS
            <4>2. <<t[1], t[2] = "found">> \in Situation \X BOOLEAN
                BY <4>1, Zenon
            <4> HIDE DEF IInvSearch, TypeOKSearch
            <4> QED BY <4>2 DEF Returned
        <3>2. results' \in Seq(Situation \X BOOLEAN)
            BY <2>6, <3>1, ConcatProperties DEF Return
        <3> QED BY <2>6, <3>2 DEF Return, history, LimiterKnows
    <2>7. CASE ElapseSearch
        <3>1. limiter' = [limiter EXCEPT !.since = AtMost(@ + 1, SearchCooldown),
                             !.hour = AtMost(@ + 1, HourLength), !.day = AtMost(@ + 1, DayLength)]
            BY <2>7 DEF ElapseSearch
        <3>2. /\ AtMost(limiter.since + 1, SearchCooldown) \in 0..SearchCooldown
              /\ AtMost(limiter.hour + 1, HourLength) \in 0..HourLength
              /\ AtMost(limiter.day + 1, DayLength) \in 0..DayLength
            <4>1. /\ limiter.since \in Nat /\ limiter.hour \in Nat /\ limiter.day \in Nat
                  /\ SearchCooldown \in Nat /\ HourLength \in Nat /\ DayLength \in Nat
                BY <2>0, SearchBounds, LimiterFields
            <4>2. \A c, w \in Nat : AtMost(c + 1, w) \in 0..w
                BY DEF AtMost
            <4> QED BY ONLY <4>1, <4>2
        <3>3. limiter' \in Limiter
            BY <2>0, <3>1, <3>2, Zenon DEF Limiter
        <3>4. /\ limiter'.since = AtMost(limiter.since + 1, SearchCooldown)
              /\ limiter'.hourly = limiter.hourly /\ limiter'.daily = limiter.daily
            BY <2>0, <3>1 DEF Limiter
        <3>5. LimiterKnows' /\ lastSent' \in 0..SearchCooldown
            <4>1. /\ lastSent' = AtMost(lastSent + 1, SearchCooldown)
                  /\ sentHour' = sentHour /\ sentDay' = sentDay
                BY <2>7 DEF ElapseSearch
            <4>2. lastSent \in 0..SearchCooldown /\ limiter.since \in 0..SearchCooldown
                BY <2>0, LimiterFields
            <4> HIDE DEF IInvSearch, TypeOKSearch
            <4>3. lastSent' \in 0..SearchCooldown /\ limiter'.since <= lastSent'
                BY <2>0, <3>4, <4>1, <4>2, SearchBounds DEF AtMost, LimiterKnows
            <4> QED BY <2>0, <3>4, <4>1, <4>3 DEF LimiterKnows
        <3> QED BY <2>7, <3>3, <3>5 DEF ElapseSearch
    <2>8. CASE Deliver
        <3>1. results' \in Seq(Situation \X BOOLEAN)
            BY <2>8, HeadTailProperties DEF Deliver
        <3> QED BY <2>8, <3>1 DEF Deliver, history, LimiterKnows
    <2>9. CASE RestartSearch
        <3>1. LimiterKnows' /\ limiter' \in Limiter
            BY <2>9, SearchBounds, NewLimiterType DEF RestartSearch, LimiterKnows, NewLimiter
        <3>2. results' = <<>> /\ sentHour' = 0 /\ sentDay' = 0 /\ lastSent' \in 0..SearchCooldown
            BY <2>9, SearchBounds DEF RestartSearch
        <3>3. results' \in Seq(Situation \X BOOLEAN)
            BY <3>2, EmptyResults, Zenon
        <3>4. /\ live' \subseteq Situation /\ asking' \subseteq Situation
              /\ tasks' \subseteq Situation \X Places /\ circuitOpen' \in BOOLEAN
            BY <2>9, Zenon DEF RestartSearch
        <3>5. sentHour' \in Nat /\ sentDay' \in Nat
            BY <3>2
        <3> QED BY <3>1, <3>2, <3>3, <3>4, <3>5, Zenon
    <2>10. CASE UNCHANGED searchVars
        BY <2>10 DEF searchVars, LimiterKnows
    <2> QED BY <2>1, <2>2, <2>3, <2>4, <2>5, <2>6, <2>7, <2>8, <2>9, <2>10, <2>11, Propers DEF SearchNext
<1> QED BY <1>1, <1>2, PTL DEF SearchSpec

(* Types, and the counts of the limiter within its caps.                   *)
THEOREM SearchTypeCorrect == SearchSpec => []TypeOKSearch
<1>1. IInvSearch => TypeOKSearch
    BY DEF IInvSearch
<1> QED BY <1>1, SearchInvariance, PTL

(* The requests of a window never pass its cap, although their slots may   *)
(* have been reserved in the window before.                                *)
THEOREM CapsAlwaysHold == SearchSpec => []CapsHold
<1>1. IInvSearch => CapsHold
    BY SearchBounds DEF IInvSearch, TypeOKSearch, LimiterKnows, CapsHold, Limiter
<1> QED BY <1>1, SearchInvariance, PTL

(* Two requests are always a cooldown apart.                               *)
THEOREM RequestsAlwaysSpaced == SearchSpec => RequestsSpaced
<1>1. IInvSearch /\ [SearchNext]_searchVars => [Sends => lastSent = SearchCooldown]_searchVars
    <2> SUFFICES ASSUME IInvSearch, [SearchNext]_searchVars, Sends PROVE lastSent = SearchCooldown
        OBVIOUS
    <2> USE DEF IInvSearch, TypeOKSearch
    <2>1. CASE \E t \in tasks, proper \in BOOLEAN : Ask(t, proper)
        <3>1. limiter.since = SearchCooldown
            BY <2>1, TakenFacts DEF Ask
        <3> QED BY <3>1, SearchBounds DEF LimiterKnows
    <2>2. CASE \/ \E s \in Situation : Appear(s) \/ Vanish(s) \/ Spawn(s) \/ TurnedAway(s)
               \/ ElapseSearch \/ Deliver \/ RestartSearch \/ UNCHANGED searchVars
        <3>1. \A s \in Situation : <<s, "asked">> \in tasks' => <<s, "asked">> \in tasks
            BY <2>2 DEF Appear, Vanish, Spawn, TurnedAway, ElapseSearch, Deliver, RestartSearch, searchVars
        <3> QED BY <3>1 DEF Sends
    <2>3. CASE \E t \in tasks : Refused(t) \/ Answer(t) \/ Return(t)
        <3>1. PICK t \in tasks :
                  \/ tasks' = tasks \ {t}
                  \/ Becomes(t, "nothing")
                  \/ Becomes(t, "found")
            BY <2>3 DEF Refused, Answer, Return
        <3>2. \A s \in Situation : <<s, "asked">> \in tasks' => <<s, "asked">> \in tasks
            BY <3>1, BecomesFacts DEF Places
        <3> QED BY <3>2 DEF Sends
    <2> QED BY <2>1, <2>2, <2>3, Propers DEF SearchNext
<1> QED BY <1>1, SearchInvariance, PTL DEF SearchSpec, RequestsSpaced
=============================================================================
