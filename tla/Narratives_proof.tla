-------------------------- MODULE Narratives_proof --------------------------
(***************************************************************************)
(* Proofs about Narratives and the budget it spends: for any numbers of    *)
(* situations, tasks and requests, any cap, step and price, and any number *)
(* of failures, months and restarts.                                       *)
(***************************************************************************)
EXTENDS Narratives, SequenceTheorems, FiniteSetTheorems, TLAPS

Places == {"budget", "reset", "cleared", "opened", "gemini", "local"}
Narrs  == [what : {"narrative"}, sit : Situation, version : Nat, ask : Nat]
Texts  == [version : Nat, text : Nat]
Rows   == [sit : Situation, version : Nat, text : Nat]
Sums   == [month : 0 .. LastMonth, total : Nat]

TypesBudget ==
    /\ month \in 0 .. LastMonth /\ since \in 0 .. month
    /\ spend \in Nat /\ real \in Nat /\ unseen \in Nat /\ spoiled \in BOOLEAN
    /\ row \in [0 .. LastMonth -> Nat]
    /\ writes \in Seq(Sums)

TypesTexts ==
    /\ told \in [Situation -> Texts]
    /\ tasks \subseteq [job : Narrs \cup Others, id : Nat, at : Places]
    /\ IsFiniteSet(tasks) /\ Cardinality(tasks) <= MaxTasks
    /\ answers \in Seq(Narrs)
    /\ saving \subseteq Rows /\ stored \subseteq Rows
    /\ late \subseteq Situation
    /\ asks \in Nat /\ troubles \in Nat /\ restarts \in Nat

(* Money.  The counter passes the cap by no more than what was already on  *)
(* its way: a call is only started below the cap.                          *)
Gemini(T) == {t \in T : t.at = "gemini"}
Slack(g) == Price * (MaxTasks - g)
Ceiling  == Cap + Slack(0)

Charged == real <= spend + unseen
Capped  == spend < Cap + Slack(Cardinality(Gemini(tasks)))
RowsCapped ==
    /\ \A n \in 0 .. LastMonth : row[n] < Ceiling
    /\ \A k \in 1 .. Len(writes) : writes[k].total < Ceiling

(* What the database has of this month, or will when the writes are done.  *)
OfMonth(k) == writes[k].month = month
LastOfMonth(k) == OfMonth(k) /\ \A j \in k + 1 .. Len(writes) : ~OfMonth(j)
Whole == spend - (spend % Step)

Kept ==
    since = month /\ ~spoiled =>
        \/ \E k \in 1 .. Len(writes) : LastOfMonth(k) /\ Whole <= writes[k].total
        \/ (\A k \in 1 .. Len(writes) : ~OfMonth(k)) /\ Whole <= row[month]

(* Texts.  A request that was asked for later goes on from a version that  *)
(* is not older, unless its situation has taken an answer late.            *)
Outstanding ==
    {a \in {t.job : t \in tasks} \cup {answers[i] : i \in 1 .. Len(answers)} : a.what = "narrative"}

InTurn ==
    \A a \in Outstanding :
        /\ a.ask <= asks
        /\ a.sit \notin late =>
            /\ a.version <= told[a.sit].version
            /\ told[a.sit].text <= a.ask => told[a.sit].version <= a.version + 1
            /\ \A b \in Outstanding : b.sit = a.sit /\ a.ask <= b.ask => a.version <= b.version

Saved ==
    \A s \in Situation : (\E r \in stored : r.sit = s) =>
        \E r \in stored : r.sit = s /\ \A q \in stored : q.sit = s => q.version <= r.version

BInv == TypesBudget /\ Charged /\ Capped /\ RowsCapped /\ Kept
NInv == TypesTexts /\ InTurn /\ Saved
IInv == BInv /\ NInv
-----------------------------------------------------------------------------
(* Sums of money.                                                          *)
LEMMA SlackFacts ==
    ASSUME NEW g \in Nat, NEW h \in Nat, g <= h, h <= MaxTasks
    PROVE  /\ Slack(g) \in Int /\ Slack(h) \in Int
           /\ 0 <= Slack(h) /\ Slack(h) <= Slack(g)
           /\ Slack(g) = Slack(g + 1) + Price
BY BudgetAssumption, NarrativesAssumption DEF Slack

(* A call that does not cross a multiple of Step leaves the whole steps.   *)
LEMMA StepFacts ==
    ASSUME NEW total \in Nat, NEW cost \in Nat
    PROVE  /\ total % Step \in Nat /\ total % Step < Step
           /\ ~Crosses(total + cost, cost) =>
                 (total + cost) - ((total + cost) % Step) = total - (total % Step)
<1>1. Step \in Nat \ {0}
    BY BudgetAssumption
<1>2. total % Step \in Nat /\ total % Step < Step
    BY <1>1
<1>3. (total + cost) % Step >= cost =>
         (total + cost) - ((total + cost) % Step) = total - (total % Step)
    BY <1>1
<1>4. (total + cost) % Step \in Int
    BY <1>1
<1> QED BY <1>2, <1>3, <1>4 DEF Crosses

LEMMA NoWholeStep ==
    ASSUME NEW total \in Nat, total < Step
    PROVE  total - (total % Step) = 0
<1>1. Step \in Nat \ {0}
    BY BudgetAssumption
<1> QED BY <1>1

LEMMA MissingFacts ==
    ASSUME NEW spent \in Nat, NEW counted \in Nat, NEW missing,
           missing = IF spent > counted THEN spent - counted ELSE 0
    PROVE  missing \in Nat /\ spent <= counted + missing
OBVIOUS

LEMMA RemoveAtFacts ==
    ASSUME NEW S, NEW q \in Seq(S), NEW k \in 1 .. Len(q)
    PROVE  /\ RemoveAt(q, k) \in Seq(S) /\ Len(RemoveAt(q, k)) = Len(q) - 1
           /\ \A i \in 1 .. Len(q) - 1 :
                 RemoveAt(q, k)[i] = IF i < k THEN q[i] ELSE q[i + 1]
<1> DEFINE front == SubSeq(q, 1, k - 1)
           back  == SubSeq(q, k + 1, Len(q))
<1>1. Len(q) \in Nat /\ \A i \in 1 .. Len(q) : q[i] \in S
    BY LenProperties, ElementOfSeq
<1>2. /\ front \in Seq(S) /\ Len(front) = k - 1
      /\ \A i \in 1 .. k - 1 : front[i] = q[i]
    BY <1>1, SubSeqProperties
<1>3. /\ back \in Seq(S) /\ Len(back) = Len(q) - k
      /\ \A i \in 1 .. Len(q) - k : back[i] = q[k + i]
    BY <1>1, SubSeqProperties
<1>4. RemoveAt(q, k) = front \o back
    BY DEF RemoveAt
<1> HIDE DEF front, back
<1>5. /\ front \o back \in Seq(S) /\ Len(front \o back) = Len(q) - 1
      /\ \A i \in 1 .. Len(q) - 1 :
            (front \o back)[i] = IF i <= k - 1 THEN front[i] ELSE back[i - (k - 1)]
    <2>1. Len(front) + Len(back) = Len(q) - 1 /\ k \in Int
        BY <1>1, <1>2, <1>3
    <2>2. /\ front \o back \in Seq(S) /\ Len(front \o back) = Len(front) + Len(back)
          /\ \A i \in 1 .. Len(front) + Len(back) :
                (front \o back)[i] = IF i <= Len(front) THEN front[i] ELSE back[i - Len(front)]
        BY <1>2, <1>3, ConcatProperties
    <2> QED BY <1>2, <2>1, <2>2
<1>6. ASSUME NEW i \in 1 .. Len(q) - 1
      PROVE  (front \o back)[i] = IF i < k THEN q[i] ELSE q[i + 1]
    <2>1. CASE i < k
        BY <1>1, <1>2, <1>5, <2>1
    <2>2. CASE i >= k
        <3>1. i - (k - 1) \in 1 .. Len(q) - k /\ k + (i - (k - 1)) = i + 1
            BY <1>1, <2>2
        <3> QED BY <1>1, <1>3, <1>5, <2>2, <3>1
    <2>3. i < k \/ i >= k
        BY <1>1
    <2> QED BY <2>1, <2>2, <2>3
<1> QED BY <1>4, <1>5, <1>6
-----------------------------------------------------------------------------
LEMMA InitIInv == Init => IInv
<1> SUFFICES ASSUME Init PROVE IInv
    OBVIOUS
<1> USE BudgetAssumption, NarrativesAssumption
<1>1. /\ Len(<<>>) = 0 /\ <<>> \in Seq(Sums) /\ <<>> \in Seq(Narrs)
      /\ IsFiniteSet({}) /\ Cardinality({}) = 0
    BY EmptySeq, FS_EmptySet
<1>2. Gemini(tasks) = {} /\ Slack(0) \in Int /\ 0 <= Slack(0)
    BY SlackFacts DEF Init, Gemini
<1>3. TypesBudget
    <2>1. 0 \in 0 .. LastMonth /\ 0 \in 0 .. 0 /\ 0 \in Nat /\ FALSE \in BOOLEAN
        OBVIOUS
    <2>2. [n \in 0 .. LastMonth |-> 0] \in [0 .. LastMonth -> Nat]
        OBVIOUS
    <2> QED BY <1>1, <2>1, <2>2 DEF Init, BudgetInit, TypesBudget
<1>4. Charged /\ Capped
    BY <1>1, <1>2 DEF Init, BudgetInit, Charged, Capped
<1>5. RowsCapped
    BY <1>1, <1>2 DEF Init, BudgetInit, RowsCapped, Ceiling
<1>6. Kept
    <2>1. 0 % Step \in Nat
        BY StepFacts
    <2> QED BY <1>1, <2>1 DEF Init, BudgetInit, Kept, Whole
<1>7. TypesTexts
    BY <1>1 DEF Init, TypesTexts, Untold, Texts
<1>8. InTurn
    BY <1>1 DEF Init, InTurn, Outstanding
<1>9. Saved
    BY DEF Init, Saved
<1> QED BY <1>3, <1>4, <1>5, <1>6, <1>7, <1>8, <1>9 DEF IInv, BInv, NInv
-----------------------------------------------------------------------------
(* A sum is put behind the writes that are on their way.                   *)
LEMMA PersistFacts ==
    ASSUME TypesBudget, RowsCapped, NEW total \in Nat, total < Ceiling, Persist(total),
           UNCHANGED <<month, row>>
    PROVE  /\ writes' \in Seq(Sums) /\ RowsCapped'
           /\ \E k \in 1 .. Len(writes') : LastOfMonth(k)' /\ writes'[k].total = total
<1> DEFINE w == [month |-> month, total |-> total]
<1>1. /\ writes' = Append(writes, w) /\ w \in Sums /\ writes \in Seq(Sums)
    BY DEF Persist, TypesBudget, Sums
<1>2. /\ writes' \in Seq(Sums) /\ Len(writes) \in Nat /\ Len(writes') = Len(writes) + 1
      /\ \A i \in 1 .. Len(writes) : writes'[i] = writes[i]
      /\ writes'[Len(writes) + 1] = w
    BY <1>1, AppendProperties, LenProperties
<1>3. \A i \in 1 .. Len(writes') : i \in 1 .. Len(writes) \/ i = Len(writes')
    BY <1>2
<1>4. RowsCapped'
    BY <1>2, <1>3 DEF RowsCapped, Ceiling, Slack
<1>5. /\ Len(writes') \in 1 .. Len(writes') /\ writes'[Len(writes')] = w
      /\ Len(writes') + 1 .. Len(writes') = {}
    BY <1>2
<1> QED BY <1>2, <1>4, <1>5 DEF LastOfMonth, OfMonth

(* A write is gone: every other write of the month is still the last if it *)
(* was.                                                                    *)
LEMMA RemovedFacts ==
    ASSUME TypesBudget, RowsCapped, NEW k \in 1 .. Len(writes),
           writes' = RemoveAt(writes, k), month' = month
    PROVE  /\ writes' \in Seq(Sums)
           /\ \A i \in 1 .. Len(writes') : writes'[i].total < Ceiling
           /\ \A i \in 1 .. Len(writes') :
                 \E j \in 1 .. Len(writes) \ {k} : writes'[i] = writes[j]
           /\ \A j \in 1 .. Len(writes) \ {k} : LastOfMonth(j) =>
                 \E i \in 1 .. Len(writes') : LastOfMonth(i)' /\ writes'[i] = writes[j]
<1>1. /\ writes \in Seq(Sums) /\ writes' \in Seq(Sums)
      /\ Len(writes) \in Nat /\ Len(writes') = Len(writes) - 1
      /\ \A i \in 1 .. Len(writes') : writes'[i] = IF i < k THEN writes[i] ELSE writes[i + 1]
    BY RemoveAtFacts, LenProperties DEF TypesBudget
<1>2. ASSUME NEW i \in 1 .. Len(writes')
      PROVE  \E j \in 1 .. Len(writes) \ {k} : writes'[i] = writes[j]
    <2>1. CASE i < k
        BY <1>1, <2>1
    <2>2. CASE i >= k
        BY <1>1, <2>2
    <2> QED BY <1>1, <2>1, <2>2
<1>3. ASSUME NEW j \in 1 .. Len(writes) \ {k}, LastOfMonth(j)
      PROVE  \E i \in 1 .. Len(writes') : LastOfMonth(i)' /\ writes'[i] = writes[j]
    <2> DEFINE i == IF j < k THEN j ELSE j - 1
    <2>1. i \in 1 .. Len(writes') /\ writes'[i] = writes[j]
        BY <1>1
    <2>2. ASSUME NEW m \in i + 1 .. Len(writes')
          PROVE  writes'[m].month # month
        <3>1. CASE m < k
            <4>1. m \in j + 1 .. Len(writes) /\ writes'[m] = writes[m]
                BY <1>1, <3>1
            <4> QED BY <1>3, <4>1 DEF LastOfMonth, OfMonth
        <3>2. CASE m >= k
            <4>1. m + 1 \in j + 1 .. Len(writes) /\ writes'[m] = writes[m + 1]
                BY <1>1, <3>2
            <4> QED BY <1>3, <4>1 DEF LastOfMonth, OfMonth
        <3> QED BY <1>1, <3>1, <3>2
    <2> HIDE DEF i
    <2>3. LastOfMonth(i)'
        BY <1>3, <2>1, <2>2 DEF LastOfMonth, OfMonth
    <2> QED BY <2>1, <2>3
<1> QED BY <1>1, <1>2, <1>3 DEF RowsCapped
-----------------------------------------------------------------------------
(* Tasks.                                                                  *)
Requests == [job : Narrs \cup Others, id : Nat, at : Places]

LEMMA LeastFacts ==
    ASSUME NEW a \in Int, NEW b \in Int, NEW c \in Int, NEW d \in Int
    PROVE  LET m == Least({a, b, c, d})
           IN  m \in Int /\ m <= a /\ m <= b /\ m <= c /\ m <= d
<1> DEFINE S == {a, b, c, d}
<1>1. \E m \in S : \A n \in S : m <= n
    OBVIOUS
<1>2. Least(S) \in S /\ \A n \in S : Least(S) <= n
    BY <1>1 DEF Least
<1> QED BY <1>2

(* A tick puts no more tasks on their way than there is room for.          *)
LEMMA TickFacts ==
    ASSUME TypesTexts, Tick
    PROVE  \E new : /\ tasks' = tasks \cup new /\ new \subseteq Requests
                    /\ IsFiniteSet(new) /\ Cardinality(new) <= Room
                    /\ asks' \in Nat /\ asks <= asks'
                    /\ \A t \in new : /\ t.at \in {"budget", "local"} /\ t.job \in Narrs
                                      /\ t.job.version = told[t.job.sit].version
                                      /\ asks < t.job.ask /\ t.job.ask <= asks'
                    /\ UNCHANGED <<budgetVars, told, answers, saving, stored, late, troubles, restarts>>
<1> DEFINE k == Least({PerTick, Cardinality(Outdated), Room, MaxAsks - asks})
<1>1. /\ PerTick \in Int /\ Cardinality(Outdated) \in Int /\ Room \in Int
      /\ MaxAsks - asks \in Int /\ asks \in Nat
    <2>1. Outdated \subseteq Situation
        BY DEF Outdated
    <2>2. Cardinality(Outdated) \in Nat /\ Cardinality(tasks) \in Nat
        BY <2>1, NarrativesAssumption, FS_Subset, FS_CardinalityType DEF TypesTexts
    <2> QED BY <2>2, NarrativesAssumption DEF TypesTexts, Room
<1>2. k \in Int /\ k <= Room
    BY <1>1, LeastFacts
<1>3. k > 0 /\ asks' = asks + k
    BY DEF Tick
<1>4. PICK order \in Injection(1 .. k, Outdated), Advanced \in SUBSET Outdated :
         tasks' = tasks \cup {Task(Narrative(order[i], asks + i), asks + i,
                                   IF order[i] \in Advanced THEN "budget" ELSE "local") : i \in 1 .. k}
    BY DEF Tick
<1> HIDE DEF k
<1> DEFINE asked(i) == Task(Narrative(order[i], asks + i), asks + i,
                            IF order[i] \in Advanced THEN "budget" ELSE "local")
           new == {asked(i) : i \in 1 .. k}
<1>5. \A i \in 1 .. k :
         LET t == asked(i)
         IN  /\ t \in Requests /\ t.at \in {"budget", "local"} /\ t.job \in Narrs
             /\ t.job.version = told[t.job.sit].version
             /\ asks < t.job.ask /\ t.job.ask <= asks + k
    <2> SUFFICES ASSUME NEW i \in 1 .. k
                 PROVE  LET t == asked(i)
                        IN  /\ t \in Requests /\ t.at \in {"budget", "local"} /\ t.job \in Narrs
                            /\ t.job.version = told[t.job.sit].version
                            /\ asks < t.job.ask /\ t.job.ask <= asks + k
        OBVIOUS
    <2>1. order[i] \in Situation /\ asks + i \in Nat /\ asks < asks + i /\ asks + i <= asks + k
        BY <1>1, <1>2 DEF Injection, Outdated
    <2>2. told[order[i]].version \in Nat
        BY <2>1 DEF TypesTexts, Texts
    <2>3. Narrative(order[i], asks + i) \in Narrs
        BY <2>1, <2>2 DEF Narrative, Narrs
    <2> QED BY <2>1, <2>2, <2>3 DEF Task, Narrative, Requests, Places
<1>6. IsFiniteSet(new) /\ Cardinality(new) <= k
    <2> DEFINE f == [i \in 1 .. k |-> asked(i)]
    <2>1. f \in Surjection(1 .. k, new)
        BY DEF Surjection
    <2>2. IsFiniteSet(1 .. k) /\ Cardinality(1 .. k) = k
        BY <1>2, <1>3, FS_Interval
    <2> HIDE DEF f, new
    <2> QED BY <2>1, <2>2, FS_Surjection
<1>7. Cardinality(new) <= Room
    <2> HIDE DEF new
    <2>1. Cardinality(new) \in Nat
        BY <1>6, FS_CardinalityType
    <2> QED BY <1>1, <1>2, <1>6, <2>1
<1>8. UNCHANGED <<budgetVars, told, answers, saving, stored, late, troubles, restarts>>
    BY DEF Tick
<1>9. asks' \in Nat /\ asks <= asks'
    BY <1>1, <1>2, <1>3
<1> WITNESS new
<1> QED BY <1>3, <1>4, <1>5, <1>6, <1>7, <1>8, <1>9

AskOther == \E w \in Others : Ask(w)

LEMMA Asking == Analyse \/ Read \/ Summarise => AskOther
BY DEF Analyse, Read, Summarise, AskOther, Others

LEMMA AskFacts ==
    ASSUME TypesTexts, AskOther
    PROVE  \E t \in Requests : /\ tasks' = tasks \cup {t} /\ t.at = "budget" /\ t.job \in Others
                               /\ Cardinality(tasks) < MaxTasks /\ asks' = asks + 1
<1>0. PICK w \in Others : Ask(w)
    BY DEF AskOther
<1> DEFINE t == Task(w, asks + 1, "budget")
<1>1. t \in Requests /\ t.at = "budget" /\ t.job \in Others
    BY DEF Task, Requests, Places, TypesTexts
<1>2. Cardinality(tasks) \in Nat /\ MaxTasks \in Nat
    BY FS_CardinalityType, NarrativesAssumption DEF TypesTexts
<1> QED BY <1>0, <1>1, <1>2 DEF Ask, Room

(* How the tasks change: new ones start, one moves on, or some end.        *)
TasksGrow == \E new : /\ tasks' = tasks \cup new /\ new \subseteq Requests
                      /\ IsFiniteSet(new) /\ Cardinality(new) <= Room
                      /\ \A t \in new : t.at \in {"budget", "local"}
TaskMoves == \E t \in tasks, place \in Places : tasks' = (tasks \ {t}) \cup {At(t, place)}
TasksEnd  == tasks' \subseteq tasks

LEMMA TasksFinite ==
    ASSUME TypesTexts, TasksGrow \/ TaskMoves \/ TasksEnd
    PROVE  tasks' \subseteq Requests /\ IsFiniteSet(tasks') /\ Cardinality(tasks') <= MaxTasks
<1>1. /\ tasks \subseteq Requests /\ IsFiniteSet(tasks)
      /\ Cardinality(tasks) \in Nat /\ Cardinality(tasks) <= MaxTasks /\ MaxTasks \in Nat
    BY FS_CardinalityType, NarrativesAssumption DEF TypesTexts, Requests
<1>2. CASE TasksGrow
    <2>1. PICK new : /\ tasks' = tasks \cup new /\ new \subseteq Requests
                     /\ IsFiniteSet(new) /\ Cardinality(new) <= Room
        BY <1>2 DEF TasksGrow
    <2>2. /\ IsFiniteSet(tasks \cup new) /\ tasks \cap new \subseteq tasks
          /\ Cardinality(tasks \cup new) =
                Cardinality(tasks) + Cardinality(new) - Cardinality(tasks \cap new)
        BY <1>1, <2>1, FS_Union
    <2>3. Cardinality(new) \in Nat /\ Cardinality(tasks \cap new) \in Nat
        BY <1>1, <2>1, <2>2, FS_Subset, FS_CardinalityType
    <2> QED BY <1>1, <2>1, <2>2, <2>3 DEF Room
<1>3. CASE TaskMoves
    <2>1. PICK t \in tasks, place \in Places : tasks' = (tasks \ {t}) \cup {At(t, place)}
        BY <1>3 DEF TaskMoves
    <2>2. At(t, place) \in Requests
        BY <1>1, <2>1 DEF At, Requests
    <2>3. IsFiniteSet(tasks \ {t}) /\ Cardinality(tasks \ {t}) = Cardinality(tasks) - 1
        BY <1>1, FS_RemoveElement
    <2>4. /\ IsFiniteSet(tasks')
          /\ Cardinality(tasks') = IF At(t, place) \in tasks \ {t} THEN Cardinality(tasks \ {t})
                                   ELSE Cardinality(tasks \ {t}) + 1
        BY <2>1, <2>3, FS_AddElement
    <2> QED BY <1>1, <2>1, <2>2, <2>3, <2>4
<1>4. CASE TasksEnd
    <2>1. IsFiniteSet(tasks') /\ Cardinality(tasks') <= Cardinality(tasks)
        BY <1>1, <1>4, FS_Subset DEF TasksEnd
    <2>2. Cardinality(tasks') \in Nat
        BY <2>1, FS_CardinalityType
    <2> QED BY <1>1, <1>4, <2>1, <2>2 DEF TasksEnd
<1> QED BY <1>2, <1>3, <1>4
-----------------------------------------------------------------------------
(* The counter and the calls on their way.                                 *)
LEMMA GeminiFacts ==
    ASSUME NEW T, IsFiniteSet(T), Cardinality(T) <= MaxTasks
    PROVE  /\ IsFiniteSet(Gemini(T)) /\ Cardinality(Gemini(T)) \in Nat
           /\ Cardinality(Gemini(T)) <= MaxTasks
<1>1. Gemini(T) \in SUBSET T
    BY DEF Gemini
<1>2. IsFiniteSet(Gemini(T)) /\ Cardinality(Gemini(T)) <= Cardinality(T)
    BY <1>1, FS_Subset
<1> QED BY <1>2, FS_CardinalityType, NarrativesAssumption

LEMMA Money == Cap \in Nat \ {0} /\ Price \in Nat \ {0} /\ MaxTasks \in Nat \ {0} /\ Slack(0) \in Nat
BY BudgetAssumption, NarrativesAssumption DEF Slack

LEMMA BelowCeiling ==
    ASSUME TypesBudget, TypesTexts, Capped
    PROVE  spend < Ceiling
BY GeminiFacts, SlackFacts, Money DEF TypesBudget, TypesTexts, Capped, Ceiling

(* Nothing was spent, and no call started.                                 *)
LEMMA CappedStill ==
    ASSUME TypesBudget, TypesTexts, TypesTexts', Capped,
           spend' = spend, Gemini(tasks') \subseteq Gemini(tasks)
    PROVE  Capped'
<1>1. /\ IsFiniteSet(Gemini(tasks)) /\ Cardinality(Gemini(tasks)) \in Nat
      /\ Cardinality(Gemini(tasks)) <= MaxTasks /\ Cardinality(Gemini(tasks')) \in Nat
    BY GeminiFacts DEF TypesTexts
<1>2. Cardinality(Gemini(tasks')) <= Cardinality(Gemini(tasks))
    BY <1>1, FS_Subset
<1>3. /\ Slack(Cardinality(Gemini(tasks))) <= Slack(Cardinality(Gemini(tasks')))
      /\ Slack(Cardinality(Gemini(tasks))) \in Int /\ Slack(Cardinality(Gemini(tasks'))) \in Int
    BY <1>1, <1>2, SlackFacts
<1> QED BY <1>3, Money DEF Capped, TypesBudget, Slack

(* A call starts below the cap, or after a reset.                          *)
LEMMA CappedFresh ==
    ASSUME TypesTexts', spend' \in Nat, spend' < Cap
    PROVE  Capped'
<1>1. Cardinality(Gemini(tasks')) \in Nat /\ Cardinality(Gemini(tasks')) <= MaxTasks
    BY GeminiFacts DEF TypesTexts
<1>2. Slack(Cardinality(Gemini(tasks'))) \in Int /\ 0 <= Slack(Cardinality(Gemini(tasks')))
    BY <1>1, SlackFacts
<1> QED BY <1>2, Money DEF Capped, Slack

(* A call ends, and is paid for.                                           *)
LEMMA CappedPaid ==
    ASSUME TypesBudget, TypesTexts, TypesTexts', Capped,
           NEW t \in tasks, t.at = "gemini", tasks' = tasks \ {t},
           NEW cost \in 1 .. Price, spend' = spend + cost
    PROVE  Capped' /\ spend' < Ceiling
<1>1. /\ IsFiniteSet(Gemini(tasks)) /\ Cardinality(Gemini(tasks)) \in Nat
      /\ Cardinality(Gemini(tasks)) <= MaxTasks
      /\ Cardinality(Gemini(tasks')) \in Nat
    BY GeminiFacts DEF TypesTexts
<1>2. Gemini(tasks') = Gemini(tasks) \ {t} /\ t \in Gemini(tasks)
    BY DEF Gemini
<1>3. Cardinality(Gemini(tasks')) = Cardinality(Gemini(tasks)) - 1
    BY <1>1, <1>2, FS_RemoveElement
<1>4. /\ Slack(Cardinality(Gemini(tasks'))) = Slack(Cardinality(Gemini(tasks))) + Price
      /\ Slack(Cardinality(Gemini(tasks'))) \in Int /\ Slack(Cardinality(Gemini(tasks))) \in Int
      /\ Slack(Cardinality(Gemini(tasks'))) <= Slack(0)
    <2>1. /\ Cardinality(Gemini(tasks')) + 1 = Cardinality(Gemini(tasks))
          /\ Cardinality(Gemini(tasks')) <= MaxTasks
        BY <1>1, <1>3, Money
    <2> QED BY <1>1, <2>1, SlackFacts
<1>5. spend' < Cap + Slack(Cardinality(Gemini(tasks')))
    BY <1>4, Money DEF Capped, TypesBudget
<1> QED BY <1>4, <1>5, Money DEF Capped, Ceiling, Slack, TypesBudget
-----------------------------------------------------------------------------
(* Steps of the budget, one lemma each.                                    *)
LEMMA BudgetRests ==
    ASSUME BInv, TypesTexts, TypesTexts', UNCHANGED budgetVars,
           spend < Cap \/ Gemini(tasks') \subseteq Gemini(tasks)
    PROVE  BInv'
<1>1. TypesBudget' /\ Charged' /\ RowsCapped' /\ Kept'
    BY DEF BInv, budgetVars, TypesBudget, Charged, RowsCapped, Ceiling, Slack, Kept, Whole,
           LastOfMonth, OfMonth
<1>2. Capped'
    BY CappedStill, CappedFresh DEF BInv, TypesBudget, budgetVars
<1> QED BY <1>1, <1>2 DEF BInv

LEMMA TurnStep ==
    ASSUME BInv, TypesTexts, TypesTexts', TurnMonth, tasks' = tasks
    PROVE  BInv'
<1>1. TypesBudget' /\ Charged'
    <2>1. /\ month \in 0 .. LastMonth /\ since \in 0 .. month /\ month < LastMonth
          /\ month' = month + 1 /\ LastMonth \in Nat
          /\ UNCHANGED <<since, spend, row, writes>>
          /\ real' = 0 /\ unseen' = 0 /\ spoiled' = FALSE
        BY BudgetAssumption DEF BInv, TurnMonth, TypesBudget
    <2>2. month' \in 0 .. LastMonth /\ since' \in 0 .. month'
        BY <2>1
    <2> QED BY <2>1, <2>2 DEF BInv, TypesBudget, Charged
<1>2. RowsCapped'
    BY DEF BInv, TurnMonth, RowsCapped, Ceiling, Slack
<1>3. Kept'
    BY DEF BInv, TurnMonth, TypesBudget, Kept
<1>4. Capped'
    BY CappedStill DEF BInv, TurnMonth
<1> QED BY <1>1, <1>2, <1>3, <1>4 DEF BInv

LEMMA ClearStep ==
    ASSUME BInv, TypesTexts, TypesTexts', Clear
    PROVE  BInv'
<1>1. /\ spend' = 0 /\ unseen' = real
      /\ UNCHANGED <<month, since, row, writes, real, spoiled>>
    BY DEF Clear
<1>2. TypesBudget' /\ Charged'
    BY <1>1 DEF BInv, TypesBudget, Charged
<1>3. RowsCapped'
    BY <1>1 DEF BInv, RowsCapped, Ceiling, Slack
<1>4. Kept'
    <2>1. Whole' = 0
        BY <1>1, NoWholeStep, BudgetAssumption DEF Whole
    <2>2. \A k \in 1 .. Len(writes) : 0 <= writes[k].total
        <3>1. writes \in Seq(Sums)
            BY DEF BInv, TypesBudget
        <3>2. \A k \in 1 .. Len(writes) : writes[k] \in Sums
            BY <3>1, ElementOfSeq
        <3> QED BY <3>2 DEF Sums
    <2>3. 0 <= row[month]
        BY DEF BInv, TypesBudget
    <2> QED BY <1>1, <2>1, <2>2, <2>3 DEF BInv, Kept, LastOfMonth, OfMonth
<1>5. Capped'
    BY <1>1, CappedFresh, Money
<1> QED BY <1>2, <1>3, <1>4, <1>5 DEF BInv

(* What was charged since the counter was cleared has no row after the     *)
(* first one, and is less than a step.                                     *)
LEMMA OpenStep ==
    ASSUME BInv, TypesTexts, TypesTexts', Open, Gemini(tasks') \subseteq Gemini(tasks)
    PROVE  BInv'
<1>1. 0 < Ceiling
    BY Money DEF Ceiling
<1>2. /\ writes' \in Seq(Sums) /\ RowsCapped'
      /\ \E k \in 1 .. Len(writes') : LastOfMonth(k)' /\ writes'[k].total = 0
    BY <1>1, PersistFacts DEF BInv, Open
<1>3. TypesBudget' /\ Charged'
    BY <1>2 DEF BInv, Open, TypesBudget, Charged
<1>4. Kept'
    <2> SUFFICES ASSUME ~spoiled' PROVE Whole' = 0
        BY <1>2 DEF Kept
    <2>1. spend \in Nat /\ spend' = spend /\ spend < Step
        BY BudgetAssumption DEF Open, BInv, TypesBudget
    <2> QED BY <2>1, NoWholeStep DEF Whole
<1>5. Capped'
    BY CappedStill DEF BInv, Open
<1> QED BY <1>2, <1>3, <1>4, <1>5 DEF BInv

LEMMA ChargeStep ==
    ASSUME BInv, TypesTexts, TypesTexts',
           NEW t \in tasks, t.at = "gemini", tasks' = tasks \ {t},
           NEW cost \in 1 .. Price, Charge(cost)
    PROVE  BInv'
<1>1. /\ spend' = spend + cost /\ spend \in Nat /\ cost \in Nat /\ spend' \in Nat
      /\ spend' % Step \in Nat
      /\ UNCHANGED <<month, since, row, unseen, spoiled>> /\ real' = real + cost
    BY Money, StepFacts DEF BInv, TypesBudget, Charge
<1>2. Capped' /\ spend' < Ceiling
    BY <1>1, CappedPaid DEF BInv
<1>3. CASE Persist(spend')
    <2>1. /\ writes' \in Seq(Sums) /\ RowsCapped'
          /\ \E k \in 1 .. Len(writes') : LastOfMonth(k)' /\ writes'[k].total = spend'
        BY <1>1, <1>2, <1>3, PersistFacts DEF BInv
    <2>2. TypesBudget' /\ Charged'
        BY <1>1, <2>1 DEF BInv, TypesBudget, Charged
    <2>3. Kept'
        BY <1>1, <2>1 DEF Kept, Whole
    <2> QED BY <1>2, <2>1, <2>2, <2>3 DEF BInv
<1>4. CASE ~Crosses(spend + cost, cost) /\ UNCHANGED writes
    <2>1. TypesBudget' /\ Charged'
        BY <1>1, <1>4 DEF BInv, TypesBudget, Charged
    <2>2. RowsCapped'
        BY <1>1, <1>4 DEF BInv, RowsCapped, Ceiling, Slack
    <2>3. Whole' = Whole
        BY <1>1, <1>4, StepFacts DEF Whole
    <2>4. Kept'
        BY <1>1, <1>4, <2>3 DEF BInv, Kept, LastOfMonth, OfMonth
    <2> QED BY <1>2, <2>1, <2>2, <2>4 DEF BInv
<1> QED BY <1>1, <1>3, <1>4 DEF Charge

LEMMA UnseenStep ==
    ASSUME BInv, TypesTexts, TypesTexts', Gemini(tasks') \subseteq Gemini(tasks),
           NEW cost \in 1 .. Price, ChargeUnseen(cost)
    PROVE  BInv'
<1>1. UNCHANGED <<month, since, spend, row, writes, spoiled>>
    BY DEF ChargeUnseen
<1>2. TypesBudget' /\ Charged'
    BY Money DEF BInv, TypesBudget, Charged, ChargeUnseen
<1>3. RowsCapped' /\ Kept'
    BY <1>1 DEF BInv, RowsCapped, Ceiling, Slack, Kept, Whole, LastOfMonth, OfMonth
<1> QED BY <1>1, <1>2, <1>3, CappedStill DEF BInv

(* A write ends.  If it was the last of its month and not overtaken, it    *)
(* was the only one.                                                       *)
LEMMA WriteStep ==
    ASSUME BInv, TypesTexts, TypesTexts', tasks' = tasks,
           NEW k \in 1 .. Len(writes), Written(k) \/ Unwritten(k)
    PROVE  BInv'
<1>1. /\ writes' = RemoveAt(writes, k)
      /\ UNCHANGED <<month, since, spend, real, unseen>>
    BY DEF Written, Unwritten
<1>2. /\ writes[k] \in Sums /\ writes[k].total < Ceiling
      /\ \A n \in 0 .. LastMonth : row[n] < Ceiling
      /\ row \in [0 .. LastMonth -> Nat]
    BY ElementOfSeq DEF BInv, TypesBudget, RowsCapped
<1>3. /\ writes' \in Seq(Sums)
      /\ \A i \in 1 .. Len(writes') : writes'[i].total < Ceiling
      /\ \A i \in 1 .. Len(writes') :
            \E j \in 1 .. Len(writes) \ {k} : writes'[i] = writes[j]
      /\ \A j \in 1 .. Len(writes) \ {k} : LastOfMonth(j) =>
            \E i \in 1 .. Len(writes') : LastOfMonth(i)' /\ writes'[i] = writes[j]
    BY <1>1, RemovedFacts DEF BInv
<1>4. /\ row' \in [0 .. LastMonth -> Nat] /\ spoiled' \in BOOLEAN
      /\ row' \in {row, [row EXCEPT ![writes[k].month] = writes[k].total]}
    BY <1>2 DEF Written, Unwritten, BInv, TypesBudget, Sums
<1>5. TypesBudget' /\ Charged'
    BY <1>1, <1>3, <1>4 DEF BInv, TypesBudget, Charged
<1>6. RowsCapped'
    BY <1>2, <1>3, <1>4 DEF RowsCapped, Ceiling, Slack, Sums
<1>7. Capped'
    BY <1>1, CappedStill DEF BInv
<1>8. Kept'
    <2> SUFFICES ASSUME since = month, ~spoiled'
                 PROVE  \/ \E i \in 1 .. Len(writes') : LastOfMonth(i)' /\ Whole <= writes'[i].total
                        \/ (\A i \in 1 .. Len(writes') : ~OfMonth(i)') /\ Whole <= row'[month]
        BY <1>1 DEF Kept, Whole
    <2>1. ~spoiled
        BY DEF Written, Unwritten, BInv, TypesBudget
    <2>2. CASE \E j \in 1 .. Len(writes) : LastOfMonth(j) /\ Whole <= writes[j].total
        <3>1. PICK j \in 1 .. Len(writes) : LastOfMonth(j) /\ Whole <= writes[j].total
            BY <2>2
        <3>2. CASE j # k
            BY <1>3, <3>1, <3>2
        <3>3. CASE j = k
            <4>1. writes[k].month = month /\ \A i \in k + 1 .. Len(writes) : writes[i].month # month
                BY <3>1, <3>3 DEF LastOfMonth, OfMonth
            <4>2. Written(k) /\ \A i \in 1 .. k - 1 : writes[i].month # month
                BY <4>1 DEF Written, Unwritten
            <4>3. \A i \in 1 .. Len(writes) \ {k} : writes[i].month # month
                <5>1. \A i \in 1 .. Len(writes) \ {k} : i \in 1 .. k - 1 \/ i \in k + 1 .. Len(writes)
                    BY LenProperties DEF BInv, TypesBudget
                <5> QED BY <4>1, <4>2, <5>1
            <4>4. row'[month] = writes[k].total
                BY <1>2, <4>1, <4>2 DEF Written, BInv, TypesBudget
            <4> QED BY <1>1, <1>3, <3>1, <3>3, <4>3, <4>4 DEF OfMonth
        <3> QED BY <3>2, <3>3
    <2>3. CASE (\A j \in 1 .. Len(writes) : ~OfMonth(j)) /\ Whole <= row[month]
        <3>1. writes[k].month # month /\ row'[month] = row[month]
            BY <1>2, <1>4, <2>3 DEF OfMonth, BInv, TypesBudget
        <3> QED BY <1>1, <1>3, <2>3, <3>1 DEF OfMonth
    <2> QED BY <2>1, <2>2, <2>3 DEF BInv, Kept
<1> QED BY <1>5, <1>6, <1>7, <1>8 DEF BInv

LEMMA ReloadStep ==
    ASSUME BInv, TypesTexts, TypesTexts', tasks' = {}, NEW charged \in 0 .. Price, Reload(charged)
    PROVE  BInv'
<1>1. /\ writes' = <<>> /\ Len(writes') = 0 /\ writes' \in Seq(Sums)
      /\ UNCHANGED <<month, row>> /\ since' = month /\ spoiled' = FALSE
    BY EmptySeq DEF Reload
<1>2. /\ spend' \in Nat /\ spend' <= row[month] /\ real' \in Nat
      /\ unseen' = IF real' > spend' THEN real' - spend' ELSE 0
      /\ row[month] \in Nat /\ row[month] < Ceiling
    BY Money DEF Reload, BInv, TypesBudget, RowsCapped
<1>3. TypesBudget' /\ Charged'
    <2>1. unseen' \in Nat /\ real' <= spend' + unseen'
        BY <1>2, MissingFacts
    <2>2. month \in 0 .. LastMonth /\ month \in 0 .. month
        BY BudgetAssumption DEF BInv, TypesBudget
    <2> QED BY <1>1, <1>2, <2>1, <2>2 DEF BInv, TypesBudget, Charged
<1>4. RowsCapped'
    BY <1>1 DEF BInv, RowsCapped, Ceiling, Slack
<1>5. Kept'
    BY <1>1, <1>2, StepFacts DEF Kept, Whole
<1>6. Capped'
    <2>1. Gemini(tasks') = {} /\ Cardinality({}) = 0
        BY FS_EmptySet DEF Gemini
    <2>2. spend' < Cap + Slack(Cardinality(Gemini(tasks')))
        <3>1. Cardinality(Gemini(tasks')) = 0
            BY <2>1
        <3> QED BY <1>2, <3>1, Money DEF Ceiling
    <2> QED BY <2>2 DEF Capped, Slack
<1> QED BY <1>3, <1>4, <1>5, <1>6 DEF BInv
-----------------------------------------------------------------------------
(* How the tasks and the texts change in a step.                           *)
StepsOfBudget ==
    \/ Turn \/ \E k \in 1 .. Len(writes) : WriteBudget(k)
StepsOfTask(t) == LookAtBudget(t) \/ ResetBudget(t) \/ Answer(t) \/ Fail(t)

LEMMA TaskTexts ==
    ASSUME TypesTexts, NEW t \in tasks, StepsOfTask(t)
    PROVE  /\ TaskMoves \/ TasksEnd
           /\ answers' \in Seq(Narrs) /\ Outstanding' \subseteq Outstanding
           /\ UNCHANGED <<told, saving, stored, late, asks, restarts>> /\ troubles' \in Nat
<1> USE DEF TypesTexts
<1>1. t.at \in Places /\ t.job \in Narrs \cup Others
    OBVIOUS
<1>2. ASSUME NEW place \in Places, Moves(t, place), UNCHANGED troubles
      PROVE  /\ TaskMoves /\ answers' \in Seq(Narrs) /\ Outstanding' \subseteq Outstanding
             /\ UNCHANGED <<told, saving, stored, late, asks, restarts>> /\ troubles' \in Nat
    <2>1. /\ tasks' = (tasks \ {t}) \cup {At(t, place)} /\ answers' = answers
          /\ At(t, place).job = t.job
        BY <1>2 DEF Moves, At
    <2>2. \A r \in tasks' : \E q \in tasks : r.job = q.job
        BY <2>1
    <2> QED BY <1>2, <2>1, <2>2 DEF Moves, TaskMoves, Outstanding
<1>3. CASE LookAtBudget(t) \/ ResetBudget(t)
    <2>1. CASE \E place \in Places : Moves(t, place)
        BY <1>2, <2>1 DEF Moves
    <2>2. CASE Ends(t) /\ UNCHANGED <<answers, troubles>>
        BY <2>2 DEF Ends, TasksEnd, Outstanding
    <2> QED BY <1>3, <2>1, <2>2 DEF LookAtBudget, ResetBudget, Places
<1>4. CASE Answer(t)
    <2>1. tasks' = tasks \ {t} /\ UNCHANGED <<told, saving, stored, late, asks, restarts, troubles>>
        BY <1>4 DEF Answer, Ends
    <2>2. \/ answers' = answers
          \/ t.job.what = "narrative" /\ answers' = Append(answers, t.job)
        BY <1>4 DEF Answer, Sends
    <2>3. t.job.what = "narrative" => t.job \in Narrs
        BY <1>1 DEF Others
    <2>4. answers' \in Seq(Narrs) /\ \A i \in 1 .. Len(answers') :
             (i \in 1 .. Len(answers) /\ answers'[i] = answers[i]) \/ answers'[i] = t.job
        <3>1. CASE answers' = answers
            BY <3>1
        <3>2. CASE t.job.what = "narrative" /\ answers' = Append(answers, t.job)
            <4>1. /\ answers' \in Seq(Narrs) /\ Len(answers') = Len(answers) + 1
                  /\ Len(answers) \in Nat
                  /\ \A i \in 1 .. Len(answers) : answers'[i] = answers[i]
                  /\ answers'[Len(answers) + 1] = t.job
                BY <2>3, <3>2, AppendProperties, LenProperties
            <4>2. \A i \in 1 .. Len(answers') : i \in 1 .. Len(answers) \/ i = Len(answers) + 1
                BY <4>1
            <4> QED BY <4>1, <4>2
        <3> QED BY <2>2, <3>1, <3>2
    <2>5. Outstanding' \subseteq Outstanding
        BY <2>1, <2>4 DEF Outstanding
    <2> QED BY <2>1, <2>4, <2>5 DEF TasksEnd
<1>5. CASE Fail(t)
    BY <1>5 DEF Fail, Ends, TasksEnd, Outstanding
<1> QED BY <1>3, <1>4, <1>5 DEF StepsOfTask

LEMMA AskTexts ==
    ASSUME TypesTexts, AskOther
    PROVE  /\ TasksGrow /\ asks' \in Nat /\ asks <= asks'
           /\ \A r \in tasks' : r \in tasks \/ r.job \in Others
<1>1. PICK t \in Requests : /\ tasks' = tasks \cup {t} /\ t.at = "budget" /\ t.job \in Others
                            /\ Cardinality(tasks) < MaxTasks /\ asks' = asks + 1
    BY AskFacts
<1>2. IsFiniteSet({t}) /\ Cardinality({t}) = 1
    BY FS_Singleton
<1>3. Cardinality(tasks) \in Nat /\ MaxTasks \in Nat
    BY FS_CardinalityType, NarrativesAssumption DEF TypesTexts
<1>4. TasksGrow
    <2>1. Cardinality({t}) <= Room
        BY <1>1, <1>2, <1>3 DEF Room
    <2> QED BY <1>1, <1>2, <2>1 DEF TasksGrow
<1> QED BY <1>1, <1>4 DEF TypesTexts

(* The first answer is taken.                                              *)
LEMMA DeliverFacts ==
    ASSUME TypesTexts, Deliver
    PROVE  \E a \in Narrs :
              /\ a \in Outstanding /\ answers' \in Seq(Narrs)
              /\ TasksGrow \/ TasksEnd
              /\ Outstanding' \subseteq Outstanding
              /\ told' = [told EXCEPT ![a.sit] = [version |-> a.version + 1, text |-> a.ask]]
              /\ saving' = saving \cup {Row(a)} /\ Row(a) \in Rows
              /\ late' = IF a.ask < told[a.sit].text THEN late \cup {a.sit} ELSE late
              /\ asks' \in Nat /\ asks <= asks'
              /\ UNCHANGED <<budgetVars, stored, troubles, restarts>>
<1> DEFINE a == Head(answers)
<1>1. answers \in Seq(Narrs) /\ answers # <<>> /\ answers' = Tail(answers)
    BY DEF TypesTexts, Deliver
<1>2. Len(answers) \in Nat /\ Len(answers) # 0 /\ \A i \in 1 .. Len(answers) : answers[i] \in Narrs
    BY <1>1, EmptySeq, LenProperties, ElementOfSeq
<1>3. /\ a \in Narrs /\ 1 \in 1 .. Len(answers) /\ a = answers[1]
      /\ answers' \in Seq(Narrs)
      /\ \A i \in 1 .. Len(answers') : i + 1 \in 1 .. Len(answers) /\ answers'[i] = answers[i + 1]
    BY <1>1, <1>2, HeadTailProperties
<1>4. a \in Outstanding
    BY <1>3 DEF Outstanding, Narrs
<1>5. /\ TasksGrow \/ TasksEnd
      /\ asks' \in Nat /\ asks <= asks'
      /\ \A r \in tasks' : r \in tasks \/ r.job \in Others
    <2>1. CASE AskOther
        BY <2>1, AskTexts
    <2>2. CASE UNCHANGED <<tasks, asks>>
        BY <2>2 DEF TasksEnd, TypesTexts
    <2> QED BY <2>1, <2>2, Asking DEF Deliver
<1>6. Outstanding' \subseteq Outstanding
    BY <1>3, <1>5 DEF Outstanding, Others
<1>7. Row(a) \in Rows
    BY <1>3 DEF Row, Rows, Narrs
<1>8. /\ told' = [told EXCEPT ![a.sit] = [version |-> a.version + 1, text |-> a.ask]]
      /\ saving' = saving \cup {Row(a)}
      /\ late' = IF a.ask < told[a.sit].text THEN late \cup {a.sit} ELSE late
      /\ UNCHANGED <<budgetVars, stored, troubles, restarts>>
    BY DEF Deliver
<1> HIDE DEF a
<1> QED BY <1>3, <1>4, <1>5, <1>6, <1>7, <1>8
-----------------------------------------------------------------------------
LEMMA OutstandingNarrs == TypesTexts => Outstanding \subseteq Narrs
<1> SUFFICES ASSUME TypesTexts, NEW a \in Outstanding PROVE a \in Narrs
    OBVIOUS
<1>1. a.what = "narrative" /\ \/ \E t \in tasks : a = t.job
                              \/ \E i \in 1 .. Len(answers) : a = answers[i]
    BY DEF Outstanding
<1>2. CASE \E t \in tasks : a = t.job
    <2>1. a \in Narrs \cup Others
        BY <1>2 DEF TypesTexts
    <2> QED BY <1>1, <2>1 DEF Others
<1>3. CASE \E i \in 1 .. Len(answers) : a = answers[i]
    BY <1>3, ElementOfSeq DEF TypesTexts
<1> QED BY <1>1, <1>2, <1>3

(* A restart finds the newest row of a situation.                          *)
LEMMA LoadedFacts ==
    ASSUME TypesTexts, Saved, NEW s \in Situation
    PROVE  /\ Loaded(s) \in Texts
           /\ \A r \in stored : r.sit = s => r.version <= Loaded(s).version
<1> DEFINE rows == {r \in stored : r.sit = s}
<1>1. rows \subseteq Rows
    BY DEF TypesTexts
<1>2. CASE rows = {}
    BY <1>2 DEF Loaded, Untold, Texts
<1>3. CASE rows # {}
    <2>1. \E r \in rows : \A q \in rows : r.version >= q.version
        <3>1. PICK r \in stored : r.sit = s /\ \A q \in stored : q.sit = s => q.version <= r.version
            BY <1>3 DEF Saved
        <3>2. \A q \in rows : q.version \in Nat
            BY <1>1 DEF Rows
        <3> QED BY <3>1, <3>2
    <2>2. Newest(rows) \in rows /\ \A q \in rows : Newest(rows).version >= q.version
        BY <2>1 DEF Newest
    <2>3. Loaded(s) = [version |-> Newest(rows).version, text |-> Newest(rows).text]
        BY <1>3 DEF Loaded
    <2>4. /\ Newest(rows).version \in Nat /\ Newest(rows).text \in Nat
          /\ \A q \in rows : q.version \in Nat
        BY <1>1, <2>2 DEF Rows
    <2> QED BY <2>2, <2>3, <2>4 DEF Texts
<1> QED BY <1>2, <1>3

LEMMA TypesTextsStep ==
    ASSUME TypesTexts, Saved, Next
    PROVE  TypesTexts'
<1>1. CASE \E t \in tasks : StepsOfTask(t)
    BY <1>1, TaskTexts, TasksFinite DEF TypesTexts, Requests
<1>2. CASE Tick
    <2>1. TasksGrow
        BY <1>2, TickFacts DEF TasksGrow
    <2>2. asks' \in Nat /\ UNCHANGED <<told, answers, saving, stored, late, troubles, restarts>>
        BY <1>2, TickFacts
    <2> QED BY <2>1, <2>2, TasksFinite DEF TypesTexts, Requests
<1>3. CASE Require
    <2>1. TasksGrow /\ asks' \in Nat
        BY <1>3, Asking, AskTexts DEF Require
    <2> QED BY <1>3, <2>1, TasksFinite DEF Require, TypesTexts, Requests
<1>4. CASE Deliver
    <2>1. PICK a \in Narrs :
              /\ answers' \in Seq(Narrs)
              /\ TasksGrow \/ TasksEnd
              /\ told' = [told EXCEPT ![a.sit] = [version |-> a.version + 1, text |-> a.ask]]
              /\ saving' = saving \cup {Row(a)} /\ Row(a) \in Rows
              /\ late' = IF a.ask < told[a.sit].text THEN late \cup {a.sit} ELSE late
              /\ asks' \in Nat /\ UNCHANGED <<stored, troubles, restarts>>
        BY <1>4, DeliverFacts
    <2>2. a.sit \in Situation /\ [version |-> a.version + 1, text |-> a.ask] \in Texts
        BY DEF Narrs, Texts
    <2>3. told' \in [Situation -> Texts] /\ late' \subseteq Situation
        BY <2>1, <2>2 DEF TypesTexts
    <2> QED BY <2>1, <2>3, TasksFinite DEF TypesTexts, Requests
<1>5. CASE \/ (\E s \in Situation : Happen(s)) \/ StepsOfBudget
           \/ (\E r \in saving : Save(r) \/ Unsave(r))
    <2>1. /\ UNCHANGED <<told, tasks, answers, late, asks, restarts>> /\ troubles' \in Nat
          /\ saving' \subseteq saving /\ stored' \subseteq stored \cup saving
        BY <1>5 DEF Happen, StepsOfBudget, Turn, WriteBudget, Save, Unsave, TypesTexts
    <2> QED BY <2>1 DEF TypesTexts
<1>6. CASE Restart
    <2>1. /\ tasks' = {} /\ answers' = <<>> /\ saving' = {} /\ UNCHANGED <<stored, late, asks>>
          /\ restarts' \in Nat /\ troubles' \in Nat
          /\ told' = [s \in Situation |-> Loaded(s)] \/ told' = [s \in Situation |-> Untold]
        BY <1>6 DEF Restart, TypesTexts
    <2>2. Untold \in Texts
        BY DEF Untold, Texts
    <2>3. TasksEnd /\ answers' \in Seq(Narrs)
        BY <2>1, EmptySeq DEF TasksEnd
    <2>4. told' \in [Situation -> Texts]
        BY <2>1, <2>2, LoadedFacts
    <2> QED BY <2>1, <2>3, <2>4, TasksFinite DEF TypesTexts, Requests
<1> QED BY <1>1, <1>2, <1>3, <1>4, <1>5, <1>6 DEF Next, StepsOfBudget, StepsOfTask

(* A row is added where there is none of its version.                      *)
LEMMA SavedStep ==
    ASSUME TypesTexts, Saved, Next
    PROVE  Saved'
<1>1. CASE stored' = stored
    BY <1>1 DEF Saved
<1>2. CASE \E r \in saving : Save(r)
    <2>1. PICK r \in saving : Save(r)
        BY <1>2
    <2>2. r \in Rows /\ stored \subseteq Rows /\ stored' \in {stored, stored \cup {r}}
        BY <2>1 DEF Save, TypesTexts
    <2> SUFFICES ASSUME NEW s \in Situation, \E q \in stored' : q.sit = s, stored' = stored \cup {r}
                 PROVE  \E p \in stored' : p.sit = s /\ \A q \in stored' : q.sit = s => q.version <= p.version
        BY <2>2, <1>1 DEF Saved
    <2>3. \A q \in stored \cup {r} : q.version \in Nat
        BY <2>2 DEF Rows
    <2>4. CASE r.sit # s
        BY <2>4 DEF Saved
    <2>5. CASE r.sit = s /\ ~(\E q \in stored : q.sit = s)
        BY <2>3, <2>5
    <2>6. CASE r.sit = s /\ \E q \in stored : q.sit = s
        <3>1. PICK p \in stored : p.sit = s /\ \A q \in stored : q.sit = s => q.version <= p.version
            BY <2>6 DEF Saved
        <3>2. CASE r.version <= p.version
            BY <3>1, <3>2
        <3>3. CASE p.version <= r.version
            BY <2>3, <2>6, <3>1, <3>3
        <3> QED BY <2>3, <3>1, <3>2, <3>3
    <2> QED BY <2>4, <2>5, <2>6
<1>3. stored' = stored \/ \E r \in saving : Save(r)
    BY TaskTexts, TickFacts, DeliverFacts
        DEF Next, StepsOfTask, Happen, Turn, Require, Unsave, WriteBudget, Restart
<1> QED BY <1>1, <1>2, <1>3

(* Requests leave, or are not for texts: what is in turn stays so.         *)
LEMMA InTurnStill ==
    ASSUME InTurn, TypesTexts, asks' \in Nat, asks <= asks',
           Outstanding' \subseteq Outstanding, UNCHANGED <<told, late>>
    PROVE  InTurn'
<1>1. \A a \in Outstanding' : a \in Narrs /\ a \in Outstanding
    BY OutstandingNarrs
<1>2. \A a \in Outstanding' : a.ask <= asks'
    BY <1>1 DEF InTurn, Narrs, TypesTexts
<1> QED BY <1>1, <1>2 DEF InTurn

(* A tick asks on from the versions of the moment.                         *)
LEMMA InTurnTick ==
    ASSUME InTurn, TypesTexts, Tick
    PROVE  InTurn'
<1>1. PICK new : /\ tasks' = tasks \cup new /\ new \subseteq Requests
                 /\ asks' \in Nat /\ asks <= asks'
                 /\ \A t \in new : /\ t.job \in Narrs
                                   /\ t.job.version = told[t.job.sit].version
                                   /\ asks < t.job.ask /\ t.job.ask <= asks'
                 /\ UNCHANGED <<told, answers, late>>
    BY TickFacts
<1> DEFINE Fresh(a) == /\ a \in Narrs /\ a.version = told[a.sit].version
                       /\ asks < a.ask /\ a.ask <= asks'
<1>2. \A a \in Outstanding' : a \in Outstanding \/ Fresh(a)
    BY <1>1 DEF Outstanding
<1>3. \A a \in Outstanding : a \in Narrs
    BY OutstandingNarrs
<1>4. told \in [Situation -> Texts] /\ asks \in Nat
    BY DEF TypesTexts
<1>5. \A a \in Narrs : /\ a.ask \in Nat /\ a.version \in Nat
                       /\ told[a.sit].version \in Nat /\ told[a.sit].text \in Nat
    BY <1>4 DEF Narrs, Texts
<1> SUFFICES ASSUME NEW a \in Outstanding'
             PROVE  /\ a.ask <= asks'
                    /\ a.sit \notin late =>
                        /\ a.version <= told[a.sit].version
                        /\ told[a.sit].text <= a.ask => told[a.sit].version <= a.version + 1
                        /\ \A b \in Outstanding' :
                              b.sit = a.sit /\ a.ask <= b.ask => a.version <= b.version
    BY <1>1 DEF InTurn
<1>6. CASE a \in Outstanding
    <2>1. a.ask <= asks' /\ a.ask <= asks
        BY <1>1, <1>3, <1>4, <1>5, <1>6 DEF InTurn
    <2>2. ASSUME a.sit \notin late, NEW b \in Outstanding', b.sit = a.sit, a.ask <= b.ask
          PROVE  a.version <= b.version
        BY <1>2, <1>6, <2>2 DEF InTurn
    <2> QED BY <1>6, <2>1, <2>2 DEF InTurn
<1>7. CASE Fresh(a)
    <2>1. ASSUME NEW b \in Outstanding', b.sit = a.sit, a.ask <= b.ask
          PROVE  a.version <= b.version
        <3>1. CASE b \in Outstanding
            BY <1>3, <1>4, <1>5, <1>7, <2>1, <3>1 DEF InTurn
        <3>2. CASE Fresh(b)
            BY <1>5, <1>7, <2>1, <3>2
        <3> QED BY <1>2, <3>1, <3>2
    <2> QED BY <1>5, <1>7, <2>1
<1> QED BY <1>2, <1>6, <1>7

(* An answer in its turn does not turn back the version of its situation,  *)
(* and those that are still out go on from it.                             *)
LEMMA InTurnDeliver ==
    ASSUME InTurn, TypesTexts, Deliver
    PROVE  /\ InTurn'
           /\ \A s \in Situation : told'[s].version < told[s].version => s \in late'
<1>1. PICK a \in Narrs :
          /\ a \in Outstanding /\ Outstanding' \subseteq Outstanding
          /\ told' = [told EXCEPT ![a.sit] = [version |-> a.version + 1, text |-> a.ask]]
          /\ late' = IF a.ask < told[a.sit].text THEN late \cup {a.sit} ELSE late
          /\ asks' \in Nat /\ asks <= asks'
    BY DeliverFacts
<1>2. /\ \A b \in Outstanding : b \in Narrs
      /\ told \in [Situation -> Texts] /\ asks \in Nat
    BY OutstandingNarrs DEF TypesTexts
<1>3. \A b \in Narrs : /\ b.ask \in Nat /\ b.version \in Nat /\ b.sit \in Situation
                       /\ told[b.sit].version \in Nat /\ told[b.sit].text \in Nat
    BY <1>2 DEF Narrs, Texts
<1>4. /\ told'[a.sit] = [version |-> a.version + 1, text |-> a.ask]
      /\ \A s \in Situation \ {a.sit} : told'[s] = told[s]
      /\ late \subseteq late'
    BY <1>1, <1>2, <1>3
<1>5. a.sit \notin late' => a.sit \notin late /\ told[a.sit].text <= a.ask
    BY <1>1, <1>3
<1>6. a.sit \notin late' => told[a.sit].version <= a.version + 1
    BY <1>1, <1>5 DEF InTurn
<1>7. ASSUME NEW b \in Outstanding'
      PROVE  /\ b.ask <= asks'
             /\ b.sit \notin late' =>
                 /\ b.version <= told'[b.sit].version
                 /\ told'[b.sit].text <= b.ask => told'[b.sit].version <= b.version + 1
                 /\ \A c \in Outstanding' : c.sit = b.sit /\ b.ask <= c.ask => b.version <= c.version
    <2>1. b \in Outstanding /\ b \in Narrs
        BY <1>1, <1>2
    <2>2. b.ask <= asks'
        BY <1>1, <1>2, <1>3, <2>1 DEF InTurn
    <2>3. CASE b.sit # a.sit
        BY <1>1, <1>3, <1>4, <2>1, <2>2, <2>3 DEF InTurn
    <2>4. CASE b.sit = a.sit /\ b.sit \notin late'
        <3>1. b.version <= told[a.sit].version
            BY <1>5, <2>1, <2>4 DEF InTurn
        <3>2. b.version <= a.version + 1
            BY <1>3, <1>6, <2>1, <2>4, <3>1
        <3>3. a.ask <= b.ask => a.version <= b.version
            BY <1>1, <1>5, <2>1, <2>4 DEF InTurn
        <3>4. told'[b.sit].version = a.version + 1 /\ told'[b.sit].text = a.ask
            BY <1>4, <2>4
        <3>5. \A c \in Outstanding' : c.sit = b.sit /\ b.ask <= c.ask => b.version <= c.version
            BY <1>1, <1>5, <2>1, <2>4 DEF InTurn
        <3> QED BY <1>3, <2>1, <2>2, <3>2, <3>3, <3>4, <3>5
    <2> QED BY <2>2, <2>3, <2>4
<1>8. InTurn'
    BY <1>7 DEF InTurn
<1>9. ASSUME NEW s \in Situation, told'[s].version < told[s].version
      PROVE  s \in late'
    <2>1. told[s].version \in Nat
        BY <1>2 DEF Texts
    <2>2. s = a.sit
        BY <1>4, <1>9, <2>1
    <2> QED BY <1>3, <1>4, <1>6, <1>9, <2>1, <2>2
<1> QED BY <1>8, <1>9
-----------------------------------------------------------------------------
LEMMA TextsStep ==
    ASSUME NInv, Next
    PROVE  /\ NInv'
           /\ \A s \in Situation :
                 told'[s].version < told[s].version =>
                    \/ s \in late'
                    \/ restarts' # restarts /\ \A r \in stored : r.sit = s => r.version <= told'[s].version
                    \/ restarts' # restarts /\ troubles' # troubles
<1> USE DEF NInv
<1>1. TypesTexts' /\ Saved'
    BY TypesTextsStep, SavedStep
<1>2. told \in [Situation -> Texts] /\ \A s \in Situation : told[s].version \in Nat
    BY DEF TypesTexts, Texts
<1>3. CASE Tick
    <2>1. told' = told
        BY <1>3, TickFacts
    <2> QED BY <1>1, <1>2, <1>3, <2>1, InTurnTick
<1>4. CASE Deliver
    BY <1>1, <1>4, InTurnDeliver
<1>5. CASE Restart
    <2>1. /\ tasks' = {} /\ answers' = <<>> /\ restarts' = restarts + 1 /\ restarts \in Nat
          /\ \/ told' = [s \in Situation |-> Loaded(s)]
             \/ troubles' = troubles + 1 /\ troubles \in Nat
        BY <1>5 DEF Restart, TypesTexts
    <2>2. InTurn'
        <3>1. Len(answers') = 0
            BY <2>1, EmptySeq
        <3>2. Outstanding' = {}
            BY <2>1, <3>1 DEF Outstanding
        <3> QED BY <3>2 DEF InTurn
    <2>3. ASSUME NEW s \in Situation, told' = [c \in Situation |-> Loaded(c)]
          PROVE  \A r \in stored : r.sit = s => r.version <= told'[s].version
        BY <2>3, LoadedFacts
    <2> QED BY <1>1, <2>1, <2>2, <2>3
<1>6. CASE ~(Tick \/ Deliver \/ Restart)
    <2>1. told' = told /\ late' = late /\ asks' \in Nat /\ asks <= asks'
          /\ Outstanding' \subseteq Outstanding
        <3>1. CASE \E t \in tasks : StepsOfTask(t)
            BY <3>1, TaskTexts DEF TypesTexts
        <3>2. CASE Require
            <4>1. asks' \in Nat /\ asks <= asks' /\ \A r \in tasks' : r \in tasks \/ r.job \in Others
                BY <3>2, Asking, AskTexts DEF Require
            <4>2. UNCHANGED <<told, answers, late>>
                BY <3>2 DEF Require
            <4> QED BY <4>1, <4>2 DEF Outstanding, Others
        <3>3. CASE \/ (\E s \in Situation : Happen(s)) \/ StepsOfBudget
                   \/ (\E r \in saving : Save(r) \/ Unsave(r))
            <4>1. UNCHANGED <<told, tasks, answers, late, asks>>
                BY <3>3 DEF Happen, StepsOfBudget, Turn, WriteBudget, Save, Unsave
            <4> QED BY <4>1 DEF Outstanding, TypesTexts
        <3> QED BY <1>6, <3>1, <3>2, <3>3 DEF Next, StepsOfTask, StepsOfBudget
    <2> QED BY <1>1, <1>2, <2>1, InTurnStill
<1> QED BY <1>3, <1>4, <1>5, <1>6

LEMMA MoneyStep ==
    ASSUME BInv, TypesTexts, TypesTexts', Next
    PROVE  BInv'
<1>1. CASE \/ Tick \/ Require \/ Deliver
           \/ (\E s \in Situation : Happen(s)) \/ (\E r \in saving : Save(r) \/ Unsave(r))
    <2>1. UNCHANGED budgetVars
        BY <1>1, TickFacts, DeliverFacts DEF Require, Happen, Save, Unsave
    <2>2. \A t \in tasks' : t \in tasks \/ t.at # "gemini"
        <3>1. CASE Tick
            BY <3>1, TickFacts
        <3>2. CASE AskOther
            BY <3>2, AskFacts
        <3>3. CASE UNCHANGED tasks
            BY <3>3
        <3> QED BY <1>1, <3>1, <3>2, <3>3, Asking DEF Require, Deliver, Happen, Save, Unsave
    <2> QED BY <2>1, <2>2, BudgetRests DEF Gemini
<1>2. CASE Turn
    BY <1>2, TurnStep DEF Turn
<1>3. CASE \E k \in 1 .. Len(writes) : WriteBudget(k)
    BY <1>3, WriteStep DEF WriteBudget
<1>4. CASE \E t \in tasks : LookAtBudget(t)
    <2>1. PICK t \in tasks : LookAtBudget(t)
        BY <1>4
    <2>2. CASE Affordable
        BY <2>1, <2>2, BudgetRests DEF LookAtBudget, Affordable
    <2>3. CASE ~Affordable
        <3>1. tasks' \subseteq (tasks \cup {At(t, "reset"), At(t, "local")}) /\ UNCHANGED budgetVars
            BY <2>1, <2>3 DEF LookAtBudget, Moves, Ends
        <3>2. At(t, "reset").at # "gemini" /\ At(t, "local").at # "gemini"
            BY DEF At, TypesTexts
        <3> QED BY <3>1, <3>2, BudgetRests DEF Gemini
    <2> QED BY <2>2, <2>3
<1>5. CASE \E t \in tasks : ResetBudget(t)
    <2>1. PICK t \in tasks : ResetBudget(t)
        BY <1>5
    <2>2. CASE Clear
        BY <2>2, ClearStep
    <2>3. CASE Open /\ tasks' = (tasks \ {t}) \cup {At(t, "opened")}
        <3>1. At(t, "opened").at = "opened"
            BY DEF At, TypesTexts
        <3> QED BY <2>3, <3>1, OpenStep DEF Gemini
    <2> QED BY <2>1, <2>2, <2>3 DEF ResetBudget, Moves
<1>6. CASE \E t \in tasks : Answer(t) \/ Fail(t)
    <2>1. PICK t \in tasks : Answer(t) \/ Fail(t)
        BY <1>6
    <2>2. tasks' = tasks \ {t}
        BY <2>1 DEF Answer, Fail, Ends
    <2>3. \/ UNCHANGED budgetVars
          \/ t.at = "gemini" /\ \E cost \in 1 .. Price : Charge(cost)
          \/ \E cost \in 1 .. Price : ChargeUnseen(cost)
        BY <2>1 DEF Answer, Fail
    <2>4. Gemini(tasks') \subseteq Gemini(tasks)
        BY <2>2 DEF Gemini
    <2> QED BY <2>2, <2>3, <2>4, BudgetRests, ChargeStep, UnseenStep
<1>7. CASE Restart
    <2>1. PICK charged \in 0 .. Price :
             Reload(IF \E t \in tasks : t.at = "gemini" THEN charged ELSE 0) /\ tasks' = {}
        BY <1>7 DEF Restart
    <2>2. (IF \E t \in tasks : t.at = "gemini" THEN charged ELSE 0) \in 0 .. Price
        BY Money
    <2> QED BY <2>1, <2>2, ReloadStep
<1> QED BY <1>1, <1>2, <1>3, <1>4, <1>5, <1>6, <1>7 DEF Next

LEMMA NextStep ==
    ASSUME IInv, [Next]_vars
    PROVE  IInv'
<1>1. CASE Next
    BY <1>1, TextsStep, MoneyStep DEF IInv, NInv
<1>2. CASE UNCHANGED vars
    <2>1. BInv'
        BY <1>2 DEF vars, budgetVars, IInv, BInv, TypesBudget, Charged, Capped, RowsCapped,
                    Ceiling, Slack, Gemini, Kept, Whole, LastOfMonth, OfMonth
    <2>2. NInv'
        BY <1>2 DEF vars, IInv, NInv, TypesTexts, InTurn, Outstanding, Saved
    <2> QED BY <2>1, <2>2 DEF IInv
<1> QED BY <1>1, <1>2

LEMMA Invariance == Spec => []IInv
<1>1. IInv /\ [Next]_vars => IInv'
    BY NextStep
<1> QED BY <1>1, InitIInv, PTL DEF Spec

(* Types of the texts and their requests, and of the counter and its rows: *)
(* no tick or answer starts more tasks than there is room for, and the     *)
(* counter is never of a month to come.                                    *)
THEOREM TypeCorrect == Spec => [](TypesTexts /\ TypesBudget)
BY Invariance, PTL DEF IInv, BInv, NInv

(* The month's calls to Gemini pass the cap by no more than the calls on   *)
(* their way (budget.rs: the counter is read before a call and added to    *)
(* after it), whatever resets race and whatever a restart reads.           *)
THEOREM BudgetHolds == Spec => []WithinBudget
<1>1. IInv => WithinBudget
    <2> SUFFICES ASSUME IInv PROVE WithinBudget
        OBVIOUS
    <2>1. real <= spend + unseen /\ spend < Ceiling
        BY BelowCeiling DEF IInv, BInv, NInv, Charged
    <2>2. Slack(0) = Price * MaxTasks
        BY Money DEF Slack
    <2> QED BY <2>1, <2>2, Money DEF IInv, BInv, TypesBudget, Ceiling, WithinBudget
<1> QED BY <1>1, Invariance, PTL

(* A crash forgets less than a step of the month's spending, unless a      *)
(* write was lost or overtaken (budget.rs: persist after every $0.10).     *)
THEOREM SpendingKept == Spec => []KeptWithinAStep
<1>1. IInv => KeptWithinAStep
    <2> SUFFICES ASSUME IInv, since = month, writes = <<>>, ~spoiled
                 PROVE  spend < row[month] + Step
        BY DEF KeptWithinAStep
    <2>1. Len(writes) = 0
        BY EmptySeq
    <2>2. Whole <= row[month]
        BY <2>1 DEF IInv, BInv, Kept
    <2>3. spend % Step \in Nat /\ spend % Step < Step /\ spend \in Nat /\ row[month] \in Nat
        BY StepFacts DEF IInv, BInv, TypesBudget
    <2> QED BY <2>2, <2>3, BudgetAssumption DEF Whole
<1> QED BY <1>1, Invariance, PTL

(* The version of a narrative falls only by an answer that was delivered   *)
(* after a newer one, or by a restart, which goes back to the newest row   *)
(* (pipeline.rs, narrative_rx).                                            *)
THEOREM VersionsGrow == Spec => VersionFallsOnlyBy
<1> DEFINE A == \A s \in Situation :
          told'[s].version < told[s].version =>
              \/ s \in late'
              \/ restarts' # restarts /\ \A r \in stored : r.sit = s => r.version <= told'[s].version
              \/ restarts' # restarts /\ troubles' # troubles
<1>1. IInv /\ [Next]_vars => [A]_vars
    BY TextsStep DEF IInv
<1>2. Spec => [][A]_vars
    BY <1>1, Invariance, PTL DEF Spec
<1> QED BY <1>2 DEF VersionFallsOnlyBy
=============================================================================
