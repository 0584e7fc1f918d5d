---------------------------- MODULE ModelBudget ----------------------------
(***************************************************************************)
(* The monthly budget of calls to Gemini (intel/src/budget.rs): a counter  *)
(* in memory, read before a call and added to after it, reset by whoever   *)
(* first asks in a new month, and written to a row of the database now and *)
(* then by tasks nobody waits for.                                         *)
(*                                                                         *)
(* A month is a number, money is counted in the smallest sum that matters. *)
(* The daily budget of Claude has one caller and is left out.              *)
(***************************************************************************)
EXTENDS Naturals, Sequences, SequencesExt

CONSTANTS
    Cap,        \* monthly_cap_usd
    Step,       \* spending after which the row is written again: $0.10
    Price,      \* bound: the dearest call
    LastMonth   \* bound on the months that pass

ASSUME BudgetAssumption == {Cap, Step, Price} \subseteq Nat \ {0} /\ LastMonth \in Nat

VARIABLES
    month,      \* of the clock
    since,      \* month_start: the month the counter was last reset in
    spend,      \* gemini_month_spend_micro_usd
    row,        \* gemini_monthly_spend, by month; 0 if there is no row
    writes,     \* writes spawned and not done, oldest first
    real,       \* history: what the service has charged this month
    unseen,     \* history: how much of it the counter does not have
    spoiled     \* history: a write of this month was lost, overtaken or undone by its first

budgetVars == <<month, since, spend, row, writes, real, unseen, spoiled>>

BudgetInit ==
    /\ month = 0 /\ since = 0 /\ spend = 0
    /\ row = [n \in 0 .. LastMonth |-> 0]
    /\ writes = <<>>
    /\ real = 0 /\ unseen = 0 /\ spoiled = FALSE

TurnMonth ==
    /\ month < LastMonth
    /\ month' = month + 1
    /\ real' = 0 /\ unseen' = 0 /\ spoiled' = FALSE
    /\ UNCHANGED <<since, spend, row, writes>>

(* A caller compares the months.  Whoever found a new one clears the       *)
(* counter, although another may have done so meanwhile; then waits for    *)
(* the lock, opens the month and writes its first row, whatever was        *)
(* charged while it waited.                                                *)
NewMonth == since # month
AffordableAtCap == spend <= Cap
Affordable == spend < Cap

Persist(total) == writes' = Append(writes, [month |-> month, total |-> total])

Clear ==
    /\ spend' = 0
    /\ unseen' = real
    /\ UNCHANGED <<month, since, row, writes, real, spoiled>>

Open ==
    /\ since' = month
    /\ Persist(0)
    /\ spoiled' = (spoiled \/ spend >= Step)
    /\ UNCHANGED <<month, spend, row, real, unseen>>

(* The call has taken the counter over a multiple of Step.                 *)
CrossesExactly(total, cost) == total % Step = 0
Crosses(total, cost) == (total % Step) < cost

Charge(cost) ==
    /\ spend' = spend + cost
    /\ real' = real + cost
    /\ IF Crosses(spend + cost, cost) THEN Persist(spend + cost) ELSE UNCHANGED writes
    /\ UNCHANGED <<month, since, row, unseen, spoiled>>

(* Charged by the service, and not recorded.                               *)
ChargeUnseen(cost) ==
    /\ real' = real + cost /\ unseen' = unseen + cost
    /\ UNCHANGED <<month, since, spend, row, writes, spoiled>>

(* A write is done, perhaps before an older one, or fails.                 *)
Written(k) ==
    /\ row' = [row EXCEPT ![writes[k].month] = writes[k].total]
    /\ writes' = RemoveAt(writes, k)
    /\ spoiled' = (spoiled \/ \E j \in 1 .. k - 1 : writes[j].month = writes[k].month)
    /\ UNCHANGED <<month, since, spend, real, unseen>>

Unwritten(k) ==
    /\ writes' = RemoveAt(writes, k)
    /\ spoiled' = (spoiled \/ writes[k].month = month)
    /\ UNCHANGED <<month, since, spend, row, real, unseen>>

(* A restart reads the row of the month, or starts from zero if it cannot. *)
(* The calls cut off may have been charged.                                *)
Reload(charged) ==
    /\ real' = real + charged
    /\ spend' \in {row[month], 0}
    /\ since' = month
    /\ writes' = <<>> /\ spoiled' = FALSE
    /\ unseen' = IF real' > spend' THEN real' - spend' ELSE 0
    /\ UNCHANGED <<month, row>>
=============================================================================
