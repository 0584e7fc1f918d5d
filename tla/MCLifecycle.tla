---------------------------- MODULE MCLifecycle ----------------------------
(* SituationLifecycle for TLC: the durations of the code, shortened so     *)
(* that their order stays.                                                 *)
EXTENDS SituationLifecycle

MCHours == [recent |-> 1, dwell |-> 2, dwellHigh |-> 3, dwellCritical |-> 4, stale |-> 3,
            news |-> 3, emerging |-> 2, single |-> 1, ceiling |-> 2, declining |-> 4,
            prune |-> 2, fast |-> 1]
MCGap == [s \in 0..3 |-> IF s >= 2 THEN 2 ELSE 1]
MCCounts == [emerging |-> 1, medium |-> 1, high |-> 2, critical |-> 2,
             telemetry |-> 2, established |-> 2, massive |-> 2, criticalSources |-> 2]
=============================================================================
