SPECIFICATION Spec
SYMMETRY Symmetry
CONSTANTS
    Situation = {s1, s2}
    PerTick = 1
    MaxTasks = 2
    MaxAsks = 3
    MaxTroubles = 1
    MaxRestarts = 1
    Cap = 2
    Step = 3
    Price = 2
    LastMonth = 1
INVARIANT WithinBudget
INVARIANT KeptWithinAStep
PROPERTY VersionFallsOnlyBy
CHECK_DEADLOCK FALSE
