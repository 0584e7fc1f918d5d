CONSTANTS
    Cluster = {c1, c2, c3, c4}
    NoParent = NoParent
    DisasterAlone = 1
    DisasterParents = 0
    RoutineAlone = 1
    RoutineParents = 0
    MaxHops = 10
SPECIFICATION Spec
SYMMETRY Symmetry
INVARIANTS ViewConsistent OrphanedOnlyBy
CHECK_DEADLOCK FALSE
