CONSTANTS
    Cluster = {c1, c2}
    NoParent = NoParent
    NoRow = NoRow
    MaxChildren = 1
    Significant = 2
    MaxTicks = 3
    MaxRestarts = 2
SPECIFICATION Spec
SYMMETRY Symmetry
INVARIANTS RestoredClosed RowsFollowView
PROPERTIES CyclesMixTicks
CHECK_DEADLOCK FALSE
