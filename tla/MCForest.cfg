CONSTANTS
    Cluster = {c1, c2, c3, c4}
    NoParent = NoParent
    MaxChildren = 2
    CountryThreshold = 2
SPECIFICATION Spec
SYMMETRY Symmetry
INVARIANT Acyclic
PROPERTIES TreeSpec MergesRespectCap RejectionsHold
CHECK_DEADLOCK FALSE
