CONSTANTS
    Event = {1, 2, 3, 4}
    Ref <- MCRef
    Terms <- MCTerms
    Entity = {"a", "b"}
    Topic = {"t", "u"}
    Tag = {"g"}
    Derived <- MCDerived
    Alphabet <- MCAlphabet
    Loud = {1}
    Mute = {}
    Situation = {1, 2, 3}
    None = None
    MaxTerms = 1
    PrunedTo = 1
    RestoredTerms = 1
    MaxLinks = 3
    ShedAbove = 2
    ShedTarget = 2
    KeptLinks = 1
    LeafCap = 3
    OrphanMin = 2
    BufferMax = 2
    Found = 2
    MaxWork = 2
SPECIFICATION Spec
INVARIANTS IndexFollowsTerms CountsCoverLinks
PROPERTY BufferLeftOnlyBy
CHECK_DEADLOCK FALSE
