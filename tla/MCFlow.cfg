CONSTANTS
    a1 = a1  a2 = a2  k1 = k1  k2 = k2  k3 = k3
    Article = {a1, a2}
    Copy = {k1, k2, k3}
    Of <- MCOf
    Nothing = Nothing
    FeedSize = 1
    EmbedSlots = 1
    VectorSlots = 1
    ReingestSlots = 1
    BatchSize = 1
    CacheSize = 1
    Permits = 2
    Earlier = {a2}
SPECIFICATION Spec
PROPERTIES EnrichedAtMostOnce EveryArticleShown NothingWaitsForever
CHECK_DEADLOCK FALSE
