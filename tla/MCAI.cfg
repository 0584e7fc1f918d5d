CONSTANTS
    Cluster = {c1, c2, c3}
    NoParent = NoParent
    MaxChildren = 1
    CountryThreshold = 2
    HasLlm = TRUE
    MaxTitles = 1
    MaxAsked = 1
SPECIFICATION SpecAI
VIEW View
SYMMETRY Symmetry
INVARIANT StaleResultsHarmless
PROPERTIES ForestBrokenOnlyBy LimitsHonoured
CHECK_DEADLOCK FALSE
