CONSTANTS
    Situation = {s1, s2}
    SearchCooldown = 2
    HourLength = 7
    HourlyCap = 2
    DayLength = 11
    DailyCap = 3
SPECIFICATION SearchSpec
INVARIANT CapsHold
PROPERTIES RequestsSpaced SearchesEnd
CHECK_DEADLOCK FALSE
