CONSTANTS
    Hours <- MCHours
    Gap <- MCGap
    Counts <- MCCounts
    Share = 34
    Topics = {"armed", "plain"}
    Arriving = {0, 3}
    MaxEvents = 2
    MaxSources = 2
    MaxKids = 3
    Horizon = 5
SPECIFICATION LifecycleSpec
PROPERTIES ForgottenInTheEnd DeclineEnds ChildrenLoseCritical SeverityEarned
CHECK_DEADLOCK FALSE
