CONSTANTS
    Cases <- MCCases
    Streaming <- MCStreaming
    Undated <- MCUndated
    Bound = 1  PageSize = 1  MaxTroubles = 1  MaxRestarts = 1
    StreamTroubles = 2  Messages = 3  Limit = 2  DeadAfter = 2
    MaxItems = 3  Unlucky <- MCUnlucky
SPECIFICATION SourcesSpec
INVARIANTS PassedOverOnlyBy RowMissingOnlyBy
PROPERTIES BroadcastAgainOnlyBy RowTwiceOnlyBy InTheEnd
CHECK_DEADLOCK FALSE
