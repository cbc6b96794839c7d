CONSTANTS
    Types <- MCTypes
    Details = {d1}
    NoDetail = NoDetail
    Window = 1
    MaxTime = 2
    FeedLimit = 4
SPECIFICATION Spec
CHECK_DEADLOCK FALSE
INVARIANTS
    EveryEventIsShown
    RowsAreMaximalRuns
    OnlyTheFirstIsLatest
