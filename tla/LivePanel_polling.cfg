CONSTANTS
    Polls = {p1, p2}
    Threshold = 1
    MaxEvents = 2
    MaxRecs = 2
    MaxFailures = 1
SPECIFICATION FairSpec
CHECK_DEADLOCK FALSE
INVARIANTS
    PollingFollowsTheTab
    BarBelongsToRecommendation
PROPERTIES PanelCatchesUp
