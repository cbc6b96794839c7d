CONSTANTS
    Products = {p1, p2}
    MadeUp = {ghost}
    MaxRefineLoops = 1
    MinCandidates = 1
    MaxCandidates = 2
    TopN = 2
    MaxItems = 2
    Searches = 2
    MaxEdits = 1
SPECIFICATION FairSpec
CHECK_DEADLOCK FALSE
INVARIANTS NothingMadeUp ExclusionsHonoured CallBudget LogCoversHalf
PROPERTIES KeepsContract EveryRunEnds
