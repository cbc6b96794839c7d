CONSTANTS
    MaxBuffer = 3
    IngestLimit = 4
    Milestones = {25}
    MaxActs = 3
    MaxCalls = 2
    MaxVisits = 2
SPECIFICATION FairSpec
CHECK_DEADLOCK FALSE
INVARIANTS
    EachEventTravelsOnce
    BufferedMeansArmed
    BatchesAreAccepted
    NothingReportedTwice
    LeavingTakesAll
PROPERTIES EveryEventLeaves
