CONSTANTS
    view = view
    search = search
    scroll = scroll
    Events <- ThreeEvents
    Countable <- TwoEvents
    Loud <- TwoEvents
    Batches <- ApartBatches
    Tasks = {t1, t2}
    Callers = {"scheduled"}
    Threshold = 1
    Absent = Absent
    MaxDeliveries = 1
    MaxRecs = 3
    MaxCrashes = 1
SPECIFICATION FairHistorySpec
CHECK_DEADLOCK FALSE
INVARIANTS SomeoneGoesOn AtMostOneCurrent BaselineMatchesCurrent
INVARIANTS EveryBatchCounted CounterCoversMoves
PROPERTIES KeepsTheLog EveryTaskEnds
