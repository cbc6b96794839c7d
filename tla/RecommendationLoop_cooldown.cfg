CONSTANTS
    view = view
    search = search
    scroll = scroll
    Events <- ThreeEvents
    Countable <- TwoEvents
    Loud <- TwoEvents
    Batches <- ApartBatches
    Tasks = {t1, t2}
    Callers = {"manual"}
    Threshold = 1
    Absent = Absent
    MaxDeliveries = 1
    MaxRecs = 3
    MaxCrashes = 0
SPECIFICATION Spec
CHECK_DEADLOCK FALSE
PROPERTIES CooldownIsAbsolute
