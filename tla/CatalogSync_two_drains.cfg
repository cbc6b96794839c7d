CONSTANTS
    Products = {p1}
    Contents = {c1}
    Listings = {l1}
    Absent = Absent
    MaxAttempts = 1
    MaxRows = 3
    Drainers = {d1, d2}
    BatchLimit = 1
    MaxCrashes = 1
    Reconcilers = {}
SPECIFICATION FairSpec
CHECK_DEADLOCK FALSE
PROPERTIES EveryRowSettles
