CONSTANTS
    Products = {p1}
    Contents = {c1}
    Listings = {l1, l2}
    Absent = Absent
    MaxAttempts = 1
    MaxRows = 2
    Drainers = {d1}
    BatchLimit = 2
    MaxCrashes = 0
    Reconcilers = {r1}
SPECIFICATION Spec
CHECK_DEADLOCK FALSE
PROPERTIES ReconcileRepairsDrift
