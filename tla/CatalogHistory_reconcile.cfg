CONSTANTS
    Products = {p1}
    Contents = {c1, c2}
    Listings = {l1}
    Absent = Absent
    MaxAttempts = 0
    MaxRows = 3
    Drainers = {d1, d2}
    BatchLimit = 2
    MaxCrashes = 0
    Reconcilers = {r1}
SPECIFICATION HistorySpec
SYMMETRY Symmetry
CHECK_DEADLOCK FALSE
INVARIANTS DoneMeansMirrored DoneMeansCarriedOut
PROPERTIES FailedIsFinal ImplementsMirror
