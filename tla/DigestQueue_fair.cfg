CONSTANTS
    Users = {u1, u2, u3}
    Workers = {w1}
    Absent = Absent
    ClaimLimit = 2
    MaxRounds = 2
    MaxRecs = 1
    MaxCrashes = 1
SPECIFICATION FairSpec
CHECK_DEADLOCK FALSE
PROPERTIES EveryUserServed
