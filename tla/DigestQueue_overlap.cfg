CONSTANTS
    Users = {u1, u2}
    Workers = {w1, w2}
    Absent = Absent
    ClaimLimit = 2
    MaxRounds = 2
    MaxRecs = 1
    MaxCrashes = 1
SPECIFICATION Spec
SYMMETRY Symmetry
CHECK_DEADLOCK FALSE
INVARIANTS MailsAreBounded
