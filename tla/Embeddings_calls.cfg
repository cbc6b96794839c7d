CONSTANTS
    Callers = {c1, c2, c3}
    Texts <- MCTexts
    Key <- MCKey
    Documents <- MCDocuments
    Limit = 2
    ProviderLimit = 2
    NoVector = NoVector
SPECIFICATION Spec
CHECK_DEADLOCK FALSE
INVARIANTS
    EveryProductIsEmbedded
    RequestsAreAccepted
    QueriesGetTheirVector
    PaidByOverlapOnly
