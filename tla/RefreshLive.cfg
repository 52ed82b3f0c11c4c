SPECIFICATION FairSpec
CONSTANTS
    Requests = {r1, r2}
    Families = {g}
    None = None
    Window = 1
    MaxTime = 2
    MaxCrashes = 1
    Transactional = TRUE
    StoreFails = TRUE
CHECK_DEADLOCK FALSE
INVARIANT GrantSurvives
PROPERTY RequestsAnswered
