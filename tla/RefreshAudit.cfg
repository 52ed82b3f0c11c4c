SPECIFICATION Spec
CONSTANTS
    Requests = {r1, r2, r3}
    Families = {g}
    None = None
    Window = 1
    MaxTime = 2
    MaxCrashes = 1
    Transactional = FALSE
    StoreFails = TRUE
CHECK_DEADLOCK FALSE
INVARIANT EveryRequestAudited
