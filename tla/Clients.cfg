SPECIFICATION Spec
CONSTANTS
    u1 = u1
    u2 = u2
    Requests = {r1, r2, r3}
    Ids = {u1, u2, plain}
    Urls = {u1, u2}
    Documents <- MCDocuments
    None = None
    AllowedScopes = {"read", "write"}
    DefaultScopes = {}
    CacheTTL = 1
    MaxItems = 1
    Timeout = 1
    StoreFails = TRUE
    MaxTime = 3
SYMMETRY RequestSymmetry
CHECK_DEADLOCK FALSE
INVARIANTS
    AnswersFresh
    NoWidening
    RegisteredWins
    CacheBounded
