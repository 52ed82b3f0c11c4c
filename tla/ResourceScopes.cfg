SPECIFICATION Spec
CONSTANTS
    Requests = {r1}
    PATs = {p}
    OAuthTokens = {a}
    NoToken = NoToken
    Garbage = Garbage
    Targets = {t1, t2}
    Target = t1
    NoTarget = NoTarget
    Configs <- FullConfig
    AllowLoopback = FALSE
    Guard = FALSE
    MaxUsageRecorders = 1
    Expiry = 0
    MaxTime = 1
    MaxChanges = 1
    MaxCalls = 3
    Reduced = TRUE
CHECK_DEADLOCK FALSE
INVARIANT RequiredScopesEnforced
