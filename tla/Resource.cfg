SPECIFICATION Spec
CONSTANTS
    Requests = {r1, r2}
    PATs = {p}
    OAuthTokens = {a}
    NoToken = NoToken
    Garbage = Garbage
    Targets = {t1, t2}
    Target = t1
    NoTarget = NoTarget
    Configs <- SampleConfigs
    AllowLoopback = FALSE
    Guard = TRUE
    MaxUsageRecorders = 1
    Expiry = 0
    MaxTime = 1
    MaxChanges = 1
    MaxCalls = 4
    Reduced = TRUE
SYMMETRY Symmetry
CHECK_DEADLOCK FALSE
INVARIANTS
    TypeOK
    AuthorityWasGranted
    EnvelopeTransparent
    StreamsUnheldOnceStarted
    SlotsAccounted
