SPECIFICATION Spec
CONSTANTS
    Servers = {s1, s2}
    Interval = 1
    Grace = 2
    Lifespan = 1
    MaxDelay = 1
    MaxTime = 5
    MaxKeys = 4
SYMMETRY KeySymmetry
CHECK_DEADLOCK FALSE
INVARIANTS
    OneActiveKey
    SigningNeverStops
    TokensVerify
    KeyNeverOverstays
