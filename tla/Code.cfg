SPECIFICATION Spec
CONSTANTS
    Requests = {r1, r2, r3}
    Codes = {c1}
    None = None
    StoreFails = TRUE
    MaxCrashes = 1
SYMMETRY CodeSymmetry
CHECK_DEADLOCK FALSE
INVARIANTS
    TokensSpendTheCode
    TokensAreProven
    WrongVerifierBurns
    ReuseRevokes
    SpentMeansMinted
