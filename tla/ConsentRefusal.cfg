SPECIFICATION Spec
CONSTANTS
    Posts = {r1, r2, r3}
    Subjects = {alice, pipe}
    Piped = {pipe}
    Params = {p1, p2}
    None = None
    TTL = 1
    MaxTime = 2
    MaxCrashes = 0
SYMMETRY ConsentSymmetry
CHECK_DEADLOCK FALSE
INVARIANTS
    RefusalsExplained
