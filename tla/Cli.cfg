SPECIFICATION Spec
CONSTANTS
    Processes = {p1, p2, p3}
    First = First
    None = None
    Lifespan = 6
    Buffer = 3
    Window = 3
    MaxDelay = 1
    MaxTime = 11
CHECK_DEADLOCK FALSE
SYMMETRY ProcessSymmetry
INVARIANTS
    RefreshersAccepted
    AccessStillValid
    LogoutSticks
