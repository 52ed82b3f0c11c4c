SPECIFICATION Spec
CONSTANTS
    Builders = {b1, b2}
    Ids = {1, 2}
    MaxCalls = 3
    None = None
    Null = Null
    Unread = Unread
    Failed = Failed
    ClientMixin <- GeneratedFrom
INVARIANTS
    TypeOK
    OnlyCheckedRowsStored
    StoredMeansSaved
    OldValueIsBefore
PROPERTIES
    LastCallsShow
SYMMETRY Symmetry
CHECK_DEADLOCK FALSE
