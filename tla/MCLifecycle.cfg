CONSTANTS
    Calls = {c1, c2}
    Ids = {i1}
    MaxTime = 2
    LegacyLogs <- MCLegacyLogs
SYMMETRY CallSymmetry
SPECIFICATION Spec
INVARIANTS
    LedgerSound
    AckedIsDurable
    SubscribersNotBehind
    LockAccounted
PROPERTIES
    ImplementsStages
