CONSTANTS
    FailureThreshold = 2
    RecoveryTimeout = 2
    HalfOpenMaxCalls = 2
    Clients = {c1, c2, c3}
    MaxFailures = 5
SPECIFICATION FairSpec
PROPERTY Recovers
