CONSTANTS
    FailureThreshold = 3
    RecoveryTimeout = 1
    HalfOpenMaxCalls = 1
    Scheduled = sched
    Manual = {m1, m2}
    Gate = "market_hours"
    RetryAttempts = 1
    MaxFailures = 4
SPECIFICATION FairSpec
INVARIANTS
    HealthTrue
PROPERTIES
    RunsEnd
    Recovers
    DisabledDrains
