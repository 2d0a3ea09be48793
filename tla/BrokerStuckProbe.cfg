CONSTANTS
    FailureThreshold = 2
    RecoveryTimeout = 1
    HalfOpenMaxCalls = 1
    Tasks = {t1, t2}
    MaxRetries = 1
    Permits = 1
    MaxFailures = 2
SPECIFICATION Spec
INVARIANT HalfOpenAwaitsProbe
CHECK_DEADLOCK FALSE
