CONSTANTS
    Topics = {"signals", "feeds", "line", "sources", "schedule", "replay", "labels", "charts", "verdicts", "circuit", "broker"}
    r1 = r1
    r2 = r2
    Requests = {r1, r2}
    Symbols = {"s1", "s2", "s3"}
    Signal <- MCSignal
    Breakouts = {"s2", "s3"}
    Correlated <- MCCorrelated
    Sector <- MCSector
    MaxPerSector = 1
    TopN = 2
    Cooldown = 1
    HistoryLimit = 2
    SignalsEnd = 3
    Articles = {"a", "b", "c", "d"}
    Alike <- MCAlike
    FeedLength = 2
    SeenMax = 2
    MaxPublished = 4
    MaxKept = 5
    Deltas <- MCDeltas
    MaxRuns = 4
    MaxFaults = 3
    Sources = {"events", "sectors"}
    Feeds = {"f1", "f2"}
    Required <- MCRequired
    Minimum <- MCMinimum
    Ttl <- MCTtl
    InCache = {"sectors"}
    WithCookies = {"events"}
    Volumes = {"sectors"}
    VolumeTtl = 1
    SourcesEnd = 5
    EventDates = {3, 6}
    Recurrences = {2, 9}
    Before = 2
    After = 2
    CacheTtl = 2
    ScheduleEnd = 10
    MaxRows = 4
    MaxHolding = 3
    MaxPath = 3
    Prices <- MCPrices
    BarDates = {"ordinary", "event_barrier"}
    Candles <- MCCandles
    MaxCandles = 6
    Fractal = 1
    AtrWindow = 2
    DecayBars = 2
    Levels = 2
    OpeningBars = 1
    BalanceBars = 2
    SessionBars = 3
    Bins = 3
    Readings <- MCReadings
    FailureThreshold = 2
    RecoveryTimeout = 2
    HalfOpenMaxCalls = 2
    MaxFailures = 3
    Clients = {"c1", "c2", "c3"}
    Tasks = {"t1", "t2"}
    MaxRetries = 1
    Permits = 1
SPECIFICATION Spec
INVARIANTS
    SignalsSound
    FeedsSound
    SourcesSound
    ReplaySound
    ExitsExplained
    ChartsSound
    VerdictsSound
    CallsGuarded
PROPERTIES
    HindsightFree
    LabelsSettle
SYMMETRY RequestSymmetry
CHECK_DEADLOCK FALSE
