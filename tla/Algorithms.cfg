CONSTANTS
    Topics = {"candidates", "assessments", "observations", "features", "series", "bars", "sessions", "calendar"}
    Instruments = {"i1", "i2"}
    MaxGap = 1
    HistoryLimit = 4
    MaxHistory = 5
    MaxTime = 4
    MinIvObservations = 2
SPECIFICATION Spec
INVARIANTS
    AssessmentsSound
    ObservationsSound
    FeaturesSound
CHECK_DEADLOCK FALSE
