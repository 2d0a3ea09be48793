CONSTANTS
    Callers = {c1, c2}
    Lookbacks = {3}
    MinTraining = 2
    MinCalibration = 1
    MaxLabels = 3
    MaxTrainings = 3
SPECIFICATION Spec
INVARIANTS
    RegistrySound
    OutOfSample
PROPERTIES
    CallsEnd
