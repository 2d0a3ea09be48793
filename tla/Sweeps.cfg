CONSTANTS
    Runs = {r1, r2}
    Symbols = {s1}
    Width = 1
    MaxReadings = 2
    Moving = {s1}
    MaxCount = 8
    MaxLives = 2
    MaxFaults = 1
SPECIFICATION Spec
INVARIANTS
    FedOnce
PROPERTIES
    CatchesUp
    RunsEnd
