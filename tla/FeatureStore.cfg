CONSTANTS
    e1 = e1
    e2 = e2
    f1 = f1
    g1 = g1
    Engines = {e1, e2}
    Runs = {r1, r2}
    Features = {f1, g1}
    Owner <- MCOwner
    Referencing = {g1}
    MaxBars = 3
SPECIFICATION Spec
INVARIANTS
    OnlineIsStored
    LatestServed
PROPERTIES
    NoGaps
