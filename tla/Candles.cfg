CONSTANTS
    Prices = {1, 2}
    OpeningPrice = 1
    DayLength = 2
    LastMinute = 3
    Moves = 1
    Width = 2
    Lookback = 1
    CoarseLookback = 2
SPECIFICATION Spec
INVARIANTS
    TableTrue
    RollupIsFold
PROPERTIES
    LiveBarsGrow
