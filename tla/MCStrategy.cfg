SPECIFICATION Spec
CONSTANTS
    NA = NA
    Sizings <- SmallSizings
    Signalings <- ShortSeries
    MaxLots = 4
    MaxDistance = 3
    MaxEquity = 24
    NumBars = 5
    Unit = 1440
INVARIANTS WithinBudget  Monotone
INVARIANTS NoRepaint SidesAlternate RideRatchets StopIsNear
CHECK_DEADLOCK FALSE
