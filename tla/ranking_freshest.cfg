\* A held ranking that comes back over newer ones.
SPECIFICATION MCSpec
CHECK_DEADLOCK FALSE
CONSTANTS
    Debounce = 1
    IdleGap = 2
    Timeout = 3
    MaxClock = 5
    MaxAsks = 4
    MaxPanics = 1
INVARIANT FreshestRanking
