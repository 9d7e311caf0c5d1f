\* Every projection of small worlds: who plays where, what is missed, how brackets
\* end, which option of a station is best, what a rehearsal plays back.
SPECIFICATION PSpec
CHECK_DEADLOCK FALSE
CONSTANTS
    pc = pc
    ps5 = ps5
    NoSet = NoSet
    AllowAny = AllowAny
    NoOverride = NoOverride
    Brackets = {1, 2}
    Setups = {1, 2}
    Players = {1, 2, 3, 4, 5, 6, 7}
    Types = {pc, ps5}
    Worlds <- MCWorlds
    MaxTime = 60
    TopK = 2
    MaxElapsed = 12
INVARIANTS
    OneSetAtATime
    NothingMissed
    PlayedOut
    DepthsAreLongest
    PathsAreFloors
    ReplayTrue
PROPERTIES
    ServedAsPlayed
    SheetFollowed
    Ends
