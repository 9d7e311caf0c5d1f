\* gg-admin processes against a site others change; the polls of one event
\* over a moving site, with crashes between two saves.
SPECIFICATION ReadsSpec
CHECK_DEADLOCK FALSE
CONSTANTS
    p1 = p1
    p2 = p2
    Null = Null
    Processes = {p1, p2}
    Commands <- MCCommands
    Live = 3
    Starts <- MCStarts
    Past = {1, 2}
    Owned <- MCOwned
    Events <- MCEvents
    Rosters <- MCRosters
    Unpaid = {33, 34}
    FirstEntrants <- MCFirstEntrants
    FirstPhases <- MCFirstPhases
    FirstSeeds <- MCFirstSeeds
    Standings <- MCStandings
    Me = 1
    PageSize = 2
    ResultCap = 2
    Strict = TRUE
    Reorders <- MCReorders
    Newcomers <- MCNewcomers
    MaxOthers = 1
    FirstRows <- MCRows
    Substitutes <- MCSubstitutes
    PhaseGroups <- MCPhaseGroups
    Links = {{1, 3}, {3, 2}}
    MinSample = 0
    MaxSample = 1
    MaxClock = 2
    MaxChanges = 2
    MaxCalls = 1
    OurRounds = {2}
INVARIANTS
    NumbersDistinct
    LandedOrReported
    RostersTrue
    EveryFinishArrives
    SamplesCurrent
