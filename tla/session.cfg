\* The launches, the rollout evaluator, the console and the browser around the desk.
SPECIFICATION Spec
CHECK_DEADLOCK FALSE
CONSTANTS
    None = None
    Placeholder = Placeholder
    TypeNames <- MCTypeNames
    HomeOf <- MCHomeOf
    GameOf <- MCGameOf
    KeysIn <- MCKeysIn
    Builtin <- MCBuiltin
    Serves <- MCServes
    Captured <- MCCaptured
    Synthetic <- MCSynthetic
    Casts = {"ssbm"}
    FirstConfigs <- MCFirstConfigs
    Additions = {"doubles"}
    Mappings <- MCMappings
    Options <- MCOptions
    Abbreviates <- MCAbbreviates
    Answers = {"ok", "nameless", "limited"}
    RateLimitWaits = 1
    MaxLaunches = 2
    MaxEdits = 1
    MaxChanges = 1
    Debounce = 1
    IdleGap = 2
    Timeout = 3
    MaxClock = 4
    MaxAsks = 4
    MaxPanics = 1
    Nil = Nil
    Numbers = {12}
    Bouts = {"ma", "mb"}
    BoutEvent <- MCBoutEvent
    Cast <- MCCast
    BestOf <- MCBestOf
    FirstSides <- MCFirstSides
    Rearranged <- MCRearranged
    MaxGames = 2
    MaxOpened = 2
    MaxReports = 1
    MaxPolled = 2
    Missing = Missing
    Worlds = {"wa"}
    Demo = "demo"
    SaveDebounce = 2
    MaxSeconds = 2
    MaxRevisions = 2
    MaxFaults = 1
    MaxDesks = 2
    MaxRequests = 2
INVARIANTS
    ArmedOnlyAnswered
    LaunchesApart
    OneEvaluation
    RequestsMet
    ReportsSound
    ChangesStored
PROPERTIES
    SetAside
