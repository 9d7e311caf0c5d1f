\* Stations whose set finished are freed in the end.
SPECIFICATION FairSpec
CONSTANTS
    a = a
    b = b
    c = c
    p = p
    q = q
    r = r
    B1 = B1
    B2 = B2
    pc = pc
    ps5 = ps5
    NoSet = NoSet
    AllowAny = AllowAny
    NoOverride = NoOverride
    NoUndo = NoUndo
    NoDraft = NoDraft
    Sets <- OneSet
    Players = {p, q}
    Brackets = {B1}
    Setups = {1, 2}
    Types = {pc}
    BracketOf <- BracketOfOneSet
    PlayersOf <- PlayersOfOneSet
    BracketTypes <- OneTypeOne
    ConflictOnly = {}
    CallAction = "InProgress"
    Escalate = FALSE
    RestWindow = TRUE
    InitialBoard <- FreeBoard
    InitialSite <- ReadySite
    FlaggedPlayers = {p}
    SnoozedSets = {a}
    ReportedSets = {a}
    Reassigned = {}
    SiteViews = {"Ready", "Done"}
    LostSets = {a}
    VanishingSets = {}
    ReopenedSets = {}
CHECK_DEADLOCK FALSE
PROPERTIES
    FinishedStationsFree
