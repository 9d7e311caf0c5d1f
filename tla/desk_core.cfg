\* Two brackets sharing a player, two stations, torn fetches, undo, reports.
SPECIFICATION Spec
CONSTANTS
    a = a
    b = b
    c = c
    p = p
    q = q
    r = r
    B1 = B1
    B2 = B2
    pc = pc
    ps5 = ps5
    NoSet = NoSet
    AllowAny = AllowAny
    NoOverride = NoOverride
    NoUndo = NoUndo
    NoDraft = NoDraft
    Sets <- TwoSets
    Players = {p, q, r}
    Brackets = {B1, B2}
    Setups = {1, 2}
    Types = {pc}
    BracketOf <- BracketOfTwo
    PlayersOf <- PlayersOfTwo
    BracketTypes <- OneType
    ConflictOnly = {}
    CallAction = "InProgress"
    Escalate = FALSE
    RestWindow = FALSE
    InitialBoard <- FreeBoard
    InitialSite <- ReadySite
    FlaggedPlayers = {}
    SnoozedSets = {}
    ReportedSets = {a}
    Reassigned = {}
    SiteViews = {"Ready", "Active", "Done"}
    LostSets = {a}
    VanishingSets = {}
    ReopenedSets = {}
VIEW AlikeStations
CHECK_DEADLOCK FALSE
INVARIANTS
    NoDoubleBooking
    OneStationPerSet
PROPERTIES
    SeatsOneAtATime
