\* Calls that summon players, CALLED evidence on the site; the roster changes; sets are reset.
SPECIFICATION Spec
CONSTANTS
    a = a
    b = b
    c = c
    p = p
    q = q
    r = r
    B1 = B1
    B2 = B2
    pc = pc
    ps5 = ps5
    NoSet = NoSet
    AllowAny = AllowAny
    NoOverride = NoOverride
    NoUndo = NoUndo
    NoDraft = NoDraft
    Sets <- OneSet
    Players = {p, q}
    Brackets = {B1}
    Setups = {1, 2, 3}
    Types = {pc, ps5}
    BracketOf <- BracketOfOneSet
    PlayersOf <- PlayersOfOneSet
    BracketTypes <- OneTypeOne
    ConflictOnly = {}
    CallAction = "Called"
    Escalate = FALSE
    RestWindow = FALSE
    InitialBoard <- TwoOfThree
    InitialSite <- ReadySite
    FlaggedPlayers = {}
    SnoozedSets = {}
    ReportedSets = {a}
    Reassigned = {3}
    SiteViews = {"Ready", "ActiveCalled", "Done"}
    LostSets = {}
    VanishingSets = {}
    ReopenedSets = {a}
CHECK_DEADLOCK FALSE
INVARIANTS
    NotesFollowBoard
PROPERTIES
    RequeuedRanksAgain
