\* Two sets of two brackets; the writer may panic.
SPECIFICATION Spec
CONSTANTS
    a = a
    b = b
    B1 = B1
    B2 = B2
    NoIntent = NoIntent
    NoPoll = NoPoll
    Sets <- TwoSets
    Brackets = {B1, B2}
    BracketOf <- TwoBracketOf
    Kinds = {"InProgress", "Report"}
    MaxAttempts = 2
    MaxIntents = 2
    MaxPolls = 1
    MaxRestarts = 0
    VanishingSets = {}
    Panics = TRUE
    OthersReport = {}
INVARIANTS
    OneTrip
