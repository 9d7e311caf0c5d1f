\* A set's intents through a crash and a restart; under fairness no intent stays queued or held.
SPECIFICATION FairSpec
CONSTANTS
    a = a
    b = b
    B1 = B1
    B2 = B2
    NoIntent = NoIntent
    NoPoll = NoPoll
    Sets <- OneSet
    Brackets = {B1}
    BracketOf <- OneBracketOf
    Kinds = {"Report"}
    MaxAttempts = 2
    MaxIntents = 2
    MaxPolls = 1
    MaxRestarts = 1
    VanishingSets = {a}
    Panics = FALSE
    OthersReport = {a}
INVARIANTS
    NoneStranded
PROPERTIES
    IntentsSettle
