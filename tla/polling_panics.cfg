\* Any task panics.
SPECIFICATION Spec
CONSTANTS
    B1 = B1
    B2 = B2
    Brackets = {B1}
    Unstructured = {B1}
    EmptyEvents = {}
    PollersPanic = TRUE
    WriterPanics = TRUE
    MaxPollers = 3
    MaxSeq = 2
    MaxMoment = 1
    MaxPanics = 2
    MaxMail = 2
INVARIANTS
    PollingGoesOn
    StructureLands
PROPERTIES
    InOrder
