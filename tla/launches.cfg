\* Two launches at a time, with crashes, failing saves and an overlay of another version.
SPECIFICATION FairSpec
CONSTRAINT NotTorn
CHECK_DEADLOCK FALSE
CONSTANTS
    p1 = p1
    p2 = p2
    i1 = i1
    i2 = i2
    c1 = c1
    Processes = {p1, p2}
    Inodes = {i1, i2}
    Changes = {c1}
    NoFile = NoFile
    NoOne = NoOne
    MaxSite = 1
    Corruptions = {"overlay"}
INVARIANTS
    OneDesk
    StateFilesSound
PROPERTIES
    ChangesKept
    ChangesSaved
