\* Two concurrent calls: the shared window, the hold after a 429, and the cached set behind its mutations.
SPECIFICATION ClientSpec
SYMMETRY Symmetric
CONSTANTS
    w1 = w1
    w2 = w2
    P = P
    NoOne = NoOne
    Workers = {w1, w2}
    Processes = {P}
    ProcessOf <- MCProcessOf
    Capacity = 2
    Window = 3
    Hold = 2
    Ttl = 2
    Final = 1
    MaxValue = 2
    MaxTime = 5
INVARIANTS
    WindowHolds
    ReadYourWrites
PROPERTIES
    HoldHeeded
