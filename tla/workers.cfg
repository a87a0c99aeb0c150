CONSTANTS
    w1 = w1
    k1 = k1
    k2 = k2
    o1 = o1
    None = None
    Wipes = {w1}
    Workers = {k1, k2}
    Phases <- MCOnePhase
    Others = {o1}
    BucketCount = 2
    FetchMax = 3
    Entries <- MCEntries
    Expiring <- MCExpiring
    MaxFaults = 1
SPECIFICATION MCSpec
INVARIANT SharesKept
PROPERTIES
    ErasureCompletes
    TurnsComeAgain
CHECK_DEADLOCK FALSE
