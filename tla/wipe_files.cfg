CONSTANTS
    w1 = w1
    w2 = w2
    k1 = k1
    k2 = k2
    o1 = o1
    None = None
    Wipes = {w1, w2}
    Workers = {k1}
    Phases <- MCPhases
    Others = {o1}
SPECIFICATION Spec
INVARIANT ErasedOnlyWhenClean
CHECK_DEADLOCK FALSE
