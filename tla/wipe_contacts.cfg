CONSTANTS
    w1 = w1
    w2 = w2
    k1 = k1
    k2 = k2
    o1 = o1
    None = None
    Wipes = {w1}
    Workers = {k1}
    Phases <- MCOnePhase
    Others = {o1}
SPECIFICATION FairSpec
PROPERTY EveryWipeErases
CHECK_DEADLOCK FALSE
