CONSTANTS
    w1 = w1
    w2 = w2
    k1 = k1
    k2 = k2
    o1 = o1
    r1 = r1
    None = None
    NoPair = NoPair
    Wipes = {w1, w2}
    Workers = {k1, k2}
    Phases <- MCPhases
    Others = {o1}
    Logins = {w1, w2}
    Refreshes = {k1, k2}
    Logouts = {o1}
    Revokers = {r1}
    Second = 2
    MaxClock = 2
SPECIFICATION MCSpec
SYMMETRY MCSymmetry
CONSTRAINT MCBound
INVARIANTS
    WipedStaysWiped
    LeftoversNamed
    ZeroFootprint
    OneRotation
    WipeEndsSessions
PROPERTIES
    StaleWorkerHarmless
    DeadCannotRotate
CHECK_DEADLOCK FALSE
