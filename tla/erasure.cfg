CONSTANTS
    k1 = k1
    s1 = s1
    r1 = r1
    r2 = r2
    q1 = q1
    q2 = q2
    d1 = d1
    None = None
    Keys = {k1}
    Uins = {s1, r1, r2}
    SenderOf <- MCSenderOf
    Envelopes <- MCBoth
    Requests = {q1, q2}
    Confirmers = {}
    Lease = 1
    TTL = 2
    MaxClock = 0
    Wiped = {s1, r1, r2}
    CASAttempts = 2
SPECIFICATION ErasureSpec
SYMMETRY MCSymmetry
CONSTRAINT MCBound
INVARIANTS
    OthersKeepMessage
    ClaimSurvivesWipes
PROPERTIES
    ErasedForGood
    TombstoneOnlyWhenAllWiped
CHECK_DEADLOCK FALSE
