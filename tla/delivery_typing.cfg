CONSTANTS
    m1 = m1
    m2 = m2
    u1 = u1
    u2 = u2
    g1 = g1
    g2 = g2
    p1 = p1
    p2 = p2
    p3 = p3
    t1 = t1
    None = None
    Messages = {m1, m2}
    Uins = {u1}
    To <- MCToOne
    Expiring = {m1, m2}
    Typing = {t1}
    MaxAckPending = 1
    MaxActive = 2
    MaxCursors = 1
    PageSize = 1
    Gateways = {g1}
    Polls = {}
SPECIFICATION Spec
SYMMETRY MCSymmetry
INVARIANT TypingTakesNoRoom
CHECK_DEADLOCK FALSE
