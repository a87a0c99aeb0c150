CONSTANTS
    m1 = m1
    m2 = m2
    u1 = u1
    u2 = u2
    g1 = g1
    g2 = g2
    p1 = p1
    p2 = p2
    p3 = p3
    t1 = t1
    None = None
    Messages = {m1, m2}
    Uins = {u1}
    To <- MCToOne
    Expiring = {m1, m2}
    Typing = {}
    MaxAckPending = 2
    MaxActive = 2
    MaxCursors = 1
    PageSize = 1
    Gateways = {g1}
    Polls = {p1, p2}
SPECIFICATION Spec
SYMMETRY MCSymmetry
INVARIANT CursorNeverSkips
CHECK_DEADLOCK FALSE
