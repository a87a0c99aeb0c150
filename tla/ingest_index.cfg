CONSTANTS
    k1 = k1
    s1 = s1
    r1 = r1
    q1 = q1
    q2 = q2
    q3 = q3
    d1 = d1
    None = None
    Keys = {k1}
    Uins = {s1, r1}
    SenderOf <- MCSenderOf
    Envelopes <- MCEnvelopes
    Requests = {q1, q2}
    Confirmers = {d1}
    Lease = 2
    TTL = 3
    MaxClock = 3
SPECIFICATION Spec
INVARIANT CommittedIsIndexed
CHECK_DEADLOCK FALSE
