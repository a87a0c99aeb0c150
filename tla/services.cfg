CONSTANTS
    x1 = x1
    x2 = x2
    y1 = y1
    y2 = y2
    y3 = y3
    u1 = u1
    u2 = u2
    k1 = k1
    k2 = k2
    k3 = k3
    i1 = i1
    i2 = i2
    j1 = j1
    j2 = j2
    pin1 = pin1
    Uins = {u1, u2}
    Clients = {u1}
    Requests = {x1, x2}
    KeyIds = {i1, i2}
    KeysPerSender = 1
    MaxEpoch = 3
    MaxRows = 1
    Conns = {x1, x2}
    MaxConnections = 2
    MaxBus = 1
    Subjects = {j1, j2}
    Sockets = {x1, x2}
    UndeliveredMaxLen = 1
    BufferSize = 2
    MaxFrames = 4
    Slots = 3
    CreatedAt <- MCCreatedAt
    OfPeer = {1, 3}
    Wipers = {j1, j2}
    PageLimit = 1
    MaxKey = 2
    Fetches = {x1, x2}
    Uploads = {j1, j2}
    FetchLimit = 2
    Objects = {x1, x2}
    Erasures = {j1, j2}
    Owners = {u1, u2}
    Wiped = u1
    NoOwner = NoOwner
    WipeKeys = {k1, k2, k3}
    Pins = {pin1}
    Challenges = {x1, x2}
    Asks = {y1, y2, y3}
    Nothing = Nothing
INIT MCInit
NEXT MCNext
SYMMETRY MCSymmetry
CONSTRAINT MCBound
INVARIANTS
    EpochFixesRoster
    KeysWithinEpoch
    WipedIsCut
    NoStrandedSubscription
    PresenceSettles
    UndeliveredBounded
    OncePerConnection
    HistoryHidesWiped
    PagesLeaveNoGap
    KeyServedOnce
    FilesErased
    OthersFilesStay
PROPERTY KeyChangesProven
CHECK_DEADLOCK FALSE
