SPECIFICATION Spec
CONSTANTS
    s1 = s1
    s2 = s2
    Session = {s1, s2}
    r1 = r1
    r2 = r2
    Run = {r1, r2}
    None = None
    p1 = p1
    p2 = p2
    Plugin = {p1, p2}
    Parent = {k1, k2}
    Owned = {r1, r2}
    Server = {p2}
    Attempts = 2
    Fixed = Fixed
    Bad = Bad
    Inline = 1
    MaxRecords = 3
    MaxRevision = 4
    MaxHarms = 1
    MaxSaves = 5
    MaxFails = 2
    k1 = k1
    k2 = k2
    Caller = {k1, k2}
    a1 = a1
    a2 = a2
    Attempt = {a1, a2}
    MaxCards = 2
    MaxRefusals = 2
    Failed = Failed
    Owner <- Own
    MaxAttempts = 2
    MaxOpens = 2
    MaxMoves = 1
SYMMETRY Sym
INVARIANT OwnersTrue
PROPERTIES
    ObjectsTrue
    CardsTrue
    LiveTrue
CHECK_DEADLOCK FALSE
