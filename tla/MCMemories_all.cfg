SPECIFICATION MemoriesSpec
CONSTANTS
    main = main
    replica = replica
    c1 = c1
    c2 = c2
    c3 = c3
    a = a
    b = b
    r = r
    o1 = o1
    k1 = k1
    k2 = k2
    k3 = k3
    s1 = s1
    s2 = s2
    s3 = s3
    r1 = r1
    q1 = q1
    q2 = q2
    q3 = q3
    t1 = t1
    t2 = t2
    Client = {t1, t2}
    Nobody = Nobody
    MaxRevision = 2
    Database = {main, replica}
    Connection = {c1, c2, c3}
    Caller = {c1}
    Writer = {c2}
    Reader = {c1}
    Home <- Homes
    Id = {a, b, r}
    Key = {k1, k2, k3}
    Owner = {o1}
    Shared = Shared
    Nothing = Nothing
    Operations <- Asked
    Followed <- Repeated
    CacheEntries = 1
    MaxTable = 3
    Wrapped = {s1}
    Beside = {q3}
    Overlapping = {s2, s3}
    Retry = {r1}
    Delivery = {q1, q2}
    MaxPins = 3
    Window = 1
    MaxCheckpoint = 4
    MaxRun = 3
    MaxFails = 1
    None = None
SYMMETRY Sym
INVARIANTS
    ReplicasTrue
    RepeatsGuarded
    JournalHonest
    FenceHolds
    BackupIsEarlier
PROPERTIES
    RepliesTrue
    RevokedNeverConsumed
    NothingLost
CHECK_DEADLOCK FALSE
