SPECIFICATION ProcessesSpec
CONSTANTS
    a = a
    b = b
    c = c
    Nobody = Nobody
    Proc <- Three
    MayDie <- Three
    DieInClaim = TRUE
    Survivors = 1
    lead = lead
    cmd = cmd
    sub = sub
    other = other
    Platform = {"posix", "win32"}
    Child = {lead, cmd, sub, other}
    Leader = lead
    Command = cmd
    MaxFaults = 2
    p1 = p1
    p2 = p2
    Plugin = {p1, p2}
    d1 = d1
    d2 = d2
    Dir = {d1, d2}
    NoDir = NoDir
    MaxGates = 2
    MaxLives = 2
    MaxTampers = 1
INVARIANTS
    HolderOwnsMutex
    NothingLeftBehind
    VerdictTrue
    HelperTracked
PROPERTIES
    LiveRecordStays
    LockSpec
    DeadHolderReplaced
    GateReturns
CHECK_DEADLOCK FALSE
