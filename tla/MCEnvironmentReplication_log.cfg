SPECIFICATION Spec
CONSTANTS
    a = a
    b = b
    x = x
    y = y
    Engine <- Two
    Event <- TwoEvents
    EventLimit = 2
    MaxAttempts = 2
    MaxBatches = 1
    MaxRecovery = 9
    MaxRevision = 2
    MaxFaults = 1
INVARIANT ReplicationTrue
PROPERTY RemoteIsLog
SYMMETRY Sym
CHECK_DEADLOCK FALSE
