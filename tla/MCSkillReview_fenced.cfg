SPECIFICATION Spec
CONSTANTS
    w1 = w1
    m1 = m1
    m2 = m2
    Worker = {w1}
    Message = {m1, m2}
    MaxAttempts = 1
    MaxBacklog = 2
    MaxFaults = 1
    MaxLapses = 1
INVARIANT CandidateStays
CHECK_DEADLOCK FALSE
