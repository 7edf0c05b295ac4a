SPECIFICATION Spec
CONSTANTS
    w1 = w1
    w2 = w2
    m1 = m1
    fresh = fresh
    revised = revised
    Worker = {w1, w2}
    MaxFaults = 1
    Message = {m1}
    MaxBacklog = 1
    MaxLapses = 1
    Chunks = 2
    MaxModelCalls = 4
    MaxAttempts = 2
    Candidate = {fresh, revised}
    Basis <- TheBasis
    Proposal <- TheProposal
    Absent = "absent"
    Torn = "torn"
    Original = {"A", "absent"}
    UserText = {"mine"}
    MaxCalls = 3
    MaxStops = 2
    MaxEdits = 1
SYMMETRY Processes
INVARIANTS
    TextsKept
    RecordsRecover
    AuditsTrue
    PlanHolds
    CallsAccounted
PROPERTY FencesHold
CHECK_DEADLOCK FALSE
