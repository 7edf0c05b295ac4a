SPECIFICATION FairSpec
CONSTANTS
    N = 3
    Deps <- SiblingDeps
    Agent <- SiblingAgent
    Gated = {1}
    Feedback <- SiblingFeedback
    Limit <- SiblingLimit
    MaxGlobal = 7
    Concurrency = 2
    MaxWaves = 2
    MaxCalls = 2
    MaxCrashes = 1
    MaxFaults = 1
INVARIANTS
    SavesAreLegal
    LaunchesAccounted
    SessionsAccounted
    ScheduleSound
PROPERTIES
    SavesExtend
    CallReturns
CHECK_DEADLOCK FALSE
