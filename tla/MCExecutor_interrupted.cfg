SPECIFICATION Spec
CONSTANTS
    N = 3
    Deps <- SiblingDeps
    Agent <- SiblingAgent
    Gated = {}
    Feedback <- SiblingFeedback
    Limit <- SiblingLimit
    MaxGlobal = 7
    Concurrency = 1
    MaxWaves = 6
    MaxCalls = 2
    MaxCrashes = 1
    MaxFaults = 0
INVARIANT RoutesAreLegal
CHECK_DEADLOCK FALSE
