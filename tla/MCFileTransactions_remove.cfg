SPECIFICATION Spec
CONSTANTS
    Files = 2
    Kinds = {"replace", "create", "delete", "read"}
    MaxEdits = 0
    MaxFaults = 1
    MaxCrashes = 0
INVARIANT FailureRestores
CHECK_DEADLOCK FALSE
