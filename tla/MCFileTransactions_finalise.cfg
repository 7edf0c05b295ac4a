SPECIFICATION Spec
CONSTANTS
    Files = 2
    Kinds = {"replace", "create", "delete", "read"}
    MaxEdits = 0
    MaxFaults = 0
    MaxCrashes = 1
INVARIANT CommittedIsFinalised
CHECK_DEADLOCK FALSE
