SPECIFICATION InstallationSpec
CONSTANTS
    Files = 2
    Kinds = {"replace", "create", "delete", "read"}
    MaxEdits = 1
    MaxFaults = 1
    MaxCrashes = 2
    Release = {1, 2, 3}
    Bundle <- MCBundle
    Descends <- MCDescends
    Compatible <- MCCompatible
    Excel = {2, 3}
    Options <- MCOptions
    MaxGenerations = 2
    MaxCommands = 3
    MaxUserEdits = 1
    MaxStops = 1
    MaxEnvs = 2
INVARIANTS
    ReceiptCommitsLast
    WholeOrJournaled
    ReportedTruly
    ReceiptIsTrue
PROPERTIES
    UserBytesKept
    TakesOnlyItsOwn
CHECK_DEADLOCK FALSE
