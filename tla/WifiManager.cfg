\* Two users who give two commands between them, and a driver that may do anything.
CONSTANTS
    Users = {shell, web}
    MaxRetries = 3
    ApMayFail = TRUE
    MaxCommands = 2
    MaxEvents = 2
SPECIFICATION FairSpec
CHECK_DEADLOCK FALSE
INVARIANTS
    PendingMeansScheduled
    ConnectedIsReal
PROPERTIES
    SearchEnds
