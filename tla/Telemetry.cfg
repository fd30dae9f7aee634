\* Scripts, some of which pass telemetry.set a bad value, a VM that may run out of
\* memory, and the web server.
CONSTANTS
    Worker = worker
    Others = {web}
    Resetters = {web}
    Wrap = 2
    MaxDepth = 2
    Careless = TRUE
    ShortOfMemory = TRUE
SPECIFICATION FairSpec
CHECK_DEADLOCK FALSE
PROPERTIES
    ImplementsCounters
    ServedUnlessLeaked
