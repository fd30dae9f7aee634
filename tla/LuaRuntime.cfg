\* A shell and a web server, one call each, any number of stops.
CONSTANTS
    Shells = {shell}
    Webs = {web}
    Nobody = Nobody
    QueueLen = 1
    MaxCalls = 1
    ScriptKinds = {"plain"}
    MaxGen = 1
SPECIFICATION Spec
CHECK_DEADLOCK FALSE
INVARIANTS
    BusyCoversVM
    InterruptedCallsStopped
PROPERTIES
    ImplementsWorker
