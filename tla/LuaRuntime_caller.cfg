\* Endless scripts and stops.
CONSTANTS
    Shells = {}
    Webs = {web}
    Nobody = Nobody
    QueueLen = 1
    MaxCalls = 2
    ScriptKinds = {"plain"}
    MaxGen = 2
SPECIFICATION FairSpec
CHECK_DEADLOCK FALSE
PROPERTIES
    StopFreesCaller
