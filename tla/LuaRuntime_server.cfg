\* A web server that asks for a reset behind an endless script.
CONSTANTS
    Shells = {shell}
    Webs = {web}
    Nobody = Nobody
    QueueLen = 1
    MaxCalls = 1
    ScriptKinds = {"plain"}
    MaxGen = 1
SPECIFICATION FairSpec
CHECK_DEADLOCK FALSE
PROPERTIES
    ServerComesBack
