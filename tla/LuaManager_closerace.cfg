\* The web server stops while the worker is inside lua_close.
CONSTANTS
    Stoppers = {web}
    Readers = {}
    Urgent = {web}
    Lazy = {}
    ScriptKinds = {"plain"}
    MaxGen = 2
SPECIFICATION Spec
CHECK_DEADLOCK FALSE
PROPERTIES
    HooksOnlyLiveVM
