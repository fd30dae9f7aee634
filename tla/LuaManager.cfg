\* Two stoppers and a memory reader against scripts of every kind and resets, in
\* every interleaving.
CONSTANTS
    Stoppers = {shell, web}
    Readers = {status}
    Urgent = {}
    Lazy = {}
    ScriptKinds = {"plain", "guarded", "coroutine"}
    MaxGen = 2
SPECIFICATION FairSpec
CHECK_DEADLOCK FALSE
INVARIANTS
    VMExclusive
    NoStaleStop
    InterruptedMeansStopped
PROPERTIES
    StopEndsScript
