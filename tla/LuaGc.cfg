CONSTANTS
    Main = 1
    Objects <- MCObjects
    Scenarios <- MCScenarios
    StackMax = 2
    SweepMax = 1
SPECIFICATION Spec
CHECK_DEADLOCK FALSE
INVARIANTS AssertsHold NothingLost Tricolour GarbageGoes FinalizersRun
PROPERTIES FinalizedWhenUnreachable
