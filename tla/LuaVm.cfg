CONSTANTS
    IntBits = 8
    Numerals <- MCNumerals
    StringOrder <- MCStringOrder
    MaxArgC = 15
    MaxArgBx = 31
    MaxArgVB = 7
    MaxArgVC = 3
    MaxVars = 10
    NumPrograms <- MCNumPrograms
    Program <- MCProgram
    MaxStops = 1
    MaxStack = 60
    StackErrSpace = 12
    MinStack = 4
    MaxTagLoop = 3
    MaxCcmt = 3
    MaxCcalls = 8
    MaxCaptures = 4
    MaxSize = 12
SPECIFICATION Spec
CHECK_DEADLOCK FALSE
INVARIANTS RunsAsWritten AssertsHold ClosedOnce UpvaluesAlive
