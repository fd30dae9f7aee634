\* Two clients, two calls each, so that a frame is left and entered again, in
\* front of a queue of one slot, so that writers block, are refused and let in.
CONSTANTS
    Clients = {shell, web}
    Nobody = Nobody
    QueueLen = 1
    MaxCalls = 2
SPECIFICATION FairSpec
CHECK_DEADLOCK FALSE
INVARIANTS
    NoDanglingFrame
    OneAnswerComing
    AnswerFitsCall
PROPERTIES
    ImplementsService
    EveryCallReturns
