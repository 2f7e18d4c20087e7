SPECIFICATION Spec
CONSTANTS
    QueueSize = 1
    Gathered = 1
    MaxInputs = 2
INVARIANTS
    CandidatesKept
    FlushCovers
PROPERTIES
    LoopReturns
    CloseEnds
CHECK_DEADLOCK FALSE
