SPECIFICATION FairSpec
CONSTANTS
    Workers = {w1, w2}
    MinConcurrency = 1
    Concurrency = 2
    SequentialBaseline = TRUE
    WorkCap = 2
    ResultCap = 2
    SendBound = 3
INVARIANTS
    Conservation
    NoQueueing
    CompleteReport
PROPERTIES
    ImplementsLedger
    StopEndsRun
    WorkersExit
