CONSTANTS
    None = None
    Types = {"org", "project"}
    MaxPerType = 2
    Writes <- MCWrites
    Reads <- MCReads
    Plain = {"project"}
    Targets <- MCTargets
    MaxDepth = 2
    Fanout = 1
    QueueMax = 1
    Seeds = 2
    MaxFlight = 2
    MaxObjects = 3
SPECIFICATION Spec
CHECK_DEADLOCK FALSE
INVARIANTS
    GraphConsistent
    GraphIsTrue
    PicksStayInTenant
    NoOrphanFiles
PROPERTIES
    AccusedWasDeleted
    ChainsEnd
