CONSTANTS
    Servers <- MCServers
    BodiesOf <- RequestBodies
    MaxProbes = 10
    ReproRuns = 1
    TriageBudget = 8
    Losses = {{}, {1}, {2, 3}}
    Facts <- Facts2
    Rejected <- MCRejected
    KeyRank <- MCKeys
    TokenKeys <- MCTokenKeys
    MaxValues = 2
    MaxRelations = 2
    Operands = {1, 2, 3}
    MaxOperands = 2
    PollGap = 2
    FormPaths <- MCPaths
    Tokens = {"t", "u", "w"}
    MaxTokens = 2
    TokenTTL = 1
    Cooldown = 2
    MaxHarvests = 2
    ReauthAt = 3
    RefreshCooldown = 1
    MaxClock = 3
    MaxLessons = 3
SPECIFICATION ResultsSpec
CHECK_DEADLOCK FALSE
INVARIANT RefreshRenews
