SPECIFICATION FairSpec
CONSTANTS
    t1 = t1
    t2 = t2
    e1 = e1
    e2 = e2
    Templates = {t1, t2}
    Endpoints = {e1, e2}
    EndpointOf <- TwoEndpoints
    RaceWrites = {t1}
    SkipOnCrash = TRUE
    SkipEndpointOn500 = TRUE
    CrashReplayCount = 2
    CrashReplayPerEndpoint = 1
    CrashReplayQueueMax = 2
    ProbeBudget = 1
    ProbesAtOnce = 1
    ProbeQueueMax = 1
    SequenceMode = TRUE
    SequenceQueueMax = 1
    RaceBurst = 2
    RaceQueueMax = 1
    MaxFlight = 2
INVARIANT ReplaysBounded
PROPERTIES
    BlockedIsFinal
    ProbesAreSent
