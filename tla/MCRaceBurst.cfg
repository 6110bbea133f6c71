SPECIFICATION FairSpec
CONSTANTS
    Bursts = {b1, b2, b3}
    Probed = {b3}
    BurstSize = 2
    RaceQueueMax = 3
    ProbeQueueMax = 1
    TrackedMax = 1
    MaxFlight = 2
INVARIANTS UnprobedFindingIsReal RaceRecorded
PROPERTY TrackingEnds
