SPECIFICATION Spec
CONSTANTS
    Templates = {t1, t2}
    Energies = {5, 10, 50}
    PruneAt = 2
    MaxCorpus = 2
    MaxChosenNoEdge = 0
    Tries = 2
    FlightBound = 2
    SeedBound = 3
INVARIANT SamplerAligned
PROPERTY FindsAreKept
