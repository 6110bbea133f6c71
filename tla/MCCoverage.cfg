SPECIFICATION FairSpec
CONSTANTS
    Requests = {r1, r2}
    Probes = {r2}
    Edges = {e1}
    Width = 4
    PathBound = 1
    Interval = 2
    Resets = TRUE
    Streaming = TRUE
    Failures = TRUE
INVARIANT CountedOnce
PROPERTY
    CatchesUp
