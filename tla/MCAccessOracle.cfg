CONSTANTS
    alice = alice
    bob = bob
    guest = guest
    o1 = o1
    o2 = o2
    None = None
    Identities <- MCIdentities
    Session <- MCSession
    ApiKey <- MCApiKey
    Servers <- MCServers
    MaxPerEndpoint = 2
    QueueMax = 2
    MaxFlight = 2
SPECIFICATION Spec
INVARIANTS
    ProbesBounded
    BypassIsGrounded
    ProbeCarriesShadow
    ReplayFindingsAreReal
