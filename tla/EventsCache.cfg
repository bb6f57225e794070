SPECIFICATION FairSpec
CONSTANTS
    Keys = {k1, k2}
    NoKey = NoKey
    Handlers = {h1, h2}
    TTL = 2
    MaxLatency = 1
    MaxWrites = 2
    MaxFailures = 1
INVARIANTS
    TypeOK
    BoundedAge
PROPERTIES
    StaleOnlyByLateSet
    Converges
