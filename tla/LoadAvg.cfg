CONSTANTS
    Callers = {c1, c2}
    Versions = 3
SPECIFICATION LoadSpec
INVARIANTS
    OneSampler
    SnapshotConsistent
PROPERTIES
    EveryCallReturns
    SamplingContinues
