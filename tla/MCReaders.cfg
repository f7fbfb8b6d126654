SPECIFICATION Spec
CONSTANTS
    Programs <- AllPrograms
    Mixing <- AllMixing
    Fragile <- AllFragile
    Partial <- AllPartial
    Leaking <- AllLeaking
    Flow <- AllFlow
    Items = {i1, i2}
    MaxIncarnation = 2
INVARIANTS
    HandlesInOrder
    OneProcess
    StayersListed
    VanishingHarmless
    Orderly
