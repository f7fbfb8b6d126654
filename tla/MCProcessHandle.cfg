CONSTANTS
    Callers = {c1, c2}
    Maker = m
    MaxClock <- MCMaxClock
    MaxIncarnation = 2
    Drift = {0, 1}
    MaxOps = 2
    BootTimes = {10, 12}
    Nil = Nil
SYMMETRY Symmetry
SPECIFICATION Spec
INVARIANTS
    IsRunningCorrect
    PercentPlausible
PROPERTIES
    CacheSettles
    IdentityPinned
CHECK_DEADLOCK FALSE
