CONSTANTS
    Callers = {c1, c2}
    MaxPid = 2
    Batch = 1
    MaxAge = 1
    MaxClock = 2
    MaxIncarnation = 2
    MaxCalls = 2
    MaxCount = 1
    NoOne = NoOne
    None = None
SYMMETRY Symmetry
SPECIFICATION Spec
INVARIANTS
    NotRunningIsTrue
    DepartedForgotten
PROPERTIES
    CountersGrow
CHECK_DEADLOCK FALSE
