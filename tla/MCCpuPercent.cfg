CONSTANTS
    Callers = {c1, c2}
    Sleepers = {c1}
    MaxCPU = 2
    Burst = 2
    Work <- MCWork
    MaxTicks = 2
    MaxCalls = 2
    Nil = Nil
    NoOne = NoOne
SPECIFICATION Spec
INVARIANTS
    IntervalsTile
    PercentInRange
    PercentIsBusyShare
PROPERTIES
    BaselineSurvives
CHECK_DEADLOCK FALSE
