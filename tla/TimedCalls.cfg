SPECIFICATION Spec
CONSTANTS
    MaxPieces = 3
    PipeSize = 2
INVARIANTS
    NothingLeftBehind
PROPERTIES
    Implements
    ResultQuiet
    CallReturns
    WorkerEnds
CHECK_DEADLOCK FALSE
