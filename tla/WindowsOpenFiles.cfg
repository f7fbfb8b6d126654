SPECIFICATION Spec
CONSTANTS
    MaxHandle = 2
    Numbers = {n1, n2}
    Files = {f1, f2}
    Others = {dir}
    Room = 1
    Foreign = Foreign
    MaxForeign = 2
    None = None
INVARIANTS
    ReportedTruly
    NothingLeaks
    RestReported
PROPERTY CallReturns
