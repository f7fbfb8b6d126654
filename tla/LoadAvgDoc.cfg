CONSTANTS
    Callers = {c1, c2}
    Versions = 3
SPECIFICATION LoadSpec
PROPERTY UpdatesByInterval
