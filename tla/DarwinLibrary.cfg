SPECIFICATION Spec
CONSTANTS
    Callers = {c1, c2}
    Paths = {IOKit, System}
    Symbols = {s1, s2}
    NoOne = NoOne
    None = None
INVARIANTS
    NoMapRace
    OnceOnly
PROPERTIES
    EveryCallReturns
    Implements
