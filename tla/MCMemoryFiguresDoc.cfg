SPECIFICATION MemorySpec
CONSTANTS
    Total = 4
    Width = 5
    MaxMoves = 0
    Watermark = 2
    Systems <- AllSystems
INVARIANT AvailableWithinTotal
