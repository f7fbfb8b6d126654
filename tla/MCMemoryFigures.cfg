SPECIFICATION MemorySpec
CONSTANTS
    Total = 4
    Width = 5
    MaxMoves = 2
    Watermark = 2
    Systems <- AllSystems
INVARIANTS
    AvailableNear
    UsedNear
    WatermarkExact
