SPECIFICATION BuffersSpec
CONSTANTS
    Mems = {m1, m2, m3}
    EventSizes = {0, 2, 4}
    PacketSizes = {1, 2}
    MaxSpins = 1
    MaxRuns = 3

INVARIANTS
    BuffersInv

PROPERTIES
    EngineKeepsMemory
    ReportsKept
    StreamOpens
