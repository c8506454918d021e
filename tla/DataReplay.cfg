SPECIFICATION Spec
CONSTANTS
    LastChannel = 1
    BlockWords = 2
    RegionBlocks = 2
    FileWords = {1, 4, 5}
    MaxWords = 5
    MaxPolls = 1
    MaxRuns = 2

INVARIANTS
    ReplayInv

PROPERTIES
    Delivers
