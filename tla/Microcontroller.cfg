SPECIFICATION Spec
CONSTANTS
    Pages = 2
    PageSize = 2
    Sizes = {3, 6, 8, 10}
    MaxPolls = 1
    MaxJobs = 2
    MaxFaults = 1
CHECK_DEADLOCK FALSE

INVARIANTS
    UcInv

PROPERTIES
    StartsOnWholeImage
