SPECIFICATION Spec
CONSTANTS
    Readout = {p}
    Tool = {p, q}
    Caller = {c, d}
    Firmwares = {{"FCF", "SIU"}, {"PG", "RAW"}}
    Sources = {"HWPG", "DMA", "RAW"}
    Configs = {3}
    Polls = 1
    Retries = 1
    MaxJobs = 2
    MaxKills = 1
CHECK_DEADLOCK FALSE

INVARIANTS
    LinkInv
    PllCoherent

PROPERTIES
    ConfiguredInOrder
    JobsEnd
