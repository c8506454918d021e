SPECIFICATION FairSpec
CONSTANTS
    Threads = {t1, t2}
    Nobody = Nobody
    N = 4
    M = 6
    Sizes <- MCSizes
    MaxEvents = 9

INVARIANTS
    WritableSlotsClear
    HeldIntact

PROPERTIES
    FalseOnlyIfEmpty
    ImplementsFifo
    EveryEventRecycled
