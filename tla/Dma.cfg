SPECIFICATION FairSpec
CONSTANTS
    Procs = {p1, p2}
    Nobody = Nobody
    Timeout = 2
    MaxReleases = 2

INVARIANTS
    TransferConfigured
    NoTransferUnlessEnabled
    PointersInStep

PROPERTIES
    NoTruncatedEvent
    DisableReturns
