SPECIFICATION FairSpec
CONSTANTS
    MainBlocks = 2
    MainUnits = 2
    UpperBlocks = 1
    BankUnits = 4
    Timeout = 2
    Files = {1, 4, 5, 6}

INVARIANTS
    NoSilentLoss
    FlashInv

PROPERTIES
    Returns
