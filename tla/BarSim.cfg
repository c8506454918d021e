CONSTANTS
    r = r
    w = w
    NoOne = NoOne
    Reader = {r}
    Writer = {w}
    Timer = {r}
    ReadOp = {"get32", "get16"}
    ReadHalf = {0}
    WriteOp = {"set16"}
    Addr = {1}
    Value = {1}
    Zero = 0
    RequestLength = 3
    MaxPacket = 2
    MaxMessages = 2
    MaxPosted = 1
    MaxRequests = 1
SPECIFICATION FairSpec
CHECK_DEADLOCK FALSE

INVARIANTS
    BarSimInv

PROPERTIES
    ImplementsRegisters
    EverythingReturns
