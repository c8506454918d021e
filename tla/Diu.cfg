SPECIFICATION FairSpec
CONSTANTS
    Timeout = 1
    SerialLength = 2
    InterfaceCommands = {"DIU_RCIFSTW"}
    MaxCommands = 3

INVARIANTS
    DiuInv

PROPERTIES
    AnswerIsOwn
    CallsReturn
