SPECIFICATION Spec
CONSTANTS
    Tools = {"boardtest", "board_to_board_test"}
    NChannels = 2
    ChannelsPerQsfp = 1
    Pins = {0, 1, 2}
    MidPins = {0, 1}
    NConfigs = 2
    MaxTries = 1
    MaxRetries = 1
    MaxFaults = 1
    MaxErrors = 1
CHECK_DEADLOCK FALSE

INVARIANTS
    NoFalseAlarm
    FaultReported
    BoardInv
