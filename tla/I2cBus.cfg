SPECIFICATION Spec
CONSTANTS
    Process = {p}
    Programs = {"reset", "getCurrentOpts", "SetFrequency", "qsfpctrl", "ddr3SpdReadString"}
    Freqs = {10000, 345, 94500, 15625, 200000}
    Modules = {0}
    MaxJobs = 3
    MaxKills = 1
    MaxErrors = 1
CHECK_DEADLOCK FALSE

INVARIANTS
    
    ClockInv

PROPERTIES
    ProgramsEnd
