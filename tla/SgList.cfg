SPECIFICATION Spec
CONSTANTS
    PageSize = 2
    Limit = 6
    Scatters <- MCScatters
    MaxSg = 3

INVARIANTS
    ListsExact
    DeviceSeesBuffer
    AnnouncedIsEvent
