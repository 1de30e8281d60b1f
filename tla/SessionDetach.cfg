SPECIFICATION Spec
CONSTANTS
    Options <- SmallOptions
    Firmwares <- SmallFirmwares
    StackSizes = {2}
    Rooms = {1, 8}
    Byte = 4
    SectorLen = 2
    RamLimit = 6
    BrecSize = 3
    BrecAlt = 9
    SearchFrom = 2
    SearchTo = 8
INVARIANT DetachAtEnd
CHECK_DEADLOCK FALSE
