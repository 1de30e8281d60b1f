SPECIFICATION FairSpec
CONSTANTS
    HeaderLen = 3
    Slots = 4
    Width = 14
    Word = 16
    Firmwares <- SmallFirmwares
    SectorLen = 2
    BrecLen = 2
    SysinfoLen = 1
    SearchFrom = 2
    SearchTo = 14
INVARIANT TypeOK
INVARIANT EntriesDescribeFile
INVARIANT ImageBehindMembers
INVARIANT ReadyIsComplete
INVARIANT NoPartialImage
PROPERTY ImplementsArchive
PROPERTY EndsClean
CHECK_DEADLOCK FALSE
