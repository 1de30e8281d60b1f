SPECIFICATION FairSpec
CONSTANTS
    Options <- SmallOptions
    Geometries <- SmallGeometries
    InLengths <- Lengths
    Byte = 2
    SectorLen = 2
INVARIANT TypeOK
INVARIANT SentInRange
INVARIANT ReadImage
INVARIANT WriteImage
INVARIANT DoneIsComplete
PROPERTY EndsClosed
CHECK_DEADLOCK FALSE
