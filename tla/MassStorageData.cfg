SPECIFICATION Spec
CONSTANTS
    Options <- SmallOptions
    Geometries <- SmallGeometries
    InLengths <- Lengths
    Byte = 2
    SectorLen = 2
INVARIANT WriteHasData
CHECK_DEADLOCK FALSE
