SPECIFICATION FairSpec
CONSTANTS
    Invocations <- SmallInvocations
    Word = 64
    Half = 8
    RamLimit = 16
INVARIANT TypeOK
INVARIANT AppIsReading
INVARIANT NoMisuse
INVARIANT LeftOpen
INVARIANT EndpointsOfOneSetting
INVARIANT OnlyAskedDevice
INVARIANT EnumerationVisitsAll
PROPERTY Terminates
CHECK_DEADLOCK FALSE
