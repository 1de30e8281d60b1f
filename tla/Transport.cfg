SPECIFICATION FairSpec
CONSTANTS
    Requests <- AllRequests
    Sizes <- PacketSizes
    MaxTag = 3
    MaxRun = 1
INVARIANT TypeOK
INVARIANT FreshAnswer
INVARIANT WriteIntegrity
INVARIANT StaleStartFails
PROPERTY StallOutlastsCalls
PROPERTY ImplementsChannel
PROPERTY CallsReturn
CHECK_DEADLOCK FALSE
