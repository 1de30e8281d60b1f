SPECIFICATION Spec
CONSTANTS
    Requests <- AllRequests
    Sizes <- PacketSizes
    MaxTag = 1
    MaxRun = 1
INVARIANT NoDataIsError
CHECK_DEADLOCK FALSE
