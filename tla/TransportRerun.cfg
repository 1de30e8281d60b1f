SPECIFICATION RerunSpec
CONSTANTS
    Requests <- ReadRequests
    Sizes <- PacketSizes
    MaxTag = 2
    MaxRun = 2
INVARIANT CoherentAnswer
INVARIANT StaleOnlyWhenBehind
CHECK_DEADLOCK FALSE
