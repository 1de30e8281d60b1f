SPECIFICATION Spec
CONSTANTS
    Invocations <- UsageInvocations
    Word = 64
    Half = 8
    RamLimit = 16
INVARIANT UsageKept
CHECK_DEADLOCK FALSE
