SPECIFICATION ClockFairSpec
CONSTANTS
    PllTimeout = 1
    PllErrorDelay = 0
    PllFatalDelay = 0
    RecoveryLimit = 1
    PllDurations <- EvenRuns
    MaxPllTicks = 2
    ClkDetectTimeout = 0
    ClkErrorDelay = 1
    ClkPollDelay = 1
    ClkBreaks = FALSE
    MaxClkTicks = 2
INVARIANT MuxIsSet
