SPECIFICATION UnitSpec
CONSTANTS
    PllTimeout = 1
    PllErrorDelay = 0
    PllFatalDelay = 0
    RecoveryLimit = 0
    PllDurations <- EvenShiftRuns
    MaxPllTicks = 2
    Period = 4
    ShiftStep = 3
    Fractions <- SmallFractions
    MaxRequests = 2
    AuxTimeout = 2
    AuxErrorDelay = 1
    AuxFatalDelay = 2
    AuxLimit = 2
    MaxAuxTicks = 3
    SynTimeout = 1
    SynErrorDelay = 0
    SynFatalDelay = 1
    SynLimit = 1
    MaxSynTicks = 2
    Controls <- Settings
    MuxErrors = 2
    MuxErrorDelay = 0
    MuxPollDelay = 0
    MaxMuxTicks = 1
INVARIANT ChipTypesOK
INVARIANT StatusNotStale
INVARIANT ShiftsAddUp
INVARIANT ChipFollows
INVARIANT NoOldLock
INVARIANT ReadyIsSetUp
INVARIANT OutputsOfOneSource
PROPERTY ImplementLifecycle
PROPERTY ChipsServe
