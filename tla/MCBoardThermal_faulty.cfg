SPECIFICATION ThermFaultsSpec
CONSTANTS
    N = 1
    InputSensor = 1
    Optional = {}
    Switched = {1}
    InitTimeout = 0
    RampTimeout = 0
    PowerfailDelay = 0
    ErrorDelay = 0
    DetectTimeout = 0
    ReadIntervalRun = 0
    ReadIntervalRamp = 0
    Voltages = {"NORMAL"}
    Durations <- EvenIterations
    MaxTicks = 1
    ThermDetectTimeout = 0
    ThermErrorDelay = 0
    ThermPollDelay = 0
    ShutdownPeriod = 2
    MaxThermTicks = 3
    ThermShuts = TRUE
    ThermAnswers <- MayFail
INVARIANT TripNeedsPeriod
