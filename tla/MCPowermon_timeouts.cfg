SPECIFICATION FairSpec
CONSTANTS
    N = 2
    InputSensor = 1
    Optional = {}
    Switched = {2}
    InitTimeout = 3
    RampTimeout = 3
    PowerfailDelay = 2
    ErrorDelay = 2
    DetectTimeout = 2
    ReadIntervalRun = 1
    ReadIntervalRamp = 0
    Voltages <- AllVoltages
    Durations <- EvenIterations
    MaxTicks = 4
PROPERTY TimeoutsFire
