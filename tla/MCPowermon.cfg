SPECIFICATION FairSpec
CONSTANTS
    N = 3
    InputSensor = 1
    Optional = {3}
    Switched = {2, 3}
    InitTimeout = 1
    RampTimeout = 1
    PowerfailDelay = 1
    ErrorDelay = 1
    DetectTimeout = 2
    ReadIntervalRun = 1
    ReadIntervalRamp = 0
    Voltages <- ExtremeVoltages
    Durations <- EvenIterations
    MaxTicks = 3
INVARIANT SwitchesMatchState
INVARIANT RunNeedsMonitor
PROPERTY StandbyIsOff
PROPERTY Recovers
PROPERTY PowerOffHonouredElsewhere
