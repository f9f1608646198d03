SPECIFICATION SharedSpec
CONSTANTS
    t1 = t1
    t2 = t2
    t3 = t3
    NoTask = NoTask
    Tasks <- ThreeTasks
    WordBytes = 2
    ScratchSize = 2
    Info <- TwoWords
    LiveWords <- TwoValues
    MaxFaults = 1
    NoByte = NoByte
    SlaveBytes = {0, 1, 2}
    Printers = {p}
    Putters = {r}
    LogSize = 3
    LogLines = 1
    MaxPuts = 4
    TimeoutPool = 5
    OwnTimeouts = 2
    MaxFlaps = 6
    RxBufs = 3
    PbufPool = 4
    TcpipMbox = 2
    TxBufs = 4
    summary = summary
    sensors = sensors
    Pages <- TwoPages
    FirstPage = summary
    NextPage <- OtherPage
    Sizes = {"large", "small"}
    FirstSize = "small"
    Garbled = "garbled"
    NoSize = "none"
    EscLimit = 4
    MaxStrokes = 2
    MaxLost = 1
INVARIANT SharedTypesOK
INVARIANT TrueMeansDone
INVARIANT NoStrayTransfer
INVARIANT ReadyWhenLocked
INVARIANT ChainsBounded
INVARIANT FramesReceived
INVARIANT FramesSent
INVARIANT SharedKeep
PROPERTY SharedStepsKeep
PROPERTY BusServes
PROPERTY LinkServes
PROPERTY ConsoleServes
