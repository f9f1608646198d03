SPECIFICATION DevicesSpec
CONSTANTS
    FpgaDetectDelay = 1
    FpgaLoadDelay = 2
    FpgaErrorDelay = 2
    FpgaPollDelay = 1
    FpgaDurations <- UnevenRuns
    MaxFpgaTicks = 4
    Checked <- TwoChecked
    Unchecked <- OneUnchecked
    Bare <- OneBare
    CoreSettings <- Settings
    Pots = {p1, p2}
    TopValue = 1
    MailSize = 1
    MailBatch = 2
    PotDetectTimeout = 0
    PotErrorDelay = 0
    PotRetries = 2
    MaxPotTicks = 1
    MaxKeys = 2
    NoCommand = NoCommand
    sfpA = sfpA
    qsfpB = qsfpB
    qsfpC = qsfpC
    badD = badD
    Modules = {sfpA, qsfpB, qsfpC, badD}
    KindOf <- Kinds
    NoModule = NoModule
    SfpChannels = 2
    SfpResetDelay = 0
    SfpPollDelay = 0
    SfpErrorDelay = 0
    MaxSfpTicks = 1
    MaxSwaps = 2
    boardA = boardA
    boardB = boardB
    boardC = boardC
    NoBoard = NoBoard
    Boards = {boardA, boardB, boardC}
    WithMcu = {boardA, boardB}
    SensorsOf <- Sensors
    VxsSlots = {5, 16}
    MaxSensors = 2
    InfoWords = 2
    VxsPollDelay = 0
    VxsErrorDelay = 0
    MaxVxsTicks = 1
    MaxPlugs = 2
INVARIANT DeviceTypesOK
INVARIANT PollsAreSafe
INVARIANT ClockReadByItsRom
INVARIANT DevicesKeep
PROPERTY ImplementsClockControl
PROPERTY DeviceStepsKeep
PROPERTY DevicesServe
