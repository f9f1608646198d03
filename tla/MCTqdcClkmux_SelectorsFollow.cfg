SPECIFICATION MuxSpec
CONSTANTS
    Controls <- Settings
    MuxErrors = 2
    MuxErrorDelay = 0
    MuxPollDelay = 0
    MaxMuxTicks = 1
INVARIANT SelectorsFollow
