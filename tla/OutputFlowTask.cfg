SPECIFICATION FairSpec
CONSTANTS
    NormalBatch = 1
    FloodBatch = 2
    LowWatermark = 1
    HighWatermark = 3
    CloseFlushMax = 2
    CatastrophicBacklog = 5
    Reader = io
    Command = io
    ReadMax = 2
    SourceBytes = 5
    MaxRequests = 2
CHECK_DEADLOCK FALSE
INVARIANTS BacklogBounded PauseAgreement
PROPERTIES NothingStuck
