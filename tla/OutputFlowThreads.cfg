SPECIFICATION Spec
CONSTANTS
    NormalBatch = 1
    FloodBatch = 2
    LowWatermark = 1
    HighWatermark = 3
    CloseFlushMax = 2
    CatastrophicBacklog = 4
    Reader = reader
    Command = command
    ReadMax = 2
    SourceBytes = 4
    MaxRequests = 2
CHECK_DEADLOCK FALSE
INVARIANTS TypeOK WatermarksRespected FlushUnderWay NoByteLostOrDoubled OverflowCloses
