CHECK_DEADLOCK FALSE
SPECIFICATION Spec
CONSTANTS
    WriteChunk = 3
    BackgroundChunk = 2
    CatchUpChunk = 4
    StrainedBacklog = 3
    LowLatencyBacklog = 1
    AckBatch = 2
    GateMode = "collapse"
    ThrottleBacklog = 0
    MaxHeldBytes = 5
    Chunks <- MCChunks
    MaxUnits = 6
    MaxModes = 1
    MaxWaits = 1
    MaxTimeouts = 1
    MaxErrors = 1
INVARIANTS
    TypeOK
    BytesAccounted
    DrawnInOrder
    NoLostWakeup
    NoticeAfterOutput
    GateKeepsEverything
PROPERTIES
    KeepsCredit
