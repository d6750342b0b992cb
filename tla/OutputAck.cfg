SPECIFICATION FairSpec
CONSTANTS
    MaxLeases = 3
    MaxBytes = 4
    MaxFailures = 3
CHECK_DEADLOCK FALSE
INVARIANTS TypeOK NoStall NoAckLost GenerationsSerialized
PROPERTIES ReportsSettle
