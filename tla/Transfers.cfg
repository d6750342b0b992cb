CHECK_DEADLOCK FALSE
SPECIFICATION Spec
CONSTANTS
    Ids = {t1, t2}
    Direction = "upload"
    Chunks = 1
    MaxRetries = 1
    MaxFaults = 1
    MaxStarts = 2
    MaxInbox = 2
    Configured = 1
    MaxClicks = 2
SYMMETRY Symmetry
INVARIANTS
    TypeOK
    WokenWhenResumed
    NoIdleSlot
    NoLeakedSlot
    ParkedIsHeld
