CHECK_DEADLOCK FALSE
SPECIFICATION Spec
CONSTANTS
    MaxOutput = 1
    MaxShown = 2
    MaxWakes = 1
    MaxRebuilds = 1
INVARIANTS
    TypeOK
    NeverSilent
    ShownIsAwake
PROPERTIES
    ShowingWakes
