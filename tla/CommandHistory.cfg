CHECK_DEADLOCK FALSE
SPECIFICATION Spec
CONSTANTS
    Session = {s1}
    Command = {a, b}
    None = None
    MaxPending = 1
    MaxHistory = 1
    MaxSubmissions = 2
    MaxEvents = 2
INVARIANTS
    TypeOK
    NoCommandLost
    CountedOnce
    SaveUnderWay
SYMMETRY Symmetry
