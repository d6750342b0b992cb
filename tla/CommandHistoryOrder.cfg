CHECK_DEADLOCK FALSE
SPECIFICATION Spec
CONSTANTS
    Session = {s1}
    Command = {a, b}
    None = None
    MaxPending = 1
    MaxHistory = 2
    MaxSubmissions = 2
    MaxEvents = 2
INVARIANTS
    NewestFirst
SYMMETRY Symmetry
