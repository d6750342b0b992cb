CHECK_DEADLOCK FALSE
SPECIFICATION Spec
CONSTANTS
    Device = {d1, d2}
    Sections = 1
    Value = {v0, v1}
    Default = v0
    None = None
    Layouts = {"shared"}
    Commands = {}
    AutoPull = TRUE
    RuntimeChecks = {TRUE}
    MaxEdits = 2
    MaxCommands = 0
    MaxFailures = 0
    MaxCrashes = 0
    MaxEvents = 4
SYMMETRY Symmetry
PROPERTIES
    PushSeesRemote
