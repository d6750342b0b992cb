CHECK_DEADLOCK FALSE
SPECIFICATION FairSpec
CONSTANTS
    Device = {d1}
    Sections = 2
    Value = {v0, v1}
    Default = v0
    None = None
    Layouts = {"empty", "shared", "legacy", "dangling", "named"}
    Commands = {"manual_push"}
    AutoPull = TRUE
    RuntimeChecks = {TRUE, FALSE}
    MaxEdits = 2
    MaxCommands = 1
    MaxFailures = 2
    MaxCrashes = 0
    MaxEvents = 3
PROPERTIES
    EditsAreSynced
