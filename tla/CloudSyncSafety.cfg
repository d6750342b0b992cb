CHECK_DEADLOCK FALSE
SPECIFICATION Spec
CONSTANTS
    Device = {d1, d2}
    Sections = 1
    Value = {v0, v1}
    Default = v0
    None = None
    Layouts = {"legacy", "shared"}
    Commands = {"manual_push", "manual_pull", "resolve_upload", "resolve_download", "recover_current_remote", "enable", "disable", "test_connection"}
    AutoPull = TRUE
    RuntimeChecks = {TRUE}
    MaxEdits = 2
    MaxCommands = 1
    MaxFailures = 2
    MaxCrashes = 2
    MaxEvents = 2
SYMMETRY Symmetry
INVARIANTS
    TypeOK
    BaselineWasStored
    StoreRestorable
    RunningIsBacked
