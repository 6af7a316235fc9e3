\* `serve --watch`: updates next to a pipeline; nothing fails.
SPECIFICATION ServeSpec
CONSTANTS
    None = None
    Absent = Absent
    MaxVersion = 2
    MaxCommands = 1
    MaxFaults = 0
    FaultsIn = {}
    Watching = TRUE
PROPERTY
    UpdateIsServed
