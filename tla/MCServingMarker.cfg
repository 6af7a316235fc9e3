\* A plain discover between two pipelines; nothing fails.
SPECIFICATION ServeSpec
CONSTANTS
    None = None
    Absent = Absent
    MaxVersion = 2
    MaxCommands = 3
    MaxFaults = 0
    FaultsIn = {}
    Watching = FALSE
INVARIANT
    MarkerIsTrue
