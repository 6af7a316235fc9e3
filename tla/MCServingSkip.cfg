\* A deep stage that is killed or fails once it wrote its marker.
SPECIFICATION ServeSpec
CONSTANTS
    None = None
    Absent = Absent
    MaxVersion = 2
    MaxCommands = 3
    MaxFaults = 1
    FaultsIn = {"cfg"}
    Watching = FALSE
PROPERTY
    SkippedIsFresh
