\* A server next to commands that run one at a time, and may fail where the
\* stage that failed is run again.
SPECIFICATION ServeSpec
CONSTANTS
    None = None
    Absent = Absent
    MaxVersion = 3
    MaxCommands = 3
    MaxFaults = 2
    FaultsIn = {"index", "mark", "analyse", "announce", "embed", "label", "store", "update"}
    Watching = FALSE
INVARIANTS
    ReusedIsCurrent
PROPERTIES
    CompleteIsFresh
    SkippedIsFresh
    AnnouncedIsServed
