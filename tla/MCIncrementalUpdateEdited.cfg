\* A file changes while an update runs.
SPECIFICATION Spec
CONSTANTS
    a = a
    b = b
    Files = {a, b}
    TopLevel = {a, b}
    BaseName <- DifferentNames
    Suffixes <- OwnPaths
    Callers <- NoCallers
    Cascade = TRUE
    Requests <- DiffOnly
    Missing = Missing
    Torn = Torn
    MaxVersion = 2
    MaxCrashes = 0
    Optional = {a, b}
    Reverts = FALSE
    QuietUpdates = FALSE
INVARIANTS
    RecordedIsIndexed
