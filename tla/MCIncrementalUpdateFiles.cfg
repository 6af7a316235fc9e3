\* Two files changed, one of them is named.
SPECIFICATION Spec
CONSTANTS
    a = a
    b = b
    Files = {a, b}
    TopLevel = {a, b}
    BaseName <- DifferentNames
    Suffixes <- OwnPaths
    Callers <- NoCallers
    Cascade = TRUE
    Requests <- OneFile
    Missing = Missing
    Torn = Torn
    MaxVersion = 2
    MaxCrashes = 0
    Optional = {a, b}
    Reverts = FALSE
    QuietUpdates = TRUE
INVARIANTS
    RecordedIsIndexed
