\* b is in a directory and no function of it calls another.
SPECIFICATION Spec
CONSTANTS
    a = a
    b = b
    Files = {a, b}
    TopLevel = {a}
    BaseName <- DifferentNames
    Suffixes <- OwnPaths
    Callers <- NoCallers
    Cascade = TRUE
    Requests <- DiffOnly
    Missing = Missing
    Torn = Torn
    MaxVersion = 2
    MaxCrashes = 0
    Optional = {a, b}
    Reverts = FALSE
    QuietUpdates = TRUE
PROPERTIES
    UpdateMatchesDiscover
