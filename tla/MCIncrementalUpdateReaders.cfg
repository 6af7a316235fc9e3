\* A reader during an update or a rebuild.
SPECIFICATION Spec
CONSTANTS
    a = a
    b = b
    Files = {a, b}
    TopLevel = {a, b}
    BaseName <- DifferentNames
    Suffixes <- OwnPaths
    Callers <- NoCallers
    Cascade = TRUE
    Requests <- DiffOnly
    Missing = Missing
    Torn = Torn
    MaxVersion = 2
    MaxCrashes = 0
    Optional = {a, b}
    Reverts = FALSE
    QuietUpdates = TRUE
PROPERTIES
    NeverTorn
    NeverMissing
