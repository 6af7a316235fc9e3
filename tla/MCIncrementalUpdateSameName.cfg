\* lib.rs and src/lib.rs.
SPECIFICATION Spec
CONSTANTS
    a = a
    b = b
    Files = {a, b}
    TopLevel = {a}
    BaseName <- SameNames
    Suffixes <- PathsOfA
    Callers <- NoCallers
    Cascade = TRUE
    Requests <- DiffOnly
    Missing = Missing
    Torn = Torn
    MaxVersion = 2
    MaxCrashes = 0
    Optional = {a, b}
    Reverts = FALSE
    QuietUpdates = TRUE
PROPERTIES
    CompactKeepsOthers
