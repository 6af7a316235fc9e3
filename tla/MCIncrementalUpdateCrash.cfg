\* Commands killed at any step; no file is ever deleted.
SPECIFICATION Spec
CONSTANTS
    a = a
    b = b
    Files = {a, b}
    TopLevel = {a, b}
    BaseName <- DifferentNames
    Suffixes <- OwnPaths
    Callers <- InnerCalls
    Cascade = TRUE
    Requests <- WholeTree
    Missing = Missing
    Torn = Torn
    MaxVersion = 3
    MaxCrashes = 2
    Optional = {}
    Reverts = FALSE
    QuietUpdates = TRUE
INVARIANTS
    RecordedIsIndexed
    SuccessIsUsable
PROPERTIES
    NoFalseReuse
