\* Files that come back to what they were, commands that are not disturbed; b
\* is in a directory, calls within itself, and is called by a.
SPECIFICATION Spec
CONSTANTS
    a = a
    b = b
    Files = {a, b}
    TopLevel = {a}
    BaseName <- SuffixNames
    Suffixes <- PathsOfA
    Callers <- InnerCalls
    Cascade = TRUE
    Requests <- Unfiltered
    Missing = Missing
    Torn = Torn
    MaxVersion = 2
    MaxCrashes = 0
    Optional = {a, b}
    Reverts = TRUE
    QuietUpdates = TRUE
PROPERTIES
    CompactKeepsOthers
    UpdateMatchesDiscover
