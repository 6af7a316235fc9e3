\* Edits while commands run, updates of one file, and a crash.
SPECIFICATION FairSpec
CONSTANTS
    a = a
    b = b
    Files = {a, b}
    TopLevel = {a}
    BaseName <- SuffixNames
    Suffixes <- PathsOfA
    Callers <- InnerCalls
    Cascade = TRUE
    Requests <- NamedAndRebuild
    Missing = Missing
    Torn = Torn
    MaxVersion = 2
    MaxCrashes = 1
    Optional = {a, b}
    Reverts = FALSE
    QuietUpdates = FALSE
PROPERTIES
    Repaired
