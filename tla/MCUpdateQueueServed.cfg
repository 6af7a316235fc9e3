\* Clients that name their files, and a watcher that may die or fail once.
SPECIFICATION FairSpec
CONSTANTS
    c1 = c1
    c2 = c2
    c3 = c3
    p1 = p1
    p2 = p2
    NoFile = NoFile
    Clients = {c1, c2}
    Paths = {p1, p2}
    Request <- PathsOnlyRequest
    NoWait = {}
    MaxLines = 2
    MaxEdits = 1
    MaxFaults = 1
    RemovalFails = TRUE
INVARIANTS
    OkMeansFresh
PROPERTIES
    Converges
    LandedIsAnswered
CHECK_DEADLOCK FALSE
