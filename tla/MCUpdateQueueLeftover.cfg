SPECIFICATION FairSpec
CONSTANTS
    c1 = c1
    c2 = c2
    c3 = c3
    p1 = p1
    p2 = p2
    NoFile = NoFile
    Clients = {c1}
    Paths = {p1}
    Request <- DiffOnlyRequest
    NoWait = {}
    MaxLines = 2
    MaxEdits = 1
    MaxFaults = 1
    RemovalFails = FALSE
PROPERTIES
    LeftoverIsRecovered
CHECK_DEADLOCK FALSE
