SPECIFICATION Spec
CONSTANTS
    c1 = c1
    c2 = c2
    c3 = c3
    p1 = p1
    p2 = p2
    NoFile = NoFile
    Clients = {c1, c2}
    Paths = {p1}
    Request <- SameFileRequest
    NoWait = {}
    MaxLines = 2
    MaxEdits = 0
    MaxFaults = 0
    RemovalFails = FALSE
INVARIANTS
    SubmittedIsKept
CHECK_DEADLOCK FALSE
