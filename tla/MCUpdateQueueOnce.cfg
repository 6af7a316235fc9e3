SPECIFICATION Spec
CONSTANTS
    c1 = c1
    c2 = c2
    c3 = c3
    p1 = p1
    p2 = p2
    NoFile = NoFile
    Clients = {c1, c2, c3}
    Paths = {p1}
    Request <- MixedRequest
    NoWait = {c2}
    MaxLines = 2
    MaxEdits = 0
    MaxFaults = 2
    RemovalFails = FALSE
INVARIANTS
    TypeOK
    AtMostOnce
    OnePlace
PROPERTIES
    AbstractSpec
CHECK_DEADLOCK FALSE
