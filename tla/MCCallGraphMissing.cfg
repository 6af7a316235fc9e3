\* A function is called before it is defined.
SPECIFICATION Spec
CONSTANTS
    a = a
    b = b
    c = c
    m = m
    n = n
    Files = {a, b}
    Names = {m, n}
    Sources <- SomeSources
    Depth = 1
    DistinctNames = TRUE
INVARIANTS
    NoMissingCalls
