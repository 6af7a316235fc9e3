\* Two files define functions of the same name.
SPECIFICATION Spec
CONSTANTS
    a = a
    b = b
    c = c
    m = m
    n = n
    Files = {a, b}
    Names = {m, n}
    Sources <- SomeSources
    Depth = 1
    DistinctNames = FALSE
INVARIANTS
    NoPhantomCalls
