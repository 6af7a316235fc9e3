\* Functions that move between three files, none defined twice.
SPECIFICATION Spec
CONSTANTS
    a = a
    b = b
    c = c
    m = m
    n = n
    Files = {a, b, c}
    Names = {m, n}
    Sources <- SomeSources
    Depth = 1
    DistinctNames = TRUE
INVARIANTS
    TypeOK
    SymbolsAreIndexed
    NoPhantomCalls
PROPERTIES
    CallsStayLinked
