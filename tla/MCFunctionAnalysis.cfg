SPECIFICATION Spec
CONSTANTS
    Functions <- PlainFunctions
    Graphs <- PlainGraphs
    Blocks <- MCBlocks
INVARIANTS
    ExecutionIsPath
    EndsAtEnd
    GraphIsUnique
    IdomDominates
    IdomIsImmediate
    FrontierIsExact
    PostDominatorsExact
CHECK_DEADLOCK FALSE
PROPERTY AnalysisEnds
