\* Two notes of the code about its graphs (use -continue to see both fail).
SPECIFICATION Spec
CONSTANTS
    Functions <- NotedFunctions
    Graphs <- NotedGraphs
    Blocks <- MCBlocks
INVARIANTS
    EndsAtExit
    ControlIsPrecise
CHECK_DEADLOCK FALSE
