SPECIFICATION Spec
CONSTANTS
    Functions <- FinallyExits
    Graphs <- FinallyGraphs
    Blocks <- MCBlocks
INVARIANTS
    ExecutionIsPath
CHECK_DEADLOCK FALSE
