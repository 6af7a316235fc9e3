SPECIFICATION Spec
CONSTANTS
    Functions <- SwitchFunctions
    Graphs <- SwitchGraphs
    Blocks <- MCBlocks
INVARIANTS
    ExecutionIsPath
CHECK_DEADLOCK FALSE
