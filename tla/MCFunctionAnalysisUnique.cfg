SPECIFICATION Spec
CONSTANTS
    Functions <- LoopFirst
    Graphs <- FirstGraphs
    Blocks <- MCBlocks
INVARIANTS
    GraphIsUnique
CHECK_DEADLOCK FALSE
