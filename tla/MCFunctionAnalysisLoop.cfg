SPECIFICATION Spec
CONSTANTS
    Functions <- LoopAfterIf
    Graphs <- LoopGraphs
    Blocks <- MCBlocks
INVARIANTS
    ImmediateDominators
CHECK_DEADLOCK FALSE
