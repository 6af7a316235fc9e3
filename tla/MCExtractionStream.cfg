\* Parallel indexing with a shared cache, edits, unreadable files and kills.
CONSTANTS
    Files <- MCFiles
    Stem <- MCStem
    Contents = {c1, c2}
    None = None
    Broken = {c2}
    Empty = {}
    Linked = {}
    Workers = {w1, w2}
    Capacity = 1
    MaxEdits = 1
    MaxUnread = 1
    MaxRuns = 1
SPECIFICATION Spec
INVARIANTS
    StreamTypeOK
    MergedIsExtracted
    RecordedIsMerged
    OrderIsOfPaths
PROPERTIES
    IndexesEachOnce
    CommandEnds
CHECK_DEADLOCK FALSE
