\* A file that could not be read or parsed is recorded as indexed.
CONSTANTS
    Files <- MCFiles
    Stem <- MCStem
    Contents = {c1, c2}
    None = None
    Broken = {c2}
    Empty = {}
    Linked = {}
    Workers = {w1, w2}
    Capacity = 1
    MaxEdits = 1
    MaxUnread = 1
    MaxRuns = 1
SPECIFICATION Spec
INVARIANT RecordedIsInGraph
CHECK_DEADLOCK FALSE
