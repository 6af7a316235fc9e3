\* Contents with relative links (Markdown): facts of a copy elsewhere are reused.
CONSTANTS
    Files <- MCFiles
    Stem <- MCStem
    Contents = {c1, c2}
    None = None
    Broken = {c2}
    Empty = {}
    Linked = {c1}
    Workers = {w1, w2}
    Capacity = 1
    MaxEdits = 1
    MaxUnread = 1
    MaxRuns = 1
SPECIFICATION Spec
INVARIANT MergedIsExtracted
CHECK_DEADLOCK FALSE
