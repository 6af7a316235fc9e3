\* The same commands with no restriction on when they start.
SPECIFICATION Spec
CONSTANTS
    Watchers = {w1, w2}
    Updaters = {u1}
    Inspectors = {s1}
    Foreground = {}
    NoPid = NoPid
    NoLock = NoLock
SYMMETRY Symmetry
INVARIANT MutualExclusion
CHECK_DEADLOCK FALSE
