\* Two updates and no watcher: whom does the second one hand its work to?
SPECIFICATION Spec
CONSTANTS
    Watchers = {w1}
    Updaters = {u1, u2}
    Inspectors = {s1}
    Foreground = {}
    NoPid = NoPid
    NoLock = NoLock
SYMMETRY Symmetry
INVARIANT QueuedOnlyForWatcher
CHECK_DEADLOCK FALSE
