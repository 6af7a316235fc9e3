\* Commands that start at any time, any of which may be killed at any step.
SPECIFICATION FairSpec
CONSTANTS
    Watchers = {w1, w2}
    Updaters = {u1}
    Inspectors = {}
    Foreground = {f1}
    NoPid = NoPid
    NoLock = NoLock
INVARIANTS
    TypeOK
    NoOrphanLock
PROPERTIES
    SerialExclusion
    StaleLockIsReclaimed
    StartedIsDecided
\* Every command ends: the system may stop.
CHECK_DEADLOCK FALSE
