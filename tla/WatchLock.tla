----------------------------- MODULE WatchLock -----------------------------
(***************************************************************************)
(* The writer lock of a repository, `.rgctl/watch.lock`                    *)
(* (crates/rgctl-service/src/status.rs), and the commands that use it:     *)
(*                                                                         *)
(*   - `rgctl serve --watch` acquires it and keeps it until it exits;      *)
(*   - `rgctl update` first asks whether a live process holds it: if so it *)
(*     hands its work to the update queue, otherwise it acquires the lock, *)
(*     compacts the graph and releases the lock;                           *)
(*   - `rgctl status` only asks, but the question itself can unlink a      *)
(*     stale lock file;                                                    *)
(*   - `rgctl watch` runs the same watcher as `serve --watch` in the       *)
(*     foreground and never touches the lock.                              *)
(*                                                                         *)
(* The lock is a file created with O_EXCL whose content, the pid of its    *)
(* creator, is written by a second system call.  A process identifies a    *)
(* stale lock by reading the pid and asking the operating system about it, *)
(* and unlinks the PATH, not the file it read.  Every system call on the   *)
(* file is a step of its own.                                              *)
(*                                                                         *)
(* A member of Process is one run of a command and stands for its pid: a   *)
(* command that is run again is another member.                            *)
(***************************************************************************)
EXTENDS Naturals, FiniteSets

CONSTANTS
    Watchers,       \* runs of `rgctl serve --watch`
    Updaters,       \* runs of `rgctl update`
    Inspectors,     \* runs of `rgctl status`
    Foreground,     \* runs of `rgctl watch`
    NoPid,          \* a lock file whose creator has not written its pid yet
    NoLock          \* there is no lock file

Process == Watchers \cup Updaters \cup Inspectors \cup Foreground

ASSUME KindsAssumption ==
    /\ Watchers \cap Updaters = {}
    /\ Watchers \cap Inspectors = {}
    /\ Updaters \cap Inspectors = {}
    /\ Foreground \cap (Watchers \cup Updaters \cup Inspectors) = {}
ASSUME NoneAssumption == NoPid \notin Process /\ NoLock \notin [creator: Process, pid: Process \cup {NoPid}]

VARIABLES
    pc,         \* where each process stands
    lock,       \* the file at the lock path
    seen,       \* the pid a process last read from the lock file
    alive       \* the pids the operating system reports as running

vars == <<pc, lock, seen, alive>>

LockFile == [creator: Process, pid: Process \cup {NoPid}]

Detecting  == {"detect", "detect_alive", "detect_unlink"}
Acquiring  == {"create", "reclaim_read", "reclaim_alive", "reclaim_unlink", "retry", "write_pid"}
Ended      == {"queued", "failed", "done", "crashed"}
Outcome    == {"hold"} \cup Ended
Running    == Detecting \cup Acquiring \cup {"hold", "watch"}
Control    == {"idle", "watch"} \cup Detecting \cup Acquiring \cup Outcome

Init ==
    /\ pc = [p \in Process |-> "idle"]
    /\ lock = NoLock
    /\ seen = [p \in Process |-> NoPid]
    /\ alive = {}

Goto(p, from, to) == pc[p] = from /\ pc' = [pc EXCEPT ![p] = to]

\* The process ends: the operating system stops reporting its pid.
Exit(p, from, to) == Goto(p, from, to) /\ alive' = alive \ {p}

-----------------------------------------------------------------------------
(* Starting a command.  `serve --watch` goes straight to the lock; update  *)
(* and status call detect_live_watcher first; `rgctl watch` spawns the     *)
(* watcher at once.                                                        *)
FirstStep(p) ==
    CASE p \in Watchers -> "create"
      [] p \in Foreground -> "watch"
      [] OTHER -> "detect"

Start(p) ==
    /\ Goto(p, "idle", FirstStep(p))
    /\ alive' = alive \cup {p}
    /\ UNCHANGED <<lock, seen>>

\* What follows detect_live_watcher = None.
NotWatched(p) == IF p \in Updaters THEN "create" ELSE "done"

\* Mutant: the text read is kept without being parsed to a pid.
DetectReadUnparsed(p) ==
    /\ pc[p] = "detect"
    /\ lock # NoLock
    /\ pc' = [pc EXCEPT ![p] = "detect_alive"]
    /\ seen' = [seen EXCEPT ![p] = lock]
    /\ UNCHANGED <<lock, alive>>

\* detect_live_watcher: the file is read.  No file, a file without a pid, or
\* the pid of the reader itself, counts as no watcher.
DetectRead(p) ==
    /\ pc[p] = "detect"
    /\ IF lock # NoLock /\ lock.pid \notin {NoPid, p}
         THEN /\ pc' = [pc EXCEPT ![p] = "detect_alive"]
              /\ seen' = [seen EXCEPT ![p] = lock.pid]
              /\ UNCHANGED alive
         ELSE /\ pc' = [pc EXCEPT ![p] = NotWatched(p)]
              /\ alive' = IF p \in Updaters THEN alive ELSE alive \ {p}
              /\ UNCHANGED seen
    /\ UNCHANGED lock

\* detect_live_watcher: the pid is alive, so an update is queued.
DetectLive(p) ==
    /\ seen[p] \in alive
    /\ Exit(p, "detect_alive", IF p \in Updaters THEN "queued" ELSE "done")
    /\ UNCHANGED <<lock, seen>>

\* Mutant: every pid that is not the reader's own is taken for dead.
DetectDeadUnchecked(p) ==
    /\ Goto(p, "detect_alive", "detect_unlink")
    /\ UNCHANGED <<lock, seen, alive>>


DetectDead(p) ==
    /\ seen[p] \notin alive
    /\ Goto(p, "detect_alive", "detect_unlink")
    /\ UNCHANGED <<lock, seen, alive>>

\* detect_live_watcher: the path is unlinked, whatever file is there by now.
DetectUnlink(p) ==
    /\ Goto(p, "detect_unlink", NotWatched(p))
    /\ lock' = NoLock
    /\ alive' = IF p \in Updaters THEN alive ELSE alive \ {p}
    /\ UNCHANGED seen

-----------------------------------------------------------------------------
(* try_acquire_watch_lock.                                                 *)

\* try_create_watch_lock: create_new succeeds only on a free path.
Create(p) ==
    /\ pc[p] \in {"create", "retry"}
    /\ lock = NoLock
    /\ lock' = [creator |-> p, pid |-> NoPid]
    /\ pc' = [pc EXCEPT ![p] = "write_pid"]
    /\ UNCHANGED <<seen, alive>>

\* try_create_watch_lock: the pid goes to the file that was created, which
\* need not be the file at the path any more.
WritePid(p) ==
    /\ Goto(p, "write_pid", "hold")
    /\ lock' = IF lock # NoLock /\ lock.creator = p THEN [lock EXCEPT !.pid = p] ELSE lock
    /\ UNCHANGED <<seen, alive>>

CreateExists(p) ==
    /\ lock # NoLock
    /\ Goto(p, "create", "reclaim_read")
    /\ UNCHANGED <<lock, seen, alive>>

RetryExists(p) ==
    /\ lock # NoLock
    /\ Exit(p, "retry", "failed")
    /\ UNCHANGED <<lock, seen>>

\* Mutant: a lock file without a pid is nobody's to reclaim.
ReclaimReadNeedsPid(p) ==
    /\ pc[p] = "reclaim_read"
    /\ \/ /\ ~(lock # NoLock /\ lock.pid # NoPid)
          /\ Exit(p, "reclaim_read", "failed")
          /\ UNCHANGED seen
       \/ /\ lock # NoLock /\ lock.pid # NoPid
          /\ Goto(p, "reclaim_read", "reclaim_alive")
          /\ seen' = [seen EXCEPT ![p] = lock.pid]
          /\ UNCHANGED alive
    /\ UNCHANGED lock

\* reclaim_stale_watch_lock_at: a file without a pid is taken for a stale one;
\* a file that cannot be read (it is gone) is not reclaimed.
ReclaimRead(p) ==
    /\ pc[p] = "reclaim_read"
    /\ \/ /\ lock = NoLock
          /\ Exit(p, "reclaim_read", "failed")
          /\ UNCHANGED seen
       \/ /\ lock # NoLock
          /\ pc' = [pc EXCEPT ![p] = IF lock.pid = NoPid THEN "reclaim_unlink" ELSE "reclaim_alive"]
          /\ seen' = [seen EXCEPT ![p] = lock.pid]
          /\ UNCHANGED alive
    /\ UNCHANGED lock

\* Mutant: the acquirer waits for a live holder instead of giving up.
ReclaimLiveWaits(p) ==
    /\ seen[p] \in {p} \cup alive
    /\ Goto(p, "reclaim_alive", "reclaim_read")
    /\ UNCHANGED <<lock, seen, alive>>

\* reclaim_stale_watch_lock_at: the holder lives (or is this very process).
ReclaimLive(p) ==
    /\ seen[p] \in {p} \cup alive
    /\ Exit(p, "reclaim_alive", "failed")
    /\ UNCHANGED <<lock, seen>>

\* Mutant: the lock is reclaimed without asking whether its holder lives.
ReclaimDeadUnchecked(p) ==
    /\ Goto(p, "reclaim_alive", "reclaim_unlink")
    /\ UNCHANGED <<lock, seen, alive>>


ReclaimDead(p) ==
    /\ seen[p] \notin {p} \cup alive
    /\ Goto(p, "reclaim_alive", "reclaim_unlink")
    /\ UNCHANGED <<lock, seen, alive>>

\* reclaim_stale_watch_lock_at: the path is unlinked; losing the file to
\* somebody else in the meantime is a failure to reclaim.
ReclaimUnlink(p) ==
    /\ pc[p] = "reclaim_unlink"
    /\ \/ /\ lock = NoLock
          /\ Exit(p, "reclaim_unlink", "failed")
       \/ /\ lock # NoLock
          /\ pc' = [pc EXCEPT ![p] = "retry"]
          /\ UNCHANGED alive
    /\ lock' = NoLock
    /\ UNCHANGED seen

-----------------------------------------------------------------------------
\* Mutant: a lock that is dropped leaves its file.
ReleaseKeepsFile(p) ==
    /\ Exit(p, "hold", "done")
    /\ UNCHANGED <<lock, seen>>

\* The holder is done: WatchLock's drop unlinks the path unconditionally.
Release(p) ==
    /\ Exit(p, "hold", "done")
    /\ lock' = NoLock
    /\ UNCHANGED seen

\* `rgctl watch` is interrupted.
StopWatch(p) ==
    /\ Exit(p, "watch", "done")
    /\ UNCHANGED <<lock, seen>>

\* A process is killed: no destructor runs, the file stays.
Crash(p) ==
    /\ pc[p] \in Running
    /\ pc' = [pc EXCEPT ![p] = "crashed"]
    /\ alive' = alive \ {p}
    /\ UNCHANGED <<lock, seen>>

\* The operating system gives the pid of an ended process to a program that
\* is not rgctl: the pid is alive again for process_alive.
ReusePid(p) ==
    /\ pc[p] \in Ended
    /\ p \notin alive
    /\ alive' = alive \cup {p}
    /\ UNCHANGED <<pc, lock, seen>>

-----------------------------------------------------------------------------
Detect(p) == DetectRead(p) \/ DetectLive(p) \/ DetectDead(p) \/ DetectUnlink(p)

Acquire(p) ==
    \/ Create(p) \/ WritePid(p) \/ CreateExists(p) \/ RetryExists(p)
    \/ ReclaimRead(p) \/ ReclaimLive(p) \/ ReclaimDead(p) \/ ReclaimUnlink(p)

Next == \E p \in Process :
    \/ Start(p) \/ Detect(p) \/ Acquire(p)
    \/ Release(p) \/ StopWatch(p) \/ Crash(p) \/ ReusePid(p)

Spec == Init /\ [][Next]_vars

\* A command that has started keeps running; nobody is obliged to start a
\* command, to stop a watcher, or to crash.  An update does finish its work.
Fairness ==
    /\ \A p \in Process : WF_vars(Detect(p) \/ Acquire(p))
    /\ \A p \in Updaters : WF_vars(Release(p))

FairSpec == Spec /\ Fairness

-----------------------------------------------------------------------------
TypeOK ==
    /\ pc \in [Process -> Control]
    /\ lock \in LockFile \cup {NoLock}
    /\ seen \in [Process -> Process \cup {NoPid}]
    /\ alive \in SUBSET Process

Holders == {p \in Process : pc[p] = "hold"}

(* At most one process holds the writer lock, so at most one process       *)
(* compacts the graph: what try_acquire_watch_lock's comment promises.     *)
MutualExclusion == \A p, q \in Holders : p = q

(* The file at the path is the holder's own: it was neither unlinked by    *)
(* someone who took it for stale nor replaced by another process's file,   *)
(* so the holder's drop unlinks its own lock and no one else's.            *)
HolderOwnsFile ==
    \A p \in Holders : lock # NoLock /\ lock.creator = p /\ lock.pid = p

(* One command at a time is between its start and its outcome.             *)
Busy(p) == pc[p] \in Detecting \cup Acquiring
Serial == \A p, q \in Process : Busy(p) /\ Busy(q) => p = q

(* As long as commands do not start in the same instant, the lock excludes *)
(* and its file is the holder's, whatever dies in the middle of acquiring  *)
(* it, holding it or judging it.                                           *)
SerialExclusion == []Serial => [](MutualExclusion /\ HolderOwnsFile)

(* A process that tries to acquire the lock while nobody holds it gets it: *)
(* a lock file that a crash left behind, with or without a pid in it, is   *)
(* reclaimed by the first command that wants the lock, if commands do not  *)
(* start in the same instant.  The one exception is a pid that now belongs *)
(* to a foreign program.                                                   *)
ForeignPid(pid) == pid \in alive /\ pc[pid] \in Ended

StaleLockIsReclaimed ==
    []Serial => \A p \in Process :
        pc[p] = "create" /\ Holders = {}
            ~> pc[p] \in {"hold", "crashed"} \/ ForeignPid(seen[p])

(* An update hands its work to the queue only when the process it found    *)
(* is one that drains the queue.                                           *)
QueuedOnlyForWatcher ==
    \A p \in Updaters : pc[p] = "queued" => seen[p] \in Watchers

(* A lock file belongs to a process that is still using it or that was     *)
(* killed: every other way out of a command, refusals included, leaves no  *)
(* file of its own behind, however the commands overlap.                   *)
NoOrphanLock == lock # NoLock => pc[lock.creator] \in {"write_pid", "hold", "crashed"}

(* A command that has started comes to an outcome: it holds the lock, is   *)
(* refused, queues its work or dies; overlapping commands never keep each  *)
(* other retrying.                                                         *)
StartedIsDecided ==
    \A p \in Process : pc[p] \in Detecting \cup Acquiring ~> pc[p] \in Outcome

=============================================================================
