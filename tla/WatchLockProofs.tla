-------------------------- MODULE WatchLockProofs --------------------------
(***************************************************************************)
(* What the writer lock guarantees for every number of commands.           *)
(*                                                                         *)
(* The lock excludes when no two commands are between their start and      *)
(* their outcome at the same time (Serial): the run watchlock_race shows   *)
(* that it does not without that hypothesis.  Under it a lock that nobody  *)
(* holds is also never refused.  That no command that ended by itself      *)
(* leaves a lock file behind, and that no command ever goes back, needs    *)
(* no hypothesis.                                                          *)
(***************************************************************************)
EXTENDS WatchLock, TLAPS

(* A process that is about to unlink the file it takes for stale knows     *)
(* that nobody holds the lock, and one that still has to ask whether the   *)
(* pid is alive has read the pid of the holder, if there is one.           *)
JudgesHolder(p) ==
    /\ pc[p] \in {"detect_alive", "reclaim_alive"} => Holders \subseteq {seen[p]}
    /\ pc[p] \in {"detect_unlink", "reclaim_unlink"} => Holders = {}

(* The inductive invariant behind MutualExclusion. *)
LockInv ==
    /\ TypeOK
    /\ HolderOwnsFile
    /\ \A p \in Process : pc[p] \in Running => p \in alive
    /\ \A p \in Process : pc[p] = "write_pid" =>
          lock # NoLock /\ lock.creator = p /\ lock.pid = NoPid
    /\ \A p \in Process : JudgesHolder(p)

-----------------------------------------------------------------------------
LEMMA InitLockInv == Init => LockInv
  BY NoneAssumption
  DEF Init, LockInv, TypeOK, Control, Detecting, Acquiring, Outcome, Ended,
      LockFile, Busy, HolderOwnsFile, Holders, JudgesHolder, Running

(* The sets of control points, for leaves that need nothing else. *)
LEMMA ControlPoints ==
    /\ Detecting = {"detect", "detect_alive", "detect_unlink"}
    /\ Acquiring = {"create", "reclaim_read", "reclaim_alive", "reclaim_unlink", "retry", "write_pid"}
    /\ Ended = {"queued", "failed", "done", "crashed"}
    /\ Control = {"idle", "watch"} \cup Detecting \cup Acquiring \cup {"hold"} \cup Ended
  BY DEF Detecting, Acquiring, Ended, Control, Outcome

(* Every step of every command keeps the type invariant. *)
LEMMA NextTypeOK == TypeOK /\ [Next]_vars => TypeOK'
  <1> SUFFICES ASSUME TypeOK, [Next]_vars PROVE TypeOK'
    OBVIOUS
  <1> USE ControlPoints, NoneAssumption DEF TypeOK, LockFile, Goto, Exit, NotWatched
  <1>1. ASSUME NEW p \in Process, Start(p) PROVE TypeOK'
    BY <1>1 DEF Start, FirstStep
  <1>2. ASSUME NEW p \in Process, Detect(p) PROVE TypeOK'
    <2>1. CASE DetectRead(p)
      BY <2>1 DEF DetectRead
    <2>2. CASE DetectLive(p) \/ DetectDead(p) \/ DetectUnlink(p)
      BY <2>2 DEF DetectLive, DetectDead, DetectUnlink
    <2> QED
      BY <1>2, <2>1, <2>2 DEF Detect
  <1>3. ASSUME NEW p \in Process, Acquire(p) PROVE TypeOK'
    <2>1. CASE Create(p) \/ CreateExists(p) \/ RetryExists(p)
      BY <2>1 DEF Create, CreateExists, RetryExists
    <2>2. CASE WritePid(p)
      BY <2>2 DEF WritePid
    <2>3. CASE ReclaimRead(p)
      BY <2>3 DEF ReclaimRead
    <2>4. CASE ReclaimLive(p) \/ ReclaimDead(p) \/ ReclaimUnlink(p)
      BY <2>4 DEF ReclaimLive, ReclaimDead, ReclaimUnlink
    <2> QED
      BY <1>3, <2>1, <2>2, <2>3, <2>4 DEF Acquire
  <1>4. ASSUME NEW p \in Process, Release(p) \/ StopWatch(p) \/ Crash(p) \/ ReusePid(p) PROVE TypeOK'
    BY <1>4 DEF Release, StopWatch, Crash, ReusePid
  <1>5. CASE UNCHANGED vars
    BY <1>5 DEF vars
  <1> QED
    BY <1>1, <1>2, <1>3, <1>4, <1>5 DEF Next

(* Type correctness, for every set of commands. *)
THEOREM TypeCorrect == Spec => []TypeOK
  <1>1. Init => TypeOK
    BY InitLockInv DEF LockInv
  <1>2. QED
    BY <1>1, NextTypeOK, PTL DEF Spec

-----------------------------------------------------------------------------
(* No lock file is left behind by a command that ended by itself. *)
THEOREM NoOrphan == Spec => []NoOrphanLock
  <1>1. Init => NoOrphanLock
    BY DEF Init, NoOrphanLock
  <1>2. TypeOK /\ NoOrphanLock /\ [Next]_vars => NoOrphanLock'
    <2> SUFFICES ASSUME TypeOK, NoOrphanLock, [Next]_vars PROVE NoOrphanLock'
      OBVIOUS
    <2> USE ControlPoints, NoneAssumption
        DEF TypeOK, NoOrphanLock, LockFile, Goto, Exit, NotWatched
    <2>1. ASSUME NEW p \in Process, Start(p) PROVE NoOrphanLock'
      BY <2>1 DEF Start, FirstStep
    <2>2. ASSUME NEW p \in Process, Detect(p) PROVE NoOrphanLock'
      BY <2>2 DEF Detect, DetectRead, DetectLive, DetectDead, DetectUnlink
    <2>3. ASSUME NEW p \in Process, Acquire(p) PROVE NoOrphanLock'
      <3>1. CASE Create(p) \/ WritePid(p)
        BY <3>1 DEF Create, WritePid
      <3>2. CASE CreateExists(p) \/ RetryExists(p)
        BY <3>2 DEF CreateExists, RetryExists
      <3>3. CASE ReclaimRead(p) \/ ReclaimLive(p) \/ ReclaimDead(p) \/ ReclaimUnlink(p)
        BY <3>3 DEF ReclaimRead, ReclaimLive, ReclaimDead, ReclaimUnlink
      <3> QED
        BY <2>3, <3>1, <3>2, <3>3 DEF Acquire
    <2>4. ASSUME NEW p \in Process, Release(p) \/ StopWatch(p) \/ Crash(p) \/ ReusePid(p) PROVE NoOrphanLock'
      BY <2>4 DEF Release, StopWatch, Crash, ReusePid
    <2>5. CASE UNCHANGED vars
      BY <2>5 DEF vars
    <2> QED
      BY <2>1, <2>2, <2>3, <2>4, <2>5 DEF Next
  <1> QED
    BY <1>1, <1>2, TypeCorrect, PTL DEF Spec

-----------------------------------------------------------------------------
(* The steps of LockInv.  Each lemma is one group of actions; p is the     *)
(* process that moves.                                                     *)

LEMMA StartLockInv ==
  ASSUME LockInv, TypeOK', NEW p \in Process, Start(p)
  PROVE  LockInv'
  <1> USE ControlPoints DEF LockInv, TypeOK, Start, FirstStep, Goto
  <1>3. Holders' = Holders
    BY DEF Holders
  <1>4. HolderOwnsFile' /\ \A q \in Process : pc'[q] \in Running => q \in alive'
    BY <1>3 DEF HolderOwnsFile, Holders, Running
  <1>5. \A q \in Process : pc'[q] = "write_pid" =>
          lock' # NoLock /\ lock'.creator = q /\ lock'.pid = NoPid
    OBVIOUS
  <1>6. \A q \in Process : JudgesHolder(q)'
    BY <1>3 DEF JudgesHolder
  <1> QED
    BY <1>4, <1>5, <1>6

LEMMA DetectLockInv ==
  ASSUME Serial, LockInv, TypeOK', NEW p \in Process, Detect(p)
  PROVE  LockInv'
  <1> USE ControlPoints, NoneAssumption DEF LockInv, TypeOK, LockFile, Goto, Exit, NotWatched
  <1>0. Busy(p) /\ \A q \in Process : Busy(q) => q = p
    BY DEF Serial, Detect, DetectRead, DetectLive, DetectDead, DetectUnlink, Busy
  <1>1. CASE DetectRead(p)
    BY <1>0, <1>1 DEF DetectRead, Busy, HolderOwnsFile, Holders, JudgesHolder, Running
  <1>2. CASE DetectLive(p)
    BY <1>0, <1>2 DEF DetectLive, Busy, HolderOwnsFile, Holders, JudgesHolder, Running
  <1>3. CASE DetectDead(p)
    BY <1>0, <1>3 DEF DetectDead, Busy, HolderOwnsFile, Holders, JudgesHolder, Running
  <1>4. CASE DetectUnlink(p)
    BY <1>0, <1>4 DEF DetectUnlink, Busy, HolderOwnsFile, Holders, JudgesHolder, Running
  <1> QED
    BY <1>1, <1>2, <1>3, <1>4 DEF Detect

LEMMA AcquireLockInv ==
  ASSUME Serial, LockInv, TypeOK', NEW p \in Process, Acquire(p)
  PROVE  LockInv'
  <1> USE ControlPoints, NoneAssumption DEF LockInv, TypeOK, LockFile, Goto, Exit
  <1>0. Busy(p) /\ \A q \in Process : Busy(q) => q = p
    BY DEF Serial, Acquire, Create, WritePid, CreateExists, RetryExists, ReclaimRead,
           ReclaimLive, ReclaimDead, ReclaimUnlink, Busy
  <1>1. CASE Create(p)
    BY <1>0, <1>1 DEF Create, Busy, HolderOwnsFile, Holders, JudgesHolder, Running
  <1>2. CASE WritePid(p)
    <2>1. lock # NoLock /\ lock.creator = p /\ lock.pid = NoPid
      BY <1>2 DEF WritePid
    <2>2. lock' = [creator |-> p, pid |-> p]
      BY <1>2, <2>1 DEF WritePid
    <2>3. pc' = [pc EXCEPT ![p] = "hold"] /\ UNCHANGED <<seen, alive>>
      BY <1>2 DEF WritePid
    <2>4. Holders = {} /\ \A q \in Process : pc'[q] = "hold" => q = p
      BY <2>1, <2>3 DEF HolderOwnsFile, Holders
    <2>5. \A q \in Process : pc'[q] \in Running => q \in alive'
      BY <1>2, <2>3 DEF WritePid, Running
    <2>6. \A q \in Process : ~Busy(q)'
      BY <1>0, <2>3 DEF Busy
    <2>7. HolderOwnsFile'
      BY <2>2, <2>4 DEF HolderOwnsFile, Holders
    <2>8. \A q \in Process : JudgesHolder(q)'
      BY <2>6 DEF JudgesHolder, Busy
    <2> QED
      BY <2>3, <2>4, <2>5, <2>6, <2>7, <2>8 DEF Busy
  <1>3. CASE CreateExists(p) \/ RetryExists(p)
    BY <1>0, <1>3 DEF CreateExists, RetryExists, Busy, HolderOwnsFile, Holders, JudgesHolder, Running
  <1>4. CASE ReclaimRead(p)
    BY <1>0, <1>4 DEF ReclaimRead, Busy, HolderOwnsFile, Holders, JudgesHolder, Running
  <1>5. CASE ReclaimLive(p) \/ ReclaimDead(p)
    BY <1>0, <1>5 DEF ReclaimLive, ReclaimDead, Busy, HolderOwnsFile, Holders, JudgesHolder, Running
  <1>6. CASE ReclaimUnlink(p)
    BY <1>0, <1>6 DEF ReclaimUnlink, Busy, HolderOwnsFile, Holders, JudgesHolder, Running
  <1> QED
    BY <1>1, <1>2, <1>3, <1>4, <1>5, <1>6 DEF Acquire

LEMMA EndLockInv ==
  ASSUME LockInv, TypeOK', NEW p \in Process, Release(p) \/ StopWatch(p) \/ Crash(p) \/ ReusePid(p)
  PROVE  LockInv'
  <1> USE ControlPoints, NoneAssumption DEF LockInv, TypeOK, LockFile, Goto, Exit
  <1>1. CASE Release(p)
    BY <1>1 DEF Release, Busy, HolderOwnsFile, Holders, JudgesHolder, Running
  <1>4. CASE StopWatch(p)
    BY <1>4 DEF StopWatch, Busy, HolderOwnsFile, Holders, JudgesHolder, Running
  <1>2. CASE Crash(p)
    BY <1>2 DEF Crash, Busy, HolderOwnsFile, Holders, JudgesHolder, Running
  <1>3. CASE ReusePid(p)
    BY <1>3 DEF ReusePid, Busy, HolderOwnsFile, Holders, JudgesHolder, Running
  <1> QED
    BY <1>1, <1>2, <1>3, <1>4

(* The lock excludes when commands do not overlap in the acquisition: at   *)
(* most one process holds it, and the file at the path is that process's.  *)
THEOREM Exclusion == Spec => SerialExclusion
  <1>1. Serial /\ LockInv /\ [Next]_vars => LockInv'
    <2> SUFFICES ASSUME Serial, LockInv, [Next]_vars PROVE LockInv'
      OBVIOUS
    <2>0. TypeOK'
      BY NextTypeOK DEF LockInv
    <2>1. CASE Next
      <3>1. PICK p \in Process : \/ Start(p) \/ Detect(p) \/ Acquire(p)
                                 \/ Release(p) \/ StopWatch(p) \/ Crash(p) \/ ReusePid(p)
        BY <2>1 DEF Next
      <3> QED
        BY <2>0, <3>1, StartLockInv, DetectLockInv, AcquireLockInv, EndLockInv
    <2>2. CASE UNCHANGED vars
      BY <2>0, <2>2 DEF vars, LockInv, Busy, HolderOwnsFile, Holders, JudgesHolder, Running
    <2> QED
      BY <2>1, <2>2
  <1>2. LockInv => MutualExclusion /\ HolderOwnsFile
    BY DEF LockInv, MutualExclusion, HolderOwnsFile, Holders
  <1> QED
    BY <1>1, <1>2, InitLockInv, PTL DEF Spec, SerialExclusion
-----------------------------------------------------------------------------
(* The part of the two liveness properties that is not fairness.           *)

\* How far a command is.
Rank(at) ==
    CASE at = "idle"                  -> 0
      [] at \in {"watch", "detect"}   -> 1
      [] at = "detect_alive"          -> 2
      [] at = "detect_unlink"         -> 3
      [] at = "create"                -> 4
      [] at = "reclaim_read"          -> 5
      [] at = "reclaim_alive"         -> 6
      [] at = "reclaim_unlink"        -> 7
      [] at = "retry"                 -> 8
      [] at = "write_pid"             -> 9
      [] at = "hold"                  -> 10
      [] OTHER                        -> 11

(* A command never goes back: a lost race is a refusal or one retry, never *)
(* a loop (try_acquire_watch_lock, detect_live_watcher), whatever the      *)
(* other commands do to the file in between.  A command therefore takes at *)
(* most eleven steps, which with its fairness is StartedIsDecided.         *)
CommandsGoForward ==
    [][\A p \in Process : pc'[p] = pc[p] \/ Rank(pc[p]) < Rank(pc'[p])]_vars

(* The attempt of p to acquire a lock nobody holds, with the file as p     *)
(* left it.                                                                *)
Free(p) ==
    /\ Holders = {}
    /\ pc[p] \in Acquiring
    /\ pc[p] \in {"reclaim_read", "reclaim_alive", "reclaim_unlink"} => lock # NoLock
    /\ pc[p] = "retry" => lock = NoLock

(* An attempt at a lock nobody holds is not refused, as long as commands   *)
(* do not overlap: it stays one until the command has the lock, is killed, *)
(* or finds that the pid in the file belongs to a foreign program.  This   *)
(* is what StaleLockIsReclaimed says, short of the fairness.               *)
FreeLockIsTaken ==
    [][Serial => \A p \in Process :
         Free(p) => Free(p)' \/ pc'[p] \in {"hold", "crashed"} \/ ForeignPid(seen[p])]_vars

(* A pid that was written to a lock file, or read from one, is that of a   *)
(* command that holds the lock or has ended.                               *)
PidsDecided ==
    /\ lock # NoLock /\ lock.pid # NoPid => pc[lock.pid] \in Outcome
    /\ \A p \in Process :
          pc[p] \in {"detect_alive", "reclaim_alive"} => seen[p] # NoPid /\ pc[seen[p]] \in Outcome

\* The step of one command.
StepOf(p) == Start(p) \/ Detect(p) \/ Acquire(p) \/ Release(p) \/ StopWatch(p) \/ Crash(p) \/ ReusePid(p)

(* What a step of p does to the control state, and to p's own reading.     *)
LEMMA StepMoves ==
  ASSUME TypeOK, NEW p \in Process, StepOf(p)
  PROVE  /\ \A q \in Process \ {p} : pc'[q] = pc[q] /\ seen'[q] = seen[q]
         /\ pc'[p] = pc[p] \/ Rank(pc[p]) < Rank(pc'[p])
  <1> USE ControlPoints DEF TypeOK, Goto, Exit, Rank
  <1>1. CASE Start(p)
    BY <1>1 DEF Start, FirstStep
  <1>2. CASE Detect(p)
    BY <1>2 DEF Detect, DetectRead, DetectLive, DetectDead, DetectUnlink, NotWatched
  <1>3. CASE Acquire(p)
    <2>1. CASE Create(p) \/ WritePid(p) \/ CreateExists(p) \/ RetryExists(p)
      BY <2>1 DEF Create, WritePid, CreateExists, RetryExists
    <2>2. CASE ReclaimRead(p) \/ ReclaimLive(p) \/ ReclaimDead(p) \/ ReclaimUnlink(p)
      BY <2>2 DEF ReclaimRead, ReclaimLive, ReclaimDead, ReclaimUnlink
    <2> QED
      BY <1>3, <2>1, <2>2 DEF Acquire
  <1>4. CASE Release(p) \/ StopWatch(p) \/ Crash(p) \/ ReusePid(p)
    BY <1>4 DEF Release, StopWatch, Crash, ReusePid, Running
  <1> QED
    BY <1>1, <1>2, <1>3, <1>4 DEF StepOf

(* Commands only go forward, for every number of them. *)
THEOREM CommandsAdvance == Spec => CommandsGoForward
  <1>1. TypeOK /\ [Next]_vars =>
          [\A p \in Process : pc'[p] = pc[p] \/ Rank(pc[p]) < Rank(pc'[p])]_vars
    <2> SUFFICES ASSUME TypeOK, Next, NEW q \in Process
                 PROVE  pc'[q] = pc[q] \/ Rank(pc[q]) < Rank(pc'[q])
      BY DEF vars
    <2>1. PICK p \in Process : StepOf(p)
      BY DEF Next, StepOf
    <2> QED
      BY <2>1, StepMoves
  <1> QED
    BY <1>1, TypeCorrect, PTL DEF Spec, CommandsGoForward

(* A command with an outcome keeps one. *)
LEMMA OutcomeStays ==
  ASSUME TypeOK, TypeOK', Next, NEW q \in Process, pc[q] \in Outcome
  PROVE  pc'[q] \in Outcome
  <1>1. PICK p \in Process : StepOf(p)
    BY DEF Next, StepOf
  <1>2. pc'[q] = pc[q] \/ Rank(pc[q]) < Rank(pc'[q])
    BY <1>1, StepMoves
  <1>3. pc'[q] \in Control
    BY DEF TypeOK
  <1> QED
    BY <1>2, <1>3, ControlPoints DEF Rank, Outcome

(* PidsDecided is preserved by every step. *)
LEMMA PidsStep == ASSUME TypeOK, TypeOK', PidsDecided, [Next]_vars PROVE PidsDecided'
  <1>1. CASE UNCHANGED vars
    BY <1>1 DEF vars, PidsDecided
  <1>2. CASE Next
    <2>1. PICK p \in Process : StepOf(p)
      BY <1>2 DEF Next, StepOf
    <2>2. \A q \in Process : pc[q] \in Outcome => pc'[q] \in Outcome
      BY <1>2, OutcomeStays
    <2>3. \A q \in Process \ {p} : pc'[q] = pc[q] /\ seen'[q] = seen[q]
      BY <2>1, StepMoves
    <2>4. lock' = lock \/ lock' = NoLock \/ lock'.pid = NoPid
             \/ (lock'.pid = p /\ pc'[p] = "hold")
      BY <2>1 DEF StepOf, Start, Detect, DetectRead, DetectLive, DetectDead, DetectUnlink,
         Acquire, Create, WritePid, CreateExists, RetryExists, ReclaimRead, ReclaimLive,
         ReclaimDead, ReclaimUnlink, Release, StopWatch, Crash, ReusePid, Goto, Exit,
         TypeOK, LockFile
    <2>5. pc'[p] \in {"detect_alive", "reclaim_alive"} =>
             lock # NoLock /\ lock.pid # NoPid /\ seen'[p] = lock.pid
      BY <2>1, NoneAssumption, ControlPoints
         DEF StepOf, Start, FirstStep, Detect, DetectRead, DetectLive, DetectDead, DetectUnlink,
         Acquire, Create, WritePid, CreateExists, RetryExists, ReclaimRead, ReclaimLive,
         ReclaimDead, ReclaimUnlink, Release, StopWatch, Crash, ReusePid, Goto, Exit,
         NotWatched, TypeOK, LockFile
    <2>6. \A q \in Process : seen[q] \in Process \cup {NoPid} /\ seen'[q] \in Process \cup {NoPid}
      BY DEF TypeOK
    <2>7. lock # NoLock => lock.pid \in Process \cup {NoPid}
      BY DEF TypeOK, LockFile
    <2>8. lock' # NoLock /\ lock'.pid # NoPid => pc'[lock'.pid] \in Outcome
      BY <2>2, <2>4, <2>7 DEF PidsDecided, Outcome
    <2>9. ASSUME NEW q \in Process, pc'[q] \in {"detect_alive", "reclaim_alive"}
          PROVE  seen'[q] # NoPid /\ pc'[seen'[q]] \in Outcome
      <3>1. CASE q = p
        BY <2>2, <2>5, <2>7, <2>9, <3>1 DEF PidsDecided
      <3>2. CASE q # p
        BY <2>2, <2>3, <2>6, <2>9, <3>2 DEF PidsDecided
      <3> QED
        BY <3>1, <3>2
    <2> QED
      BY <2>8, <2>9 DEF PidsDecided
  <1> QED
    BY <1>1, <1>2

(* PidsDecided holds in every reachable state. *)
LEMMA PidsAlways == Spec => []PidsDecided
  <1>1. Init => PidsDecided
    BY NoneAssumption DEF Init, PidsDecided
  <1> QED
    BY <1>1, PidsStep, TypeCorrect, PTL DEF Spec

(* The step of the command whose attempt it is. *)
LEMMA FreeOwnStep ==
  ASSUME TypeOK, PidsDecided, NEW p \in Process, Free(p), StepOf(p)
  PROVE  Free(p)' \/ pc'[p] \in {"hold", "crashed"} \/ ForeignPid(seen[p])
  <1> USE ControlPoints, NoneAssumption DEF TypeOK, LockFile, Free, Holders, Goto, Exit
  <1>1. CASE Create(p) \/ WritePid(p)
    BY <1>1 DEF Create, WritePid
  <1>2. CASE CreateExists(p) \/ RetryExists(p)
    BY <1>2 DEF CreateExists, RetryExists
  <1>3. CASE ReclaimRead(p)
    BY <1>3 DEF ReclaimRead
  <1>4. CASE ReclaimLive(p)
    <2>1. seen[p] \in Process /\ pc[seen[p]] \in Outcome /\ pc[p] = "reclaim_alive"
      BY <1>4 DEF ReclaimLive, PidsDecided
    <2>2. pc[seen[p]] \in Ended /\ seen[p] # p
      BY <2>1 DEF Outcome
    <2> QED
      BY <1>4, <2>2 DEF ReclaimLive, ForeignPid
  <1>5. CASE ReclaimDead(p) \/ ReclaimUnlink(p)
    BY <1>5 DEF ReclaimDead, ReclaimUnlink
  <1>6. CASE Start(p) \/ Detect(p)
    BY <1>6 DEF Start, Detect, DetectRead, DetectLive, DetectDead, DetectUnlink
  <1>7. CASE Release(p) \/ StopWatch(p) \/ Crash(p) \/ ReusePid(p)
    BY <1>7 DEF Release, StopWatch, Crash, ReusePid
  <1> QED
    BY <1>1, <1>2, <1>3, <1>4, <1>5, <1>6, <1>7 DEF StepOf, Acquire

(* The step of another command, which is not acquiring or detecting. *)
LEMMA FreeOtherStep ==
  ASSUME TypeOK, Serial, NEW p \in Process, Free(p), NEW q \in Process \ {p}, StepOf(q)
  PROVE  Free(p)'
  <1> USE ControlPoints DEF TypeOK
  <1>1. pc[q] \notin Detecting \cup Acquiring \cup {"hold"}
    BY DEF Serial, Busy, Free, Holders
  <1>2. lock' = lock /\ pc'[q] # "hold" /\ \A r \in Process \ {q} : pc'[r] = pc[r]
    BY <1>1 DEF StepOf, Start, FirstStep, Detect, DetectRead, DetectLive, DetectDead, DetectUnlink,
       Acquire, Create, WritePid, CreateExists, RetryExists, ReclaimRead, ReclaimLive,
       ReclaimDead, ReclaimUnlink, Release, StopWatch, Crash, ReusePid, Goto, Exit
  <1> QED
    BY <1>2 DEF Free, Holders

(* A lock nobody holds is acquired by whoever tries to, for every number   *)
(* of commands that do not overlap.                                        *)
THEOREM FreeLock == Spec => FreeLockIsTaken
  <1>1. TypeOK /\ PidsDecided /\ [Next]_vars =>
          [Serial => \A p \in Process :
             Free(p) => Free(p)' \/ pc'[p] \in {"hold", "crashed"} \/ ForeignPid(seen[p])]_vars
    <2> SUFFICES ASSUME TypeOK, PidsDecided, Next, Serial, NEW p \in Process, Free(p)
                 PROVE  Free(p)' \/ pc'[p] \in {"hold", "crashed"} \/ ForeignPid(seen[p])
      BY DEF vars
    <2>1. PICK q \in Process : StepOf(q)
      BY DEF Next, StepOf
    <2> QED
      BY <2>1, FreeOwnStep, FreeOtherStep
  <1> QED
    BY <1>1, PidsAlways, TypeCorrect, PTL DEF Spec, FreeLockIsTaken

(* Whoever is turned away is turned away by a holder: an update queues its *)
(* work, and an acquirer is refused for a live pid, only when that pid is  *)
(* at that moment a process that holds the lock, or belongs to a foreign   *)
(* program, however the commands overlap (detect_live_watcher,             *)
(* reclaim_stale_watch_lock_at).  That the holder is a watcher, which      *)
(* drains the queue, is what QueuedOnlyForWatcher asks and the code does   *)
(* not give.                                                               *)
TurnedAwayByHolder ==
    [][\A p \in Process :
         pc[p] \in {"detect_alive", "reclaim_alive"} /\ pc'[p] \in {"queued", "failed"}
            => seen[p] \in Holders \/ ForeignPid(seen[p])]_vars

(* A live pid that was read is a holder's or a foreign program's, for      *)
(* every number of commands and every overlap of them. *)
THEOREM HolderTurnsAway == Spec => TurnedAwayByHolder
  <1>1. TypeOK /\ PidsDecided /\ [Next]_vars =>
          [\A p \in Process :
             pc[p] \in {"detect_alive", "reclaim_alive"} /\ pc'[p] \in {"queued", "failed"}
                => seen[p] \in Holders \/ ForeignPid(seen[p])]_vars
    <2> SUFFICES ASSUME TypeOK, PidsDecided, Next, NEW p \in Process,
                        pc[p] \in {"detect_alive", "reclaim_alive"}, pc'[p] \in {"queued", "failed"}
                 PROVE  seen[p] \in Holders \/ ForeignPid(seen[p])
      BY DEF vars
    <2> USE ControlPoints DEF TypeOK, Goto, Exit
    <2>1. seen[p] \in Process /\ pc[seen[p]] \in Outcome
      BY DEF PidsDecided
    <2>2. PICK q \in Process : StepOf(q)
      BY DEF Next, StepOf
    <2>3. q = p
      BY <2>2, StepMoves
    <2>4. seen[p] \in {p} \cup alive
      BY <2>2, <2>3 DEF StepOf, Start, Detect, DetectRead, DetectLive, DetectDead, DetectUnlink,
         Acquire, Create, WritePid, CreateExists, RetryExists, ReclaimRead, ReclaimLive,
         ReclaimDead, ReclaimUnlink, Release, StopWatch, Crash, ReusePid
    <2>5. seen[p] # p
      BY <2>1 DEF Outcome
    <2> QED
      BY <2>1, <2>4, <2>5 DEF Outcome, Holders, ForeignPid
  <1> QED
    BY <1>1, PidsAlways, TypeCorrect, PTL DEF Spec, TurnedAwayByHolder

=============================================================================
