---------------------------- MODULE ServingProofs ----------------------------
(***************************************************************************)
(* Theorems about FullPipeline and Serving for any number of versions,     *)
(* commands and faults, when commands run one at a time and the deep stage *)
(* does not fail between its marker and the last of its artifacts: what a  *)
(* completed pipeline leaves is fresh, what it skipped was there, and what *)
(* one stage takes over from another is of the same graph.  With updates   *)
(* next to a pipeline and failures at any step as well, every value keeps  *)
(* its type and a server misses no digest that was announced.              *)
(***************************************************************************)
EXTENDS Serving, TLAPS

(* The steps from the marker of the deep stage to its last artifact, and   *)
(* from the digest of the blast snapshot to the analysis it vouches for.   *)
Unsafe == {"cfg", "blast", "save", "track", "dashboard"}

(* Commands run one at a time, and those steps do not fail.                *)
Sheltered == ~Watching /\ FaultsIn \cap Unsafe = {}

(***************************************************************************)
(* The inductive invariant.                                                *)
(***************************************************************************)
AfterIndex == {"mark", "analyse", "announce"} \cup Unsafe
AfterDeep  == {"semantic", "embed", "label", "store", "finish"}
Sourced    == snap # None /\ snap.of = source

(* What a command has found out and what it works on.                      *)
JobInv ==
    /\ job.stage # "basic" => job.full
    /\ job.reuse => Deep /\ pc # "blast"
    /\ pc = "index" /\ job.force => ~Deep /\ materialized = None
    /\ pc \in AfterIndex => Sourced /\ job.digest = snap
    /\ pc \in AfterIndex \ {"mark"} => job.graph = snap
    /\ pc = "mark" /\ job.reused => job.graph = snap
    /\ pc \in AfterIndex /\ job.reused => tracker = source
    /\ pc \in AfterIndex /\ Deep => job.reused
    /\ pc = "index" /\ Deep => Sourced /\ tracker = source
    /\ pc \in {"dashboard", "announce", "deep"} \cup AfterDeep => Sourced /\ tracker = source
    /\ pc \in {"cfg", "dashboard"} => Deep
    /\ Deep /\ pc \in {"analyse", "announce"} \cup Unsafe => materialized # None
    /\ pc = "store" => job.digest = snap
    /\ pc \in {"label", "store"} => job.graph = snap

(* An update runs alone; it has written a snapshot and not its hashes.     *)
UpdateInv ==
    upd # "idle" =>
        /\ pc = "idle"
        /\ Sourced
        /\ upd = "sidecars" => tracker # source

(* The hashes are never ahead of the snapshot.                             *)
TrackerInv ==
    /\ tracker # None => snap # None /\ tracker <= snap.of
    /\ snap # None => snap.of <= source

(* The blast snapshot vouches for the analysis, and the digest of the      *)
(* semantic index for its graph.                                           *)
PairsInv ==
    /\ IF pc = "save" /\ ~job.reuse THEN blast = snap ELSE analysis = blast
    /\ semantic # None => semantic.digest = semantic.graph
    /\ pc = "finish" => semantic.graph = snap

(* The marker of the deep stage is not ahead of the hashes.                *)
MarkerInv ==
    harmonic # None => materialized # None /\ tracker # None /\ harmonic.of <= tracker

DeepFresh == dash = snap /\ cfg = snap /\ blast = snap

(* It vouches for the artifacts of that stage, but while they are written. *)
FreshInv ==
    /\ harmonic = snap /\ snap # None => DeepFresh \/ (Deep /\ pc \in Unsafe)
    /\ Deep /\ pc \in Unsafe \ {"cfg"} => cfg = snap
    /\ Deep /\ pc = "cfg" /\ job.reuse => blast = snap
    /\ Deep /\ pc \in {"save", "track", "dashboard"} => blast = snap
    /\ Deep /\ pc = "announce" => DeepFresh
    /\ pc \in AfterDeep => DeepFresh

PipelineInv ==
    /\ TypeOK
    /\ JobInv /\ UpdateInv /\ TrackerInv /\ PairsInv /\ MarkerInv /\ FreshInv

-----------------------------------------------------------------------------
USE DEF disk, Keep, Goto

LEMMA DigestTyped ==
    /\ \A d \in Snapshot : d.of \in Version /\ d.fields \in BOOLEAN /\ d # None
    /\ \A v \in Version, b \in BOOLEAN : [of |-> v, fields |-> b] \in Snapshot
    /\ \A v \in Version : v \in Nat /\ v # None
BY NoneAssumption, BoundsAssumption DEF Snapshot, Version

StatusType == [digest: Digest, done: BOOLEAN,
               plan: [Stages -> {"pending", "running", "complete", "failed", "skipped"}]]
JobType == [full: BOOLEAN, stage: Stages, force: BOOLEAN, reused: BOOLEAN,
            reuse: BOOLEAN, digest: Digest, graph: Digest]

(* The values a command starts from.                                       *)
LEMMA StartTyped ==
    /\ DefaultStatus \in StatusType
    /\ NoJob \in JobType
    /\ [NoJob EXCEPT !.full = TRUE] \in JobType
    /\ \A s \in Stages, force \in BOOLEAN :
          [NoJob EXCEPT !.full = TRUE, !.stage = s, !.force = force] \in JobType
BY DEF DefaultStatus, StatusType, NoJob, JobType, Digest, Stages

LEMMA StageTyped ==
    ASSUME status \in StatusType, NEW s \in Stages,
           NEW to \in {"pending", "running", "complete", "failed", "skipped"}
    PROVE  [status EXCEPT !.plan[s] = to] \in StatusType
BY DEF StatusType

LEMMA BeginsTyped ==
    ASSUME NEW s \in Stages, Begins(s)
    PROVE  job' \in JobType
BY StartTyped DEF Begins

LEMMA CountTyped ==
    ASSUME TypeOK
    PROVE  /\ source < MaxVersion => source + 1 \in Version
           /\ commands < MaxCommands => commands + 1 \in 0..MaxCommands
           /\ faults < MaxFaults => faults + 1 \in 0..MaxFaults
BY BoundsAssumption DEF TypeOK, Version

LEMMA InitTyped == Init => TypeOK
<1> SUFFICES ASSUME Init PROVE TypeOK
  OBVIOUS
<1>1. source \in Version
  BY BoundsAssumption DEF Init, Version
<1>2. 0 \in 0..MaxCommands /\ 0 \in 0..MaxFaults
  BY BoundsAssumption
<1> QED BY <1>1, <1>2, StartTyped DEF Init, TypeOK, Digest, StatusType, JobType

(* Past the indexing a command has a digest.                               *)
HasDigest == pc \in AfterIndex => job.digest # None

LEMMA StepTyped == TypeOK /\ HasDigest /\ [Next]_vars => TypeOK'
<1> SUFFICES ASSUME TypeOK, HasDigest, [Next]_vars PROVE TypeOK'
  OBVIOUS
<1> USE DEF TypeOK, StatusType, JobType
<1>1. CASE Edit
  BY <1>1, CountTyped DEF Edit
<1>2. CASE BeginDiscover
  BY <1>2, CountTyped, StartTyped DEF BeginDiscover, CanBegin, Steps
<1>3. CASE BeginFull
  BY <1>3, CountTyped, StartTyped DEF BeginFull, CanBegin
<1>4. CASE RemoveLock
  BY <1>4, DigestTyped DEF RemoveLock
<1>5. CASE CheckBasic
  BY <1>5, StageTyped, BeginsTyped DEF CheckBasic, SetStage, Stages, Steps
<1>6. CASE CheckDeep
  <2>1. status' \in StatusType
    BY <1>6, StageTyped DEF CheckDeep, SetStage, Stages
  <2>2. job' \in JobType
    BY <1>6, BeginsTyped DEF CheckDeep, Stages
  <2> QED BY <1>6, <2>1, <2>2 DEF CheckDeep, Steps
<1>7. CASE CheckSemantic
  BY <1>7, StageTyped, BeginsTyped DEF CheckSemantic, SetStage, Stages, Steps
<1>8. CASE Index
  <2>1. snap' \in Digest
    BY <1>8, DigestTyped DEF Index, Digest
  <2>2. job' \in JobType
    BY <1>8, <2>1 DEF Index, ReuseSnapshot
  <2> QED BY <1>8, <2>1, <2>2 DEF Index, Steps
<1>9. CASE Mark
  BY <1>9, DigestTyped DEF Mark, Steps
<1>10. CASE Analyse
  BY <1>10, DigestTyped DEF Analyse, ReuseAnalysis, Steps
<1>11. CASE WriteCfg
  BY <1>11, DigestTyped, CountTyped DEF WriteCfg, Attempt, CanFault, Steps
<1>12. CASE WriteBlast
  BY <1>12, DigestTyped, CountTyped DEF WriteBlast, Attempt, CanFault, Steps
<1>13. CASE SaveAnalysis
  BY <1>13, DigestTyped DEF SaveAnalysis, Steps
<1>14. CASE SaveTracker
  <2>1. job.digest.of \in Version
    BY <1>14, DigestTyped DEF SaveTracker, HasDigest, AfterIndex, Unsafe, Digest
  <2> QED BY <1>14, <2>1 DEF SaveTracker, Steps
<1>15. CASE ExportDashboard
  BY <1>15, CountTyped DEF ExportDashboard, Attempt, CanFault, Steps
<1>16. CASE Announce
  BY <1>16, DigestTyped DEF Announce, Stages
<1>17. CASE Embed
  BY <1>17, DigestTyped DEF Embed, Steps
<1>18. CASE Label
  BY <1>18, DigestTyped DEF Label, Steps
<1>19. CASE StoreIndex
  BY <1>19, DigestTyped DEF StoreIndex, SetStage, Stages
<1>20. CASE Finish
  BY <1>20, DigestTyped DEF Finish, NoJob, Stages, Digest
<1>21. CASE Fail
  BY <1>21, CountTyped, StartTyped, StageTyped DEF Fail, CanFault
<1>22. CASE Crash
  BY <1>22, CountTyped, StartTyped DEF Crash, CanFault
<1>23. CASE UpdateSnapshot
  BY <1>23, DigestTyped DEF UpdateSnapshot, Digest, Snapshot
<1>24. CASE DropSidecars
  BY <1>24, DigestTyped DEF DropSidecars, Digest
<1>25. CASE UpdateTracker
  BY <1>25, DigestTyped DEF UpdateTracker
<1>26. CASE UpdateCrash
  BY <1>26, CountTyped DEF UpdateCrash
<1>27. CASE UNCHANGED vars
  BY <1>27 DEF vars
<1> QED
  BY <1>1, <1>2, <1>3, <1>4, <1>5, <1>6, <1>7, <1>8, <1>9, <1>10, <1>11, <1>12, <1>13,
     <1>14, <1>15, <1>16, <1>17, <1>18, <1>19, <1>20, <1>21, <1>22, <1>23, <1>24,
     <1>25, <1>26, <1>27
     DEF Next, Run, Check, Update

-----------------------------------------------------------------------------
(* What is used of the types, with nothing of them that is not.            *)
LEMMA TypesUsed ==
    ASSUME PipelineInv
    PROVE  /\ source \in Nat /\ source # None
           /\ tracker # None => tracker \in Nat
           /\ snap # None => snap.of \in Nat /\ snap.fields \in BOOLEAN
           /\ harmonic # None => harmonic.of \in Nat
           /\ job \in JobType /\ status \in StatusType
           /\ pc \in Steps \cup {"idle", "basic", "deep", "semantic", "finish"}
BY DigestTyped DEF PipelineInv, TypeOK, Digest, JobType, StatusType

(* A command runs alone, and fails only where it may.                      *)
LEMMA Alone ==
    ASSUME PipelineInv, Sheltered
    PROVE  /\ CanBegin => upd = "idle"
           /\ UpdateSnapshot => pc = "idle"
           /\ upd # "idle" => pc = "idle"
           /\ CanFault => pc \notin Unsafe
BY DEF PipelineInv, Sheltered, CanBegin, UpdateSnapshot, UpdateInv, CanFault

(* What a command knows stays true while it runs.                          *)
LEMMA JobStep ==
    ASSUME PipelineInv, Sheltered, [Next]_vars
    PROVE  JobInv'
<1> USE TypesUsed, Alone
    DEF PipelineInv, JobInv, TrackerInv, AfterIndex, AfterDeep, Unsafe, Sourced, Deep,
        JobType
<1>1. CASE Edit
  BY <1>1 DEF Edit
<1>2. CASE BeginDiscover
  BY <1>2 DEF BeginDiscover, CanBegin, NoJob
<1>3. CASE BeginFull
  BY <1>3 DEF BeginFull, CanBegin, NoJob
<1>4. CASE RemoveLock
  BY <1>4 DEF RemoveLock
<1>5. CASE CheckBasic
  <2>1. SkipBasic => Sourced /\ tracker = source
    BY DEF SkipBasic, SourcesUnchanged
  <2>2. CASE SkipBasic
    BY <1>5, <2>1, <2>2 DEF CheckBasic
  <2>3. CASE ~SkipBasic
    <3>1. /\ job'.stage = "basic" /\ job'.full /\ ~job'.reuse
          /\ job'.force => materialized = None
          /\ pc' = "index" /\ materialized' = materialized
      BY <1>5, <2>3 DEF CheckBasic, Begins, NoJob
    <3> QED BY <3>1
  <2> QED BY <2>2, <2>3
<1>6. CASE CheckDeep
  BY <1>6 DEF CheckDeep, SkipDeep, Begins, NoJob
<1>7. CASE CheckSemantic
  <2>1. CASE SkipSemantic
    BY <1>7, <2>1 DEF CheckSemantic
  <2>2. CASE ~SkipSemantic
    <3>1. job' = [full |-> TRUE, stage |-> "semantic", force |-> FALSE, reused |-> FALSE,
                  reuse |-> FALSE, digest |-> None, graph |-> None]
      BY <1>7, <2>2 DEF CheckSemantic, Begins, NoJob
    <3> QED BY <1>7, <2>2, <3>1 DEF CheckSemantic
  <2> QED BY <2>1, <2>2
<1>8. CASE Index
  <2>1. snap' # None /\ snap'.of = source
    BY <1>8, DigestTyped DEF Index, ReuseSnapshot, SourcesUnchanged, PipelineInv, TypeOK
  <2> QED BY <1>8, <2>1 DEF Index, ReuseSnapshot, SourcesUnchanged
<1>9. CASE Mark
  BY <1>9 DEF Mark
<1>10. CASE Analyse
  BY <1>10 DEF Analyse, ReuseAnalysis
<1>11. CASE WriteCfg
  BY <1>11 DEF WriteCfg, Attempt, CanFault
<1>12. CASE WriteBlast
  BY <1>12 DEF WriteBlast, Attempt, CanFault
<1>13. CASE SaveAnalysis
  BY <1>13 DEF SaveAnalysis
<1>14. CASE SaveTracker
  BY <1>14 DEF SaveTracker
<1>15. CASE ExportDashboard
  BY <1>15 DEF ExportDashboard, Attempt, CanFault
<1>16. CASE Announce
  BY <1>16 DEF Announce
<1>17. CASE Embed
  BY <1>17 DEF Embed
<1>18. CASE Label
  BY <1>18 DEF Label
<1>19. CASE StoreIndex
  BY <1>19 DEF StoreIndex
<1>20. CASE Finish
  BY <1>20 DEF Finish, NoJob
<1>21. CASE Fail
  BY <1>21 DEF Fail, CanFault, NoJob
<1>22. CASE Crash
  BY <1>22 DEF Crash, CanFault, NoJob
<1>23. CASE UpdateSnapshot
  BY <1>23 DEF UpdateSnapshot, SourcesUnchanged
<1>24. CASE DropSidecars
  BY <1>24 DEF DropSidecars
<1>25. CASE UpdateTracker
  BY <1>25 DEF UpdateTracker
<1>26. CASE UpdateCrash
  BY <1>26 DEF UpdateCrash
<1>27. CASE UNCHANGED vars
  BY <1>27 DEF vars
<1> QED
  BY <1>1, <1>2, <1>3, <1>4, <1>5, <1>6, <1>7, <1>8, <1>9, <1>10, <1>11, <1>12, <1>13,
     <1>14, <1>15, <1>16, <1>17, <1>18, <1>19, <1>20, <1>21, <1>22, <1>23, <1>24,
     <1>25, <1>26, <1>27
     DEF Next, Run, Check, Update

(* An update runs alone.                                                   *)
LEMMA UpdateStep ==
    ASSUME PipelineInv, Sheltered, [Next]_vars
    PROVE  UpdateInv'
<1> USE TypesUsed, Alone
    DEF PipelineInv, UpdateInv, TrackerInv, Sourced, SourcesUnchanged
<1>1. CASE Edit
  BY <1>1 DEF Edit
<1>2. CASE BeginDiscover
  BY <1>2 DEF BeginDiscover, CanBegin, NoJob
<1>3. CASE BeginFull
  BY <1>3 DEF BeginFull, CanBegin, NoJob
<1>4. CASE RemoveLock
  BY <1>4 DEF RemoveLock
<1>5. CASE CheckBasic
  BY <1>5 DEF CheckBasic, SkipBasic, SourcesUnchanged, Begins, NoJob
<1>6. CASE CheckDeep
  BY <1>6 DEF CheckDeep, SkipDeep, Begins, NoJob
<1>7. CASE CheckSemantic
  BY <1>7 DEF CheckSemantic, SkipSemantic, Begins, NoJob
<1>8. CASE Index
  BY <1>8 DEF Index, ReuseSnapshot, SourcesUnchanged
<1>9. CASE Mark
  BY <1>9 DEF Mark
<1>10. CASE Analyse
  BY <1>10 DEF Analyse, ReuseAnalysis
<1>11. CASE WriteCfg
  BY <1>11 DEF WriteCfg, Attempt, CanFault
<1>12. CASE WriteBlast
  BY <1>12 DEF WriteBlast, Attempt, CanFault
<1>13. CASE SaveAnalysis
  BY <1>13 DEF SaveAnalysis
<1>14. CASE SaveTracker
  BY <1>14 DEF SaveTracker
<1>15. CASE ExportDashboard
  BY <1>15 DEF ExportDashboard, Attempt, CanFault
<1>16. CASE Announce
  BY <1>16 DEF Announce
<1>17. CASE Embed
  BY <1>17 DEF Embed
<1>18. CASE Label
  BY <1>18 DEF Label
<1>19. CASE StoreIndex
  BY <1>19 DEF StoreIndex
<1>20. CASE Finish
  BY <1>20 DEF Finish, NoJob
<1>21. CASE Fail
  BY <1>21 DEF Fail, CanFault, NoJob
<1>22. CASE Crash
  BY <1>22 DEF Crash, CanFault, NoJob
<1>23. CASE UpdateSnapshot
  <2>1. snap' # None /\ snap'.of = source
    BY <1>23, DigestTyped DEF UpdateSnapshot, TypeOK
  <2> QED BY <1>23, <2>1 DEF UpdateSnapshot, SourcesUnchanged
<1>24. CASE DropSidecars
  BY <1>24 DEF DropSidecars
<1>25. CASE UpdateTracker
  BY <1>25 DEF UpdateTracker
<1>26. CASE UpdateCrash
  BY <1>26 DEF UpdateCrash
<1>27. CASE UNCHANGED vars
  BY <1>27 DEF vars
<1> QED
  BY <1>1, <1>2, <1>3, <1>4, <1>5, <1>6, <1>7, <1>8, <1>9, <1>10, <1>11, <1>12, <1>13,
     <1>14, <1>15, <1>16, <1>17, <1>18, <1>19, <1>20, <1>21, <1>22, <1>23, <1>24,
     <1>25, <1>26, <1>27
     DEF Next, Run, Check, Update

(* The hashes are never ahead of the snapshot, nor this of the sources.    *)
LEMMA TrackerStep ==
    ASSUME PipelineInv, Sheltered, [Next]_vars
    PROVE  TrackerInv'
<1> USE TypesUsed, Alone
    DEF PipelineInv, TrackerInv, UpdateInv, JobInv, AfterIndex, AfterDeep, Unsafe,
        Sourced, Deep, JobType
<1>1. CASE Edit
  BY <1>1 DEF Edit
<1>2. CASE BeginDiscover
  BY <1>2 DEF BeginDiscover, CanBegin, NoJob
<1>3. CASE BeginFull
  BY <1>3 DEF BeginFull, CanBegin, NoJob
<1>4. CASE RemoveLock
  BY <1>4 DEF RemoveLock
<1>5. CASE CheckBasic
  BY <1>5 DEF CheckBasic, SkipBasic, SourcesUnchanged, Begins, NoJob
<1>6. CASE CheckDeep
  BY <1>6 DEF CheckDeep, SkipDeep, Begins, NoJob
<1>7. CASE CheckSemantic
  BY <1>7 DEF CheckSemantic, SkipSemantic, Begins, NoJob
<1>8. CASE Index
  <2>1. snap' # None /\ snap'.of \in Nat /\ snap'.of <= source
              /\ (tracker # None => tracker <= snap'.of)
    BY <1>8, DigestTyped DEF Index, ReuseSnapshot, SourcesUnchanged, TypeOK
  <2> QED BY <1>8, <2>1 DEF Index
<1>9. CASE Mark
  BY <1>9 DEF Mark
<1>10. CASE Analyse
  BY <1>10 DEF Analyse, ReuseAnalysis
<1>11. CASE WriteCfg
  BY <1>11 DEF WriteCfg, Attempt, CanFault
<1>12. CASE WriteBlast
  BY <1>12 DEF WriteBlast, Attempt, CanFault
<1>13. CASE SaveAnalysis
  BY <1>13 DEF SaveAnalysis
<1>14. CASE SaveTracker
  BY <1>14 DEF SaveTracker
<1>15. CASE ExportDashboard
  BY <1>15 DEF ExportDashboard, Attempt, CanFault
<1>16. CASE Announce
  BY <1>16 DEF Announce
<1>17. CASE Embed
  BY <1>17 DEF Embed
<1>18. CASE Label
  BY <1>18 DEF Label
<1>19. CASE StoreIndex
  BY <1>19 DEF StoreIndex
<1>20. CASE Finish
  BY <1>20 DEF Finish, NoJob
<1>21. CASE Fail
  BY <1>21 DEF Fail, CanFault, NoJob
<1>22. CASE Crash
  BY <1>22 DEF Crash, CanFault, NoJob
<1>23. CASE UpdateSnapshot
  <2>1. snap' # None /\ snap'.of = source
    BY <1>23, DigestTyped DEF UpdateSnapshot, TypeOK
  <2> QED BY <1>23, <2>1 DEF UpdateSnapshot, SourcesUnchanged
<1>24. CASE DropSidecars
  BY <1>24 DEF DropSidecars
<1>25. CASE UpdateTracker
  BY <1>25 DEF UpdateTracker
<1>26. CASE UpdateCrash
  BY <1>26 DEF UpdateCrash
<1>27. CASE UNCHANGED vars
  BY <1>27 DEF vars
<1> QED
  BY <1>1, <1>2, <1>3, <1>4, <1>5, <1>6, <1>7, <1>8, <1>9, <1>10, <1>11, <1>12, <1>13,
     <1>14, <1>15, <1>16, <1>17, <1>18, <1>19, <1>20, <1>21, <1>22, <1>23, <1>24,
     <1>25, <1>26, <1>27
     DEF Next, Run, Check, Update

(* The digest of an artifact vouches for what was written after it.        *)
LEMMA PairsStep ==
    ASSUME PipelineInv, Sheltered, [Next]_vars
    PROVE  PairsInv'
<1> USE TypesUsed, Alone
    DEF PipelineInv, PairsInv, UpdateInv, JobInv, AfterIndex, AfterDeep, Unsafe,
        Sourced, Deep, JobType
<1>1. CASE Edit
  BY <1>1 DEF Edit
<1>2. CASE BeginDiscover
  BY <1>2 DEF BeginDiscover, CanBegin, NoJob
<1>3. CASE BeginFull
  BY <1>3 DEF BeginFull, CanBegin, NoJob
<1>4. CASE RemoveLock
  BY <1>4 DEF RemoveLock
<1>5. CASE CheckBasic
  BY <1>5 DEF CheckBasic, SkipBasic, SourcesUnchanged, Begins, NoJob
<1>6. CASE CheckDeep
  BY <1>6 DEF CheckDeep, SkipDeep, Begins, NoJob
<1>7. CASE CheckSemantic
  BY <1>7 DEF CheckSemantic, SkipSemantic, Begins, NoJob
<1>8. CASE Index
  BY <1>8 DEF Index, ReuseSnapshot, SourcesUnchanged
<1>9. CASE Mark
  BY <1>9 DEF Mark
<1>10. CASE Analyse
  BY <1>10 DEF Analyse, ReuseAnalysis
<1>11. CASE WriteCfg
  BY <1>11 DEF WriteCfg, Attempt, CanFault
<1>12. CASE WriteBlast
  BY <1>12 DEF WriteBlast, Attempt, CanFault
<1>13. CASE SaveAnalysis
  BY <1>13 DEF SaveAnalysis
<1>14. CASE SaveTracker
  BY <1>14 DEF SaveTracker
<1>15. CASE ExportDashboard
  BY <1>15 DEF ExportDashboard, Attempt, CanFault
<1>16. CASE Announce
  BY <1>16 DEF Announce
<1>17. CASE Embed
  BY <1>17 DEF Embed
<1>18. CASE Label
  BY <1>18 DEF Label
<1>19. CASE StoreIndex
  BY <1>19 DEF StoreIndex
<1>20. CASE Finish
  BY <1>20 DEF Finish, NoJob
<1>21. CASE Fail
  BY <1>21 DEF Fail, CanFault, NoJob
<1>22. CASE Crash
  BY <1>22 DEF Crash, CanFault, NoJob
<1>23. CASE UpdateSnapshot
  BY <1>23 DEF UpdateSnapshot, SourcesUnchanged
<1>24. CASE DropSidecars
  BY <1>24 DEF DropSidecars
<1>25. CASE UpdateTracker
  BY <1>25 DEF UpdateTracker
<1>26. CASE UpdateCrash
  BY <1>26 DEF UpdateCrash
<1>27. CASE UNCHANGED vars
  BY <1>27 DEF vars
<1> QED
  BY <1>1, <1>2, <1>3, <1>4, <1>5, <1>6, <1>7, <1>8, <1>9, <1>10, <1>11, <1>12, <1>13,
     <1>14, <1>15, <1>16, <1>17, <1>18, <1>19, <1>20, <1>21, <1>22, <1>23, <1>24,
     <1>25, <1>26, <1>27
     DEF Next, Run, Check, Update

(* The marker of the deep stage is not ahead of the hashes.                *)
LEMMA MarkerStep ==
    ASSUME PipelineInv, Sheltered, [Next]_vars
    PROVE  MarkerInv'
<1> USE TypesUsed, Alone
    DEF PipelineInv, MarkerInv, TrackerInv, UpdateInv, JobInv, AfterIndex, AfterDeep,
        Unsafe, Sourced, Deep, JobType
<1>1. CASE Edit
  BY <1>1 DEF Edit
<1>2. CASE BeginDiscover
  BY <1>2 DEF BeginDiscover, CanBegin, NoJob
<1>3. CASE BeginFull
  BY <1>3 DEF BeginFull, CanBegin, NoJob
<1>4. CASE RemoveLock
  BY <1>4 DEF RemoveLock
<1>5. CASE CheckBasic
  BY <1>5 DEF CheckBasic, SkipBasic, SourcesUnchanged, Begins, NoJob
<1>6. CASE CheckDeep
  BY <1>6 DEF CheckDeep, SkipDeep, Begins, NoJob
<1>7. CASE CheckSemantic
  BY <1>7 DEF CheckSemantic, SkipSemantic, Begins, NoJob
<1>8. CASE Index
  BY <1>8 DEF Index, ReuseSnapshot, SourcesUnchanged
<1>9. CASE Mark
  BY <1>9 DEF Mark
<1>10. CASE Analyse
  BY <1>10 DEF Analyse, ReuseAnalysis
<1>11. CASE WriteCfg
  BY <1>11 DEF WriteCfg, Attempt, CanFault
<1>12. CASE WriteBlast
  BY <1>12 DEF WriteBlast, Attempt, CanFault
<1>13. CASE SaveAnalysis
  BY <1>13 DEF SaveAnalysis
<1>14. CASE SaveTracker
  BY <1>14 DEF SaveTracker
<1>15. CASE ExportDashboard
  BY <1>15 DEF ExportDashboard, Attempt, CanFault
<1>16. CASE Announce
  BY <1>16 DEF Announce
<1>17. CASE Embed
  BY <1>17 DEF Embed
<1>18. CASE Label
  BY <1>18 DEF Label
<1>19. CASE StoreIndex
  BY <1>19 DEF StoreIndex
<1>20. CASE Finish
  BY <1>20 DEF Finish, NoJob
<1>21. CASE Fail
  BY <1>21 DEF Fail, CanFault, NoJob
<1>22. CASE Crash
  BY <1>22 DEF Crash, CanFault, NoJob
<1>23. CASE UpdateSnapshot
  BY <1>23 DEF UpdateSnapshot, SourcesUnchanged
<1>24. CASE DropSidecars
  BY <1>24 DEF DropSidecars
<1>25. CASE UpdateTracker
  BY <1>25 DEF UpdateTracker
<1>26. CASE UpdateCrash
  BY <1>26 DEF UpdateCrash
<1>27. CASE UNCHANGED vars
  BY <1>27 DEF vars
<1> QED
  BY <1>1, <1>2, <1>3, <1>4, <1>5, <1>6, <1>7, <1>8, <1>9, <1>10, <1>11, <1>12, <1>13,
     <1>14, <1>15, <1>16, <1>17, <1>18, <1>19, <1>20, <1>21, <1>22, <1>23, <1>24,
     <1>25, <1>26, <1>27
     DEF Next, Run, Check, Update

(* And it vouches for the artifacts of that stage.                         *)
LEMMA FreshStep ==
    ASSUME PipelineInv, Sheltered, [Next]_vars
    PROVE  FreshInv'
<1> USE TypesUsed, Alone
    DEF PipelineInv, FreshInv, DeepFresh, MarkerInv, TrackerInv, UpdateInv, PairsInv,
        JobInv, AfterIndex, AfterDeep, Unsafe, Sourced, Deep, JobType
<1>1. CASE Edit
  BY <1>1 DEF Edit
<1>2. CASE BeginDiscover
  BY <1>2 DEF BeginDiscover, CanBegin, NoJob
<1>3. CASE BeginFull
  BY <1>3 DEF BeginFull, CanBegin, NoJob
<1>4. CASE RemoveLock
  BY <1>4 DEF RemoveLock
<1>5. CASE CheckBasic
  BY <1>5 DEF CheckBasic, SkipBasic, SourcesUnchanged, Begins, NoJob
<1>6. CASE CheckDeep
  BY <1>6 DEF CheckDeep, SkipDeep, Begins, NoJob
<1>7. CASE CheckSemantic
  BY <1>7 DEF CheckSemantic, SkipSemantic, Begins, NoJob
<1>8. CASE Index
  BY <1>8 DEF Index, ReuseSnapshot, SourcesUnchanged
<1>9. CASE Mark
  BY <1>9 DEF Mark
<1>10. CASE Analyse
  BY <1>10 DEF Analyse, ReuseAnalysis
<1>11. CASE WriteCfg
  BY <1>11 DEF WriteCfg, Attempt, CanFault
<1>12. CASE WriteBlast
  BY <1>12 DEF WriteBlast, Attempt, CanFault
<1>13. CASE SaveAnalysis
  BY <1>13 DEF SaveAnalysis
<1>14. CASE SaveTracker
  BY <1>14 DEF SaveTracker
<1>15. CASE ExportDashboard
  BY <1>15 DEF ExportDashboard, Attempt, CanFault
<1>16. CASE Announce
  BY <1>16 DEF Announce
<1>17. CASE Embed
  BY <1>17 DEF Embed
<1>18. CASE Label
  BY <1>18 DEF Label
<1>19. CASE StoreIndex
  BY <1>19 DEF StoreIndex
<1>20. CASE Finish
  BY <1>20 DEF Finish, NoJob
<1>21. CASE Fail
  BY <1>21 DEF Fail, CanFault, NoJob
<1>22. CASE Crash
  BY <1>22 DEF Crash, CanFault, NoJob
<1>23. CASE UpdateSnapshot
  BY <1>23 DEF UpdateSnapshot, SourcesUnchanged
<1>24. CASE DropSidecars
  BY <1>24 DEF DropSidecars
<1>25. CASE UpdateTracker
  BY <1>25 DEF UpdateTracker
<1>26. CASE UpdateCrash
  BY <1>26 DEF UpdateCrash
<1>27. CASE UNCHANGED vars
  BY <1>27 DEF vars
<1> QED
  BY <1>1, <1>2, <1>3, <1>4, <1>5, <1>6, <1>7, <1>8, <1>9, <1>10, <1>11, <1>12, <1>13,
     <1>14, <1>15, <1>16, <1>17, <1>18, <1>19, <1>20, <1>21, <1>22, <1>23, <1>24,
     <1>25, <1>26, <1>27
     DEF Next, Run, Check, Update

(* PipelineInv is inductive.                                               *)
LEMMA InvStarts == Init => PipelineInv
<1> SUFFICES ASSUME Init PROVE PipelineInv
  OBVIOUS
<1>1. TypeOK
  BY InitTyped
<1>2. JobInv /\ UpdateInv /\ TrackerInv /\ PairsInv /\ MarkerInv /\ FreshInv
  BY DEF Init, NoJob, JobInv, UpdateInv, TrackerInv, PairsInv, MarkerInv, FreshInv,
         AfterIndex, AfterDeep, Unsafe, Deep
<1> QED BY <1>1, <1>2 DEF PipelineInv

LEMMA InvStep ==
    ASSUME PipelineInv, Sheltered, [Next]_vars
    PROVE  PipelineInv'
<1>1. HasDigest
  BY DEF PipelineInv, JobInv, HasDigest, Sourced
<1> QED
  BY <1>1, StepTyped, JobStep, UpdateStep, TrackerStep, PairsStep, MarkerStep, FreshStep
     DEF PipelineInv

LEMMA ServingRunsPipeline ==
    /\ ServeInit => Init
    /\ [ServeNext]_allVars => [Next]_vars
BY DEF ServeInit, ServeNext, allVars, Serve, Start, Stop, Poll, Reload, server

LEMMA InvHolds == ASSUME Sheltered PROVE ServeSpec => []PipelineInv
<1>1. PipelineInv /\ [ServeNext]_allVars => PipelineInv'
  BY InvStep, ServingRunsPipeline
<1> QED BY <1>1, InvStarts, ServingRunsPipeline, PTL DEF ServeSpec

-----------------------------------------------------------------------------
(* An analysis that the deep stage takes over is of the graph it looks at. *)
THEOREM Reused == ASSUME Sheltered PROVE ServeSpec => []ReusedIsCurrent
<1>1. PipelineInv => ReusedIsCurrent
  <2> SUFFICES ASSUME PipelineInv, job.reuse, pc \in {"cfg", "save"}
               PROVE  analysis = job.graph
    BY DEF ReusedIsCurrent
  <2>1. Deep /\ job.graph = snap
    BY DEF PipelineInv, JobInv, AfterIndex, Unsafe
  <2>2. blast = snap /\ analysis = blast
    BY <2>1 DEF PipelineInv, FreshInv, PairsInv
  <2> QED BY <2>1, <2>2
<1> QED BY <1>1, InvHolds, PTL

(* When a pipeline completes, everything it left is of the sources.        *)
THEOREM Complete == ASSUME Sheltered PROVE ServeSpec => CompleteIsFresh
<1>1. ASSUME PipelineInv, [Next]_vars, status'.done, ~status.done
      PROVE  Finish
  <2> USE TypesUsed DEF StatusType
  <2>1. CASE BeginFull
    BY <1>1, <2>1 DEF BeginFull, DefaultStatus
  <2>2. CASE Check \/ StoreIndex \/ Announce \/ Fail
    BY <1>1, <2>2 DEF Check, CheckBasic, CheckDeep, CheckSemantic, StoreIndex,
       Announce, Fail,
                      SetStage
  <2>3. CASE UNCHANGED status
    BY <1>1, <2>3
  <2>4. \/ BeginFull \/ Check \/ StoreIndex \/ Announce \/ Fail \/ Finish
        \/ UNCHANGED status
    BY <1>1 DEF Next, Run, Update, vars, Edit, BeginDiscover, RemoveLock, Index, Mark,
       Analyse,
                WriteCfg, WriteBlast, SaveAnalysis, SaveTracker, ExportDashboard, Embed, Label,
                Crash, UpdateSnapshot, DropSidecars, UpdateTracker, UpdateCrash
  <2> QED BY <2>1, <2>2, <2>3, <2>4
<1>2. ASSUME PipelineInv, Finish
      PROVE  /\ snap # None /\ snap.of = source
             /\ dash = snap /\ cfg = snap /\ analysis = snap
             /\ semantic.graph = snap
  BY <1>2 DEF Finish, PipelineInv, JobInv, PairsInv, FreshInv, DeepFresh, AfterDeep,
     Sourced
<1>3. PipelineInv /\ [ServeNext]_allVars
        => [status'.done /\ ~status.done
              => /\ snap # None /\ snap.of = source
                 /\ dash = snap /\ cfg = snap /\ analysis = snap
                 /\ semantic.graph = snap]_vars
  BY <1>1, <1>2, ServingRunsPipeline
<1> QED BY <1>3, InvHolds, PTL DEF CompleteIsFresh, ServeSpec

(* What a pipeline skips is there, and of the snapshot on disk.            *)
THEOREM Skipped == ASSUME Sheltered PROVE ServeSpec => SkippedIsFresh
<1> DEFINE Newly(s) == status'.plan[s] = "skipped" /\ status.plan[s] # "skipped"
<1>1. ASSUME PipelineInv, [Next]_vars, NEW s \in Stages, Newly(s)
      PROVE  Check
  <2> USE TypesUsed DEF StatusType
  <2>1. CASE BeginFull
    BY <1>1, <2>1 DEF BeginFull, DefaultStatus
  <2>2. CASE StoreIndex \/ Announce \/ Fail \/ Finish
    <3>1. CASE UNCHANGED status \/ status' = [status EXCEPT !.done = TRUE]
      BY <1>1, <3>1
    <3>2. ASSUME NEW t \in Stages, NEW to \in {"complete", "failed"},
                 status'.plan = [status.plan EXCEPT ![t] = to]
          PROVE  FALSE
      BY <1>1, <3>2
    <3>3. job.stage \in Stages /\ "semantic" \in Stages
      BY <1>1 DEF JobType, Stages
    <3>4. \/ UNCHANGED status \/ status' = [status EXCEPT !.done = TRUE]
          \/ \E t \in Stages, to \in {"complete", "failed"} :
                status'.plan = [status.plan EXCEPT ![t] = to]
      <4> USE <1>1
      <4>1. CASE StoreIndex
        BY <4>1, <3>3 DEF StoreIndex, SetStage
      <4>2. CASE Announce
        BY <4>2, <3>3 DEF Announce
      <4>3. CASE Fail
        BY <4>3, <3>3 DEF Fail
      <4>4. CASE Finish
        BY <4>4 DEF Finish
      <4> QED BY <2>2, <4>1, <4>2, <4>3, <4>4
    <3> QED BY <3>1, <3>2, <3>4
  <2>3. CASE UNCHANGED status
    BY <1>1, <2>3
  <2>4. \/ BeginFull \/ Check \/ StoreIndex \/ Announce \/ Fail \/ Finish
        \/ UNCHANGED status
    BY <1>1 DEF Next, Run, Update, vars, Edit, BeginDiscover, RemoveLock, Index, Mark,
       Analyse,
                WriteCfg, WriteBlast, SaveAnalysis, SaveTracker, ExportDashboard, Embed, Label,
                Crash, UpdateSnapshot, DropSidecars, UpdateTracker, UpdateCrash
  <2> QED BY <2>1, <2>2, <2>3, <2>4
<1>2. ASSUME PipelineInv, Check
      PROVE  /\ Newly("basic") => snap.of = source
             /\ Newly("deep") => dash = snap /\ cfg = snap
             /\ Newly("semantic") => semantic.graph = snap
  <2> USE TypesUsed DEF StatusType, Stages, SetStage
  <2>1. CASE CheckBasic
    BY <1>2, <2>1 DEF CheckBasic, SkipBasic, SourcesUnchanged, PipelineInv, TrackerInv
  <2>2. CASE CheckDeep
    BY <1>2, <2>2 DEF CheckDeep, SkipDeep, PipelineInv, FreshInv, DeepFresh, Unsafe
  <2>3. CASE CheckSemantic
    BY <1>2, <2>3 DEF CheckSemantic, SkipSemantic, PipelineInv, PairsInv
  <2> QED BY <1>2, <2>1, <2>2, <2>3 DEF Check
<1>3. ASSUME PipelineInv, [ServeNext]_allVars
      PROVE  [/\ Newly("basic") => snap.of = source
              /\ Newly("deep") => dash = snap /\ cfg = snap
              /\ Newly("semantic") => semantic.graph = snap]_vars
  BY <1>1, <1>2, <1>3, ServingRunsPipeline DEF Stages
<1>4. PipelineInv /\ [ServeNext]_allVars
        => [/\ status'.plan.basic = "skipped" /\ status.plan.basic # "skipped"
                  => snap.of = source
            /\ status'.plan.deep = "skipped" /\ status.plan.deep # "skipped"
                  => dash = snap /\ cfg = snap
            /\ status'.plan.semantic = "skipped" /\ status.plan.semantic # "skipped"
                  => semantic.graph = snap]_vars
  BY <1>3
<1> QED BY <1>4, InvHolds, PTL DEF SkippedIsFresh, ServeSpec

-----------------------------------------------------------------------------
(* What a server may rely on in every environment, updates next to a       *)
(* pipeline and failures at any step included.                             *)

(* A server that does not answer from the snapshot which the status        *)
(* document names is about to reload, or has not seen that digest yet, so  *)
(* that its loop will (pipeline_watch_loop compares the digest with the    *)
(* last one it reloaded for, and never looks at the snapshot to see        *)
(* whether there is anything to reload).                                   *)
NoneMissed ==
    up /\ snap # None /\ status.digest = snap
        => served = snap \/ polled # Absent \/ status.digest # last

(* What a command knows of the hashes, whatever runs next to it.           *)
WorkInv ==
    /\ snap # None => snap.of <= source
    /\ pc = "index" /\ job.force => materialized = None
    /\ pc \in {"index", "mark"} => ~job.reuse
    /\ pc \in AfterIndex =>
         /\ job.digest # None /\ job.digest.of <= source /\ snap # None
         /\ job.reuse => job.reused
         /\ IF job.reused THEN tracker = source ELSE job.digest.of = source
    /\ pc \in AfterIndex \ {"mark"} /\ job.full => materialized # None
    /\ pc \in {"dashboard", "announce"} => tracker = source

(* A digest that was announced is of a snapshot that is not written again: *)
(* the hashes have its version until the sources move past it.             *)
Settled(d) ==
    d \in Snapshot =>
        /\ snap # None /\ materialized # None
        /\ d.of <= source
        /\ d.of = source => tracker = source

(* Whatever digest the server has in hand was announced, and a server that *)
(* reloaded for the digest of the snapshot answers from the snapshot.      *)
LoopInv ==
    /\ Settled(status.digest) /\ Settled(last) /\ Settled(polled)
    /\ up /\ last # None /\ polled = Absent /\ snap = last => served = snap

(* What is used of the types.                                              *)
LEMMA WorkTypes ==
    ASSUME TypeOK
    PROVE  /\ source \in Nat /\ source # None
           /\ snap # None => snap \in Snapshot /\ snap.of \in Nat
           /\ job.digest # None => job.digest \in Snapshot /\ job.digest.of \in Nat
           /\ job \in JobType /\ status \in StatusType
           /\ tracker # source => tracker \in Version \cup {None}
BY DigestTyped DEF TypeOK, Digest, JobType, StatusType

(* What a command starts from.                                             *)
LEMMA NewJobs ==
    /\ ~NoJob.full /\ ~NoJob.force /\ ~NoJob.reuse
    /\ \A s \in Stages : Begins(s) =>
         /\ job'.full /\ ~job'.reuse /\ job'.stage = s
         /\ job'.force => s = "basic" /\ materialized = None
BY DEF NoJob, Begins, Stages

(* WorkInv is preserved by every step, in every environment.               *)
LEMMA WorkStep == ASSUME TypeOK, WorkInv, [Next]_vars PROVE WorkInv'
<1> USE WorkTypes, NewJobs
    DEF WorkInv, AfterIndex, Unsafe, Deep, JobType, Stages
<1>1. CASE Edit
  BY <1>1 DEF Edit
<1>2. CASE BeginDiscover
  BY <1>2 DEF BeginDiscover
<1>3. CASE BeginFull
  BY <1>3 DEF BeginFull
<1>4. CASE RemoveLock
  BY <1>4 DEF RemoveLock
<1>5. CASE Check
  <2>1. CASE CheckBasic
    BY <1>5, <2>1 DEF CheckBasic
  <2>2. CASE CheckDeep
    BY <1>5, <2>2 DEF CheckDeep
  <2>3. CASE CheckSemantic
    BY <1>5, <2>3 DEF CheckSemantic
  <2> QED BY <1>5, <2>1, <2>2, <2>3 DEF Check
<1>6. CASE Index
  <2>1. snap' # None /\ snap'.of <= source /\ (~ReuseSnapshot => snap'.of = source)
    BY <1>6, DigestTyped DEF Index, ReuseSnapshot, TypeOK
  <2>2. /\ job'.digest = snap' /\ job'.reused = ReuseSnapshot /\ job'.reuse = job.reuse
        /\ job'.full = job.full /\ pc = "index" /\ pc' = "mark" /\ source' = source
        /\ tracker' = tracker /\ materialized' = materialized
    BY <1>6 DEF Index
  <2>3. ReuseSnapshot => tracker = source
    BY DEF ReuseSnapshot, SourcesUnchanged
  <2> QED BY <2>1, <2>2, <2>3
<1>7. CASE Mark
  BY <1>7 DEF Mark
<1>8. CASE Analyse
  BY <1>8 DEF Analyse, ReuseAnalysis
<1>9. CASE WriteCfg \/ WriteBlast \/ SaveAnalysis
  BY <1>9 DEF WriteCfg, WriteBlast, SaveAnalysis
<1>10. CASE SaveTracker
  <2>1. tracker' = source
    BY <1>10 DEF SaveTracker
  <2> QED BY <1>10, <2>1 DEF SaveTracker
<1>11. CASE ExportDashboard
  BY <1>11 DEF ExportDashboard
<1>12. CASE Announce
  BY <1>12 DEF Announce
<1>13. CASE Embed \/ Label \/ StoreIndex \/ Finish
  BY <1>13 DEF Embed, Label, StoreIndex, Finish
<1>14. CASE Fail \/ Crash
  BY <1>14 DEF Fail, Crash
<1>15. CASE UpdateSnapshot
  <2>1. snap' # None /\ snap'.of = source
    BY <1>15, DigestTyped DEF UpdateSnapshot, TypeOK
  <2> QED BY <1>15, <2>1 DEF UpdateSnapshot
<1>16. CASE DropSidecars \/ UpdateTracker \/ UpdateCrash
  BY <1>16 DEF DropSidecars, UpdateTracker, UpdateCrash
<1>17. CASE UNCHANGED vars
  BY <1>17 DEF vars
<1> QED
  BY <1>1, <1>2, <1>3, <1>4, <1>5, <1>6, <1>7, <1>8, <1>9, <1>10, <1>11, <1>12, <1>13,
     <1>14, <1>15, <1>16, <1>17
     DEF Next, Run, Update

(* What every step does to the snapshot, the hashes, the fields marker and *)
(* the announced digest.                                                   *)
LEMMA DiskMoves ==
    ASSUME TypeOK, WorkInv, [Next]_vars
    PROVE  /\ source <= source'
           /\ snap' = snap \/ (/\ snap' # None /\ snap'.of = source /\ source' = source
                               /\ \/ snap = None \/ tracker # source \/ materialized = None)
           /\ tracker' = tracker \/ tracker' = source'
           /\ materialized # None => materialized' # None
           /\ \/ status'.digest \in {status.digest, None}
              \/ /\ status'.digest = job.digest /\ job.digest # None /\ job.digest.of <= source
                 /\ tracker = source /\ materialized # None /\ snap # None
                 /\ UNCHANGED <<snap, tracker, materialized, source>>
<1> USE WorkTypes DEF JobType, StatusType, SetStage
<1>1. CASE Edit
  BY <1>1 DEF Edit
<1>2. CASE BeginDiscover \/ BeginFull \/ RemoveLock
  BY <1>2 DEF BeginDiscover, BeginFull, RemoveLock, DefaultStatus
<1>3. CASE Check
  BY <1>3 DEF Check, CheckBasic, CheckDeep, CheckSemantic
<1>4. CASE Index
  <2>1. CASE ReuseSnapshot
    BY <1>4, <2>1 DEF Index
  <2>2. CASE ~ReuseSnapshot
    BY <1>4, <2>2, DigestTyped DEF Index, ReuseSnapshot, SourcesUnchanged, WorkInv, TypeOK
  <2> QED BY <2>1, <2>2
<1>5. CASE Mark \/ Analyse \/ WriteCfg \/ WriteBlast \/ SaveAnalysis
  BY <1>5 DEF Mark, Analyse, WriteCfg, WriteBlast, SaveAnalysis, WorkInv, AfterIndex
<1>6. CASE SaveTracker
  BY <1>6 DEF SaveTracker, WorkInv, AfterIndex, Unsafe
<1>7. CASE ExportDashboard
  BY <1>7 DEF ExportDashboard
<1>8. CASE Announce
  BY <1>8 DEF Announce, WorkInv, AfterIndex
<1>9. CASE Embed \/ Label \/ StoreIndex \/ Finish
  BY <1>9 DEF Embed, Label, StoreIndex, Finish
<1>10. CASE Fail \/ Crash
  <2>1. status'.digest = status.digest
    BY <1>10 DEF Fail, Crash
  <2>2. UNCHANGED <<source, snap, tracker, materialized>>
    BY <1>10 DEF Fail, Crash
  <2> QED BY <2>1, <2>2
<1>11. CASE UpdateSnapshot
  <2>1. snap' # None /\ snap'.of = source /\ tracker # source
    BY <1>11, DigestTyped DEF UpdateSnapshot, SourcesUnchanged, TypeOK
  <2> QED BY <1>11, <2>1 DEF UpdateSnapshot
<1>12. CASE DropSidecars \/ UpdateTracker \/ UpdateCrash
  BY <1>12 DEF DropSidecars, UpdateTracker, UpdateCrash
<1>13. CASE UNCHANGED vars
  BY <1>13 DEF vars
<1> QED
  BY <1>1, <1>2, <1>3, <1>4, <1>5, <1>6, <1>7, <1>8, <1>9, <1>10, <1>11, <1>12, <1>13
     DEF Next, Run, Update

(* An announced digest stays settled, and its snapshot is not written      *)
(* again.                                                                  *)
LEMMA SettledStays ==
    ASSUME TypeOK, TypeOK', WorkInv, [Next]_vars, NEW d, Settled(d), d \in Snapshot
    PROVE  /\ snap' # None /\ materialized' # None
           /\ d.of <= source' /\ (d.of = source' => tracker' = source')
           /\ snap' = d => snap = d
<1>1. d.of \in Nat /\ source \in Nat /\ source' \in Nat
  BY DigestTyped DEF TypeOK, Version
<1>2. /\ snap # None /\ materialized # None
      /\ d.of <= source /\ (d.of = source => tracker = source)
  BY DEF Settled
<1>3. d.of = source' => source = source'
  BY <1>1, <1>2, DiskMoves
<1> QED BY <1>1, <1>2, <1>3, DiskMoves

(* The digest that is announced by a step is settled.                      *)
LEMMA AnnouncedSettled ==
    ASSUME TypeOK, TypeOK', WorkInv, [Next]_vars, Settled(status.digest)
    PROVE  Settled(status.digest)'
<1>1. CASE status'.digest = status.digest
  BY <1>1, SettledStays DEF Settled
<1>2. CASE status'.digest = None
  BY <1>2, NoneAssumption DEF Settled
<1>3. CASE status'.digest \notin {status.digest, None}
  BY <1>3, DiskMoves DEF Settled
<1> QED BY <1>1, <1>2, <1>3

(* LoopInv is preserved by every step of the commands and of the server.   *)
LEMMA LoopStep ==
    ASSUME ServeTypeOK, TypeOK', WorkInv, LoopInv, [ServeNext]_allVars
    PROVE  LoopInv'
<1> USE DEF ServeTypeOK
<1>1. CASE Serve
  <2>1. UNCHANGED vars
    BY <1>1 DEF Serve, Start, Stop, Poll, Reload
  <2>2. \A d : Settled(d)' <=> Settled(d)
    BY <2>1 DEF Settled, vars
  <2>3. Settled(None) /\ Settled(Absent)
    BY NoneAssumption, AbsentAssumption DEF Settled, Digest
  <2>4. last' \in {None, last, polled} /\ polled' \in {Absent, polled, status.digest}
    BY <1>1 DEF Serve, Start, Stop, Poll, Reload
  <2>5. Settled(status.digest)' /\ Settled(last)' /\ Settled(polled)'
    BY <2>1, <2>2, <2>3, <2>4 DEF LoopInv, vars, Settled
  <2>6. up' /\ last' # None /\ polled' = Absent /\ snap' = last' => served' = snap'
    BY <1>1, <2>1 DEF Serve, Start, Stop, Poll, Reload, LoopInv, vars, Digest, TypeOK, StatusType
  <2> QED BY <2>5, <2>6 DEF LoopInv
<1>2. CASE Next /\ UNCHANGED server
  <2>1. Settled(status.digest)'
    BY <1>2, AnnouncedSettled DEF LoopInv
  <2>2. Settled(last)' /\ Settled(polled)'
    BY <1>2, SettledStays DEF LoopInv, Settled, server
  <2>3. ASSUME up', last' # None, polled' = Absent, snap' = last' PROVE served' = snap'
    <3>1. last \in Snapshot /\ last' = last /\ UNCHANGED <<up, served, polled>>
      BY <1>2, <2>3 DEF server, Digest
    <3>2. snap = last
      BY <1>2, <2>3, <3>1, SettledStays DEF LoopInv
    <3> QED BY <2>3, <3>1, <3>2 DEF LoopInv
  <2> QED BY <2>1, <2>2, <2>3 DEF LoopInv
<1>3. CASE UNCHANGED allVars
  BY <1>3 DEF allVars, vars, server, LoopInv, Settled
<1> QED BY <1>1, <1>2, <1>3 DEF ServeNext

(* The server's own variables are well typed.                              *)
LEMMA ServerTyped ==
    ASSUME ServeTypeOK, TypeOK', [ServeNext]_allVars PROVE ServeTypeOK'
<1>1. CASE Serve
  <2>1. {snap, served, last, status.digest, None} \subseteq Digest
    BY DEF ServeTypeOK, TypeOK, Digest
  <2>2. up' \in BOOLEAN /\ {served', last'} \subseteq Digest /\ polled' \in Digest \cup {Absent}
    BY <1>1, <2>1 DEF ServeTypeOK, Serve, Start, Stop, Poll, Reload
  <2> QED BY <2>2 DEF ServeTypeOK
<1>2. CASE UNCHANGED server
  BY <1>2 DEF server, ServeTypeOK
<1> QED BY <1>1, <1>2 DEF ServeNext, allVars, server

(* The invariants of the pipeline that need no environment.                *)
LEMMA WorkHolds == ServeSpec => [](ServeTypeOK /\ WorkInv)
<1>1. ServeInit => ServeTypeOK /\ WorkInv
  BY InitTyped DEF ServeInit, ServeTypeOK, Init, WorkInv, AfterIndex, Unsafe, Digest
<1>2. ServeTypeOK /\ WorkInv /\ [ServeNext]_allVars => (ServeTypeOK /\ WorkInv)'
  <2> SUFFICES ASSUME ServeTypeOK, WorkInv, [ServeNext]_allVars
               PROVE  (ServeTypeOK /\ WorkInv)'
    OBVIOUS
  <2>1. [Next]_vars
    BY ServingRunsPipeline
  <2>2. TypeOK'
    BY <2>1, StepTyped DEF ServeTypeOK, WorkInv, HasDigest
  <2>3. WorkInv'
    BY <2>1, WorkStep DEF ServeTypeOK
  <2> QED BY <2>2, <2>3, ServerTyped
<1> QED BY <1>1, <1>2, PTL DEF ServeSpec

(* Type correctness of the pipeline and the server, in every environment.  *)
THEOREM ServeTyped == ServeSpec => []ServeTypeOK
BY WorkHolds, PTL

(* No announcement is missed, for every number of versions, commands and   *)
(* faults, whatever fails and whatever runs next to what.                  *)
THEOREM NoneAreMissed == ServeSpec => []NoneMissed
<1>1. ServeInit => LoopInv
  BY NoneAssumption, AbsentAssumption
     DEF ServeInit, Init, LoopInv, Settled, DefaultStatus, Digest
<1>2. ServeTypeOK /\ WorkInv /\ LoopInv /\ (ServeTypeOK /\ WorkInv)' /\ [ServeNext]_allVars
        => LoopInv'
  BY LoopStep DEF ServeTypeOK
<1>3. LoopInv => NoneMissed
  BY DEF LoopInv, NoneMissed
<1> QED BY <1>1, <1>2, <1>3, WorkHolds, PTL DEF ServeSpec

=============================================================================
