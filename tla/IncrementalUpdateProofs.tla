----------------------- MODULE IncrementalUpdateProofs -----------------------
(***************************************************************************)
(* Theorems about IncrementalUpdate for every set of files and requests    *)
(* and every bound: type correctness; that a command which reports success *)
(* leaves a usable index; that a compaction keeps the nodes of other       *)
(* files, provided that no two files have the same name; that the recorded *)
(* hashes tell the truth about the snapshot and an update builds what a    *)
(* discover would, in two environments that allow it; that a snapshot      *)
(* without readable hashes is not reused; and that a full build repairs    *)
(* the index, whatever state it is in, and records what it wrote.          *)
(***************************************************************************)
EXTENDS IncrementalUpdate, TLAPS

USE DEF repoVars, jobVars, Goto, End, Full, Version, Content, Graph, Hashes, Entry,
        Empty, NoHash, Present

(* A snapshot and a hash file that can be read are not the marks.          *)
LEMMA Marks ==
    /\ \A g \in Graph : g # Missing /\ g # Torn
    /\ \A h \in Hashes : h # Missing /\ h # Torn
BY MarksAssumption

(* What a command compares: the recorded hashes, and files of the          *)
(* repository.                                                             *)
LEMMA ChangesTyped ==
    ASSUME TypeOK
    PROVE  Changes \in [added : SUBSET Files, changed : SUBSET Files, deleted : SUBSET Files]
<1>1. request.paths \in SUBSET Files
  BY RequestsAssumption DEF TypeOK, RequestType
<1>2. found \in SUBSET Files
  BY DEF TypeOK
<1> QED BY <1>1, <1>2 DEF Changes, ChangesForPaths, DetectChanges, NoChange

(* The cascade names files.                                                *)
LEMMA CascadesTyped ==
    ASSUME NEW files, NEW callers \in Cascades(files) PROVE callers \in SUBSET Files
BY DEF Cascades

(* What is hashed is a version, or nothing.                                *)
LEMMA HashesTyped == ASSUME TypeOK, NEW f \in Files PROVE HashOf(f) \in Content
<1>1. CASE f \notin found BY <1>1, BoundsAssumption DEF HashOf
<1>2. CASE f \in found /\ request.mode \in {"discover", "rebuild"} /\ fresh[f] # {}
  <2>1. fresh[f] \in SUBSET Version BY DEF TypeOK
  <2>2. (CHOOSE v \in fresh[f] : TRUE) \in fresh[f] BY <1>2
  <2>3. HashOf(f) = CHOOSE v \in fresh[f] : TRUE BY <1>2 DEF HashOf
  <2> QED BY <2>1, <2>2, <2>3, BoundsAssumption
<1>3. CASE f \in found /\ ~(request.mode \in {"discover", "rebuild"} /\ fresh[f] # {})
  BY <1>3 DEF HashOf, TypeOK
<1> QED BY <1>1, <1>2, <1>3

(* The initial state is well typed.                                        *)
LEMMA InitTyped == Init => TypeOK
<1> SUFFICES ASSUME Init PROVE TypeOK
  OBVIOUS
<1>1. disk \in Hashes /\ past \in [Files -> SUBSET Content]
  <2>1. {0, 1} \subseteq Content BY BoundsAssumption
  <2>2. disk \in Hashes BY <2>1 DEF Init
  <2> QED BY <2>2 DEF Init
<1> QED BY <1>1, BoundsAssumption DEF Init, TypeOK, Locals

-----------------------------------------------------------------------------
(* The steps up to the extraction keep the state well typed.               *)
LEMMA DetectTyped ==
    ASSUME TypeOK, Open \/ Scan \/ DetectUpdate \/ DetectDiscover \/ Rescan
    PROVE  TypeOK'
<1> USE DEF TypeOK, Locals, Readable
<1>1. CASE Open BY <1>1, BoundsAssumption DEF Open
<1>2. CASE Scan BY <1>2 DEF Scan
<1>3. CASE DetectUpdate
  <2>1. CASE pc' = "idle" BY <2>1, <1>3, BoundsAssumption DEF DetectUpdate
  <2>2. CASE pc' # "idle"
    <3>1. PICK callers \in Cascades(Changes.changed \cup Changes.deleted) :
            /\ todo' = Relative(Changes.added \cup Changes.changed) \cup (callers \X {"abs"})
            /\ stale' = todo' \cup Relative(Changes.deleted)
      BY <2>2, <1>3 DEF DetectUpdate
    <3>2. todo' \in SUBSET Entry /\ stale' \in SUBSET Entry
      BY <3>1, ChangesTyped, CascadesTyped DEF Relative
    <3> QED BY <2>2, <1>3, <3>2 DEF DetectUpdate
  <2> QED BY <2>1, <2>2
<1>4. CASE DetectDiscover
  BY <1>4, BoundsAssumption DEF DetectDiscover, Discovering, ReuseSnapshot
<1>5. CASE Rescan BY <1>5 DEF Rescan
<1> QED BY <1>1, <1>2, <1>3, <1>4, <1>5

(* The extraction and the writing of the snapshot keep it well typed.      *)
LEMMA BuildTyped ==
    ASSUME TypeOK,
           \/ \E entry \in Entry : Extract(entry)
           \/ Compact \/ Unlink \/ Rename \/ Relate \/ Rewrite
           \/ Truncate \/ Write
    PROVE  TypeOK'
<1> USE DEF TypeOK, Locals, Readable
<1>1. ASSUME NEW entry \in Entry, Extract(entry) PROVE TypeOK'
  <2>1. ({disk[entry[1]]} \ {0}) \subseteq Version BY BoundsAssumption
  <2>2. fresh' \in Graph BY <1>1, <2>1 DEF Extract
  <2> QED BY <1>1, <2>2 DEF Extract
<1>2. CASE Compact
  <2>1. snapshot \in Graph BY <1>2, Marks DEF Compact
  <2>2. Compacted \in Graph BY <2>1 DEF Compacted
  <2> QED BY <1>2, <2>2 DEF Compact
<1>3. CASE Unlink BY <1>3 DEF Unlink
<1>4. CASE Rename BY <1>4, Marks DEF Rename
<1>5. CASE Relate BY <1>5 DEF Relate
<1>6. CASE Rewrite BY <1>6, Marks DEF Rewrite
<1>7. CASE Truncate BY <1>7 DEF Truncate
<1>8. CASE Write BY <1>8, Marks DEF Write
<1> QED BY <1>1, <1>2, <1>3, <1>4, <1>5, <1>6, <1>7, <1>8

(* The recording of the hashes keeps the state well typed.                 *)
LEMMA RecordTyped ==
    ASSUME TypeOK, Walk \/ Index \/ SaveTruncate \/ SaveWrite PROVE TypeOK'
<1> USE DEF TypeOK, Locals, Readable
<1>1. CASE Walk BY <1>1 DEF Walk
<1>2. CASE Index
  <2>1. [f \in Files |-> HashOf(f)] \in Hashes BY HashesTyped
  <2> QED BY <1>2, <2>1, BoundsAssumption DEF Index
<1>3. CASE SaveTruncate BY <1>3 DEF SaveTruncate
<1>4. CASE SaveWrite BY <1>4, BoundsAssumption DEF SaveWrite
<1> QED BY <1>1, <1>2, <1>3, <1>4

(* So do the beginning of a command, its crash and an edit.                *)
LEMMA EnvironmentTyped ==
    ASSUME TypeOK,
           \/ \E r \in Requests : Begin(r)
           \/ \E f \in Files, v \in Content : Edit(f, v)
           \/ Crash
    PROVE  TypeOK'
<1> USE DEF TypeOK, Locals, Readable
<1>1. ASSUME NEW r \in Requests, Begin(r) PROVE TypeOK' BY <1>1 DEF Begin
<1>2. ASSUME NEW f \in Files, NEW v \in Content, Edit(f, v) PROVE TypeOK'
  BY <1>2 DEF Edit
<1>3. CASE Crash BY <1>3, BoundsAssumption DEF Crash
<1> QED BY <1>1, <1>2, <1>3

(* Type correctness, for every instance.                                   *)
THEOREM TypeCorrect == Spec => []TypeOK
<1>1. TypeOK /\ [Next]_vars => TypeOK'
  <2> SUFFICES ASSUME TypeOK, [Next]_vars PROVE TypeOK'
    OBVIOUS
  <2>1. CASE UNCHANGED vars BY <2>1 DEF vars, TypeOK, Readable
  <2>2. CASE Next
    BY <2>2, DetectTyped, BuildTyped, RecordTyped, EnvironmentTyped DEF Next, Step
  <2> QED BY <2>1, <2>2
<1> QED BY InitTyped, <1>1, PTL DEF Spec

-----------------------------------------------------------------------------
(* SuccessIsUsable is not inductive: a command that is past its snapshot   *)
(* has written one that opens, and it keeps it until it reports success.   *)
Written == pc \in {"relate", "walk", "index", "save", "finish"} => Readable
UsableInv == TypeOK /\ Written /\ SuccessIsUsable

(* No step of a command breaks it; the last one establishes the success.   *)
LEMMA StepUsable == ASSUME UsableInv, Step PROVE Written' /\ SuccessIsUsable'
<1> USE DEF UsableInv, Written, SuccessIsUsable, Readable
<1>1. CASE Open \/ Scan \/ Rescan BY <1>1 DEF Open, Scan, Rescan
<1>2. CASE DetectUpdate BY <1>2 DEF DetectUpdate
<1>3. CASE DetectDiscover
  BY <1>3 DEF DetectDiscover, Discovering, ReuseSnapshot
<1>4. ASSUME NEW entry \in Entry, Extract(entry) PROVE Written' /\ SuccessIsUsable'
  BY <1>4 DEF Extract
<1>5. CASE Compact \/ Unlink \/ Truncate BY <1>5 DEF Compact, Unlink, Truncate
<1>6. CASE Rename \/ Rewrite \/ Write
  BY <1>6, Marks DEF Rename, Rewrite, Write, TypeOK
<1>7. CASE Relate BY <1>7 DEF Relate
<1>8. CASE Walk \/ Index \/ SaveTruncate BY <1>8 DEF Walk, Index, SaveTruncate
<1>9. CASE SaveWrite BY <1>9, Marks DEF SaveWrite, TypeOK
<1> QED BY <1>1, <1>2, <1>3, <1>4, <1>5, <1>6, <1>7, <1>8, <1>9 DEF Step

(* UsableInv holds in every reachable state.                               *)
LEMMA AlwaysUsable == Spec => []UsableInv
<1>1. Init => UsableInv
  BY InitTyped DEF Init, UsableInv, Written, SuccessIsUsable
<1>2. UsableInv /\ TypeOK' /\ [Next]_vars => UsableInv'
  <2> SUFFICES ASSUME UsableInv, TypeOK', [Next]_vars
               PROVE  Written' /\ SuccessIsUsable'
    BY DEF UsableInv
  <2> USE DEF UsableInv, Written, SuccessIsUsable, Readable
  <2>1. CASE UNCHANGED vars BY <2>1 DEF vars
  <2>2. CASE Step BY <2>2, StepUsable
  <2>3. ASSUME NEW r \in Requests, Begin(r) PROVE Written' /\ SuccessIsUsable'
    BY <2>3 DEF Begin
  <2>4. ASSUME NEW f \in Files, NEW v \in Content, Edit(f, v)
        PROVE  Written' /\ SuccessIsUsable'
    BY <2>4 DEF Edit
  <2>5. CASE Crash BY <2>5 DEF Crash
  <2> QED BY <2>1, <2>2, <2>3, <2>4, <2>5 DEF Next
<1> QED BY <1>1, <1>2, TypeCorrect, PTL DEF Spec

(* A command that reports success leaves a usable index, for every         *)
(* instance and whatever crash the command before it died of.              *)
THEOREM Usable == Spec => []SuccessIsUsable
<1>1. UsableInv => SuccessIsUsable BY DEF UsableInv
<1> QED BY <1>1, AlwaysUsable, PTL

-----------------------------------------------------------------------------
(* The entries of a file.                                                  *)
EntriesOf(f) == {<<f, "rel">>, <<f, "abs">>}

(* An update extracts nothing that its compaction does not invalidate.     *)
Started == pc \notin {"idle", "open", "scan", "detect", "rescan"}
Covered ==
    /\ ~Started => fresh = Empty
    /\ ~Full(request) => todo \subseteq stale
    /\ ~Full(request) => \A f \in Files : fresh[f] # {} => EntriesOf(f) \cap stale # {}

(* Beginning, detecting and ending a command leave nothing extracted.      *)
LEMMA DetectCovered ==
    ASSUME TypeOK, Covered, Open \/ Scan \/ DetectUpdate \/ DetectDiscover \/ Rescan
    PROVE  Covered'
<1> USE DEF TypeOK, Covered, Started
<1>1. CASE Open \/ Scan \/ Rescan BY <1>1 DEF Open, Scan, Rescan
<1>2. CASE DetectUpdate BY <1>2 DEF DetectUpdate
<1>3. CASE DetectDiscover
  BY <1>3 DEF DetectDiscover, Discovering, ReuseSnapshot
<1> QED BY <1>1, <1>2, <1>3

(* Extracting takes an entry that is invalidated; later steps keep both.   *)
LEMMA BuildCovered ==
    ASSUME TypeOK, Covered,
           \/ \E entry \in Entry : Extract(entry)
           \/ Compact \/ Unlink \/ Rename \/ Relate \/ Rewrite
           \/ Truncate \/ Write \/ Walk \/ Index \/ SaveTruncate \/ SaveWrite
    PROVE  Covered'
<1> USE DEF TypeOK, Covered, Started
<1>1. ASSUME NEW entry \in Entry, Extract(entry) PROVE Covered'
  <2>1. entry \in todo /\ entry \in EntriesOf(entry[1]) BY <1>1 DEF Extract, EntriesOf
  <2>2. \A f \in Files : f # entry[1] => fresh'[f] = fresh[f] BY <1>1 DEF Extract
  <2>3. ASSUME ~Full(request') PROVE \A f \in Files : fresh'[f] # {} => EntriesOf(f) \cap stale' # {}
    BY <1>1, <2>1, <2>2, <2>3 DEF Extract
  <2> QED BY <1>1, <2>3 DEF Extract
<1>2. CASE Compact \/ Unlink \/ Rename \/ Relate \/ Rewrite
  BY <1>2 DEF Compact, Unlink, Rename, Relate, Rewrite
<1>3. CASE Truncate \/ Write \/ Walk BY <1>3 DEF Truncate, Write, Walk
<1>4. CASE Index \/ SaveTruncate \/ SaveWrite BY <1>4 DEF Index, SaveTruncate, SaveWrite
<1> QED BY <1>1, <1>2, <1>3, <1>4

(* Covered holds in every reachable state.                                 *)
LEMMA AlwaysCovered == Spec => []Covered
<1>1. Init => Covered BY DEF Init, Covered, Started
<1>2. Covered /\ TypeOK /\ [Next]_vars => Covered'
  <2> SUFFICES ASSUME Covered, TypeOK, [Next]_vars PROVE Covered'
    OBVIOUS
  <2> USE DEF Covered, Started
  <2>1. CASE UNCHANGED vars BY <2>1 DEF vars
  <2>2. CASE Step BY <2>2, DetectCovered, BuildCovered DEF Step
  <2>3. ASSUME NEW r \in Requests, Begin(r) PROVE Covered' BY <2>3 DEF Begin, TypeOK
  <2>4. ASSUME NEW f \in Files, NEW v \in Content, Edit(f, v) PROVE Covered'
    BY <2>4 DEF Edit
  <2>5. CASE Crash BY <2>5 DEF Crash
  <2> QED BY <2>1, <2>2, <2>3, <2>4, <2>5 DEF Next
<1> QED BY <1>1, <1>2, TypeCorrect, PTL DEF Spec

(* No two files of the repository have the same name.                      *)
DistinctNames == \A f, g \in Files : BaseName[f] = BaseName[g] => f = g

(* A compaction keeps the nodes of the files that are not part of the      *)
(* update, for every instance in which no two files have the same name;    *)
(* without that it does not, as MCIncrementalUpdateSameName.cfg shows.     *)
THEOREM OthersAreKept == ASSUME DistinctNames PROVE Spec => CompactKeepsOthers
<1>1. TypeOK /\ Covered /\ [Next]_vars =>
        [Compact => \A f \in Files : {<<f, "rel">>, <<f, "abs">>} \cap stale = {}
                      => built'[f] = snapshot[f]]_vars
  <2> SUFFICES ASSUME TypeOK, Covered, Compact,
                      NEW f \in Files, {<<f, "rel">>, <<f, "abs">>} \cap stale = {}
               PROVE  built'[f] = snapshot[f]
    OBVIOUS
  <2>1. ~Invalidated(f, stale)
    BY FilesAssumption, DistinctNames DEF DistinctNames, Invalidated
  <2>2. fresh[f] = {} BY DEF Compact, Covered, EntriesOf
  <2> QED BY <2>1, <2>2 DEF Compact, Compacted
<1> QED BY <1>1, TypeCorrect, AlwaysCovered, PTL DEF Spec, CompactKeepsOthers

-----------------------------------------------------------------------------
(***************************************************************************)
(* What the index says is true, when commands look at the whole tree and   *)
(* are not disturbed by edits.  Two environments allow it: no command is   *)
(* killed, and a file in a directory is reached by a call within it; or    *)
(* commands are killed anywhere, but files are neither deleted nor become  *)
(* what they were, and are in the root directory.  In the second one an    *)
(* update may be about some languages only: it takes the files of the      *)
(* others for deleted, and calls within them bring these in again.  The    *)
(* runs show what happens outside of these.                                *)
(***************************************************************************)
WholeTreeCommands ==
    /\ QuietUpdates /\ DistinctNames
    /\ \A r \in Requests : r.mode # "files"

Undisturbed ==
    /\ MaxCrashes = 0
    /\ \A r \in Requests : r.filter = Files
    /\ \A f \in Files : f \in TopLevel \/ (Cascade /\ f \in Callers[f])

Forward ==
    /\ ~Reverts /\ Optional = {} /\ TopLevel = Files
    /\ \A r \in Requests : \A f \in Files \ r.filter :
          r.mode = "diff" /\ Cascade /\ f \in Callers[f]

(* Both files of the index can be read, or the snapshot at least.          *)
HashesReadable == hashes \notin {Missing, Torn}

(* At every moment a reader could look, and a crash could happen.          *)
Truthful ==
    Readable /\ HashesReadable =>
        \A f \in Files : hashes[f] = disk[f] => snapshot[f] = Right(f)

(* Without crashes the snapshot is of the recorded hashes until the        *)
(* running command writes it.                                              *)
Paired ==
    Readable /\ pc \in {"idle", "open", "scan", "detect", "rescan", "extract"} =>
        HashesReadable /\ \A f \in Files : snapshot[f] = {hashes[f]} \ {0}

(* Files that never come back have hashes of theirs recorded.              *)
Historic ==
    \A f \in Files :
        /\ disk[f] \in past[f] /\ disk[f] # 0
        /\ HashesReadable => hashes[f] \in past[f] \cup {0}

Grounded == (Undisturbed => Paired) /\ (Forward => Historic)

(* What the walk of the tree has found.                                    *)
Sought == Present \cap request.filter

Walked ==
    /\ pc \in {"scan", "detect"} => request.mode # "force"
    /\ pc \in {"unlink", "rename", "relate", "rewrite"} => ~Full(request)
    /\ pc \in {"index", "save", "finish"} => found = Sought
    /\ /\ pc \in {"detect", "rescan", "extract", "write", "unlink", "rename", "relate", "rewrite"}
       /\ request.mode # "force"
       => found = Sought

(* The files that the command must leave right: those it is about, and     *)
(* those that the recorded hashes say are indexed.                         *)
Due(f) == f \in request.filter \/ (HashesReadable /\ hashes[f] = disk[f])

(* What is extracted is what is on disk, and nothing is left out: a file   *)
(* is still to be read, or was, or its nodes are kept and are right.       *)
Planned(f) ==
    /\ Invalidated(f, stale) \/ snapshot[f] \subseteq Right(f)
    /\ \/ EntriesOf(f) \cap todo # {}
       \/ fresh[f] = Right(f)
       \/ ~Invalidated(f, stale) /\ snapshot[f] = Right(f)

Extracting ==
    /\ \A f \in Files : fresh[f] \subseteq Right(f)
    /\ pc = "extract" /\ ~Full(request) => \A f \in Files : Due(f) => Planned(f)
    /\ pc = "extract" /\ Full(request) =>
          \A f \in Files : EntriesOf(f) \cap todo # {} \/ fresh[f] = Right(f)

(* What is written of these files is what a full build would write, and    *)
(* the hashes recorded are those of the files the command is about.        *)
Writing ==
    /\ pc \in {"unlink", "rename", "relate", "rewrite", "write"} =>
          \A f \in Files : Due(f) => built[f] = Right(f)
    /\ pc \in {"relate", "walk", "index", "save", "finish"} =>
          Readable /\ \A f \in Files : Due(f) => snapshot[f] = Right(f)
    /\ pc \in {"save", "finish"} =>
          \A f \in Files : recorded[f] = IF f \in request.filter THEN disk[f] ELSE 0

IndexInv == Truthful /\ Grounded /\ Walked /\ Extracting /\ Writing

(* The running command names no file, and only an update has a filter.     *)
LEMMA Fixed ==
    ASSUME WholeTreeCommands, Undisturbed \/ Forward, TypeOK
    PROVE  /\ request.mode # "files" /\ request.filter \subseteq Files
           /\ request.mode # "diff" \/ Undisturbed => request.filter = Files
           /\ \A f \in Files \ request.filter : Forward /\ Cascade /\ f \in Callers[f]
BY RequestsAssumption DEF WholeTreeCommands, Undisturbed, Forward, TypeOK, RequestType

(* With distinct names an entry stands for its file only.                  *)
LEMMA InvalidatedIs ==
    ASSUME DistinctNames, NEW f \in Files, NEW entries
    PROVE  Invalidated(f, entries) <=>
              <<f, "abs">> \in entries \/ (f \in TopLevel /\ <<f, "rel">> \in entries)
BY FilesAssumption DEF DistinctNames, Invalidated

(* The plan of an update: every file is extracted again or kept as it is.  *)
LEMMA UpdatePlans ==
    ASSUME WholeTreeCommands, Undisturbed \/ Forward, TypeOK, Covered, IndexInv,
           DetectUpdate, pc' = "extract"
    PROVE  \A f \in Files : Due(f)' => Planned(f)'
<1>0. request.mode = "diff"
  BY Fixed DEF DetectUpdate
<1>1. /\ pc = "detect" /\ request.mode = "diff" /\ hashes # Torn
      /\ disk' = disk /\ snapshot' = snapshot /\ fresh' = fresh
      /\ hashes' = hashes /\ request' = request
  BY <1>0 DEF DetectUpdate
<1>2. PICK callers \in Cascades(Changes.changed \cup Changes.deleted) :
        /\ todo' = Relative(Changes.added \cup Changes.changed) \cup (callers \X {"abs"})
        /\ stale' = todo' \cup Relative(Changes.deleted)
  BY DEF DetectUpdate
<1>3. found = Sought /\ fresh = Empty /\ Readable
  BY <1>1 DEF IndexInv, Walked, Covered, Started, TypeOK
<1> DEFINE known == Known(hashes)
<1>4. Changes = DetectChanges(known, Sought)
  BY <1>1, <1>3 DEF Changes
<1>5. /\ Changes.added = IF known = NoHash THEN Sought ELSE {f \in Sought : known[f] = 0}
      /\ Changes.changed = IF known = NoHash THEN {}
                           ELSE {f \in Sought : known[f] # 0 /\ disk[f] # known[f]}
      /\ Changes.deleted = IF known = NoHash THEN {}
                           ELSE {f \in Files \ Sought : known[f] # 0}
  BY <1>4 DEF DetectChanges, NoChange
<1>6. SUFFICES ASSUME NEW f \in Files, Due(f)
               PROVE  /\ Invalidated(f, stale') \/ snapshot[f] \subseteq Right(f)
                      /\ \/ EntriesOf(f) \cap todo' # {}
                         \/ fresh[f] = Right(f)
                         \/ ~Invalidated(f, stale') /\ snapshot[f] = Right(f)
  BY <1>1 DEF Planned, Due, HashesReadable, Right, Invalidated, EntriesOf
<1>7. Invalidated(f, stale') <=>
         <<f, "abs">> \in stale' \/ (f \in TopLevel /\ <<f, "rel">> \in stale')
  BY InvalidatedIs DEF WholeTreeCommands
<1>8. f \in Changes.added \cup Changes.changed => <<f, "rel">> \in todo'
  BY <1>2 DEF Relative
<1>9. f \in Changes.deleted => <<f, "rel">> \in stale'
  BY <1>2 DEF Relative
<1>10. todo' \subseteq stale' /\ \A e \in EntriesOf(f) \cap stale' : f \in Changes.deleted \/ e \in todo'
  BY <1>2 DEF Relative, EntriesOf
(* A call within the file brings in its path as its nodes have it.         *)
<1>11. /\ f \in Changes.changed \cup Changes.deleted /\ snapshot[f] # {}
       /\ Cascade /\ f \in Callers[f]
       => <<f, "abs">> \in todo'
  BY <1>2, FilesAssumption DEF Cascades, InScope
<1>12. Undisturbed => HashesReadable /\ snapshot[f] = {hashes[f]} \ {0}
  BY <1>1, <1>3 DEF IndexInv, Grounded, Paired
<1>13. Forward => f \in Present /\ f \in TopLevel
  BY DEF IndexInv, Grounded, Historic, Forward
<1>14. HashesReadable => known = hashes
  BY DEF HashesReadable, Known
<1>15. f \notin TopLevel => Undisturbed /\ Cascade /\ f \in Callers[f]
  BY <1>13 DEF Undisturbed
<1>16. HashesReadable /\ hashes[f] = disk[f] => snapshot[f] = Right(f)
  BY <1>3 DEF IndexInv, Truthful
<1>20. f \in Sought <=> f \in Present /\ f \in request.filter
  BY DEF Sought
<1>17. CASE f \in Sought /\ f \in Changes.added \cup Changes.changed
  <2>1. EntriesOf(f) \cap todo' # {}
    BY <1>8, <1>17 DEF EntriesOf
  <2>2. CASE f \in TopLevel
    BY <1>7, <1>8, <1>10, <1>17, <2>1, <2>2
  <2>3. CASE f \notin TopLevel /\ f \in Changes.changed
    BY <1>7, <1>10, <1>11, <1>15, <2>1, <2>3
  <2>4. CASE f \notin TopLevel /\ f \in Changes.added
    <3>1. hashes[f] = 0
      BY <1>5, <1>12, <1>14, <1>15, <2>4
    <3>2. snapshot[f] = {}
      BY <1>12, <1>15, <2>4, <3>1
    <3> QED BY <2>1, <3>2
  <2> QED BY <1>17, <2>2, <2>3, <2>4
<1>18. CASE f \in Sought /\ f \notin Changes.added \cup Changes.changed
  <2>1. HashesReadable /\ hashes[f] = disk[f]
    BY <1>1, <1>5, <1>14, <1>18 DEF Known, HashesReadable
  <2>2. snapshot[f] = Right(f)
    BY <1>16, <2>1
  <2>3. f \notin Changes.deleted
    BY <1>5, <1>18
  <2>4. Invalidated(f, stale') => EntriesOf(f) \cap todo' # {}
    BY <1>7, <1>10, <2>3 DEF EntriesOf
  <2> QED BY <2>2, <2>4
<1>21. CASE f \notin request.filter
  <2>1. HashesReadable /\ hashes[f] = disk[f] /\ Forward /\ Cascade /\ f \in Callers[f]
    BY <1>6, <1>21, Fixed DEF Due
  <2>2. disk[f] # 0 /\ snapshot[f] = Right(f) /\ Right(f) # {}
    BY <1>13, <1>16, <2>1 DEF Right
  <2>3. f \in Changes.deleted
    BY <1>5, <1>14, <1>20, <1>21, <2>1, <2>2
  <2>4. <<f, "abs">> \in todo'
    BY <1>11, <2>1, <2>2, <2>3
  <2> QED BY <1>7, <1>10, <2>4 DEF EntriesOf
<1>19. CASE f \notin Present /\ f \in request.filter
  <2>1. Undisturbed /\ Right(f) = {} /\ fresh[f] = Right(f)
    BY <1>3, <1>13, <1>19 DEF Right
  <2>2. CASE hashes[f] = 0
    BY <1>12, <2>1, <2>2
  <2>3. CASE hashes[f] # 0
    <3>1. f \in Changes.deleted
      BY <1>5, <1>12, <1>14, <1>19, <1>20, <2>1, <2>3
    <3>2. CASE f \in TopLevel
      BY <1>7, <1>9, <2>1, <3>1, <3>2
    <3>3. CASE f \notin TopLevel
      BY <1>7, <1>10, <1>11, <1>15, <2>1, <3>1, <3>3
    <3> QED BY <3>2, <3>3
  <2> QED BY <2>2, <2>3
<1> QED BY <1>17, <1>18, <1>19, <1>20, <1>21

-----------------------------------------------------------------------------
(* Nothing is extracted before the plan, so that part is easy to keep.     *)
LEMMA NothingExtracted ==
    ASSUME Covered, ~Started PROVE fresh = Empty /\ \A f \in Files : fresh[f] \subseteq Right(f)
BY DEF Covered

(* Accurate files, entry by entry.                                         *)
LEMMA AccurateIs == Accurate => \A f \in Files : snapshot[f] = Right(f)
BY DEF Accurate

(* An index in which a command finds no change is accurate.                *)
LEMMA ReuseIsAccurate ==
    ASSUME TypeOK, IndexInv, Undisturbed \/ Forward, Readable, pc = "detect",
           DetectChanges(Known(hashes), Present) = NoChange
    PROVE  Accurate
<1>1. snapshot \in Graph
  BY DEF TypeOK, Readable
<1>2. \A f \in Files : snapshot[f] = Right(f)
  <2>1. CASE ~HashesReadable
    <3>1. Known(hashes) = NoHash BY <2>1 DEF Known, HashesReadable
    <3>2. Present = {} BY <3>1 DEF DetectChanges, NoChange
    <3>3. Forward BY <2>1 DEF IndexInv, Grounded, Paired
    <3> QED BY <3>2, <3>3 DEF IndexInv, Grounded, Historic
  <2>2. CASE HashesReadable
    <3>1. Known(hashes) = hashes /\ hashes \in Hashes
      BY <2>2 DEF Known, HashesReadable, TypeOK
    <3>2. \A f \in Files : hashes[f] = disk[f]
      <4>1. CASE hashes = NoHash
        BY <3>1, <4>1 DEF DetectChanges, NoChange
      <4>2. CASE hashes # NoHash
        <5>1. /\ {f \in Present : hashes[f] = 0} = {}
              /\ {f \in Present : hashes[f] # 0 /\ disk[f] # hashes[f]} = {}
              /\ {f \in Files \ Present : hashes[f] # 0} = {}
          BY <3>1, <4>2 DEF DetectChanges, NoChange
        <5> QED BY <5>1
      <4> QED BY <4>1, <4>2
    <3> QED BY <2>2, <3>2 DEF IndexInv, Truthful
  <2> QED BY <2>1, <2>2
<1> QED BY <1>1, <1>2 DEF Accurate

(* The commands that begin, walk or look leave the index as it is.         *)
LEMMA DetectKeeps ==
    ASSUME WholeTreeCommands, Undisturbed \/ Forward, TypeOK, Covered, Covered', IndexInv,
           Open \/ Scan \/ DetectUpdate \/ DetectDiscover \/ Rescan
    PROVE  IndexInv'
<1>1. disk' = disk /\ past' = past /\ snapshot' = snapshot /\ hashes' = hashes
  BY DEF Open, Scan, DetectUpdate, DetectDiscover, Discovering, ReuseSnapshot, Rescan
<1>2. request' = request /\ pc \in {"open", "scan", "detect", "rescan"}
  BY DEF Open, Scan, DetectUpdate, DetectDiscover, Discovering, ReuseSnapshot, Rescan
<1>3. pc' \in {"idle", "scan", "detect", "rescan", "extract", "index"}
  BY DEF Open, Scan, DetectUpdate, DetectDiscover, Discovering, ReuseSnapshot, Rescan
<1>4. Truthful'
  BY <1>1 DEF IndexInv, Truthful, Readable, HashesReadable, Right
<1>5. Grounded'
  BY <1>1, <1>2 DEF IndexInv, Grounded, Paired, Historic, Readable, HashesReadable
<1>6. Walked'
  <2>1. CASE Open BY <1>1, <1>2, <2>1 DEF IndexInv, Walked, Sought, Open
  <2>2. CASE Scan BY <1>1, <1>2, <2>2 DEF IndexInv, Walked, Sought, Scan
  <2>3. CASE DetectUpdate BY <1>1, <1>2, <2>3 DEF IndexInv, Walked, Sought, DetectUpdate
  <2>4. CASE DetectDiscover
    BY <1>1, <1>2, <2>4 DEF IndexInv, Walked, Sought, DetectDiscover, Discovering, ReuseSnapshot
  <2>5. CASE Rescan BY <1>1, <1>2, <2>5 DEF IndexInv, Walked, Sought, Rescan
  <2> QED BY <2>1, <2>2, <2>3, <2>4, <2>5
<1>7. fresh = Empty /\ fresh' = Empty
  <2>1. fresh = Empty BY <1>2 DEF Covered, Started
  <2> QED BY <2>1 DEF Open, Scan, DetectUpdate, DetectDiscover, Discovering, ReuseSnapshot, Rescan
<1>8. Extracting'
  <2>1. \A f \in Files : fresh'[f] \subseteq Right(f)'
    BY <1>7
  <2>2. ASSUME pc' = "extract", ~Full(request') PROVE \A f \in Files : Due(f)' => Planned(f)'
    <3>1. DetectUpdate
      BY <1>2, <2>2 DEF Open, Scan, DetectDiscover, Discovering, ReuseSnapshot, Rescan, TypeOK
    <3> QED BY <2>2, <3>1, UpdatePlans
  <2>3. ASSUME pc' = "extract", Full(request'), NEW f \in Files
        PROVE  EntriesOf(f) \cap todo' # {} \/ fresh'[f] = Right(f)'
    <3>1. Rescan
      BY <1>2, <2>3 DEF Open, Scan, DetectUpdate, DetectDiscover, Discovering, ReuseSnapshot
    <3>5. request.mode # "diff" BY <1>2, <2>3
    <3>2. todo' = Present \X {"abs"} BY <3>1, <3>5, Fixed DEF Rescan
    <3>3. CASE f \in Present
      <4>1. <<f, "abs">> \in todo' BY <3>2, <3>3
      <4> QED BY <4>1 DEF EntriesOf
    <3>4. CASE f \notin Present BY <1>1, <1>7, <3>4 DEF Right
    <3> QED BY <3>3, <3>4
  <2> QED BY <2>1, <2>2, <2>3 DEF Extracting
<1>9. Writing'
  <2>1. CASE pc' # "index" BY <1>3, <2>1 DEF Writing
  <2>2. CASE pc' = "index"
    <3>1. /\ DetectDiscover /\ Readable /\ request.mode = "discover"
          /\ Changes = NoChange /\ pc = "detect"
      BY <2>2 DEF Open, Scan, DetectUpdate, DetectDiscover, Discovering, ReuseSnapshot, Rescan,
                  Readable
    <3>2. found = Present BY <3>1, Fixed DEF IndexInv, Walked, Sought
    <3>3. Changes = DetectChanges(Known(hashes), Present)
      BY <3>1, <3>2 DEF Changes
    <3>4. Accurate
      BY <3>1, <3>3, ReuseIsAccurate
    <3> QED BY <1>1, <2>2, <3>1, <3>4 DEF Writing, Accurate, Right, Readable
  <2> QED BY <2>1, <2>2
<1> QED BY <1>4, <1>5, <1>6, <1>8, <1>9 DEF IndexInv

(* What extraction has gathered is what a compaction of the plan writes.   *)
LEMMA CompactedIsRight ==
    ASSUME TypeOK, IndexInv, pc = "extract", ~Full(request), todo = {}
    PROVE  \A f \in Files : Due(f) => Compacted[f] = Right(f)
<1>1. ASSUME NEW f \in Files, Due(f)
      PROVE  fresh[f] \cup (IF Invalidated(f, stale) THEN {} ELSE snapshot[f]) = Right(f)
  <2>1. fresh[f] \subseteq Right(f) /\ Planned(f)
    BY <1>1 DEF IndexInv, Extracting
  <2>2. EntriesOf(f) \cap todo = {} OBVIOUS
  <2> QED BY <2>1, <2>2 DEF Planned
<1> QED BY <1>1 DEF Compacted

(* A worker reads what is there and takes one entry off the list.          *)
LEMMA ExtractKeeps ==
    ASSUME TypeOK, IndexInv, NEW entry \in Entry, Extract(entry)
    PROVE  IndexInv'
<1>1. /\ disk' = disk /\ past' = past /\ snapshot' = snapshot /\ hashes' = hashes
      /\ request' = request /\ pc' = "extract" /\ pc = "extract" /\ found' = found
      /\ stale' = stale /\ built' = built /\ recorded' = recorded
  BY DEF Extract
<1>2. Truthful' /\ Grounded' /\ Walked'
  BY <1>1 DEF IndexInv, Truthful, Grounded, Walked, Sought, Paired, Historic, Readable,
             HashesReadable, Right
<1>3. PICK g \in Files : entry[1] = g /\ entry \in EntriesOf(g)
  BY DEF EntriesOf
<1>4. /\ fresh' = [fresh EXCEPT ![g] = @ \cup Right(g)]
      /\ todo' = todo \ {entry}
  BY <1>3 DEF Extract, Right
<1>5. \A f \in Files : fresh[f] \subseteq Right(f) /\ Right(f)' = Right(f)
  BY <1>1 DEF IndexInv, Extracting, Right
<1>6. ASSUME NEW f \in Files, f # g
      PROVE  fresh'[f] = fresh[f] /\ EntriesOf(f) \cap todo' = EntriesOf(f) \cap todo
  BY <1>3, <1>4, <1>6 DEF EntriesOf, TypeOK
<1>7. fresh'[g] = Right(g)
  BY <1>4, <1>5 DEF TypeOK
<1>8. \A f \in Files : Invalidated(f, stale)' <=> Invalidated(f, stale)
  BY <1>1 DEF Invalidated
<1>9. ASSUME NEW f \in Files
      PROVE  /\ fresh'[f] \subseteq Right(f)
             /\ Planned(f) => Planned(f)'
             /\ (EntriesOf(f) \cap todo # {} \/ fresh[f] = Right(f))
                   => (EntriesOf(f) \cap todo' # {} \/ fresh'[f] = Right(f))
  <2>1. CASE f = g BY <1>1, <1>5, <1>7, <1>8, <2>1 DEF Planned
  <2>2. CASE f # g
    <3>1. EntriesOf(f)' = EntriesOf(f) BY DEF EntriesOf
    <3> QED BY <1>1, <1>5, <1>6, <1>8, <2>2, <3>1 DEF Planned
  <2> QED BY <2>1, <2>2
<1>10. Extracting'
  <2>1. \A f \in Files : EntriesOf(f)' = EntriesOf(f) /\ Due(f)' = Due(f)
    BY <1>1 DEF EntriesOf, Due, HashesReadable
  <2>2. /\ ~Full(request) => \A f \in Files : Due(f) => Planned(f)
        /\ Full(request) => \A f \in Files : EntriesOf(f) \cap todo # {} \/ fresh[f] = Right(f)
    BY <1>1 DEF IndexInv, Extracting
  <2>3. \A f \in Files : fresh'[f] \subseteq Right(f)'
    BY <1>5, <1>9
  <2>4. ~Full(request') => \A f \in Files : Due(f)' => Planned(f)'
    BY <1>1, <1>9, <2>1, <2>2
  <2>5. Full(request') => \A f \in Files : EntriesOf(f) \cap todo' # {} \/ fresh'[f] = Right(f)'
    BY <1>1, <1>5, <1>9, <2>2
  <2> QED BY <2>3, <2>4, <2>5 DEF Extracting
<1>11. Writing' BY <1>1 DEF Writing
<1> QED BY <1>2, <1>10, <1>11 DEF IndexInv

(* The snapshot is written from what was extracted.                        *)
LEMMA BuildKeeps ==
    ASSUME TypeOK, TypeOK', Written', IndexInv, Undisturbed \/ Forward,
           Compact \/ Unlink \/ Rename \/ Relate \/ Rewrite \/ Truncate \/ Write
    PROVE  IndexInv'
<1>1. /\ disk' = disk /\ past' = past /\ hashes' = hashes /\ request' = request
      /\ found' = found /\ stale' = stale /\ fresh' = fresh /\ recorded' = recorded
      /\ todo' = todo
  BY DEF Compact, Unlink, Rename, Relate, Rewrite, Truncate, Write
<1>2. /\ pc \in {"extract", "unlink", "rename", "relate", "rewrite", "write"}
      /\ pc' \in {"unlink", "rename", "relate", "rewrite", "write", "walk", "index"}
  BY DEF Compact, Unlink, Rename, Relate, Rewrite, Truncate, Write
<1>3. \A f \in Files : Right(f)' = Right(f) /\ Due(f)' = Due(f)
  BY <1>1 DEF Right, Due, HashesReadable
<1>4. Grounded' /\ Extracting'
  BY <1>1, <1>2, <1>3 DEF IndexInv, Grounded, Paired, Historic, HashesReadable, Extracting
<1>5. \A f \in Files : Due(f) => built'[f] = Right(f)
  <2>1. CASE Compact
    BY <2>1, CompactedIsRight DEF Compact
  <2>2. CASE Truncate
    <3>1. todo = {} /\ fresh \in Graph /\ built' = fresh /\ pc = "extract" /\ Full(request)
      BY <2>2 DEF Truncate, TypeOK
    <3>2. \A f \in Files : fresh[f] = Right(f)
      BY <3>1 DEF IndexInv, Extracting
    <3> QED BY <3>1, <3>2
  <2>3. CASE Unlink \/ Rename \/ Relate \/ Rewrite \/ Write
    BY <2>3 DEF Unlink, Rename, Relate, Rewrite, Write, IndexInv, Writing
  <2> QED BY <2>1, <2>2, <2>3
<1>6. pc' \in {"relate", "walk", "index"} => \A f \in Files : Due(f) => snapshot'[f] = Right(f)
  <2>1. CASE Rename \/ Rewrite \/ Write
    <3>1. snapshot' = built /\ built' = built BY <2>1 DEF Rename, Rewrite, Write
    <3> QED BY <1>5, <3>1
  <2>2. CASE Relate
    BY <2>2 DEF Relate, IndexInv, Writing
  <2>3. CASE Compact \/ Unlink \/ Truncate
    BY <2>3 DEF Compact, Unlink, Truncate
  <2> QED BY <2>1, <2>2, <2>3
<1>7. Writing'
  BY <1>2, <1>3, <1>5, <1>6 DEF Writing, Written
<1>8. Walked'
  <2>1. Sought' = Sought BY <1>1 DEF Sought
  <2>2. CASE Compact \/ Unlink \/ Rename \/ Relate \/ Rewrite
    BY <1>1, <2>1, <2>2 DEF IndexInv, Walked, Compact, Unlink, Rename, Relate, Rewrite
  <2>3. CASE Truncate
    BY <1>1, <2>1, <2>3 DEF IndexInv, Walked, Truncate
  <2>4. CASE Write
    BY <1>1, <2>1, <2>4 DEF IndexInv, Walked, Write
  <2> QED BY <2>2, <2>3, <2>4
<1>9. Truthful'
  <2>1. CASE Compact
    BY <1>1, <1>3, <2>1 DEF Compact, IndexInv, Truthful, Readable, HashesReadable
  <2>2. CASE Rename \/ Rewrite \/ Write
    <3>1. snapshot' = built /\ built' = built BY <2>2 DEF Rename, Rewrite, Write
    <3>2. \A f \in Files : HashesReadable /\ hashes[f] = disk[f] => snapshot'[f] = Right(f)
      BY <1>5, <3>1 DEF Due
    <3> QED BY <1>1, <1>3, <3>2 DEF Truthful, HashesReadable
  <2>3. CASE Unlink \/ Truncate
    BY <2>3 DEF Unlink, Truncate, Truthful, Readable
  <2>4. CASE Relate
    BY <1>1, <1>3, <2>4 DEF Relate, IndexInv, Truthful, Readable, HashesReadable
  <2> QED BY <2>1, <2>2, <2>3, <2>4
<1> QED BY <1>4, <1>7, <1>8, <1>9 DEF IndexInv

(* With everything found still there, what is hashed is what is on disk.   *)
LEMMA HashesAreOfDisk ==
    ASSUME TypeOK, IndexInv, pc = "index", NEW f \in Files
    PROVE  /\ HashOf(f) = IF f \in request.filter THEN disk[f] ELSE 0
           /\ f \in found => HashOf(f) # 0
<1>1. /\ f \in found <=> disk[f] # 0 /\ f \in request.filter
      /\ fresh[f] \subseteq Right(f)
  BY DEF IndexInv, Walked, Sought, Extracting
<1>2. CASE f \notin found BY <1>1, <1>2 DEF HashOf
<1>3. CASE f \in found /\ fresh[f] # {}
  <2>1. fresh[f] = {disk[f]} BY <1>1, <1>3 DEF Right
  <2>2. (CHOOSE v \in fresh[f] : TRUE) = disk[f] BY <2>1
  <2> QED BY <1>1, <1>3, <2>2 DEF HashOf
<1>4. CASE f \in found /\ fresh[f] = {} BY <1>1, <1>4 DEF HashOf
<1> QED BY <1>2, <1>3, <1>4

(* The hashes are recorded of the snapshot that was written.               *)
LEMMA RecordKeeps ==
    ASSUME WholeTreeCommands, Undisturbed \/ Forward, TypeOK, TypeOK', Written', IndexInv,
           Walk \/ Index \/ SaveTruncate \/ SaveWrite
    PROVE  IndexInv'
<1>1. /\ disk' = disk /\ past' = past /\ snapshot' = snapshot /\ request' = request
      /\ pc \in {"walk", "index", "save", "finish"}
  BY DEF Walk, Index, SaveTruncate, SaveWrite
<1>2. /\ Sought' = Sought
      /\ \A f \in Files : Right(f)' = Right(f)
  BY <1>1 DEF Right, Sought
<1>3. \A f \in Files : Due(f) => snapshot'[f] = Right(f)
  BY <1>1 DEF IndexInv, Writing
<1>4. SaveWrite => \A f \in Files : hashes'[f] = IF f \in request.filter THEN disk[f] ELSE 0
  BY DEF SaveWrite, IndexInv, Writing
<1>5. Truthful'
  <2>1. CASE Walk \/ Index
    BY <1>1, <1>2, <2>1 DEF Walk, Index, IndexInv, Truthful, Readable, HashesReadable
  <2>2. CASE SaveTruncate BY <2>2 DEF SaveTruncate, Truthful, HashesReadable
  <2>3. CASE SaveWrite
    <3>1. ASSUME NEW f \in Files, hashes'[f] = disk[f] PROVE f \in request.filter
      BY <1>4, <2>3, <3>1, Fixed DEF IndexInv, Grounded, Historic
    <3> QED BY <1>1, <1>2, <1>3, <3>1 DEF Truthful, Due
  <2> QED BY <2>1, <2>2, <2>3
<1>6. Walked'
  <2>1. CASE Walk BY <1>1, <1>2, <2>1 DEF Walked, Sought, Walk
  <2>2. CASE Index \/ SaveTruncate
    BY <1>1, <1>2, <2>2 DEF IndexInv, Walked, Index, SaveTruncate
  <2>3. CASE SaveWrite BY <2>3 DEF Walked, SaveWrite
  <2> QED BY <2>1, <2>2, <2>3
<1>7. Extracting'
  <2>1. \A f \in Files : fresh'[f] \subseteq Right(f)'
    BY <1>2 DEF IndexInv, Extracting, Walk, Index, SaveTruncate, SaveWrite
  <2>2. pc' # "extract" BY DEF Walk, Index, SaveTruncate, SaveWrite
  <2> QED BY <2>1, <2>2 DEF Extracting
<1>8. Writing'
  <2>1. ASSUME pc' = "save", NEW f \in Files
        PROVE  recorded'[f] = IF f \in request.filter THEN disk[f] ELSE 0
    <3>1. Index BY <2>1 DEF Walk, Index, SaveTruncate, SaveWrite
    <3> QED BY <2>1, <3>1, HashesAreOfDisk DEF Index
  <2>2. pc' = "finish" =>
          \A f \in Files : recorded'[f] = IF f \in request.filter THEN disk[f] ELSE 0
    BY <1>1 DEF IndexInv, Writing, Walk, Index, SaveTruncate, SaveWrite
  <2>3. pc' \notin {"unlink", "rename", "relate", "rewrite", "write"}
    BY DEF Walk, Index, SaveTruncate, SaveWrite
  <2>4. pc' # "idle" => \A f \in Files : Due(f)' => Due(f)
    BY <1>1 DEF Walk, Index, SaveTruncate, SaveWrite, Due, HashesReadable
  <2> QED BY <1>1, <1>2, <1>3, <2>1, <2>2, <2>3, <2>4 DEF Writing, Written
<1>9. Undisturbed => Paired'
  <2>1. CASE Walk \/ SaveTruncate
    BY <2>1 DEF Walk, SaveTruncate, Paired
  <2>2. CASE Index
    <3>1. \A f \in found : HashOf(f) # 0
      BY <2>2, HashesAreOfDisk DEF Index, TypeOK
    <3> QED BY <2>2, <3>1 DEF Index, Paired
  <2>3. CASE SaveWrite
    <3>1. hashes' \in Hashes
      BY <2>3 DEF SaveWrite, TypeOK
    <3>2. HashesReadable' BY <3>1, Marks DEF HashesReadable
    <3>3. Undisturbed => \A f \in Files : Due(f) /\ hashes'[f] = disk[f]
      BY <1>4, <2>3, Fixed DEF Due
    <3> QED BY <1>3, <3>2, <3>3 DEF Paired, Right
  <2> QED BY <2>1, <2>2, <2>3
<1>10. Forward => Historic'
  <2>1. CASE Walk \/ Index
    BY <1>1, <2>1 DEF Walk, Index, IndexInv, Grounded, Historic, HashesReadable
  <2>2. CASE SaveTruncate
    BY <1>1, <2>2 DEF SaveTruncate, IndexInv, Grounded, Historic, HashesReadable
  <2>3. CASE SaveWrite
    BY <1>1, <1>4, <2>3 DEF IndexInv, Grounded, Historic
  <2> QED BY <2>1, <2>2, <2>3
<1> QED BY <1>5, <1>6, <1>7, <1>8, <1>9, <1>10 DEF IndexInv, Grounded

(* Beginning a command, an edit between commands, and a crash.             *)
LEMMA EnvironmentKeeps ==
    ASSUME WholeTreeCommands, Undisturbed \/ Forward, TypeOK, TypeOK', Covered, IndexInv,
           \/ \E r \in Requests : Begin(r)
           \/ \E f \in Files, v \in Content : Edit(f, v)
           \/ Crash
    PROVE  IndexInv'
<1>1. ASSUME NEW r \in Requests, Begin(r) PROVE IndexInv'
  <2>1. /\ pc = "idle" /\ pc' \in {"scan", "open"} /\ (pc' = "scan" => r.mode # "force")
        /\ request' = r /\ disk' = disk /\ past' = past /\ snapshot' = snapshot
        /\ hashes' = hashes /\ fresh' = fresh
    BY <1>1 DEF Begin
  <2>2. \A f \in Files : Right(f)' = Right(f) BY <2>1 DEF Right
  <2>3. Truthful' /\ Grounded'
    BY <2>1, <2>2 DEF IndexInv, Truthful, Grounded, Paired, Historic, Readable, HashesReadable
  <2>4. Walked' /\ Extracting' /\ Writing'
    BY <2>1, <2>2 DEF IndexInv, Walked, Extracting, Writing
  <2> QED BY <2>3, <2>4 DEF IndexInv
<1>2. ASSUME NEW g \in Files, NEW v \in Content, Edit(g, v) PROVE IndexInv'
  <2>1. /\ pc = "idle" /\ pc' = "idle" /\ snapshot' = snapshot /\ hashes' = hashes
        /\ fresh' = fresh /\ disk' = [disk EXCEPT ![g] = v] /\ v # disk[g]
    BY <1>2 DEF Edit, WholeTreeCommands
  <2>2. fresh' = Empty BY <2>1 DEF Covered, Started
  <2>3. Walked' /\ Extracting' /\ Writing'
    BY <2>1, <2>2 DEF Walked, Extracting, Writing
  <2>4. \A f \in Files : f # g => disk'[f] = disk[f] /\ Right(f)' = Right(f)
    BY <2>1 DEF TypeOK, Right
  <2>5. disk'[g] = v BY <2>1 DEF TypeOK
  <2>6. Undisturbed => Paired'
    BY <2>1 DEF IndexInv, Grounded, Paired, Readable, HashesReadable
  <2>7. Forward => Historic' /\ (HashesReadable => hashes[g] # v)
    <3>1. ASSUME Forward
          PROVE /\ v # 0 /\ v \notin past[g] /\ past' = [past EXCEPT ![g] = @ \cup {v}]
                /\ Historic
      BY <1>2, <3>1 DEF Edit, Forward, IndexInv, Grounded
    <3>2. ASSUME Forward PROVE HashesReadable => hashes[g] # v
      BY <3>1, <3>2 DEF Historic
    <3>3. ASSUME Forward PROVE Historic'
      BY <2>1, <2>4, <2>5, <3>1, <3>3 DEF Historic, HashesReadable, TypeOK
    <3> QED BY <3>2, <3>3
  <2>8. Truthful'
    <3> SUFFICES ASSUME Readable, HashesReadable, NEW f \in Files, hashes[f] = disk'[f]
                 PROVE  snapshot[f] = Right(f)'
      BY <2>1 DEF Truthful, Readable, HashesReadable
    <3>1. CASE f # g
      BY <2>4, <3>1 DEF IndexInv, Truthful
    <3>2. CASE f = g
      <4>1. Undisturbed BY <2>5, <2>7, <3>2
      <4>2. snapshot[f] = {hashes[f]} \ {0}
        BY <2>1, <4>1 DEF IndexInv, Grounded, Paired
      <4> QED BY <4>2 DEF Right
    <3> QED BY <3>1, <3>2
  <2> QED BY <2>3, <2>6, <2>7, <2>8 DEF IndexInv, Grounded
<1>3. CASE Crash
  <2>1. /\ Forward /\ pc' = "idle" /\ fresh' = Empty
        /\ disk' = disk /\ past' = past /\ snapshot' = snapshot /\ hashes' = hashes
    BY <1>3 DEF Crash, Undisturbed, TypeOK
  <2>2. ~Undisturbed
    BY <1>3 DEF Crash, Undisturbed, TypeOK
  <2>3. \A f \in Files : Right(f)' = Right(f) BY <2>1 DEF Right
  <2>4. Truthful'
    BY <2>1, <2>3 DEF IndexInv, Truthful, Readable, HashesReadable
  <2>5. Historic' BY <2>1 DEF IndexInv, Grounded, Historic, HashesReadable
  <2>6. Walked' /\ Extracting' /\ Writing'
    BY <2>1 DEF Walked, Extracting, Writing
  <2> QED BY <2>2, <2>4, <2>5, <2>6 DEF IndexInv, Grounded
<1> QED BY <1>1, <1>2, <1>3

(* IndexInv holds in every reachable state of such an environment.         *)
LEMMA AlwaysIndexed ==
    ASSUME WholeTreeCommands, Undisturbed \/ Forward
    PROVE  Spec => []IndexInv
<1>1. Init => IndexInv
  <2> SUFFICES ASSUME Init PROVE IndexInv
    OBVIOUS
  <2> USE DEF Init
  <2>1. Truthful /\ Walked /\ Extracting /\ Writing
    BY DEF Truthful, Readable, Walked, Extracting, Writing
  <2>2. Paired BY DEF Paired, Readable
  <2>3. Forward => Historic BY DEF Forward, Historic, HashesReadable
  <2> QED BY <2>1, <2>2, <2>3 DEF IndexInv, Grounded
<1>2. IndexInv /\ TypeOK /\ TypeOK' /\ Covered /\ Covered' /\ Written' /\ [Next]_vars
        => IndexInv'
  <2> SUFFICES ASSUME IndexInv, TypeOK, TypeOK', Covered, Covered', Written', [Next]_vars
               PROVE  IndexInv'
    OBVIOUS
  <2>1. CASE UNCHANGED vars
    <3> USE <2>1 DEF vars
    <3>1. /\ (Readable <=> Readable') /\ (HashesReadable <=> HashesReadable')
          /\ \A f \in Files : Right(f)' = Right(f) /\ (Planned(f) <=> Planned(f)')
      BY DEF Readable, HashesReadable, Right, Planned, Invalidated, EntriesOf
    <3>7. \A f \in Files : Due(f)' = Due(f)
      BY DEF Due, HashesReadable
    <3>2. Truthful' BY <3>1 DEF IndexInv, Truthful
    <3>3. Grounded' BY <3>1 DEF IndexInv, Grounded, Paired, Historic
    <3>4. Walked' BY DEF IndexInv, Walked, Sought
    <3>5. Extracting' BY <3>1, <3>7 DEF IndexInv, Extracting, EntriesOf
    <3>6. Writing' BY <3>1, <3>7 DEF IndexInv, Writing
    <3> QED BY <3>2, <3>3, <3>4, <3>5, <3>6 DEF IndexInv
  <2>2. CASE Open \/ Scan \/ DetectUpdate \/ DetectDiscover \/ Rescan
    BY <2>2, DetectKeeps
  <2>3. ASSUME NEW entry \in Entry, Extract(entry) PROVE IndexInv'
    BY <2>3, ExtractKeeps
  <2>4. CASE Compact \/ Unlink \/ Rename \/ Relate \/ Rewrite \/ Truncate \/ Write
    BY <2>4, BuildKeeps
  <2>5. CASE Walk \/ Index \/ SaveTruncate \/ SaveWrite
    BY <2>5, RecordKeeps
  <2>6. ASSUME \/ \E r \in Requests : Begin(r)
               \/ \E f \in Files, v \in Content : Edit(f, v)
               \/ Crash
        PROVE  IndexInv'
    BY <2>6, EnvironmentKeeps
  <2> QED BY <2>1, <2>2, <2>3, <2>4, <2>5, <2>6 DEF Next, Step
<1>3. UsableInv => Written
  BY DEF UsableInv
<1> QED BY <1>1, <1>2, <1>3, TypeCorrect, AlwaysCovered, AlwaysUsable, PTL DEF Spec

(* Between commands, a file whose recorded hash is that of the file on     *)
(* disk has exactly its present symbols in the snapshot.                   *)
THEOREM IndexedIsRecorded ==
    ASSUME WholeTreeCommands, Undisturbed \/ Forward
    PROVE  Spec => []RecordedIsIndexed
<1>1. IndexInv => RecordedIsIndexed
  BY DEF IndexInv, Truthful, HashesReadable, RecordedIsIndexed
<1> QED BY <1>1, AlwaysIndexed, PTL

(* An update that compares the tree leaves the snapshot that a full        *)
(* discover of the same files would have built.                            *)
THEOREM UpdateIsDiscover ==
    ASSUME WholeTreeCommands, Undisturbed \/ Forward
    PROVE  Spec => UpdateMatchesDiscover
<1>1. IndexInv /\ TypeOK /\ [Next]_vars =>
        [SaveWrite /\ request.mode = "diff" /\ request.filter = Files => Accurate']_vars
  <2> SUFFICES ASSUME IndexInv, TypeOK, SaveWrite, request.filter = Files PROVE Accurate'
    OBVIOUS
  <2>1. snapshot' = snapshot /\ disk' = disk /\ Readable
    BY DEF SaveWrite, IndexInv, Writing
  <2>2. \A f \in Files : snapshot[f] = Right(f)
    BY DEF SaveWrite, IndexInv, Writing, Due
  <2>3. snapshot \in Graph
    BY <2>1 DEF TypeOK, Readable
  <2> QED BY <2>1, <2>2, <2>3 DEF Accurate, Right
<1> QED BY <1>1, AlwaysIndexed, TypeCorrect, PTL DEF Spec, UpdateMatchesDiscover

-----------------------------------------------------------------------------
(* Every command is about a language that has a file which stays.          *)
SourcesStay == \A r \in Requests : r.filter \ Optional # {}

(* The walk of the tree has found the files that stay.                     *)
StayingFound ==
    /\ \A f \in Files \ Optional : disk[f] # 0
    /\ pc = "detect" => request.filter \ Optional \subseteq found

(* StayingFound holds in every reachable state.                            *)
LEMMA AlwaysFound == Spec => []StayingFound
<1>1. Init => StayingFound BY DEF Init, StayingFound
<1>2. TypeOK /\ StayingFound /\ [Next]_vars => StayingFound'
  <2> SUFFICES ASSUME TypeOK, StayingFound, [Next]_vars PROVE StayingFound'
    OBVIOUS
  <2> USE DEF StayingFound
  <2>1. CASE UNCHANGED vars BY <2>1 DEF vars
  <2>2. CASE Open \/ Rescan BY <2>2 DEF Open, Rescan
  <2>3. CASE Scan
    <3>1. request.filter \subseteq Files BY RequestsAssumption DEF TypeOK, RequestType
    <3> QED BY <2>3, <3>1 DEF Scan
  <2>4. CASE DetectUpdate BY <2>4 DEF DetectUpdate
  <2>5. CASE DetectDiscover BY <2>5 DEF DetectDiscover, Discovering, ReuseSnapshot
  <2>6. ASSUME NEW entry \in Entry, Extract(entry) PROVE StayingFound' BY <2>6 DEF Extract
  <2>7. CASE Compact \/ Unlink \/ Rename \/ Relate \/ Rewrite \/ Truncate \/ Write
    BY <2>7 DEF Compact, Unlink, Rename, Relate, Rewrite, Truncate, Write
  <2>8. CASE Walk \/ Index \/ SaveTruncate \/ SaveWrite
    BY <2>8 DEF Walk, Index, SaveTruncate, SaveWrite
  <2>9. ASSUME NEW r \in Requests, Begin(r) PROVE StayingFound' BY <2>9 DEF Begin
  <2>10. ASSUME NEW g \in Files, NEW v \in Content, Edit(g, v) PROVE StayingFound'
    <3>1. /\ v # 0 \/ g \in Optional
          /\ disk' = [disk EXCEPT ![g] = v]
          /\ pc' = pc /\ request' = request /\ found' = found
      BY <2>10 DEF Edit
    <3>2. \A f \in Files \ Optional : disk'[f] # 0 BY <3>1 DEF TypeOK
    <3> QED BY <3>1, <3>2
  <2>11. CASE Crash BY <2>11 DEF Crash
  <2> QED
    BY <2>1, <2>2, <2>3, <2>4, <2>5, <2>6, <2>7, <2>8, <2>9, <2>10, <2>11 DEF Next, Step
<1> QED BY <1>1, <1>2, TypeCorrect, PTL DEF Spec

(* A discover does not reuse a snapshot whose hash file is missing or      *)
(* torn, whatever crashed or was edited, when the languages it is asked    *)
(* for have a file that stays: it then sees that file as added.            *)
THEOREM UnhashedIsNotReused == ASSUME SourcesStay PROVE Spec => NoFalseReuse
<1>1. TypeOK /\ StayingFound /\ [Next]_vars =>
        [DetectDiscover /\ pc' # "rescan" /\ Readable /\ hashes \in {Missing, Torn} => Accurate]_vars
  <2> SUFFICES ASSUME TypeOK, StayingFound, DetectDiscover, pc' # "rescan",
                      hashes \in {Missing, Torn}
               PROVE  FALSE
    OBVIOUS
  <2>1. request.mode = "discover" /\ Changes = NoChange /\ pc = "detect"
    BY DEF DetectDiscover, Discovering, ReuseSnapshot
  <2>2. Changes = [NoChange EXCEPT !.added = found]
    BY <2>1 DEF Changes, DetectChanges, Known
  <2>3. found = {} BY <2>1, <2>2 DEF NoChange
  <2>4. found # {} BY <2>1 DEF StayingFound, SourcesStay, TypeOK
  <2> QED BY <2>3, <2>4
<1> QED BY <1>1, AlwaysFound, TypeCorrect, PTL DEF Spec, NoFalseReuse
-----------------------------------------------------------------------------
(***************************************************************************)
(* What a full build writes owes nothing to what it found: whatever        *)
(* crashes, edits, namesakes and updates of some files came before, it     *)
(* takes every file once, and writes what it took.                         *)
(***************************************************************************)
OneVersion(f) == \A v, w \in fresh[f] : v = w

TakenOnce ==
    Full(request) =>
        /\ \A f \in Files : OneVersion(f)
        /\ pc = "extract" => \A entry \in todo : entry[2] = "abs" /\ fresh[entry[1]] = {}
        /\ pc = "write" => built = fresh
        /\ pc \in {"walk", "index", "save", "finish"} /\ request.mode # "discover"
              => snapshot = fresh
        /\ pc \in {"save", "finish"} /\ request.mode = "rebuild" =>
              \A f \in Files : recorded[f] # 0 /\ fresh[f] # {} => fresh[f] = {recorded[f]}

(* Only updates go through the steps of a compaction.                      *)
Compacting == pc \in {"unlink", "rename", "relate", "rewrite"} => ~Full(request)
LEMMA AlwaysCompacting == Spec => []Compacting
<1>1. Init => Compacting BY DEF Init, Compacting
<1>2. Compacting /\ [Next]_vars => Compacting'
  BY DEF Compacting, Next, Step, vars, Open, Scan, DetectUpdate, DetectDiscover, Discovering,
     ReuseSnapshot, Rescan, Extract, Compact, Unlink, Rename, Relate, Rewrite, Truncate, Write,
     Walk, Index, SaveTruncate, SaveWrite, Begin, Edit, Crash
<1> QED BY <1>1, <1>2, PTL DEF Spec

(* Beginning and looking, editing and crashing touch nothing of that.      *)
LEMMA BeforeTaken ==
    ASSUME TypeOK, Covered, Covered', TakenOnce,
           \/ Open \/ Scan \/ DetectUpdate \/ DetectDiscover \/ Rescan
           \/ \E r \in Requests : Begin(r)
           \/ \E f \in Files, v \in Content : Edit(f, v)
           \/ Crash
    PROVE  TakenOnce'
<1>1. ASSUME NEW f \in Files, NEW v \in Content, Edit(f, v) PROVE TakenOnce'
  BY <1>1 DEF Edit, TakenOnce, OneVersion
<1>2. CASE Rescan
  <2>1. /\ pc' = "extract" /\ fresh' = Empty /\ todo' = (Present \cap request.filter) \X {"abs"}
    BY <1>2 DEF Rescan, Covered, Started
  <2> QED BY <2>1 DEF TakenOnce, OneVersion
<1>3. ASSUME Open \/ Scan \/ DetectUpdate \/ DetectDiscover \/ Crash
             \/ \E r \in Requests : Begin(r)
      PROVE  TakenOnce'
  <2>1. fresh' = Empty
    BY <1>3 DEF Open, Scan, DetectUpdate, DetectDiscover, Discovering, ReuseSnapshot, Crash, Begin,
                Covered, Started
  <2>2. pc' \notin {"write", "walk", "save", "finish"}
    BY <1>3 DEF Open, Scan, DetectUpdate, DetectDiscover, Discovering, ReuseSnapshot, Crash, Begin
  <2>3. Full(request') => pc' # "extract"
    BY <1>3 DEF Open, Scan, DetectUpdate, DetectDiscover, Discovering, ReuseSnapshot, Crash, Begin
  <2>4. pc' = "index" => request'.mode = "discover"
    BY <1>3 DEF Open, Scan, DetectUpdate, DetectDiscover, Discovering, ReuseSnapshot, Crash, Begin
  <2> QED BY <2>1, <2>2, <2>3, <2>4 DEF TakenOnce, OneVersion
<1> QED BY <1>1, <1>2, <1>3

(* A worker takes the one entry of a file.                                 *)
LEMMA ExtractTakes ==
    ASSUME TypeOK, TakenOnce, NEW entry \in Entry, Extract(entry)
    PROVE  TakenOnce'
<1> SUFFICES ASSUME Full(request') PROVE TakenOnce'
  BY DEF TakenOnce
<1> DEFINE g == entry[1]
<1>1. /\ pc = "extract" /\ pc' = "extract" /\ request' = request /\ g \in Files
      /\ entry \in todo /\ todo' = todo \ {entry}
      /\ fresh' = [fresh EXCEPT ![g] = @ \cup ({disk[g]} \ {0})]
  BY DEF Extract
<1>2. \A e \in todo : e[2] = "abs" /\ fresh[e[1]] = {}
  BY <1>1 DEF TakenOnce
<1>3. fresh'[g] = {disk[g]} \ {0} /\ \A f \in Files \ {g} : fresh'[f] = fresh[f]
  BY <1>1, <1>2 DEF TypeOK
<1>4. \A f \in Files : OneVersion(f)'
  BY <1>1, <1>3 DEF TakenOnce, OneVersion
<1>5. ASSUME NEW e \in todo' PROVE e[2] = "abs" /\ fresh'[e[1]] = {}
  <2>1. e \in todo /\ e \in Entry /\ e # entry
    BY <1>1, <1>5 DEF TypeOK
  <2>2. e[1] # g /\ e[1] \in Files
    BY <1>1, <1>2, <2>1
  <2> QED BY <1>2, <1>3, <2>1, <2>2
<1> QED BY <1>1, <1>4, <1>5 DEF TakenOnce

(* What was taken is written, and its hashes are recorded.                 *)
LEMMA WriteTaken ==
    ASSUME TypeOK, Compacting, TakenOnce,
           \/ Compact \/ Unlink \/ Rename \/ Relate \/ Rewrite
           \/ Truncate \/ Write \/ Walk \/ Index \/ SaveTruncate \/ SaveWrite
    PROVE  TakenOnce'
<1> USE DEF TakenOnce, OneVersion
<1>1. CASE Compact
  BY <1>1 DEF Compact
<1>2. CASE Unlink \/ Rename \/ Relate \/ Rewrite
  BY <1>2 DEF Unlink, Rename, Relate, Rewrite, Compacting
<1>3. CASE Truncate BY <1>3 DEF Truncate
<1>4. CASE Write BY <1>4 DEF Write
<1>5. CASE Walk BY <1>5 DEF Walk
<1>6. CASE Index
  <2>1. pc' = "save" /\ request.mode = "rebuild" =>
           \A f \in Files : recorded'[f] # 0 /\ fresh[f] # {} => fresh[f] = {recorded'[f]}
    <3> SUFFICES ASSUME pc' = "save", request.mode = "rebuild", NEW f \in Files,
                        recorded'[f] # 0, fresh[f] # {}
                 PROVE  fresh[f] = {recorded'[f]}
      OBVIOUS
    <3>1. recorded'[f] = HashOf(f) BY <1>6 DEF Index
    <3>2. HashOf(f) = CHOOSE v \in fresh[f] : TRUE BY <3>1 DEF HashOf
    <3>3. HashOf(f) \in fresh[f] BY <3>2
    <3>4. \A v, w \in fresh[f] : v = w OBVIOUS
    <3> QED BY <3>1, <3>3, <3>4
  <2> QED BY <1>6, <2>1 DEF Index
<1>7. CASE SaveTruncate BY <1>7 DEF SaveTruncate
<1>8. CASE SaveWrite BY <1>8 DEF SaveWrite
<1> QED BY <1>1, <1>2, <1>3, <1>4, <1>5, <1>6, <1>7, <1>8

(* TakenOnce holds in every reachable state.                               *)
LEMMA AlwaysTakenOnce == Spec => []TakenOnce
<1>1. Init => TakenOnce BY DEF Init, TakenOnce, OneVersion
<1>2. TypeOK /\ Covered /\ Covered' /\ Compacting /\ TakenOnce /\ [Next]_vars => TakenOnce'
  <2> SUFFICES ASSUME TypeOK, Covered, Covered', Compacting, TakenOnce, [Next]_vars PROVE TakenOnce'
    OBVIOUS
  <2>1. CASE UNCHANGED vars BY <2>1 DEF vars, TakenOnce, OneVersion
  <2>2. CASE Next BY <2>2, BeforeTaken, ExtractTakes, WriteTaken DEF Next, Step
  <2> QED BY <2>1, <2>2
<1> QED BY <1>1, <1>2, TypeCorrect, AlwaysCovered, AlwaysCompacting, PTL DEF Spec

(* A rebuild records of a file it wrote the hash of the bytes it wrote,    *)
(* though the file may have changed at any time since, so that the edit is *)
(* a change for the next update (index_files_with_mapping).                *)
RebuildRecordsItsBytes ==
    [][SaveWrite /\ request.mode = "rebuild" =>
         \A f \in Files : hashes'[f] # 0 /\ snapshot[f] # {} => snapshot[f] = {hashes'[f]}]_vars

(* It does in every environment: for all files, names, calls, edits and    *)
(* crashes.                                                                *)
THEOREM RebuildRecords == Spec => RebuildRecordsItsBytes
<1>1. TakenOnce => (SaveWrite /\ request.mode = "rebuild" =>
         \A f \in Files : hashes'[f] # 0 /\ snapshot[f] # {} => snapshot[f] = {hashes'[f]})
  BY DEF TakenOnce, SaveWrite
<1> QED BY <1>1, AlwaysTakenOnce, PTL DEF Spec, RebuildRecordsItsBytes

-----------------------------------------------------------------------------
(* What a full build has taken, and still takes, is what is on disk, when  *)
(* no file changes while it runs.                                          *)
QuietBuild ==
    Full(request) =>
        /\ pc \in {"scan", "detect"} => request.mode # "force"
        /\ /\ pc \in {"detect", "rescan", "extract", "write"}
           /\ request.mode # "force"
           => found = Sought
        /\ pc \in {"index", "save", "finish"} => found = Sought
        /\ \A f \in Files : fresh[f] \subseteq Right(f)
        /\ pc = "extract" =>
              \A f \in request.filter : fresh[f] = Right(f) \/ <<f, "abs">> \in todo
        /\ pc \in {"write", "walk", "index", "save", "finish"} /\ request.mode # "discover"
              => \A f \in request.filter : fresh[f] = Right(f)
        /\ pc \in {"save", "finish"} /\ request.mode # "discover"
              => \A f \in request.filter : recorded[f] = disk[f]

(* It is established by the walks, and kept by the rest.                   *)
LEMMA QuietDetect ==
    ASSUME QuietUpdates, TypeOK, Covered, QuietBuild,
           \/ Open \/ Scan \/ DetectUpdate \/ DetectDiscover \/ Rescan
           \/ \E r \in Requests : Begin(r)
           \/ \E f \in Files, v \in Content : Edit(f, v)
           \/ Crash
    PROVE  QuietBuild'
<1>1. fresh' = Empty
  BY DEF Open, Scan, DetectUpdate, DetectDiscover, Discovering, ReuseSnapshot, Rescan, Crash,
         Begin, Edit, Covered, Started
<1>2. \A f \in Files : fresh'[f] \subseteq Right(f)'
  BY <1>1
<1>3. CASE Rescan
  <2>1. /\ pc = "rescan" /\ pc' = "extract" /\ request' = request /\ found' = found
        /\ disk' = disk /\ todo' = (Present \cap request.filter) \X {"abs"}
    BY <1>3 DEF Rescan
  <2>2. ASSUME NEW f \in request.filter PROVE fresh'[f] = Right(f)' \/ <<f, "abs">> \in todo'
    <3>1. f \in Files BY RequestsAssumption DEF TypeOK, RequestType
    <3> QED BY <1>1, <2>1, <3>1 DEF Right
  <2> QED BY <1>2, <2>1, <2>2 DEF QuietBuild, Sought
<1>4. ASSUME Open \/ Scan \/ DetectUpdate \/ DetectDiscover \/ Crash
             \/ \E r \in Requests : Begin(r)
      PROVE  QuietBuild'
  <2>1. disk' = disk /\ (Full(request') => pc' # "extract")
    BY <1>4 DEF Open, Scan, DetectUpdate, DetectDiscover, Discovering, ReuseSnapshot, Crash, Begin
  <2>2. pc' \notin {"write", "walk", "save", "finish"}
    BY <1>4 DEF Open, Scan, DetectUpdate, DetectDiscover, Discovering, ReuseSnapshot, Crash, Begin
  <2>3. pc' = "index" => request'.mode = "discover"
    BY <1>4 DEF Open, Scan, DetectUpdate, DetectDiscover, Discovering, ReuseSnapshot, Crash, Begin
  <2>4. /\ pc' \in {"scan", "detect"} /\ Full(request') => request'.mode # "force"
        /\ pc' \in {"detect", "rescan", "index"} /\ request'.mode # "force" /\ Full(request')
              => found' = Sought'
        /\ pc' = "index" /\ Full(request') => found' = Sought'
    BY <1>4, <2>1 DEF Open, Scan, DetectUpdate, DetectDiscover, Discovering, ReuseSnapshot, Crash,
       Begin, QuietBuild, Sought
  <2> QED BY <1>2, <2>1, <2>2, <2>3, <2>4 DEF QuietBuild
<1>5. ASSUME NEW f \in Files, NEW v \in Content, Edit(f, v) PROVE QuietBuild'
  <2>1. pc' = "idle" BY <1>5 DEF Edit
  <2> QED BY <1>2, <2>1 DEF QuietBuild
<1> QED BY <1>3, <1>4, <1>5

LEMMA QuietExtract ==
    ASSUME TypeOK, QuietBuild, NEW entry \in Entry, Extract(entry)
    PROVE  QuietBuild'
<1> SUFFICES ASSUME Full(request') PROVE QuietBuild'
  BY DEF QuietBuild
<1> DEFINE g == entry[1]
<1>1. /\ pc = "extract" /\ pc' = "extract" /\ request' = request /\ g \in Files
      /\ found' = found /\ disk' = disk /\ todo' = todo \ {entry}
      /\ fresh' = [fresh EXCEPT ![g] = @ \cup Right(g)]
  BY DEF Extract, Right
<1>2. \A f \in Files : Right(f)' = Right(f) /\ fresh[f] \subseteq Right(f)
  BY <1>1 DEF Right, QuietBuild
<1>3. fresh'[g] = Right(g) /\ \A f \in Files \ {g} : fresh'[f] = fresh[f]
  BY <1>1, <1>2 DEF TypeOK
<1>4. \A f \in Files : fresh'[f] \subseteq Right(f)'
  BY <1>2, <1>3
<1>5. ASSUME NEW f \in request.filter PROVE fresh'[f] = Right(f)' \/ <<f, "abs">> \in todo'
  <2>1. f \in Files BY RequestsAssumption DEF TypeOK, RequestType
  <2>2. CASE f = g BY <1>2, <1>3, <2>1, <2>2
  <2>3. CASE f # g
    <3>1. fresh[f] = Right(f) \/ <<f, "abs">> \in todo
      BY <1>1 DEF QuietBuild
    <3>2. <<f, "abs">> # entry BY <2>3
    <3> QED BY <1>1, <1>2, <1>3, <2>1, <2>3, <3>1, <3>2
  <2> QED BY <2>2, <2>3
<1> QED BY <1>1, <1>4, <1>5 DEF QuietBuild, Sought

LEMMA QuietWrite ==
    ASSUME TypeOK, Compacting, QuietBuild,
           \/ Compact \/ Unlink \/ Rename \/ Relate \/ Rewrite
           \/ Truncate \/ Write \/ Walk \/ Index \/ SaveTruncate \/ SaveWrite
    PROVE  QuietBuild'
<1> SUFFICES ASSUME Full(request') PROVE QuietBuild'
  BY DEF QuietBuild
<1>1. disk' = disk /\ request' = request /\ \A f \in Files : Right(f)' = Right(f)
  BY DEF Compact, Unlink, Rename, Relate, Rewrite, Truncate, Write, Walk, Index, SaveTruncate,
         SaveWrite, Right
<1>2. request.filter \subseteq Files
  BY RequestsAssumption DEF TypeOK, RequestType
<1>3. CASE Compact BY <1>1, <1>3 DEF Compact
<1>4. CASE Unlink \/ Rename \/ Relate \/ Rewrite
  BY <1>1, <1>4 DEF Unlink, Rename, Relate, Rewrite, Compacting
<1>5. CASE Truncate
  BY <1>1, <1>2, <1>5 DEF Truncate, QuietBuild, Sought
<1>6. CASE Write
  BY <1>1, <1>2, <1>6 DEF Write, QuietBuild, Sought
<1>7. CASE Walk
  BY <1>1, <1>2, <1>7 DEF Walk, QuietBuild, Sought
<1>8. CASE Index
  <2>1. CASE pc' = "idle"
    BY <1>8, <2>1 DEF Index, QuietBuild
  <2>2. CASE pc' # "idle"
    <3>1. /\ pc = "index" /\ pc' = "save" /\ found' = found /\ fresh' = fresh
          /\ recorded' = [f \in Files |-> HashOf(f)]
      BY <1>8, <2>2 DEF Index
    <3>2. ASSUME NEW f \in request.filter, request.mode # "discover" PROVE HashOf(f) = disk[f]
      <4>1. f \in Files /\ fresh[f] = Right(f) /\ (f \in found <=> disk[f] # 0)
        BY <1>1, <1>2, <3>1, <3>2 DEF QuietBuild, Sought
      <4>2. disk[f] # 0 => (CHOOSE v \in fresh[f] : TRUE) = disk[f]
        <5>1. disk[f] # 0 => fresh[f] = {disk[f]} BY <4>1 DEF Right
        <5> QED BY <5>1
      <4> QED BY <4>1, <4>2 DEF HashOf
    <3> QED BY <1>1, <1>2, <3>1, <3>2 DEF QuietBuild, Sought
  <2> QED BY <2>1, <2>2
<1>9. CASE SaveTruncate
  BY <1>1, <1>2, <1>9 DEF SaveTruncate, QuietBuild, Sought
<1>10. CASE SaveWrite
  BY <1>1, <1>10 DEF SaveWrite, QuietBuild
<1> QED BY <1>3, <1>4, <1>5, <1>6, <1>7, <1>8, <1>9, <1>10

LEMMA AlwaysQuietBuild == ASSUME QuietUpdates PROVE Spec => []QuietBuild
<1>1. Init => QuietBuild BY DEF Init, QuietBuild
<1>2. TypeOK /\ Covered /\ Covered' /\ Compacting /\ QuietBuild /\ [Next]_vars => QuietBuild'
  <2> SUFFICES ASSUME TypeOK, Covered, Covered', Compacting, QuietBuild, [Next]_vars PROVE QuietBuild'
    OBVIOUS
  <2>1. CASE UNCHANGED vars BY <2>1 DEF vars, QuietBuild, Sought, Right
  <2>2. CASE Next BY <2>2, QuietDetect, QuietExtract, QuietWrite DEF Next, Step
  <2> QED BY <2>1, <2>2
<1> QED BY <1>1, <1>2, TypeCorrect, AlwaysCovered, AlwaysCompacting, PTL DEF Spec

(* A full rebuild that is not disturbed leaves an index that is right: the *)
(* snapshot is of the files on disk and so are the hashes, whatever was in *)
(* either before (full_rebuild, discover --force).                         *)
RebuildRepairs ==
    [][SaveWrite /\ request.mode \in {"force", "rebuild"} /\ request.filter = Files
         => Accurate' /\ hashes' = disk']_vars

(* It does after any crashes, edits, namesakes and updates of some files.  *)
THEOREM RebuildsRepair == ASSUME QuietUpdates PROVE Spec => RebuildRepairs
<1>1. TypeOK /\ TakenOnce /\ QuietBuild =>
        (SaveWrite /\ request.mode \in {"force", "rebuild"} /\ request.filter = Files
           => Accurate' /\ hashes' = disk')
  <2> SUFFICES ASSUME TypeOK, TakenOnce, QuietBuild, SaveWrite,
                      request.mode \in {"force", "rebuild"}, request.filter = Files
               PROVE  Accurate' /\ hashes' = disk'
    OBVIOUS
  <2>1. /\ pc = "finish" /\ snapshot' = snapshot /\ disk' = disk /\ hashes' = recorded
    BY DEF SaveWrite
  <2>2. snapshot = fresh /\ fresh \in Graph /\ recorded \in Hashes /\ disk \in Hashes
    BY <2>1 DEF TakenOnce, TypeOK
  <2>3. \A f \in Files : fresh[f] = Right(f) /\ recorded[f] = disk[f]
    BY <2>1 DEF QuietBuild
  <2> QED BY <2>1, <2>2, <2>3 DEF Accurate, Right
<1> QED BY <1>1, AlwaysTakenOnce, AlwaysQuietBuild, TypeCorrect, PTL DEF Spec, RebuildRepairs
=============================================================================
