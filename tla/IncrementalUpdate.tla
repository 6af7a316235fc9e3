-------------------------- MODULE IncrementalUpdate --------------------------
(***************************************************************************)
(* The index of a repository, `.rgctl/graph.snapshot.bin` and              *)
(* `.rgctl/file_hashes.json`, and the two commands that write it:          *)
(* `rgctl update` (crates/rgctl-incremental, crates/rgctl-graph/src/       *)
(* graph_compactor.rs) and `rgctl discover` (src/cli/discover_impl.rs,     *)
(* crates/rgctl-pipeline).  Source files change at any time, and a         *)
(* command may be killed between any two writes.                           *)
(*                                                                         *)
(* One command runs at a time: the writer lock is WatchLock's subject.     *)
(*                                                                         *)
(* A source file is its version; 0 means that there is no file.  All       *)
(* versions of a file define one symbol in common, and each defines one of *)
(* its own, so the nodes a snapshot holds of a file are the set of the     *)
(* versions they were extracted from: {v} is the file at version v, {} is  *)
(* nothing, and {v, w} is a mixture in which a symbol that is gone still   *)
(* has its node.                                                           *)
(*                                                                         *)
(* Nodes carry the absolute path of their file.  A change set carries      *)
(* paths relative to the repository, and the cascade adds the paths it     *)
(* reads from nodes, so an entry of an update is a file and a form.        *)
(***************************************************************************)
EXTENDS Naturals, FiniteSets

CONSTANTS
    Files,          \* source files of the repository
    TopLevel,       \* the files in the root directory of the repository
    BaseName,       \* the last component of the path of each file
    Suffixes,       \* the files whose path in the repository the path of each
                    \* file ends with, at a directory boundary or not
    Callers,        \* the files that call the common symbol of each file,
                    \* itself included when it calls within the file
    Cascade,        \* --cascade-depth is 1 (the default), not 0
    Requests,       \* the commands that are run, see RequestType
    Missing,        \* the file does not exist
    Torn,           \* the file was truncated and not yet written
    MaxVersion,     \* bound: versions of a source file
    MaxCrashes,     \* bound: crashes of a command
    Optional,       \* environment: the files that may be absent
    Reverts,        \* environment: a file may become what it was before
    QuietUpdates    \* environment: no file changes while a command runs

Version == 1..MaxVersion
Content == 0..MaxVersion

RequestType ==
    [mode: {"diff", "files", "force", "discover", "rebuild"},
     paths: SUBSET Files,       \* --files
     filter: SUBSET Files]      \* the files of the --languages

ASSUME FilesAssumption ==
    /\ TopLevel \subseteq Files /\ Optional \subseteq Files
    /\ DOMAIN BaseName = Files
    /\ Suffixes \in [Files -> SUBSET Files]
    /\ \A f \in Files : {f} \cup {q \in TopLevel : BaseName[q] = BaseName[f]} \subseteq Suffixes[f]
    /\ Callers \in [Files -> SUBSET Files]
ASSUME RequestsAssumption == Requests \subseteq RequestType
ASSUME BoundsAssumption == MaxVersion \in Nat \ {0} /\ MaxCrashes \in Nat
ASSUME EnvironmentAssumption == {Cascade, Reverts, QuietUpdates} \subseteq BOOLEAN
ASSUME MarksAssumption ==
    /\ Missing \notin [Files -> SUBSET Version] /\ Missing \notin [Files -> Content]
    /\ Torn \notin [Files -> SUBSET Version] /\ Torn \notin [Files -> Content]
    /\ Missing # Torn

VARIABLES
    disk,           \* the version of each source file
    past,           \* the versions each source file had, when it cannot revert
    snapshot,       \* graph.snapshot.bin
    hashes,         \* file_hashes.json: the version recorded for each file
    pc,             \* where the running command stands
    request,        \* the running command
    found,          \* the source files its walk found
    todo,           \* the entries it has still to extract
    stale,          \* the entries whose nodes its compaction drops
    fresh,          \* the versions it has extracted
    built,          \* the snapshot it is writing
    recorded,       \* the hashes it is writing
    outcome,        \* how the last command ended
    crashes

repoVars == <<disk, past>>
jobVars  == <<request, found, todo, stale, fresh, built, recorded>>
vars == <<repoVars, snapshot, hashes, pc, jobVars, outcome, crashes>>

Graph  == [Files -> SUBSET Version]
Hashes == [Files -> Content]
Entry  == Files \X {"rel", "abs"}

Empty   == [f \in Files |-> {}]
Present == {f \in Files : disk[f] # 0}
NoHash  == [f \in Files |-> 0]
Full(r) == r.mode \in {"force", "discover", "rebuild"}

Init ==
    /\ disk \in {d \in [Files -> {0, 1}] : \A f \in Files \ Optional : d[f] = 1}
    /\ past = [f \in Files |-> {disk[f]}]
    /\ snapshot = Missing /\ hashes = Missing
    /\ pc = "idle"
    /\ request \in Requests
    /\ found = {} /\ todo = {} /\ stale = {}
    /\ fresh = Empty /\ built = Empty /\ recorded = NoHash
    /\ outcome = "none"
    /\ crashes = 0

-----------------------------------------------------------------------------
\* A source file is edited, created or deleted.
Edit(f, v) ==
    /\ QuietUpdates => pc = "idle"
    /\ v # disk[f]
    /\ v # 0 \/ f \in Optional
    /\ Reverts \/ v \notin past[f]
    /\ disk' = [disk EXCEPT ![f] = v]
    /\ past' = IF Reverts THEN past ELSE [past EXCEPT ![f] = @ \cup {v}]
    /\ UNCHANGED <<snapshot, hashes, pc, jobVars, outcome, crashes>>

Goto(from, to) == pc = from /\ pc' = to

\* A command ends; its scratch state is gone.
End(from, how) ==
    /\ Goto(from, "idle")
    /\ outcome' = how
    /\ found' = {} /\ todo' = {} /\ stale' = {}
    /\ fresh' = Empty /\ built' = Empty /\ recorded' = NoHash
    /\ UNCHANGED <<repoVars, request, crashes>>

\* `rgctl update` opens the snapshot first; `rgctl discover` walks.
Begin(r) ==
    /\ Goto("idle", IF r.mode \in {"discover", "rebuild"} THEN "scan" ELSE "open")
    /\ request' = r
    /\ outcome' = "none"
    /\ UNCHANGED <<repoVars, snapshot, hashes, found, todo, stale, fresh, built, recorded, crashes>>

\* run_update_at: there must be a snapshot that opens.
Open ==
    \/ /\ snapshot \in {Missing, Torn}
       /\ End("open", "failed")
       /\ UNCHANGED <<snapshot, hashes>>
    \/ /\ snapshot \notin {Missing, Torn}
       /\ Goto("open", IF request.mode = "force" THEN "rescan" ELSE "scan")
       /\ UNCHANGED <<repoVars, snapshot, hashes, jobVars, outcome, crashes>>

\* FileDiscoverer::discover.
Scan ==
    /\ Goto("scan", "detect")
    /\ found' = Present \cap request.filter
    /\ UNCHANGED <<repoVars, snapshot, hashes, outcome, crashes>>
    /\ UNCHANGED <<request, todo, stale, fresh, built, recorded>>

-----------------------------------------------------------------------------
(* Change detection.  The files are read again here, after the walk.       *)

\* FileTracker::load: a missing file is an empty tracker, a torn one an error.
Known(h) == IF h \in {Missing, Torn} THEN NoHash ELSE h

NoChange == [added |-> {}, changed |-> {}, deleted |-> {}]

\* Mutant: files are told apart by name only.
DetectChangesByName(known, files) ==
    IF known = NoHash THEN [NoChange EXCEPT !.added = files]
    ELSE [added   |-> {f \in files : known[f] = 0},
          changed |-> {},
          deleted |-> {f \in Files \ files : known[f] # 0}]

\* detect_changes: an empty tracker takes every file for added; a file that
\* vanished after the walk hashes to nothing and so differs.
DetectChanges(known, files) ==
    IF known = NoHash THEN [NoChange EXCEPT !.added = files]
    ELSE [added   |-> {f \in files : known[f] = 0},
          changed |-> {f \in files : known[f] # 0 /\ disk[f] # known[f]},
          deleted |-> {f \in Files \ files : known[f] # 0}]

\* changes_for_paths: the named files count as changed, without a hash.
ChangesForPaths(known, paths) ==
    [added   |-> {f \in paths \cap Present : known[f] = 0},
     changed |-> {f \in paths \cap Present : known[f] # 0},
     deleted |-> {f \in paths \ Present : known[f] # 0}]

Changes ==
    IF request.mode = "files" THEN ChangesForPaths(Known(hashes), request.paths)
    ELSE DetectChanges(Known(hashes), found)

Relative(files) == {<<f, "rel">> : f \in files}

\* Mutant: paths are compared without resolving them.
InScopeExact(f, files) == f \in files \cap TopLevel

\* path_matches_scope: a path of the repository is a suffix of a node's path.
InScope(f, files) == Suffixes[f] \cap files # {}

\* incoming_callers_files_depth: the files of the callers of the files in
\* scope, named as their nodes name them.  A call within a file is always
\* found; the snapshot may have lost the edge of any other call.
Cascades(files) ==
    LET hit     == {f \in Files : snapshot[f] # {} /\ InScope(f, files)}
        within  == {f \in hit : f \in Callers[f]}
        callers == {g \in Files : snapshot[g] # {} /\ \E f \in hit : g # f /\ g \in Callers[f]}
    IN IF Cascade THEN {within \cup some : some \in SUBSET callers} ELSE {{}}

\* update and update_files, up to the extraction: nothing changed, or
\* expand_extract_paths and the paths to invalidate.
DetectUpdate ==
    /\ request.mode \in {"diff", "files"}
    /\ \/ /\ request.mode = "diff" /\ hashes = Torn
          /\ End("detect", "failed")
       \/ /\ request.mode = "diff" => hashes # Torn
          /\ Changes = NoChange
          /\ End("detect", "current")
       \/ /\ request.mode = "diff" => hashes # Torn
          /\ Changes # NoChange
          /\ Goto("detect", "extract")
          /\ \E callers \in Cascades(Changes.changed \cup Changes.deleted) :
               /\ todo' = Relative(Changes.added \cup Changes.changed) \cup (callers \X {"abs"})
               /\ stale' = todo' \cup Relative(Changes.deleted)
          /\ UNCHANGED <<repoVars, request, found, fresh, built, recorded, outcome, crashes>>
    /\ UNCHANGED <<snapshot, hashes>>

\* discover: the snapshot is reused if it opens; the hashes are then left
\* alone if the analysis is reused too, and otherwise recorded again when the
\* analysis is done.
ReuseSnapshot ==
    \/ /\ snapshot = Torn
       /\ End("detect", "failed")
    \/ /\ snapshot # Torn
       /\ End("detect", "current")
    \/ /\ snapshot # Torn
       /\ Goto("detect", "index")
       /\ UNCHANGED <<repoVars, jobVars, outcome, crashes>>

Discovering(reusable, reuse) ==
    /\ request.mode \in {"discover", "rebuild"}
    /\ IF reusable /\ snapshot # Missing THEN reuse
       ELSE Goto("detect", "rescan") /\ UNCHANGED <<repoVars, jobVars, outcome, crashes>>
    /\ UNCHANGED <<snapshot, hashes>>

\* Mutant: a hash file that cannot be read counts as an unchanged tree.
DetectDiscoverTrusting ==
    Discovering(request.mode = "discover" /\ (Changes = NoChange \/ hashes = Torn), ReuseSnapshot)

\* Mutant: the file of the snapshot is reused without opening it.
DetectDiscoverUnopened ==
    Discovering(request.mode = "discover" /\ Changes = NoChange,
        Goto("detect", "index") /\ UNCHANGED <<repoVars, jobVars, outcome, crashes>>)

\* Mutant: --force does not prevent the reuse.
DetectDiscoverUnforced == Discovering(Changes = NoChange, ReuseSnapshot)

\* discover: without changes the snapshot is reused, unless --force.
DetectDiscover == Discovering(request.mode = "discover" /\ Changes = NoChange, ReuseSnapshot)

-----------------------------------------------------------------------------
\* process_repository_to_snapshot walks the tree again.
Rescan ==
    /\ Goto("rescan", "extract")
    /\ todo' = (Present \cap request.filter) \X {"abs"}
    /\ UNCHANGED <<repoVars, snapshot, hashes, outcome, crashes>>
    /\ UNCHANGED <<request, found, stale, fresh, built, recorded>>

\* A worker reads one file; a file that is gone is skipped.
Extract(entry) ==
    /\ pc = "extract"
    /\ entry \in todo
    /\ todo' = todo \ {entry}
    /\ fresh' = [fresh EXCEPT ![entry[1]] = @ \cup ({disk[entry[1]]} \ {0})]
    /\ UNCHANGED <<repoVars, snapshot, hashes, pc, outcome, crashes>>
    /\ UNCHANGED <<request, found, stale, built, recorded>>

\* Mutant: an entry without a directory matches every path.
InvalidatedByAny(f, entries) ==
    \/ <<f, "abs">> \in entries
    \/ \E q \in TopLevel : <<q, "rel">> \in entries

\* node_matches_invalidated_path: the path of the node, or the last component
\* of it, is one of the entries.
Invalidated(f, entries) ==
    \/ <<f, "abs">> \in entries
    \/ \E q \in TopLevel : <<q, "rel">> \in entries /\ BaseName[q] = BaseName[f]

\* compact_to_path: the nodes of the base that are not invalidated, and the
\* delta.
Compacted == [f \in Files |-> fresh[f] \cup (IF Invalidated(f, stale) THEN {} ELSE snapshot[f])]

\* The new snapshot is written to a temporary file.
Compact ==
    /\ ~Full(request) /\ todo = {}
    /\ Goto("extract", "unlink")
    /\ built' = Compacted
    /\ UNCHANGED <<repoVars, snapshot, hashes, outcome, crashes>>
    /\ UNCHANGED <<request, found, todo, stale, fresh, recorded>>

Unlink ==
    /\ Goto("unlink", "rename")
    /\ snapshot' = Missing
    /\ UNCHANGED <<repoVars, hashes, jobVars, outcome, crashes>>

Rename ==
    /\ Goto("rename", "relate")
    /\ snapshot' = built
    /\ UNCHANGED <<repoVars, hashes, jobVars, outcome, crashes>>

\* rebuild_relations: the snapshot is written again, in place, when the
\* extracted files refer to the rest of the graph.
Relate ==
    /\ \/ Goto("relate", "index") /\ UNCHANGED snapshot
       \/ Goto("relate", "rewrite") /\ snapshot' = Torn
    /\ UNCHANGED <<repoVars, hashes, jobVars, outcome, crashes>>

Rewrite ==
    /\ Goto("rewrite", "index")
    /\ snapshot' = built
    /\ UNCHANGED <<repoVars, hashes, jobVars, outcome, crashes>>

\* write_columnar_from_spill: a full build is written in place.
Truncate ==
    /\ Full(request) /\ todo = {}
    /\ Goto("extract", "write")
    /\ snapshot' = Torn
    /\ built' = fresh
    /\ UNCHANGED <<repoVars, hashes, outcome, crashes>>
    /\ UNCHANGED <<request, found, todo, stale, fresh, recorded>>

Write ==
    /\ Goto("write", IF request.mode = "force" THEN "walk" ELSE "index")
    /\ snapshot' = built
    /\ UNCHANGED <<repoVars, hashes, jobVars, outcome, crashes>>

\* full_rebuild walks the tree a second time for the hashes.
Walk ==
    /\ Goto("walk", "index")
    /\ found' = Present \cap request.filter
    /\ UNCHANGED <<repoVars, snapshot, hashes, outcome, crashes>>
    /\ UNCHANGED <<request, todo, stale, fresh, built, recorded>>

\* index_files hashes what is on disk by now; discover prefers the hash of
\* what it extracted.  Nothing is recorded for a file that was not found.
HashOf(f) ==
    IF f \notin found THEN 0
    ELSE IF request.mode \in {"discover", "rebuild"} /\ fresh[f] # {}
      THEN CHOOSE v \in fresh[f] : TRUE
      ELSE disk[f]

\* A found file that is gone is an error.
Index ==
    \/ /\ \E f \in found : HashOf(f) = 0
       /\ End("index", "failed")
       /\ UNCHANGED <<snapshot, hashes>>
    \/ /\ \A f \in found : HashOf(f) # 0
       /\ Goto("index", "save")
       /\ recorded' = [f \in Files |-> HashOf(f)]
       /\ UNCHANGED <<repoVars, snapshot, hashes, outcome, crashes>>
       /\ UNCHANGED <<request, found, todo, stale, fresh, built>>

\* FileTracker::save writes in place.
SaveTruncate ==
    /\ Goto("save", "finish")
    /\ hashes' = Torn
    /\ UNCHANGED <<repoVars, snapshot, jobVars, outcome, crashes>>

SaveWrite ==
    /\ hashes' = recorded
    /\ End("finish", "updated")
    /\ UNCHANGED snapshot

\* The command is killed, or fails to write.
Crash ==
    /\ crashes < MaxCrashes
    /\ pc # "idle"
    /\ crashes' = crashes + 1
    /\ pc' = "idle"
    /\ outcome' = "crashed"
    /\ found' = {} /\ todo' = {} /\ stale' = {}
    /\ fresh' = Empty /\ built' = Empty /\ recorded' = NoHash
    /\ UNCHANGED <<repoVars, snapshot, hashes, request>>

-----------------------------------------------------------------------------
Step ==
    \/ Open \/ Scan \/ DetectUpdate \/ DetectDiscover \/ Rescan
    \/ \E entry \in Entry : Extract(entry)
    \/ Compact \/ Unlink \/ Rename \/ Relate \/ Rewrite
    \/ Truncate \/ Write \/ Walk
    \/ Index \/ SaveTruncate \/ SaveWrite

Next ==
    \/ \E r \in Requests : Begin(r)
    \/ Step
    \/ \E f \in Files, v \in Content : Edit(f, v)
    \/ Crash

Spec == Init /\ [][Next]_vars

\* A command that runs goes on; the user keeps coming back to
\* `rgctl discover`, whatever else is run in between.
Fairness ==
    /\ WF_vars(Step)
    /\ \A r \in Requests : r.mode \in {"discover", "rebuild"} => SF_vars(Begin(r))

FairSpec == Spec /\ Fairness
-----------------------------------------------------------------------------
Readable == snapshot \notin {Missing, Torn}
Locals == {"idle", "open", "scan", "detect", "rescan", "extract", "unlink", "rename", "relate",
           "rewrite", "write", "walk", "index", "save", "finish"}

TypeOK ==
    /\ disk \in Hashes
    /\ past \in [Files -> SUBSET Content]
    /\ snapshot \in {Missing, Torn} \cup Graph
    /\ hashes \in {Missing, Torn} \cup Hashes
    /\ pc \in Locals
    /\ request \in Requests
    /\ found \in SUBSET Files
    /\ todo \in SUBSET Entry /\ stale \in SUBSET Entry
    /\ fresh \in Graph /\ built \in Graph
    /\ recorded \in Hashes
    /\ outcome \in {"none", "failed", "current", "updated", "crashed"}
    /\ crashes \in 0..MaxCrashes
    /\ pc \in {"scan", "detect", "extract", "unlink", "relate", "index"} /\ ~Full(request) => Readable
    /\ pc \in {"rescan", "write", "walk"} => Full(request)
    /\ todo # {} => pc = "extract"

(* What a full build of the files on disk would put into the snapshot.     *)
Right(f) == {disk[f]} \ {0}
Accurate == snapshot = [f \in Files |-> Right(f)]

(* What `rgctl status` reports as current is indexed: between commands, a  *)
(* file whose recorded hash is the hash of the file on disk has exactly    *)
(* its present symbols in the snapshot.                                    *)
RecordedIsIndexed ==
    pc = "idle" /\ Readable /\ hashes \notin {Missing, Torn} =>
        \A f \in Files : hashes[f] = disk[f] => snapshot[f] = Right(f)

(* An update of whatever changed leaves the snapshot a full discover would *)
(* have built.                                                             *)
UpdateMatchesDiscover ==
    [][SaveWrite /\ request.mode = "diff" /\ request.filter = Files => Accurate']_vars

(* A compaction neither drops nor alters the nodes of a file that is not   *)
(* among the files of the update.                                          *)
CompactKeepsOthers ==
    [][Compact => \A f \in Files : {<<f, "rel">>, <<f, "abs">>} \cap stale = {}
                     => built'[f] = snapshot[f]]_vars

(* A command that reports success leaves a snapshot that opens, and hashes *)
(* that can be read, whatever crash the command before it died of.         *)
SuccessIsUsable ==
    pc = "idle" /\ outcome = "updated" => Readable /\ hashes \notin {Missing, Torn}

(* A full rebuild repairs whatever crashes, concurrent edits and partial   *)
(* updates left: from some moment on, the snapshot is accurate whenever no *)
(* command runs.                                                           *)
Repaired == <>[](pc = "idle" => Accurate)

(* A snapshot whose hash file is missing or torn is reused only when it is *)
(* what a full build would produce.                                        *)
NoFalseReuse ==
    [][DetectDiscover /\ pc' # "rescan" /\ Readable /\ hashes \in {Missing, Torn} => Accurate]_vars

(* Once there is a snapshot, its file is always there for a reader.        *)
NeverMissing == [][Readable => snapshot' # Missing]_vars

(* While an update runs, a reader never sees a partial snapshot.           *)
NeverTorn == [][Readable /\ ~Full(request) => snapshot' # Torn]_vars

=============================================================================
