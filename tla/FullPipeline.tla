---------------------------- MODULE FullPipeline ----------------------------
(***************************************************************************)
(* The artifacts under `.rgctl/` that are derived from the snapshot, and   *)
(* the commands that write them: the staged pipeline of `discover --full`  *)
(* and of `serve` (src/cli/pipeline_session.rs), plain `discover`          *)
(* (src/cli/discover_impl.rs) and the sidecar step of `update`             *)
(* (crates/rgctl-incremental/src/updater.rs).  A stage is skipped when a   *)
(* marker or an artifact on disk carries the digest of the snapshot, so    *)
(* the question is whether what is skipped is of that snapshot.            *)
(*                                                                         *)
(* The sources are a version, and a snapshot is the version it was         *)
(* extracted from and whether the fields of types became nodes of it.      *)
(* The digest of a snapshot is its content, so a digest is modelled by the *)
(* snapshot it is the digest of, and an artifact by the snapshot it was    *)
(* computed from.                                                          *)
(***************************************************************************)
EXTENDS Naturals

CONSTANTS
    None,           \* no such file, or no digest
    MaxVersion,     \* bound: versions of the sources
    MaxCommands,    \* bound: discover commands
    MaxFaults,      \* bound: errors and crashes
    FaultsIn,       \* environment: the steps at which a command may fail or be killed
    Watching        \* environment: updates run next to a pipeline, as under
                    \* `serve --watch`; otherwise commands run one at a time

Version  == 1..MaxVersion
Snapshot == [of: Version, fields: BOOLEAN]
Digest   == Snapshot \cup {None}

Stages == {"basic", "deep", "semantic"}
Steps == {"index", "mark", "analyse", "cfg", "blast", "save", "track",
          "dashboard", "announce", "embed", "label", "store"}

ASSUME BoundsAssumption == {MaxVersion, MaxCommands, MaxFaults} \subseteq Nat /\ MaxVersion > 0
ASSUME NoneAssumption == None \notin Snapshot \cup Version
ASSUME EnvironmentAssumption == FaultsIn \subseteq Steps \cup {"update"} /\ Watching \in BOOLEAN

VARIABLES
    source,         \* version of the source files
    snap,           \* graph.snapshot.bin
    tracker,        \* file_hashes.json: the version it records
    materialized,   \* materialized_fields.digest
    harmonic,       \* analysis/harmonic.digest
    cfg,            \* analysis/cfg_pdg archive
    dash,           \* dashboard/index.html
    blast,          \* the blast engine snapshot and the macro index
    analysis,       \* analysis_results.bin
    semantic,       \* the semantic index: the digest it names and the graph it holds
    status,         \* pipeline_status.json
    lock,           \* pipeline.lock exists
    pc,             \* where the running discover or pipeline stands
    job,            \* its locals
    upd,            \* where the running update stands
    commands,       \* discover commands so far
    faults

disk == <<snap, tracker, materialized, harmonic, cfg, dash, blast, analysis, semantic>>
vars == <<source, disk, status, lock, pc, job, upd, commands, faults>>

DefaultStatus ==
    [digest |-> None, done |-> FALSE, plan |-> [s \in Stages |-> "pending"]]

NoJob == [full |-> FALSE, stage |-> "basic", force |-> FALSE, reused |-> FALSE,
          reuse |-> FALSE, digest |-> None, graph |-> None]

Init ==
    /\ source = 1
    /\ snap = None /\ tracker = None /\ materialized = None /\ harmonic = None
    /\ cfg = None /\ dash = None /\ blast = None /\ analysis = None /\ semantic = None
    /\ status = DefaultStatus
    /\ lock = FALSE
    /\ pc = "idle" /\ job = NoJob /\ upd = "idle"
    /\ commands = 0 /\ faults = 0

-----------------------------------------------------------------------------
\* The sources change; never while a command reads them, see IncrementalUpdate.
Edit ==
    /\ pc = "idle" /\ upd = "idle"
    /\ source < MaxVersion
    /\ source' = source + 1
    /\ UNCHANGED <<disk, status, lock, pc, job, upd, commands, faults>>

CanBegin ==
    /\ pc = "idle"
    /\ upd = "idle" \/ Watching
    /\ commands < MaxCommands

\* `discover` without --full: the analysis alone, with no lock and no status.
BeginDiscover ==
    /\ CanBegin
    /\ pc' = "index" /\ job' = NoJob
    /\ commands' = commands + 1
    /\ UNCHANGED <<source, disk, status, lock, upd, faults>>

\* `discover --full`, or the pipeline thread of `serve`.
BeginFull ==
    /\ CanBegin
    /\ ~lock
    /\ lock' = TRUE
    /\ status' = DefaultStatus
    /\ pc' = "basic" /\ job' = [NoJob EXCEPT !.full = TRUE]
    /\ commands' = commands + 1
    /\ UNCHANGED <<source, disk, upd, faults>>

\* Somebody deletes the lock file of a pipeline that was killed: no command does.
RemoveLock ==
    /\ lock /\ pc = "idle"
    /\ lock' = FALSE
    /\ UNCHANGED <<source, disk, status, pc, job, upd, commands, faults>>

SetStage(s, to) == status' = [status EXCEPT !.plan[s] = to]

SourcesUnchanged == tracker = source

SkipBasic == snap # None /\ materialized = snap /\ SourcesUnchanged

\* Mutant: the digest the harmonic marker carries is not compared.
SkipDeepOnFiles == snap # None /\ dash # None /\ cfg # None /\ harmonic # None

SkipDeep == snap # None /\ dash # None /\ cfg # None /\ harmonic = snap

\* Mutant: any semantic index will do.
SkipSemanticIfAny == snap # None /\ semantic # None

SkipSemantic == snap # None /\ semantic # None /\ semantic.digest = snap

CanFault == pc \in FaultsIn /\ faults < MaxFaults /\ faults' = faults + 1

\* A write whose failure is only a warning: the run goes on with the file it
\* found.
Attempt(ok) == IF ok THEN UNCHANGED faults ELSE CanFault

Keep == UNCHANGED <<source, upd, commands, faults>>
Goto(from, to) == pc = from /\ pc' = to

Begins(s) == job' = [NoJob EXCEPT !.full = TRUE, !.stage = s,
                                  !.force = (s = "basic" /\ materialized = None)]

CheckBasic ==
    /\ pc = "basic"
    /\ IF SkipBasic
         THEN pc' = "deep" /\ SetStage("basic", "skipped") /\ UNCHANGED job
         ELSE pc' = "index" /\ SetStage("basic", "running") /\ Begins("basic")
    /\ Keep /\ UNCHANGED <<disk, lock>>

CheckDeep ==
    /\ pc = "deep"
    /\ IF SkipDeep
         THEN pc' = "semantic" /\ SetStage("deep", "skipped") /\ UNCHANGED job
         ELSE pc' = "index" /\ SetStage("deep", "running") /\ Begins("deep")
    /\ Keep /\ UNCHANGED <<disk, lock>>

CheckSemantic ==
    /\ pc = "semantic"
    /\ IF SkipSemantic
         THEN pc' = "finish" /\ SetStage("semantic", "skipped") /\ UNCHANGED job
         ELSE pc' = "embed" /\ SetStage("semantic", "running") /\ Begins("semantic")
    /\ Keep /\ UNCHANGED <<disk, lock>>

-----------------------------------------------------------------------------
(* run_full_analysis, one write at a time.                                 *)

Deep == job.stage = "deep"

ReuseSnapshot == ~job.force /\ SourcesUnchanged /\ snap # None

\* The snapshot is reused, or the sources are extracted into a new one.
Index ==
    /\ Goto("index", "mark")
    /\ snap' = IF ReuseSnapshot THEN snap ELSE [of |-> source, fields |-> job.full]
    /\ job' = [job EXCEPT !.reused = ReuseSnapshot, !.digest = snap', !.graph = snap']
    /\ Keep
    /\ UNCHANGED <<tracker, materialized, harmonic, cfg, dash, blast, analysis, semantic, status, lock>>

\* The marker is written whenever fields were asked for, by a run that reused
\* the snapshot as well.  The analyses then read the snapshot from disk.
Mark ==
    /\ Goto("mark", "analyse")
    /\ materialized' = IF job.full THEN job.digest ELSE materialized
    /\ job' = [job EXCEPT !.graph = IF job.reused THEN @ ELSE snap]
    /\ Keep
    /\ UNCHANGED <<snap, tracker, harmonic, cfg, dash, blast, analysis, semantic, status, lock>>

\* Mutant: stage 1 analytics are reused whatever graph they are of.
ReuseIfPresent == Deep /\ job.reused /\ analysis # None /\ blast # None /\ tracker # None

ReuseAnalysis ==
    /\ Deep /\ job.reused
    /\ analysis # None
    /\ blast # None /\ blast = job.digest
    /\ tracker # None

\* Metrics, communities and centrality; the deep stage includes harmonic
\* centrality and says so in its marker at once.
Analyse ==
    /\ Goto("analyse", IF Deep THEN "cfg" ELSE "blast")
    /\ job' = [job EXCEPT !.reuse = ReuseAnalysis]
    /\ harmonic' = IF Deep THEN job.digest ELSE harmonic
    /\ Keep
    /\ UNCHANGED <<snap, tracker, materialized, cfg, dash, blast, analysis, semantic, status, lock>>

WriteCfg ==
    /\ Goto("cfg", IF job.reuse THEN "save" ELSE "blast")
    /\ \E ok \in BOOLEAN : Attempt(ok) /\ cfg' = IF ok THEN job.graph ELSE cfg
    /\ UNCHANGED <<source, upd, commands>>
    /\ UNCHANGED <<snap, tracker, materialized, harmonic, dash, blast, analysis, semantic, status, lock, job>>

WriteBlast ==
    /\ Goto("blast", "save")
    /\ \E ok \in BOOLEAN : Attempt(ok) /\ blast' = IF ok THEN job.digest ELSE blast
    /\ UNCHANGED <<source, upd, commands>>
    /\ UNCHANGED <<snap, tracker, materialized, harmonic, cfg, dash, analysis, semantic, status, lock, job>>

SaveAnalysis ==
    /\ Goto("save", "track")
    /\ analysis' = IF job.reuse THEN analysis ELSE job.graph
    /\ Keep
    /\ UNCHANGED <<snap, tracker, materialized, harmonic, cfg, dash, blast, semantic, status, lock, job>>

\* The hashes are those the extraction read, or are read now if it was skipped.
SaveTracker ==
    /\ Goto("track", IF Deep THEN "dashboard" ELSE "announce")
    /\ tracker' = IF job.reuse THEN tracker
                  ELSE IF job.reused THEN source ELSE job.digest.of
    /\ Keep
    /\ UNCHANGED <<snap, materialized, harmonic, cfg, dash, blast, analysis, semantic, status, lock, job>>

\* The bundle is exported from the snapshot that is on disk by now.
ExportDashboard ==
    /\ Goto("dashboard", "announce")
    /\ \E ok \in BOOLEAN : Attempt(ok) /\ dash' = IF ok THEN snap ELSE dash
    /\ UNCHANGED <<source, upd, commands>>
    /\ UNCHANGED <<snap, tracker, materialized, harmonic, cfg, blast, analysis, semantic, status, lock, job>>

\* The stage is complete, and its digest goes into the status document.
Announce ==
    /\ pc = "announce"
    /\ pc' = IF ~job.full THEN "idle" ELSE IF Deep THEN "semantic" ELSE "deep"
    /\ status' = IF job.full
                   THEN [status EXCEPT !.plan[job.stage] = "complete", !.digest = job.digest]
                   ELSE status
    /\ Keep /\ UNCHANGED <<disk, lock, job>>

-----------------------------------------------------------------------------
(* The semantic stage: it loads the graph, then asks for the digest.       *)

Embed ==
    /\ Goto("embed", "label")
    /\ job' = [job EXCEPT !.graph = snap]
    /\ Keep /\ UNCHANGED <<disk, status, lock>>

Label ==
    /\ Goto("label", "store")
    /\ job' = [job EXCEPT !.digest = snap]
    /\ Keep /\ UNCHANGED <<disk, status, lock>>

StoreIndex ==
    /\ Goto("store", "finish")
    /\ semantic' = [digest |-> job.digest, graph |-> job.graph]
    /\ SetStage("semantic", "complete")
    /\ Keep
    /\ UNCHANGED <<snap, tracker, materialized, harmonic, cfg, dash, blast, analysis, lock, job>>

\* The pipeline is complete, and its lock is dropped.
Finish ==
    /\ Goto("finish", "idle")
    /\ status' = [status EXCEPT !.done = TRUE]
    /\ lock' = FALSE /\ job' = NoJob
    /\ Keep /\ UNCHANGED disk

-----------------------------------------------------------------------------
\* A step returns an error: the stage has failed, and the lock is dropped.
Fail ==
    /\ CanFault
    /\ pc' = "idle" /\ job' = NoJob
    /\ status' = IF job.full THEN [status EXCEPT !.plan[job.stage] = "failed"] ELSE status
    /\ lock' = IF job.full THEN FALSE ELSE lock
    /\ UNCHANGED <<source, disk, upd, commands>>

\* The process is killed: its lock file and its status stay.
Crash ==
    /\ CanFault
    /\ pc' = "idle" /\ job' = NoJob
    /\ UNCHANGED <<source, disk, status, lock, upd, commands>>

-----------------------------------------------------------------------------
(* `rgctl update`, or the watcher: fields do not become nodes, and what    *)
(* was derived from the old snapshot is removed once the new one is there. *)

UpdateSnapshot ==
    /\ upd = "idle"
    /\ pc = "idle" \/ Watching
    /\ snap # None /\ ~SourcesUnchanged
    /\ snap' = [of |-> source, fields |-> FALSE]
    /\ upd' = "sidecars"
    /\ UNCHANGED <<source, tracker, materialized, harmonic, cfg, dash, blast, analysis, semantic>>
    /\ UNCHANGED <<status, lock, pc, job, commands, faults>>

DropSidecars ==
    /\ upd = "sidecars" /\ upd' = "tracker"
    /\ cfg' = None /\ analysis' = None /\ blast' = None /\ semantic' = None
    /\ UNCHANGED <<source, snap, tracker, materialized, harmonic, dash>>
    /\ UNCHANGED <<status, lock, pc, job, commands, faults>>

UpdateTracker ==
    /\ upd = "tracker" /\ upd' = "idle"
    /\ tracker' = source
    /\ UNCHANGED <<source, snap, materialized, harmonic, cfg, dash, blast, analysis, semantic>>
    /\ UNCHANGED <<status, lock, pc, job, commands, faults>>

UpdateCrash ==
    /\ upd # "idle" /\ upd' = "idle"
    /\ "update" \in FaultsIn /\ faults < MaxFaults /\ faults' = faults + 1
    /\ UNCHANGED <<source, disk, status, lock, pc, job, commands>>

-----------------------------------------------------------------------------
Check == CheckBasic \/ CheckDeep \/ CheckSemantic

Run ==
    \/ Check
    \/ Index \/ Mark \/ Analyse \/ WriteCfg \/ WriteBlast \/ SaveAnalysis \/ SaveTracker
    \/ ExportDashboard \/ Announce
    \/ Embed \/ Label \/ StoreIndex \/ Finish

Update == UpdateSnapshot \/ DropSidecars \/ UpdateTracker \/ UpdateCrash

Next == Edit \/ BeginDiscover \/ BeginFull \/ RemoveLock \/ Run \/ Fail \/ Crash \/ Update

Spec == Init /\ [][Next]_vars

-----------------------------------------------------------------------------
TypeOK ==
    /\ source \in Version
    /\ tracker \in Version \cup {None}
    /\ {snap, materialized, harmonic, cfg, dash, blast, analysis} \subseteq Digest
    /\ semantic = None \/ semantic \in [digest: Digest, graph: Digest]
    /\ status \in [digest: Digest, done: BOOLEAN,
                   plan: [Stages -> {"pending", "running", "complete", "failed", "skipped"}]]
    /\ lock \in BOOLEAN
    /\ pc \in Steps \cup {"idle", "basic", "deep", "semantic", "finish"}
    /\ job \in [full: BOOLEAN, stage: Stages, force: BOOLEAN, reused: BOOLEAN,
                reuse: BOOLEAN, digest: Digest, graph: Digest]
    /\ upd \in {"idle", "sidecars", "tracker"}
    /\ commands \in 0..MaxCommands /\ faults \in 0..MaxFaults

\* When a pipeline completes, the snapshot is of the sources, and the dashboard,
\* the CFG archive, the analyses and the semantic index are of the snapshot:
\* whatever stages it skipped, and whatever ran, failed, was killed or was
\* removed before it.
CompleteIsFresh ==
    [][status'.done /\ ~status.done
            => /\ snap # None /\ snap.of = source
               /\ dash = snap /\ cfg = snap /\ analysis = snap
               /\ semantic.graph = snap]_vars

\* A stage is skipped only if what it would write is there and is of the
\* snapshot on disk ("A second `--full` on unchanged sources skips fresh
\* stages", docs/user-guide.md:246).
SkippedIsFresh ==
    [][/\ status'.plan.basic = "skipped" /\ status.plan.basic # "skipped"
            => snap.of = source
       /\ status'.plan.deep = "skipped" /\ status.plan.deep # "skipped"
            => dash = snap /\ cfg = snap
       /\ status'.plan.semantic = "skipped" /\ status.plan.semantic # "skipped"
            => semantic.graph = snap]_vars

\* An analysis that the deep stage takes over from the basic one is of the
\* graph the deep stage looks at.
ReusedIsCurrent == job.reuse /\ pc \in {"cfg", "save"} => analysis = job.graph

\* The marker says that the snapshot it names was indexed with its fields
\* ("Marker: snapshot was indexed with field materialization.",
\* crates/rgctl-service/src/status.rs:22).
MarkerIsTrue == materialized # None => materialized.fields

=============================================================================
