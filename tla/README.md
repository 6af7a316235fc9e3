# rgctl: specifications, model checks and proofs

`rgctl` builds a graph of a code base (files, functions, calls, control flow) and keeps it under
`.rgctl/` in the repository: `discover` builds it, `update` and the watcher keep it current, a
staged pipeline derives analyses from it, everything else reads it. This directory holds TLA+
specifications of the part of rgctl that writes shared state and of the control-flow analysis at
its core, the TLC configurations that check them on small instances, and proofs of the theorems
that matter most for every instance, checked by TLAPS.

Paths in this file are relative to the repository; in `PROJECT.json` they start with `src/`, so
the command line of the root crate is `src/src/cli/...` there.

## Contents

1. [The system](#1-the-system): components, state, interactions, what is hard
2. [The modules and the code](#2-the-modules-and-the-code)
3. [What each run checks](#3-what-each-run-checks)
4. [What is proved](#4-what-is-proved)
5. [Where the code and its comments disagree](#5-where-the-code-and-its-comments-disagree)
6. [What is left out](#6-what-is-left-out)
7. [What would come next](#7-what-would-come-next)
8. [Running it](#8-running-it)

## 1. The system

### What is on disk

| file under `.rgctl/` | written by | read by |
| --- | --- | --- |
| `graph.snapshot.bin` | `discover`, `update`, the watcher | every query, `serve`, `update` |
| `file_hashes.json` | `discover`, `update`, the watcher | `discover` (reuse?), `update`, `status` |
| `watch.lock` | `serve --watch`, `update` | `update`, `status` |
| `update_queue.jsonl`, `update_queue.processing.jsonl` | `update` when it finds a watcher; the watcher | the watcher |
| `update_results/<id>.json` | the watcher | the waiting `update` |
| `pipeline.lock`, `pipeline_status.json` | the background pipeline of `serve` | `serve`, `status` |
| `cache/facts.bin` | the end of an extraction | the extraction workers of the next |
| `materialized_fields.digest`, `analysis/harmonic.digest` | the pipeline: what was done to the snapshot of this digest | the pipeline: what may be skipped |
| CFG archive, blast snapshot, `analysis_results.bin`, semantic index, dashboard | `discover`, the pipeline; `update` removes some | queries, `serve`, the pipeline |

### Components

**Writer lock** (`crates/rgctl-service/src/status.rs`). *State*: the file `watch.lock`, with the pid
of its creator. *Operations*: acquire (create exclusively, then write the pid; if the file is
there, read it, ask the operating system whether the pid lives, unlink, try once more), detect
(read, ask, unlink if dead), release (unlink). *Hard*: every acquisition is several system calls;
processes die between them; pids are reused; the path that is unlinked may no longer be the file
that was judged. *Correct when*: one process at a time writes the graph; a lock left by a crash is
reclaimed; nobody leaves a file behind.

**Update queue** (`crates/rgctl-service/src/update_queue.rs`). *State*: the two queue files and the
result files. *Operations*: enqueue (check the limits, open for appending, write a line), drain
(rename, read, remove), write, await and prune results. *Hard*: clients append to a file that the
watcher renames and removes; the watcher dies between these steps; clients time out and are
interrupted. *Correct when*: no request is applied twice or told another's verdict; a request that
was accepted is answered; an answer `ok` means that the graph is current.

**File watcher** (`src/cli/file_watch.rs`). *State*: the channel of filesystem events, the pending
paths, the debounce deadline. *Operations*: receive, wake, apply a cycle, absorb. *Hard*: events
arrive while an update reads files; filesystem events and queued requests are coalesced into one
change set. *Correct when*: the graph converges to the files once edits stop.

**Update command** (`src/cli/update.rs`). Chooses between queueing and updating in process, applies
a batch for the watcher. *Correct when*: it queues for a process that drains the queue, and updates
only while no watcher does.

**Incremental updater** (`crates/rgctl-incremental`) with the **graph compactor**
(`crates/rgctl-graph/src/graph_compactor.rs`). *State*: the snapshot and the hash file.
*Operations*: find what changed, add the callers of the changed files, extract, drop the old nodes
and edges and add the new ones, relate the new files to the rest, hash every file, save the hashes.
*Hard*: two files are replaced, in order, without a transaction; each file is read twice, once to
be extracted and once to be hashed; a long sequence of updates must give what one full build gives.
*Correct when*: what the hash file calls current is what the snapshot holds.

**Discover** and **processing pipeline** (`src/cli/discover_impl.rs`, `crates/rgctl-pipeline`).
*State*: the same two files and the analysis artifacts; the worker threads, a bounded channel and
the thread that merges. *Operations*: reuse the snapshot if nothing changed, or walk, extract in
parallel, merge what arrives, add the relations in the order of the paths, write; then analyse and
write the artifacts one after the other. *Hard*: results arrive in any order, workers wait for room
in the channel, files change under them; the process dies between two artifacts. *Correct when*: a
snapshot is reused only if a rebuild would give the same, every file is merged or reported once,
and the graph does not depend on the scheduling.

**Extraction** (`crates/rgctl-extraction`). Parses one file, resolves calls within the file, by type
or by a unique name, and builds nodes and edges. With a **facts cache** keyed by content hash,
which the workers share and which outlives the command. *Correct when*: what the cache gives is what
an extraction would have given.

**Serve and background pipeline** (`src/cli/http_serve.rs`, `pipeline_session.rs`,
`pipeline_status.rs`). *State*: the plan of the pipeline in its status document, `pipeline.lock`,
the artifacts and the digests they carry, and an open graph with the digest it was reloaded for.
*Operations*: check a stage and skip it or run it; fail; reload. *Hard*: a stage is skipped because
of markers that other commands write, or wrote before they died; the snapshot is replaced under a
server. *Correct when*: a completed pipeline leaves every artifact of the snapshot and the snapshot
of the sources, and a server comes to answer from what was announced.

**Analysis** (`crates/rgctl-analysis`): the control-flow graph of every function
(`cfg_builder.rs`), its clean-up (`cfg.rs`), dominators, frontiers and post-dominators
(`dominance.rs`), control dependence (`pdg.rs`) and what is built on them. *State*: a builder with a
current block and stacks of loops, handlers, finally bodies and deferred calls. *Hard*: jumps that
leave several constructs at once; fixpoint passes in the order of hash maps. *Correct when*: whatever
a function does is a path of its graph, and dominance is what its definition says.

**Session** (`src/lib.rs`). The library's handle on a repository: it checks the digest of the
snapshot and then opens it, in two steps.

**Memory backend** (`crates/rgctl-graph/src/backend/memory.rs`). *State*: nodes, edges, several
indexes over them and caches. *Correct when*: the indexes agree after every insert, removal, prune.

**GQL, Kantra rules, security, dashboard, export, semantic search, migration.** Read-only
computations over one loaded graph. **Language plugins** (about sixty crates): grammars and queries,
without state. `PROJECT.json` lists every component with its status.

### How they interact

```
 editor --files--> filesystem --events--> watcher --+
                                                     |  one update cycle
 rgctl update --detect--> watch.lock                 v
    |  live watcher: line in update_queue.jsonl --> drain --> incremental updater --> snapshot
    |  none: acquire watch.lock --------------------------->      |     |               ^
    ^                                                             |     +--> hashes     |
    +------------- update_results/<id>.json <---------------------+                 discover
                                                                                        |
 discover --full, serve --pipeline.lock--> basic -> deep -> semantic <--- artifacts ----+
                                              |
                          pipeline_status.json (digest) --> server reloads the snapshot
```

All of this is between processes: the only mutual exclusion is `watch.lock` among updates and
`pipeline.lock` among pipelines, and all communication is through files. This is why the system
calls on those files are the steps of the specifications. Within a process, the only concurrency is
that of the extraction workers and, in `serve`, of the pipeline and the loop that reloads.

### What is hard to test here

`PROJECT.json` lists the hazards at the lines where they bite, with the properties that are about
each: the interleaving of two acquisitions and of a client's append with the watcher's drain;
crashes between any two writes; hashes that are stale, torn, missing or ahead of the graph; files
edited between two reads; sequences of updates, each legal, that lead to a graph no full build
gives; stages skipped because of what a dead command left behind; workers, a full channel and a
shared cache; and function bodies whose jumps leave several constructs at once. The properties
below are chosen for these.

## 2. The modules and the code

| module | what it is |
| --- | --- |
| `WatchLock` | the writer lock and the commands around it |
| `UpdateRequests` | what the update queue promises its clients (abstract) |
| `UpdateQueue` | the queue, its clients, the watcher; implements `UpdateRequests` |
| `IncrementalUpdate` | the snapshot and the hash file under `update` and `discover`, step by step |
| `CallGraph` | nodes and call edges over sequences of updates |
| `FileIndexing` | what an indexing of all files promises (abstract) |
| `ExtractionStream` | workers, channel, merge, facts cache and recorded hashes; implements `FileIndexing` |
| `FullPipeline` | the artifacts derived from the snapshot and the commands that write, reuse and remove them |
| `Serving` | a server that reloads, composed with `FullPipeline` |
| `Execution` | how a function runs: the specification of its control-flow graph |
| `ControlFlow` | the builder of control-flow graphs and their clean-up |
| `Dominance` | dominators, frontiers and post-dominators, pass by pass |
| `FunctionAnalysis` | the three composed: a function, its graph, its analysis and its run |
| `MC...` | finite instances for TLC |
| `...Proofs` | theorems and proofs |

Definitions named in a comment as *Mutant* are wrong on purpose: each is a plausible bug of the
definition that follows it, and shows that a property notices it. No specification uses them.

### WatchLock

A process is one run of a command: `serve --watch` (`Watchers`), `update` (`Updaters`), `status`
(`Inspectors`), `watch` (`Foreground`). It stands for its pid. `lock` is the file, with its creator
(which inode it is) and its pid; `seen` is the pid a process has read; `alive` is what
`process_alive` answers.

| action | code in `status.rs` |
| --- | --- |
| `DetectRead`, `DetectLive`, `DetectDead`, `DetectUnlink` | `detect_live_watcher` |
| `Create`, `WritePid`, `CreateExists`, `RetryExists` | `try_create_watch_lock`, `try_acquire_watch_lock` |
| `ReclaimRead`, `ReclaimLive`, `ReclaimDead`, `ReclaimUnlink` | `reclaim_stale_watch_lock_at` |
| `Release` | `Drop for WatchLock` |
| `Start`, `StopWatch` | the commands in `update.rs`, `http_serve.rs`, `file_watch.rs`, `session_status.rs` |
| `Crash`, `ReusePid` | a kill at any step; the operating system reuses a pid |

`Serial` says that no two commands are between their start and their outcome (they may well be
*running* at once). Properties of the form `[]Serial => ...` separate what the lock guarantees to
users who do not start two commands in the same instant from what it guarantees to everybody.

### UpdateRequests and UpdateQueue

`UpdateRequests` says: a request is served at most once, together with the requests it was coalesced
with and with the same verdict; it may be lost; a client is told the verdict of its own request.

`UpdateQueue` has the two queue files, each as the set of clients whose lines it holds; the file
handle of each client (`handle`: the file at the queue path, the one at the processing path, or one
that is unlinked); the watcher's program counter, `events` (the channel), `pending`, `batch`,
`targets`; and the repository as version numbers: `disk`, `graph` (what the snapshot describes),
`tracker` (what `file_hashes.json` records). `wanted` and `served` are history variables.

| action | code |
| --- | --- |
| `Submit`, `CountLines`, `Open`, `Append` | `enqueue` and `run_queued` (`update_queue.rs`, `update.rs`) |
| `ReadResult`, `Timeout`, `Interrupt` | `wait_for_result`; a user's Ctrl-C |
| `Receive`, `Wake`, `Absorb` | `watch_loop` (`file_watch.rs`) |
| `Drain`, `ReadBatch`, `Remove`, `RemoveFails` | `drain_queue` |
| `Gather` (`Work`), `Extract`, `AlreadyCurrent`, `Index`, `ApplyFails` | `apply_cycle`, `apply_queue_batch` |
| `WriteResult`, `WriteFails`, `ResultsWritten` | the loop over `write_result` |
| `Crash`, `Restart` | a kill; a new watcher, with `prune_stale_results` |

`RemovalFails` is an environment constant: whether the removal of the drained file may fail, which
the code ignores (`let _ = fs::remove_file(&processing);`, `update_queue.rs:341`).
The update itself is two steps here, extraction and hashing; `IncrementalUpdate` has the rest.

### IncrementalUpdate

A source file is its version (0: no file). All versions of a file define one common symbol and each
one of its own, so the nodes a snapshot holds for a file are a set of versions: `{v}` is right,
`{v, w}` a mixture. `snapshot` and `hashes` may also be `Missing` or `Torn`. An entry of an update
is a file and a *form*, relative or absolute: change sets carry relative paths, nodes carry absolute
ones and the cascade reads paths from nodes, and which of them match depends on the form
(`columnar_snapshot.rs: node_matches_invalidated_path`).

| action | code |
| --- | --- |
| `Begin`, `Open` | `run_update_at`, `discover` |
| `Scan`, `DetectUpdate`, `DetectDiscover` | the walk; `detect_changes`, `changes_for_paths`, `expand_extract_paths`; the reuse in `discover_impl.rs` |
| `Rescan`, `Extract` | the walk and the reading of files in `rgctl-pipeline` and `updater.rs` |
| `Compact`, `Unlink`, `Rename` | `compact_to_path` |
| `Relate`, `Rewrite` | `rebuild_relations` and the rewrite of the snapshot |
| `Truncate`, `Write`, `Walk` | `write_columnar_from_spill`, `full_rebuild` |
| `Index`, `SaveTruncate`, `SaveWrite` | `FileTracker::index_files`, `save` |
| `Edit`, `Crash` | the user; a kill or a failed write at any step |

Environment constants: `QuietUpdates` (no file changes while a command runs), `Reverts` (a file may
become what it was), `Optional` (which files may be absent). `Suffixes` says
which paths the path of a file ends with, character by character: this is what decides what is in
scope for the cascade, so that the path of `ba.rs` ends with that of `a.rs`. `Requests` is the set of commands that
are run; a `filter` smaller than `Files` stands for `--languages`. Call edges are not modelled here:
which callers the cascade finds is an arbitrary subset of those there are (`Cascades`), except that
a call within a file is always found, because the edge comes and goes with its file.

### CallGraph

Here a command is one step and the edges are concrete. A file defines functions, each with the names
it calls. `Extracted` is the resolution of calls among the files extracted together
(`graph_builder.rs`); `Delta` the cascade to a depth (`cascade.rs`); `Kept`, `Alive`, `KeptCalls` the
compactor's rules (`graph_compactor.rs:92-210`); `Rebuilt` the relations of the new files
(`updater.rs: rebuild_relations`), which takes *some* function of a name: the code takes the first
in the order of a hash map, so the model lets it be any. `DistinctNames` is an environment constant:
no name is defined in two files when a command runs.

Together the two modules show the update from both sides: what it does to files and hashes, with
crashes and concurrent edits; and what it does to the graph.

### FileIndexing and ExtractionStream

`FileIndexing` says: every discovered file is merged or reported as failed, once, and the graph is
published when no file is left; an indexing may be given up at any time.

`ExtractionStream` has the files (`source`), the threads (`worker`), the bounded `channel`, the cache
in memory and on disk (`cache`, `saved`), what was merged (`tails`, `merged`, `hashes`, `failures`)
and what a command leaves (`graph`, `recorded`). Paths are numbers in their sorting order. The facts
of a file are what its extraction depends on: the content, the stem of the name, the directory that
relative links start from, the path in the locations. The hash of the bytes read travels beside the
facts, and is what is recorded. Facts of a content in `Empty`, without a symbol or relation, are
reused whatever the stem (`extractor.rs:138`).

| action | code |
| --- | --- |
| `Begin`, `StartExtraction` | the two listings, in `discover_impl.rs` and in `rgctl-pipeline`; loading the cache |
| `Read`, `ReadFails`, `Hit`, `Miss`, `Parse` | `Extractor::extract_file_with_source`, `FactsCache` |
| `Send`, `Receive`, `WriteGraph` | `stream_into_graph` (`stream.rs`), `populate_pass2` |
| `SaveFacts`, `Track` | `FactsCache::save`, `FileTracker::index_files_with_mapping` |
| `Edit`, `Kill` | a user; a kill or a panic (the release profile aborts) |

### FullPipeline and Serving

The sources are a version; a snapshot is the version it was extracted from and whether fields became
nodes; an artifact is the snapshot it was computed from, and a digest stands for the snapshot it is
the digest of. `pc` is the step a `discover` or a pipeline has reached, `job` its locals (`reused`:
the snapshot was not rebuilt; `reuse`: the analyses are taken over), `upd` that of an update.

| action | code |
| --- | --- |
| `BeginFull`, `CheckBasic`, `CheckDeep`, `CheckSemantic`, `Finish` | `run_full_pipeline` and the skip conditions (`pipeline_session.rs`) |
| `BeginDiscover`, `Index`, `Mark`, `Analyse`, `WriteCfg`, `WriteBlast`, `SaveAnalysis`, `SaveTracker`, `ExportDashboard`, `Announce` | `run_full_analysis` (`discover_impl.rs`), one write at a time |
| `Embed`, `Label`, `StoreIndex` | `semantic.rs` |
| `Fail`, `Crash` | an error, with `PipelineLock`'s drop and the failed stage; a kill |
| `UpdateSnapshot`, `DropSidecars`, `UpdateTracker`, `UpdateCrash` | `updater.rs`: the snapshot, the removal of artifacts, the hashes |
| `Start`, `Stop`, `Poll`, `Reload` (`Serving`) | `http_serve.rs: pipeline_watch_loop` |

The writes of the CFG archive, of the blast snapshot and of the dashboard may fail with no more than
a warning (`Attempt`): the run goes on with the file it found. A file such a write would leave half
written is not modelled.

Environment: `Watching` (updates next to a pipeline), `FaultsIn` (the steps at which a command, or
one of those writes, may fail or die). No source changes while a command reads it (that is the
subject of `IncrementalUpdate` and `ExtractionStream`) and none reverts. `RemoveLock` is a person: a killed
pipeline leaves `pipeline.lock`, which no command takes over (`status.rs:111-128`).

### Execution, ControlFlow, Dominance, FunctionAnalysis

A function body is a tree of statements with labels, the lines the graph refers to. `Execution` is
the semantics of the languages that are analysed, and so not code of this repository: a stack of
frames, a `mode` that is `"run"` or the jump in progress, the label `aim` it looks for, and `said`,
the label of the statement or test a step executed. Values are left out: a condition that is not
constant may go either way each time, and any statement in a `try` with handlers may throw.

`ControlFlow` is `CfgBuilder` as a value passed from visit to visit, one operator per `visit_*`
function, and then `prune_unreachable_blocks` and `contract_empty_blocks`, the latter with every
order the hash map may give. Modelled: simple statements, return, throw, break and continue with and
without a label, `fallthrough`, `if`/`else if`, `while`, `do`, `loop`, `for` with its parts,
the four kinds of for-each, `match`, `switch` with and without falling through, `try` with resources,
handlers, filters of handlers and finally, `using`, `defer`, labelled statements, and conditions with
`&&`, `||` and constants. In `Execution` a resource puts what follows it in a try whose finally closes
it, and a filter that does not hold passes the exception on to the next handler.

`Dominance` has one action per iteration of the loops in `dominance.rs`: the depth-first search
that numbers the blocks (`Descend`, `Ascend`), the passes over the numbers (`TakePred`, `SetIdom`,
`NextPass`) with every step of a meet up the tree (`Climb`), the runners of the frontiers
(`VisitJoin`, `StartRunner`, `RunUp`) and the passes of the post-dominators, which take the blocks
in any order. What dominators, frontiers and post-dominators are by definition is stated next to
it, by sets of blocks that are closed under the edges. `FunctionAnalysis` puts the three together: `Init` chooses a function and one of its graphs, the analysis runs to its end, then
the function runs while `seen` follows what it says in the graph. `seen` is the set of positions
(block, statements done) where an observer who knows only the labels may be.

## 3. What each run checks

### Passing runs

| run | instance | checks | shows |
| --- | --- | --- | --- |
| `watchlock_commands` | two watchers, an update and a foreground watcher, started at any time, killed anywhere | `TypeOK`, `NoOrphanLock`, `SerialExclusion`, `StaleLockIsReclaimed`, `StartedIsDecided` | a lock file belongs to a process that uses it or was killed; no command retries for ever; as long as commands do not start in the same instant, the lock excludes, the file is the holder's, and the lock of a dead process is reclaimed unless its pid now belongs to another program |
| `queue_once` | three clients, one of each mode, one with `--no-wait`; two crashes or failures, interrupts; queue of 2 | `TypeOK`, `AtMostOnce`, `OnePlace`, `AbstractSpec` | no request is applied twice, verdicts do not mix, the queue implements `UpdateRequests` |
| `queue_served` | two clients that name files, two files; a crash or a failure, which may be of the removal of the drained file; fair | `OkMeansFresh`, `Converges`, `LandedIsAnswered` | who is told ok reads its files as they were when it asked, or newer, also when requests are applied again; while the watcher stays up, the graph catches up and a request that landed is answered |
| `index_quiet` | a file in the root and one in a directory that calls within itself, the path of one a suffix of the other's, deleted and reverted at will | `CompactKeepsOthers`, `UpdateMatchesDiscover` | an update gives what a full discover gives; other files' nodes are untouched |
| `index_crash` | three versions, two crashes at any step, updates of one language, the other's file calling within itself | `RecordedIsIndexed`, `SuccessIsUsable`, `NoFalseReuse` | nothing is called current or reused that is not, whatever died before |
| `index_repair` | edits during commands, an update of one named file whose path is a suffix of the other's, a crash; fair | `Repaired` | full rebuilds that keep coming repair the snapshot |
| `graph_distinct` | three files, functions that move between them, none defined twice, cascade of depth 1 | `TypeOK`, `SymbolsAreIndexed`, `NoPhantomCalls`, `CallsStayLinked` | no edge dangles; the nodes are the functions of the indexed files; every edge is a call; linked calls stay linked |
| `serving` | three commands, three versions, two faults at the steps a later run repairs, a server; fair | `ReusedIsCurrent`, `CompleteIsFresh`, `SkippedIsFresh`, `AnnouncedIsServed` | a completed pipeline leaves everything of the sources, whatever it skipped and whatever failed or died before; what is announced comes to be served |
| `stream` | two workers, a channel of one, three files, two of one name; an edit, an unreadable file, a kill; a cache left by earlier commands; fair | `StreamTypeOK`, `MergedIsExtracted`, `RecordedIsMerged`, `OrderIsOfPaths`, `IndexesEachOnce`, `CommandEnds` | the cache gives what an extraction would; recorded hashes are of the bytes in the graph; the order of relations does not depend on the workers; every file once; nobody waits for ever |
| `functions` | over two hundred function bodies and all graphs the builder may give them; every order of a post-dominator pass; every run | `ExecutionIsPath`, `EndsAtEnd`, `GraphIsUnique`, `IdomDominates`, `IdomIsImmediate`, `FrontierIsExact`, `PostDominatorsExact`, `AnalysisEnds` | what a function does is a path of its graph and ends where the graph ends; the graph does not depend on the order of a hash map; dominators are dominators, exact ones and with exact frontiers where no loop is; post-dominators are exact; the passes end |

### Runs that show a disagreement

`watchlock_race` and `dominators_loop` each check one property that a comment of the repository
states, and end with a behaviour of the code that violates it. Section 5 goes through them. Both
properties hold under other circumstances, in a passing run: the lock excludes when commands do not
start in the same instant (`SerialExclusion`), and the dominators are the immediate ones when the
function has no loop (`IdomIsImmediate`). The difference is the result.

### Further configurations

The other configurations in this directory are questions of the same kind, kept because each gives a
counterexample worth reading. TLC is expected to find the property violated in each; section 5 says
what they show. Most repeat a property that holds in a passing run, in the situation that run avoids.

| configuration | property |
| --- | --- |
| `MCWatchLockQueued` | `QueuedOnlyForWatcher` |
| `MCUpdateQueueLost`, `MCUpdateQueueLeftover`, `MCUpdateQueueStale` | `SubmittedIsKept`, `LeftoverIsRecovered`, `OkMeansFresh` |
| `MCUpdateQueueServed` with `AtMostOnce` added | `AtMostOnce` |
| `MCIncrementalUpdateNested`, `MCIncrementalUpdateSameName` | `UpdateMatchesDiscover`, `CompactKeepsOthers` |
| `MCIncrementalUpdateFiles`, `MCIncrementalUpdateEdited` | `RecordedIsIndexed` |
| `MCIncrementalUpdateReaders` | `NeverTorn`, `NeverMissing` |
| `MCCallGraphAmbiguous`, `MCCallGraphMissing` | `NoPhantomCalls`, `NoMissingCalls` |
| `MCServingWatch`, `MCServingSkip`, `MCServingMarker` | `UpdateIsServed`, `SkippedIsFresh`, `MarkerIsTrue` |
| `MCExtractionStreamLinks`, `MCExtractionStreamUnread` | `MergedIsExtracted`, `RecordedIsInGraph` |
| `MCFunctionAnalysisControl` | `EndsAtExit`, `ControlIsPrecise` |
| `MCFunctionAnalysisSwitch`, `MCFunctionAnalysisFinally` | `ExecutionIsPath` |
| `MCFunctionAnalysisUnique` | `GraphIsUnique` |

In the other direction, the properties of `stream` hold as well with a content in which there is
nothing to extract (in `MCExtractionStream.cfg`, `Empty = {c2}`, `Broken = {}`, and no edits or
unreadable files).

With `-continue`, TLC shows every property of a configuration and every function body concerned.
`ServeTypeOK`, `AnalysisTypeOK` and the `TypeOK` of `IncrementalUpdate` hold in the passing runs of
their modules when added to them; the last two are proved (`DominanceProofs`,
`IncrementalUpdateProofs`).

### Bounds, and why they are enough

- *WatchLock* has four commands and no other bound: three that acquire the lock, so that one can
  die with it, one can reclaim it and the third can create a new one in between, and one that takes
  no lock. `status`, which judges as an update does and acquires nothing, takes part in
  `watchlock_race`. Theorems cover any number of commands of every kind.
- *UpdateQueue*: `MaxLines` 2, so that three clients fill the queue; `MaxFaults` 2 in `queue_once`, so
  that a leftover meets a new queue file and a watcher that fails or dies again, and 1 in
  `queue_served`, where a file that was kept is read again or one left by a crash; `MaxEdits` 1
  per file in `queue_served`, so that a file is in one of two states and "stale" is expressible;
  enough clients for a batch of several modes with one request on the way. What is proved about the
  queue has no bounds.
- *IncrementalUpdate*: two files (one that the command is about, one that it is not), two versions
  (three in `index_crash`, so that a file can differ from both its recorded and its indexed
  version), at most two crashes (one to break something, one during the repair).
- *CallGraph*: two functions and three files; a file has one of seven contents, with either
  function, both, or none, and calls between them. Three files let a function move between two
  while a third calls it. No counter is bounded: the reachable states are finite.

`CHECK_DEADLOCK FALSE` is in the configurations of `WatchLock` and `UpdateQueue`, whose commands
end: when every run of a command is over and no watcher is left, nothing happens any more; in those
of `ExtractionStream`, where the number of commands is bounded and `CommandEnds` says what deadlock
freedom would; and in those of `FunctionAnalysis`, because a function ends. In the other modules a
new command or another server may always begin, and deadlock is checked.

- *ExtractionStream*: a channel of one, so that it is full whenever a worker wants to send behind
  another; two workers, so that one parses what the other has looked up; three files, two of which
  have one stem, so that facts are reused across paths; one content no plugin extracts. One command,
  but one that starts with any cache earlier commands may have left (`Earlier`). The code clamps the
  capacity to 32 to 1024; what is proved holds for any.
- *Serving*: three commands and two faults (`MaxCommands`, `MaxFaults`): one leaves something behind,
  one meets it and fails as well, one completes. Three versions, so that an artifact can be older
  than another that is already stale. The proofs have no such bounds.
- *FunctionAnalysis*: the bodies have one compound statement with every choice of leaves, or two
  nested ones (three with a label), with statements before and after, so that every operator of
  `ControlFlow` meets a context that continues, one that jumps and one that ends. Runs are finite in
  states, because values are left out, though a loop may turn for ever.

Symmetry among the runs of one command is used in `watchlock_race`, which has no temporal property.

### Fairness, and why the code justifies it

- *WatchLock*: a process that detects or acquires takes its next system call (weak fairness): the
  code there is straight-line, without waits. An update finishes its work and releases the lock.
  No fairness for starting a command, stopping a watcher, crashes or pids.
- *UpdateQueue*: the watch thread goes on while it is up (it loops over a receive with a timeout),
  and a waiting client keeps polling for its result. Nobody restarts a watcher, no client has to
  submit, no timeout has to fire. What it promises while a watcher stays up is stated as
  `[]Undisturbed => ...`. Edits are bounded, so a storm of events ends; the code promises
  nothing while one lasts.
- *IncrementalUpdate*: a running command goes on; and, only for `Repaired`, the user keeps coming
  back to a full rebuild. That is strong fairness, because a rebuild can begin only between other
  commands.
- *ExtractionStream*: a command that began goes on, each worker by itself and the merging thread by
  itself: they are threads of the operating system. No fairness for starting a command or edits.
- *Serving*: the loop of a server polls every 400 ms and reloads what it polled; a command or update
  that runs goes on. Nobody has to start one, and a server may be stopped.
- *FunctionAnalysis*: the analysis, which is loops of one thread, goes on until it ends.

## 4. What is proved

Every theorem is for all values of the constants that satisfy the named assumptions of its module.
These only say what the constants are (`KindsAssumption`: the kinds of processes are disjoint;
`ClientsAssumption`, `RequestsAssumption`, `SourcesAssumption`, `FilesAssumption`, `StemAssumption`,
`ContentsAssumption`, `GraphsAssumption`, `RemovalAssumption`: the types, that a path ends with
itself and with the name of its file, and that the edges of a graph are numbered;
`NoneAssumption`, `NoFileAssumption`, `MarksAssumption`, `AbsentAssumption`: the marks are not values;
`EmptyAssumption`: what has no symbol has no link; `BoundsAssumption`, `DepthAssumption`,
`CapacityAssumption`: numbers). A hypothesis on the environment is in the statement of the theorem
that needs it.

| theorem | statement | argument |
| --- | --- | --- |
| `WatchLockProofs!TypeCorrect` | `Spec => []TypeOK` | action by action |
| `WatchLockProofs!NoOrphan` | `Spec => []NoOrphanLock` | with `TypeOK` it is inductive: only `Release`, which unlinks, and `Crash` end a process that has a file |
| `WatchLockProofs!Exclusion` | `Spec => SerialExclusion`: as long as starts are serial, `MutualExclusion` and `HolderOwnsFile` | neither is inductive. `LockInv` adds: a running process is alive; one that writes its pid owns the file, which is still without a pid; one that asks about a pid has read the holder's, if there is a holder; one that is about to unlink knows that there is none. It is preserved by every step from a state that is `Serial` |
| `WatchLockProofs!CommandsAdvance` | `Spec => CommandsGoForward`: no step of a command takes it back, however commands overlap | `Rank` numbers the control points; a command takes at most eleven steps |
| `WatchLockProofs!FreeLock` | `Spec => FreeLockIsTaken`: while commands do not overlap, an attempt at a lock nobody holds is not refused | `Free` follows the attempt from the first create to the pid; `PidsDecided`: a pid in a lock file, or read from one, is of a command that holds the lock or has ended, so a live one is foreign when nobody holds |
| `WatchLockProofs!HolderTurnsAway` | `Spec => TurnedAwayByHolder`: work is queued for, and an acquirer refused by, a present holder or a foreign program | `PidsDecided`, for every overlap. That the holder drains the queue does not follow, see section 5 |
| `UpdateQueueProofs!TypeCorrect` | `Spec => []TypeOK` | includes: a handle on the queue file implies that there is one |
| `UpdateQueueProofs!RequestsInOnePlace` | if a drained file can be removed, `[]OnePlace` | the inductive invariant of the queue: a request is in one of the two files or in the batch, and was not served while on disk |
| `UpdateQueueProofs!ServedAtMostOnce` | if a drained file can be removed, `[]AtMostOnce` | a verdict is given to a batch, and by `OnePlace` its requests were not served |
| `UpdateQueueProofs!OkIsFresh` | if every client names its files, `[]OkMeansFresh` | `Fresh`: nothing indexed is newer than the disk, the update in progress has every file of its batch among its targets, past the extraction those are as new as they were asked for, and so is all that was told ok or is about to be; `Unsent`: no result waits for a client that has not asked yet. It does not rest on `OnePlace`, and so holds also when requests are applied again |
| `UpdateQueueProofs!EditsAreKept` | if every client names its files, `[]EditKept`: while the watcher neither dies nor fails, a file that the graph does not describe is in the channel, pending or a target | inductive with `Watched` (a watcher that is down was killed). With requests that follow the hashes it fails, as `MCUpdateQueueStale` shows |
| `UpdateQueueProofs!RequestsAdvance` | if a drained file can be removed, `RequestsGoForward`: a landed request goes from the queue file to the drained file, the batch and its result, never back or away | `Leg` numbers the places; `OnePlace` and `Verdicts` |
| `UpdateQueueProofs!Refinement` | if a drained file can be removed, `AbstractSpec` | adds `Verdicts`: a result file has the verdict of its own request, and the verdict of an update is that of its batch. Then each step is a step of `UpdateRequests` or changes neither its stages nor its answers |
| `IncrementalUpdateProofs!TypeCorrect` | `Spec => []TypeOK` | includes: past the opening of it, an update has a readable base, so what it compacts is a graph |
| `IncrementalUpdateProofs!Usable` | `Spec => []SuccessIsUsable` | adds `Written`: a command past its writing has a readable snapshot |
| `IncrementalUpdateProofs!OthersAreKept` | if no two files have the same name, `CompactKeepsOthers` | adds `Covered`: whatever an update has extracted or will extract is among the entries it invalidates |
| `IncrementalUpdateProofs!IndexedIsRecorded` | for commands on the whole tree, `Undisturbed` or `Forward`, `[]RecordedIsIndexed` | `IndexInv`, see below |
| `IncrementalUpdateProofs!UpdateIsDiscover` | under the same hypotheses, `UpdateMatchesDiscover` | `IndexInv` says at the end of an update that the snapshot has the present symbols of every file |
| `IncrementalUpdateProofs!UnhashedIsNotReused` | if the languages of every command have a file that stays, `NoFalseReuse` | `StayingFound`: the walk has found that file, and no hash is recorded for it |
| `IncrementalUpdateProofs!RebuildRecords` | `Spec => RebuildRecordsItsBytes`, in every environment | `TakenOnce`: a rebuild takes each file once, and what it built and what it will record are both of the bytes it took |
| `IncrementalUpdateProofs!RebuildsRepair` | if no file changes while a command runs, `RebuildRepairs`: a full rebuild leaves the snapshot and the hashes right | `QuietBuild`: what it has extracted is right and the rest is still to be taken; nothing of the old index enters, whatever crashes, partial updates and namesakes left there |
| `CallGraphProofs!TypeCorrect` | `Spec => []TypeOK`, no edge dangles | what is extracted, kept and rebuilt joins nodes that are alive, whatever the cascade's depth and whichever function an ambiguous name is resolved to |
| `CallGraphProofs!SymbolsIndexed` | `Spec => []SymbolsAreIndexed` | with `TypeOK`; a file outside the delta is as it was indexed |
| `CallGraphProofs!EdgesAreCalls` | if names are distinct, `[]NoPhantomCalls` | with `TypeOK`, `SymbolsAreIndexed` and `IndexedApart`: the indexed files have distinct names, so rebuilding picks the one function of a name |
| `CallGraphProofs!LinkedStayLinked` | if names are distinct and the depth is at least 1, `CallsStayLinked` | a linked caller is in the delta as soon as the file it calls into is |
| `ExtractionStreamProofs!StreamTyped` | `Spec => []StreamTypeOK` | includes: the channel never holds more than its capacity |
| `ExtractionStreamProofs!MergedExtracted` | if no content has relative links, `[]MergedIsExtracted` | `SoundInv`: every fact in the cache, on disk, in a worker and in the channel is what extracting its content in a file of its stem gives |
| `ExtractionStreamProofs!RecordedMerged` | `Spec => []RecordedIsMerged` | `HashInv`: a merged file's hash is of the bytes it was merged from, up to the recording |
| `ExtractionStreamProofs!Streams` | `Spec => Indexing!Spec`, the refinement | `PlaceInv`: a listed file is with the list, with one worker, in the channel, merged or reported, in exactly one of these |
| `ExtractionStreamProofs!OrderedByPath` | `Spec => []OrderIsOfPaths` | `MergedOnce`: no file is merged twice, so the merged facts have distinct paths. That sorting sorts needs no induction: the rank of a path, the number of paths up to it, is a bijection from the paths to their positions |
| `ExtractionStreamProofs!FilesAdvance` | `Spec => FilesGoForward`: a step of a worker, or a result received, moves exactly one file to a later stage | `Stage`, zero to five, by where `PlaceInv` has the file |
| `ServingProofs!Complete`, `Skipped`, `Reused` | if `Sheltered`, `ServeSpec => CompleteIsFresh`, `SkippedIsFresh`, `[]ReusedIsCurrent` | see below |
| `ServingProofs!ServeTyped` | `ServeSpec => []ServeTypeOK`, in every environment | with `WorkInv`: past the indexing a command has a digest |
| `ServingProofs!NoneAreMissed` | `ServeSpec => []NoneMissed`, in every environment: a server that does not answer from the announced snapshot is reloading or has another digest as its last | `Settled`: once a digest is announced the hashes have its version, so that its snapshot is not written again; `LoopInv`: a server whose last digest is that of the snapshot answers from it |
| `DominanceProofs!AnalysisTypes` | `DomSpec => []AnalysisTypeOK` | with `SearchInv`, of the search: a block that was left has its successors visited |
| `DominanceProofs!Dominators` | `DomSpec => []IdomDominates`, for every graph | `Upwards` and `Covered`: the tree goes from a block to one that dominates it, and the numbers that climb have met the predecessors that were taken |
| `DominanceProofs!TreeHasNoCycle` | `DomSpec => []TreeIsRooted`, the assertion `verify_idom_acyclic` | the tree goes to smaller numbers |
| `DominanceProofs!ImmediateWithoutLoops` | `DomSpec => []IdomIsImmediate`: in a graph without loops | `Tight`: what dominates all predecessors that were taken dominates the numbers that climb |
| `DominanceProofs!Frontiers` | `DomSpec => []FrontierIsExact`: in a graph without loops, whatever order the joins are taken in | `FrontierInv`: what a runner has passed has the join in its frontier or does not belong to it |
| `DominanceProofs!PostDominators` | `DomSpec => []PostDominatorsExact` | `PostInv`: a set holds every post-dominator of its block at all times (`Kept`), and when a pass changed nothing the sets solve the equations (`Solved`), whose greatest solution the definition is; for every graph and every order of the blocks |
| `DominanceProofs!SearchEnds` | `DomSpec => SearchAdvances`: a step of the search takes an edge that was left or leaves a block for good | an edge is taken from one frame only, and a block is entered once |
| `DominanceProofs!PassesEnd` | `DomSpec => PassesMoveDown`: the passes only move immediate dominators away from the entry, and one that asks for another has moved one | `OnTheWay`, see below |
| `DominanceProofs!ClimbsEnd` | `DomSpec => ClimbsRise`: no step of a meet and no runner stands still | `OnTheWay`: a number that climbs has what it has to meet above it |
| `DominanceProofs!PostPassesEnd` | `DomSpec => PostSetsShrink`: the passes only take blocks out of the sets, and one that asks for another has taken one | `Shrinking`: the set of a block holds what its successors ask for |

`IncrementalUpdateProofs` argues about what the recorded hashes say. `WholeTreeCommands` asks that no
file changes while a command runs, that no two files have one name, and that no command names its
files. `Undisturbed` then allows edits of any kind between commands but no
crash, asks that a file in a directory is reached by its own cascade, and that commands are about all
languages; `Forward` allows a crash at any step and updates of one language, but no file is deleted
or becomes what it was, all are in the root, and what is filtered out is reached by its own cascade
(it is the instance of `index_crash`, for any number of files, versions and crashes). `IndexInv` is
inductive in both. `Due` are the files a command must leave right: those its filter lets through, and
those whose recorded hash says that they are indexed, which an update of another language must not
spoil. `Truthful` is the invariant itself, at every step at which both files of the
index can be read; `Extracting` says that what was extracted is what is on disk and that every file
is still to be read, was read, or is kept with the right nodes; `Writing` follows the built graph to
the snapshot and the hashes of the due files. Why an unchanged hash means unchanged nodes differs: in `Undisturbed`
the snapshot is of the recorded hashes (`Paired`), in `Forward` a recorded hash is of a version the
file once had (`Historic`), so that a file which moved on is found changed, whatever a crash left.

`DominanceProofs` goes along the phases. Dominance itself is reasoned about through `Free(d)`, the
blocks reached without passing `d`: as a least set it replaces every induction over paths, and an
induction over numbers is an argument about a least counterexample (`LeastNumber`, from the
well-foundedness of the naturals). The numbers of the search give that a dominator has a smaller
number, and in a graph without loops that predecessors do as well, so that one pass is enough.

That every loop of the analysis ends needs no fairness and is proved from what each one cannot undo.
The search takes every edge once. `Above(i)` is the way up the tree from `i`, again a least set;
`OnTheWay` says that the immediate dominator of a block is at all times on the way up from each block
before it. So a new one, which is where those ways meet, is below the old one or is it: the numbers
of immediate dominators only rise, are bounded by the number of blocks, and the passes end. By the
same fact a runner of the frontiers meets the immediate dominator of its join before the entry, where
it would turn for ever. The sets of the post-dominators shrink.

`ServingProofs` argues about the digests. `Sheltered` says that no update runs next to a pipeline
and that no fault falls on five steps (`"cfg"`, `"blast"`, `"save"`, `"track"`, `"dashboard"`); each
of the two is needed, see section 5. `PipelineInv` is then inductive: `JobInv` (what a running
command knows of the disk: the snapshot it works on is the one there, and the artifacts it has
written so far are of it), `UpdateInv` (what an update has removed so far), `TrackerInv` (hashes that
equal the sources mean that the snapshot is of them), `PairsInv` (the blast snapshot and the
analyses are of one graph), `MarkerInv` (the harmonic marker names a snapshot whose deep artifacts
are there, unless the deep stage is between the two), `FreshInv` (what a later step reads is of the
snapshot). A stage is skipped on a marker, so `MarkerInv` gives `SkippedIsFresh`, and
`CompleteIsFresh` is what the invariant says at `Finish`. `NoneMissed` is about every
environment, where none of this holds: `WorkInv` keeps what a command knows of the hashes alone, and
that suffices because the sources never come back to an earlier version. 

TLC found the hypotheses first: without each of them there is a counterexample (`watchlock_race`, `MCUpdateQueueStale`,
`MCIncrementalUpdateSameName`, `MCIncrementalUpdateNested`, `MCIncrementalUpdateFiles`,
`MCIncrementalUpdateEdited`, `dominators_loop`, `MCCallGraphAmbiguous`, `MCExtractionStreamLinks`, `MCServingSkip`). That `CallsStayLinked` needs the cascade
is what its mutant shows.

Only model-checked:
- all liveness (`StaleLockIsReclaimed`, `StartedIsDecided`, `Converges`, `LandedIsAnswered`,
  `Repaired`, `AnnouncedIsServed`, `CommandEnds`, `AnalysisEnds`): liveness under fairness, and that
  a step is enabled, are out of the prover's reach. What each of them rests on besides is proved: that the
  commands, requests, files, passes and runners only go forward (`CommandsAdvance`,
  `RequestsAdvance`, `FilesAdvance`, `SearchEnds`, `PassesEnd`, `ClimbsEnd`, `PostPassesEnd`), that
  nothing to be done is forgotten (`EditsAreKept`, `NoneAreMissed`), and that the attempt that is made
  is the one that succeeds (`FreeLock`, `RebuildsRepair`);
- the graphs `ControlFlow` builds (`ExecutionIsPath`, `EndsAtEnd`, `GraphIsUnique`), whose visits are
  recursive in the statement: what a recursive definition computes for every input needs an
  induction over statements, which the provers cannot do.

## 5. Where the code and its comments disagree

The two in **bold** are runs; `PROJECT.json` quotes the text they contradict. The others are the
further configurations.

*The lock.*
- **`watchlock_race`**: the lock file is empty between its creation and the write of the pid. An
  acquirer that reads it then takes it for stale, unlinks it and acquires the lock as well
  (`status.rs:183-197`); "Only one `serve --watch` or concurrent `rgctl update` may hold it per
  repository" (`status.rs:136`).
- `MCWatchLockQueued` (`QueuedOnlyForWatcher`): `detect_live_watcher` reports the lock of another
  `rgctl update` as a watcher (`status.rs:243`, `update.rs:106`). The request goes to a queue that
  nobody drains.

*The queue.*
- `MCUpdateQueueLost` (`SubmittedIsKept`): a client that opened the queue file before it was renamed and writes after it was
  read loses its line when the file is removed (`update_queue.rs:278-284, 325-342`).
- `MCUpdateQueueLeftover` (`LeftoverIsRecovered`): the requests a dead watcher left in the processing
  file are read only after somebody queues another (`update_queue.rs:318`), although line 322 says
  "Recover a previous crash: prefer re-reading leftover processing first."
- `MCUpdateQueueStale` (`OkMeansFresh`): in a batch with a plain update, the pending paths are
  dropped in favour of the hash diff (`update.rs:402-411`), which does not contain a file whose new
  hash an earlier update recorded without extracting it. The client is told that the graph is
  current.
- `MCUpdateQueueServed` with `AtMostOnce` added: when the drained file cannot be removed, which is ignored
  (`update_queue.rs:341`), the next drain reads its requests again and they are applied a second
  time. What a client is told stays true (`queue_served`, `OkIsFresh`), but a result of the second time
  may stay behind unfetched.

*The index.*
- `MCIncrementalUpdateNested` (`UpdateMatchesDiscover`): the old nodes of a file in a directory survive its update, because a relative
  path never equals the absolute path of a node, unless the cascade adds the absolute one
  (`columnar_snapshot.rs:970`).
- `MCIncrementalUpdateSameName` (`CompactKeepsOthers`): an update of `lib.rs` drops the nodes of
  `src/lib.rs` (`columnar_snapshot.rs:974`).
- `MCIncrementalUpdateReaders` (`NeverMissing`, `NeverTorn`): readers meet
  a missing (`graph_compactor.rs:252`) or a partial (`updater.rs:447`) snapshot during an update,
  although the compactor's output is "atomically renamed" (`graph_compactor.rs:6`).
- `MCIncrementalUpdateFiles` (`RecordedIsIndexed`): `update --files` records the hashes of files it did not extract
  (`updater.rs:468`).
- `MCIncrementalUpdateEdited` (`RecordedIsIndexed`): a file edited between its extraction and its
  hashing is recorded as indexed (`file_tracker.rs:89`).

*The graph.*
- `MCCallGraphMissing` (`NoMissingCalls`): a caller whose callee did not exist when it was extracted
  has no edge for the cascade to follow, so the edge stays missing after the callee appears
  (`updater.rs:596`).
- `MCCallGraphAmbiguous` (`NoPhantomCalls`): with two functions of one name, rebuilding relations adds edges to or from
  the wrong one, depending on the order of a hash map (`updater.rs:671`).

*Parallel extraction.*
- `MCExtractionStreamLinks` (`MergedIsExtracted`): facts are reused for a file of the same content and
  stem in another directory (`extractor.rs:146-155`), but the relative links of a Markdown file were
  resolved from the directory of the first (`lang-markdown/src/extract.rs:435-455`).
- `MCExtractionStreamUnread` (`RecordedIsInGraph`): a file that could not be read or parsed is hashed
  and recorded all the same (`file_tracker.rs:111-118`), so no later update tries again.

*The pipeline and the server.*
- `MCServingSkip` (`SkippedIsFresh`): the deep stage writes the harmonic marker when it begins its
  analyses (`discover_impl.rs:445`), before the CFG archive (582); if it dies in between, the next
  pipeline sees the marker and an archive and a dashboard of an older snapshot, and skips
  (`pipeline_session.rs:394-407`), although "A second `--full` on unchanged sources skips fresh
  stages" (`docs/user-guide.md:246`). A fault between the blast snapshot and the hashes likewise
  breaks `ReusedIsCurrent`, and a write of the CFG archive or of the dashboard that
  fails with only a warning (`discover_impl.rs:842`, 860, 1444) breaks `CompleteIsFresh`: the
  pipeline completes with an older file. The faults of the passing run are at other steps.
- `MCServingMarker` (`MarkerIsTrue`): the marker that says a snapshot has its fields is written by a
  run that reused one without (`discover_impl.rs:355`; "Marker: snapshot was indexed with field
  materialization.", `status.rs:22`).
- `MCServingWatch` (`UpdateIsServed`): an update does not touch the status document, and the server
  reloads when that changes (`http_serve.rs:284`), so `serve --watch` goes on answering from the old
  graph, although "Live refresh while serving" is what it is recommended for
  (`docs/agents/USER_AGENTS_TEMPLATE.md:86`). With `Watching`, `CompleteIsFresh` fails as well: the
  semantic stage loads the graph and asks for the digest afterwards (`semantic.rs:117`).

*Control flow.*
- **`dominators_loop`**: the header of a loop the entry does not lead to directly gets the entry as
  its immediate dominator (`dominance.rs:40`), because the passes start with the entry as everybody's
  dominator and do not leave unprocessed predecessors out; "Immediate dominator for each block."
  (`dominance.rs:13`). What is computed still dominates (`IdomDominates`), and `ControlIsPrecise`
  shows where control dependence inherits the difference from frontiers of dominators instead of
  post-dominators: the join of a condition counts as controlled by its arms (`pdg.rs:428`).
- `MCFunctionAnalysisControl` (`EndsAtExit`): a function with an earlier return ends in a block that
  is not listed as an exit (`cfg_builder.rs:1001`; "Exit block ids (returns, implicit fall-through
  exits)", `cfg.rs:132`).
- `MCFunctionAnalysisSwitch` (`ExecutionIsPath`): after a switch with a default all of whose cases
  break, the flow counts as stopped (`cfg_builder.rs:4121`); a `continue` in a switch in a loop, and a
  `break` to the label of a statement that is no loop, get no edge (3561-3570); a deferred call under
  a condition is on every path after it (3493-3509).
- `MCFunctionAnalysisFinally` (`ExecutionIsPath`): `break` and `continue` skip the finally bodies
  they leave (3572-3597), a throw in a try without handlers skips its finally when an outer try has
  handlers (3204-3216), and the end of a handler runs those of all enclosing tries (4567); the
  handlers of a try with resources are entered without the closes (4498-4518); and a filter that
  does not hold leads out of the function, past the next handler (4550-4554).
- `MCFunctionAnalysisUnique` (`GraphIsUnique`): in a function that begins with two loops, the blocks
  that are left depend on the order in which empty ones are contracted (`cfg.rs:333-373`), that is,
  on a hash map; "Deterministic cold discover" (`docs/releases/v0.4.20.md:3`).

Read in the code and without a configuration: several clients that check the limit of the queue
together all append (`update_queue.rs:269`); `rgctl watch` takes no lock (`file_watch.rs:24`), so an
update next to it writes the graph as well; without a hash file and without source files, discover
reuses the old snapshot (`file_tracker.rs:132`); with a missing hash file, a plain `update` takes all
files for added, so it neither drops deleted files nor follows the cascade (`file_tracker.rs:129`);
`update --languages` takes the files of the other languages for deleted, which does no harm to what
the hashes call current unless it is killed between the rename and the hashes (`index_crash` has
such updates; with `NoCallers` for `InnerCalls` in `MCIncrementalUpdateCrash.cfg`, so that the file
of the other language is not extracted again, TLC shows its nodes gone and its hash still recorded);
the artifacts of an
older snapshot survive a crash between the rename of the snapshot and their removal
(`updater.rs:456`; `FullPipeline` has that crash, and the digests catch it).

## 6. What is left out

*Inside the modelled components.*
- The order of lines in the queue decides whose `--cascade-depth`, `--exclude` and `--since`
  reference win in a batch; the model has sets of lines. A `--since` request adds any set of files.
- A snapshot and a hash file are torn or whole: their bytes are not modelled. A source file is read
  atomically.
- `update` without a snapshot (the in-memory path) and `update --since` in `IncrementalUpdate`;
  `update --files` in `CallGraph`.
- In `IncrementalUpdate` one command runs at a time. Two updates at once need the lock to fail,
  which is `WatchLock`'s subject; `discover` takes no lock, and its overlap with a watcher is not
  modelled.
- In `CallGraph` all files are in the root directory (where relative paths match), functions have no
  qualifiers, types or method resolution order, and stubs for external symbols are not modelled.
- The timing of the debounce: a deadline passes between any two events, or not.

- In `FullPipeline` digests do not collide, a snapshot that was written stays readable, and
  `--with-kantra` and `--with-git`, which rewrite it, are left out. `serve` answers every query from
  one graph; its routes are stateless.
- In `ExtractionStream` a plugin is a function of the content, the stem and the directory; pass 2 is
  an order, its edges are in `CallGraph`.
- In `ControlFlow`: `goto`, `using` declarations without a body, `lock`, switch expressions, ternaries
  and other expressions with control flow, guards of cases, nested functions, `setjmp`, and the
  statements of single languages (Puppet, Elixir, Ruby, shell). Deferred calls of a body are followed
  where the graph follows them, at its end.
- A guard of a match arm is tested in `Execution` whenever its arm is reached, as in the graph, where
  "Pattern assumed matched" (`cfg_builder.rs:3931`).

*Components.* `PROJECT.json` has a note for each.
- The memory backend and the columnar storage: nodes, edges and indexes behind `&mut self`, a
  sequential data structure whose state is its data. `IncrementalUpdate` and `CallGraph` have what it
  must hold.
- Session: it checks the digest of the snapshot and opens it in two lines; the same read-then-open of
  a server is in `Serving`.
- Merge tiers, the delta of a pull request, definition-use chains, field writes, communities,
  centrality, clones, GQL, Kantra rules, security: computations over one graph, by data rather than by
  state.
- Parsers, formats, exports, dashboards, the command line, the language plugins: input and output.

## 7. What would come next

In this order: `discover` and the foreground watcher next to an update, at the grain of the snapshot's
replacement (`WatchLock` composed with `IncrementalUpdate`); `goto` and nested functions in
`ControlFlow`; definition-use chains over its graphs, against runs that carry values; strongly
connected components and slices against reference definitions; sources that come back to an earlier
version in `FullPipeline`. To prove: `NoPhantomCalls` for names defined twice, with the files they
are defined in.

## 8. Running it

In this directory, with the TLA+ tools and TLAPS:

```
tlc -config MCWatchLockCommands.cfg MCWatchLock    # one run; PROJECT.json lists all
tlapm UpdateQueueProofs.tla                        # the proofs of one module
```

A run takes seconds, `index_repair`, `serving` half a minute, `stream`, `queue_served`,
`watchlock_commands` and `functions` one and a half to two and a half, with two workers. Proofs take seconds to
two minutes a module; `ServingProofs`, `ExtractionStreamProofs` and `DominanceProofs` are the
longest. `PROJECT.json` also maps
every definition to the lines it models, and lists for each checked property a mutation of the
model, standing for a plausible bug, that makes it fail.
