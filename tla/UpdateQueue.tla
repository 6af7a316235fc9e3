----------------------------- MODULE UpdateQueue -----------------------------
(***************************************************************************)
(* The update queue between `rgctl update` and a live watcher              *)
(* (crates/rgctl-service/src/update_queue.rs, src/cli/file_watch.rs and    *)
(* the queued half of src/cli/update.rs).                                  *)
(*                                                                         *)
(* An update that finds a live watcher appends one line to                 *)
(* update_queue.jsonl and polls for its result file.  The watcher gathers  *)
(* filesystem events, drains the queue (rename, read, remove), applies     *)
(* everything as one incremental update and writes one result per request. *)
(*                                                                         *)
(* Files are named through handles: a client that opened the queue file    *)
(* keeps writing to that file after the watcher renamed or removed it.     *)
(* Each system call on the two queue files is a step.  A queue file is the *)
(* SET of the clients whose lines it holds: the order of the lines only    *)
(* decides whose options (--cascade-depth, --exclude, the --since ref) win *)
(* in a batch, which is not modelled; the set of files a --since update    *)
(* adds is arbitrary.  A file of the repository is its version number.     *)
(***************************************************************************)
EXTENDS Naturals, FiniteSets

CONSTANTS
    Clients,        \* runs of `rgctl update` that find a live watcher
    Paths,          \* source files of the repository
    Request,        \* the request of each client, see Requests
    NoWait,         \* the clients run with --no-wait
    NoFile,         \* there is no file
    MaxLines,       \* MAX_QUEUE_LINES
    MaxEdits,       \* bound: edits of source files
    MaxFaults,      \* bound: crashes of the watcher, and its updates, removals
                    \* and result writes that fail
    RemovalFails    \* environment: removing the drained file may fail

\* A request names its files, or asks for whatever differs from the recorded
\* hashes, or for that and what git saw change since a commit.
Requests ==
    [mode: {"paths"}, paths: (SUBSET Paths) \ {{}}]
        \cup [mode: {"hash_diff", "since"}, paths: {{}}]

ASSUME ClientsAssumption == Request \in [Clients -> Requests] /\ NoWait \subseteq Clients
ASSUME NoFileAssumption == \A lines \in SUBSET Clients : NoFile # lines
ASSUME BoundsAssumption == {MaxLines, MaxEdits, MaxFaults} \subseteq Nat
ASSUME RemovalAssumption == RemovalFails \in BOOLEAN

VARIABLES
    queue,          \* update_queue.jsonl
    processing,     \* update_queue.processing.jsonl
    handle,         \* which file each client has open for appending
    client,         \* where each client stands
    results,        \* the result file of each request
    watcher,        \* where the watch thread stands
    events,         \* paths in the channel from the filesystem notifier
    pending,        \* paths waiting for the debounce deadline
    batch,          \* the drained requests that still need a result
    targets,        \* the files the update in progress extracts
    outcome,        \* the verdict of the update in progress
    disk,           \* the version of each source file
    graph,          \* the version of each source file the snapshot describes
    tracker,        \* the version of each source file in file_hashes.json
    faults,         \* how often the watcher crashed or failed
    wanted,         \* history: the files on disk when a client asked
    served          \* history: the verdict of the update that took a request

clientVars  == <<handle, client, wanted>>
fileVars    == <<queue, processing, results>>
watchVars   == <<watcher, events, pending, batch, targets, outcome>>
repoVars    == <<disk, graph, tracker>>
vars == <<clientVars, fileVars, watchVars, repoVars, faults, served>>

Lines(file) == IF file = NoFile THEN {} ELSE file

Nothing == [p \in Paths |-> 0]

Init ==
    /\ queue = NoFile /\ processing = NoFile
    /\ handle = [c \in Clients |-> "none"]
    /\ client = [c \in Clients |-> "idle"]
    /\ results = [c \in Clients |-> "none"]
    /\ watcher = "poll"
    /\ events = {} /\ pending = {} /\ batch = {} /\ targets = {}
    /\ outcome = "none"
    /\ disk = Nothing /\ graph = Nothing /\ tracker = Nothing
    /\ faults = 0
    /\ wanted = [c \in Clients |-> Nothing]
    /\ served = [c \in Clients |-> "no"]

-----------------------------------------------------------------------------
(* The client: run_queued and enqueue.                                     *)

ClientGoto(c, from, to) == client[c] = from /\ client' = [client EXCEPT ![c] = to]

\* A client asks what is on disk now.  It is here at all because it detected
\* a live watcher.
Submit(c) ==
    /\ watcher # "down"
    /\ ClientGoto(c, "idle", IF queue = NoFile THEN "open" ELSE "count")
    /\ wanted' = [wanted EXCEPT ![c] = disk]
    /\ UNCHANGED <<handle, fileVars, watchVars, repoVars, faults, served>>

\* The size and the lines of the queue file it saw are read again by path:
\* the file may be full, or gone by now, which is an error.
CountLines(c) ==
    /\ ClientGoto(c, "count",
         IF queue = NoFile THEN "failed"
         ELSE IF Cardinality(queue) >= MaxLines THEN "full" ELSE "open")
    /\ UNCHANGED <<handle, wanted, fileVars, watchVars, repoVars, faults, served>>

\* Mutant: the file is opened without create(true).
OpenExisting(c) ==
    /\ ClientGoto(c, "open", "append")
    /\ handle' = [handle EXCEPT ![c] = "queue"]
    /\ UNCHANGED <<wanted, fileVars, watchVars, repoVars, faults, served>>

\* The file is opened for appending, and created if there is none.
Open(c) ==
    /\ ClientGoto(c, "open", "append")
    /\ queue' = Lines(queue)
    /\ handle' = [handle EXCEPT ![c] = "queue"]
    /\ UNCHANGED <<processing, results, wanted, watchVars, repoVars, faults, served>>

\* The line goes to the file that was opened, wherever that is by now.
Append(c) ==
    /\ ClientGoto(c, "append", IF c \in NoWait THEN "detached" ELSE "waiting")
    /\ queue' = IF handle[c] = "queue" THEN queue \cup {c} ELSE queue
    /\ processing' = IF handle[c] = "processing" THEN processing \cup {c} ELSE processing
    /\ handle' = [handle EXCEPT ![c] = "none"]
    /\ UNCHANGED <<results, wanted, watchVars, repoVars, faults, served>>

\* wait_for_result finds the result file; the client deletes it.
ReadResult(c) ==
    /\ results[c] # "none"
    /\ ClientGoto(c, "waiting", results[c])
    /\ results' = [results EXCEPT ![c] = "none"]
    /\ UNCHANGED <<queue, processing, handle, wanted, watchVars, repoVars, faults, served>>

\* wait_for_result gives up.
Timeout(c) ==
    /\ results[c] = "none"
    /\ ClientGoto(c, "waiting", "timeout")
    /\ UNCHANGED <<handle, wanted, fileVars, watchVars, repoVars, faults, served>>

\* The user interrupts the command: its file handle is closed.
Interrupt(c) ==
    /\ client[c] \in {"count", "open", "append", "waiting"}
    /\ client' = [client EXCEPT ![c] = "interrupted"]
    /\ handle' = [handle EXCEPT ![c] = "none"]
    /\ UNCHANGED <<wanted, fileVars, watchVars, repoVars, faults, served>>

-----------------------------------------------------------------------------
(* The watcher: watch_loop, drain_queue, apply_queue_batch.                *)

WatcherGoto(from, to) == watcher = from /\ watcher' = to

CanFault == faults < MaxFaults /\ faults' = faults + 1

\* A source file changes.  Only a running watcher is notified.
Edit(p) ==
    /\ disk[p] < MaxEdits
    /\ disk' = [disk EXCEPT ![p] = @ + 1]
    /\ events' = IF watcher = "down" THEN events ELSE events \cup {p}
    /\ UNCHANGED <<graph, tracker, watcher, pending, batch, targets, outcome>>
    /\ UNCHANGED <<clientVars, fileVars, faults, served>>

\* An event is received: the path is pending, and the deadline restarts.
Receive(p) ==
    /\ watcher = "poll"
    /\ p \in events
    /\ events' = events \ {p}
    /\ pending' = pending \cup {p}
    /\ UNCHANGED <<watcher, batch, targets, outcome>>
    /\ UNCHANGED <<clientVars, fileVars, repoVars, faults, served>>

\* Mutant: only filesystem events wake the watcher.
WakeOnEvents ==
    /\ WatcherGoto("poll", "drain")
    /\ events = {}
    /\ pending # {}
    /\ UNCHANGED <<events, pending, batch, targets, outcome>>
    /\ UNCHANGED <<clientVars, fileVars, repoVars, faults, served>>

\* The receive times out, so the channel is empty; a deadline, set exactly
\* when a path is pending, has passed because the poll interval is not
\* shorter than the debounce.  An empty queue file is no reason to wake.
Wake ==
    /\ WatcherGoto("poll", "drain")
    /\ events = {}
    /\ pending # {} \/ Lines(queue) # {}
    /\ UNCHANGED <<events, pending, batch, targets, outcome>>
    /\ UNCHANGED <<clientVars, fileVars, repoVars, faults, served>>

Follow(from, to) == handle' = [c \in Clients |-> IF handle[c] = from THEN to ELSE handle[c]]

\* Mutant: the queue file is copied instead of renamed.
DrainCopies ==
    /\ WatcherGoto("drain", IF queue = NoFile THEN "gather" ELSE "read")
    /\ processing' = IF queue # NoFile /\ processing = NoFile THEN queue ELSE processing
    /\ UNCHANGED <<events, pending, batch, targets, outcome>>
    /\ UNCHANGED <<clientVars, queue, results, repoVars, faults, served>>

\* drain_queue: without a queue file there is nothing to drain.  A file left
\* by a crash is read first; otherwise the queue file is renamed.
Drain ==
    /\ WatcherGoto("drain", IF queue = NoFile THEN "gather" ELSE "read")
    /\ IF queue # NoFile /\ processing = NoFile
         THEN processing' = queue /\ queue' = NoFile /\ Follow("queue", "processing")
         ELSE UNCHANGED <<queue, processing, handle>>
    /\ UNCHANGED <<events, pending, batch, targets, outcome>>
    /\ UNCHANGED <<client, wanted, results, repoVars, faults, served>>

ReadBatch ==
    /\ WatcherGoto("read", "remove")
    /\ batch' = Lines(processing)
    /\ UNCHANGED <<events, pending, targets, outcome>>
    /\ UNCHANGED <<clientVars, fileVars, repoVars, faults, served>>

\* Mutant: the drained file is kept.
RemoveKeepsFile ==
    /\ WatcherGoto("remove", "gather")
    /\ UNCHANGED <<events, pending, batch, targets, outcome>>
    /\ UNCHANGED <<clientVars, fileVars, repoVars, faults, served>>

\* The drained file is removed before anything is applied.
Remove ==
    /\ WatcherGoto("remove", "gather")
    /\ processing' = NoFile
    /\ Follow("processing", "gone")
    /\ UNCHANGED <<events, pending, batch, targets, outcome>>
    /\ UNCHANGED <<queue, results, client, wanted, repoVars, faults, served>>

\* A removal that fails is ignored: the update goes on, and the file is there
\* for the next drain.
RemoveFails ==
    /\ RemovalFails /\ CanFault
    /\ WatcherGoto("remove", "gather")
    /\ UNCHANGED <<events, pending, batch, targets, outcome>>
    /\ UNCHANGED <<clientVars, fileVars, repoVars, served>>

Mode(mode) == \E c \in batch : Request[c].mode = mode

Changed == {p \in Paths : tracker[p] # disk[p]}

\* Mutant: the paths of the requests are left out of the union.
WorkEventsOnly(fs) ==
    IF Mode("hash_diff") THEN {Changed}
    ELSE IF Mode("since") THEN {Changed \cup git : git \in SUBSET Paths}
    ELSE {fs}

\* apply_queue_batch: the change set of the update, by the modes of the
\* batch.  The paths count only when no request asks for a diff.
Work(fs) ==
    IF Mode("hash_diff") THEN {Changed}
    ELSE IF Mode("since") THEN {Changed \cup git : git \in SUBSET Paths}
    ELSE {fs \cup UNION {Request[c].paths : c \in batch}}

\* apply_cycle takes the pending paths and starts the update.
Gather ==
    /\ watcher = "gather"
    /\ IF batch = {} /\ pending = {}
         THEN watcher' = "absorb" /\ targets' = {}
         ELSE watcher' = "apply" /\ targets' \in Work(pending)
    /\ pending' = {}
    /\ UNCHANGED <<events, batch, outcome>>
    /\ UNCHANGED <<clientVars, fileVars, repoVars, faults, served>>

Serve(verdict) ==
    /\ outcome' = verdict
    /\ served' = [c \in Clients |->
         IF c \notin batch THEN served[c] ELSE IF served[c] = "no" THEN verdict ELSE "twice"]

\* The changed files are extracted and compacted into the snapshot.
Extract ==
    /\ targets # {}
    /\ WatcherGoto("apply", "index")
    /\ graph' = [p \in Paths |-> IF p \in targets THEN disk[p] ELSE graph[p]]
    /\ UNCHANGED <<events, pending, batch, targets, outcome, disk, tracker>>
    /\ UNCHANGED <<clientVars, fileVars, faults, served>>

\* An update that finds no change succeeds and touches nothing.
AlreadyCurrent ==
    /\ targets = {}
    /\ WatcherGoto("apply", "results")
    /\ Serve("ok")
    /\ UNCHANGED <<events, pending, batch, targets>>
    /\ UNCHANGED <<clientVars, fileVars, repoVars, faults>>

\* index_files hashes every file of the repository, also those the update
\* did not extract.
Index ==
    /\ WatcherGoto("index", "results")
    /\ tracker' = disk
    /\ Serve("ok")
    /\ UNCHANGED <<events, pending, batch, targets, disk, graph>>
    /\ UNCHANGED <<clientVars, fileVars, faults>>

\* The update fails before it replaces the snapshot, or while it hashes.
ApplyFails ==
    /\ CanFault
    /\ watcher \in {"apply", "index"}
    /\ watcher' = "results"
    /\ Serve("err")
    /\ UNCHANGED <<events, pending, batch, targets>>
    /\ UNCHANGED <<clientVars, fileVars, repoVars>>

\* Mutant: the result is written for the wrong verdict.
WriteResultOk(c) ==
    /\ watcher = "results"
    /\ c \in batch
    /\ results' = [results EXCEPT ![c] = "ok"]
    /\ batch' = batch \ {c}
    /\ UNCHANGED <<queue, processing, watcher, events, pending, targets, outcome>>
    /\ UNCHANGED <<clientVars, repoVars, faults, served>>

\* write_result, once for each request.
WriteResult(c) ==
    /\ watcher = "results"
    /\ c \in batch
    /\ results' = [results EXCEPT ![c] = outcome]
    /\ batch' = batch \ {c}
    /\ UNCHANGED <<queue, processing, watcher, events, pending, targets, outcome>>
    /\ UNCHANGED <<clientVars, repoVars, faults, served>>

\* A result that cannot be written ends the cycle: the rest of the batch gets
\* no result either.
WriteFails ==
    /\ CanFault
    /\ batch # {}
    /\ WatcherGoto("results", "absorb")
    /\ batch' = {} /\ targets' = {} /\ outcome' = "none"
    /\ UNCHANGED <<events, pending>>
    /\ UNCHANGED <<clientVars, fileVars, repoVars, served>>

ResultsWritten ==
    /\ batch = {}
    /\ WatcherGoto("results", "absorb")
    /\ targets' = {} /\ outcome' = "none"
    /\ UNCHANGED <<events, pending, batch>>
    /\ UNCHANGED <<clientVars, fileVars, repoVars, faults, served>>

\* Mutant: what arrived during the update is taken for part of it.
AbsorbDiscards ==
    /\ WatcherGoto("absorb", "poll")
    /\ events' = {}
    /\ UNCHANGED <<pending, batch, targets, outcome>>
    /\ UNCHANGED <<clientVars, fileVars, repoVars, faults, served>>

\* The events that arrived during the update start the next debounce window.
Absorb ==
    /\ WatcherGoto("absorb", "poll")
    /\ pending' = pending \cup events
    /\ events' = {}
    /\ UNCHANGED <<batch, targets, outcome>>
    /\ UNCHANGED <<clientVars, fileVars, repoVars, faults, served>>

\* The watcher is killed; its files stay.
Crash ==
    /\ watcher # "down"
    /\ CanFault
    /\ watcher' = "down"
    /\ events' = {} /\ pending' = {} /\ batch' = {} /\ targets' = {} /\ outcome' = "none"
    /\ UNCHANGED <<clientVars, fileVars, repoVars, served>>

\* A new watcher first prunes the results nobody fetched for an hour.
Restart ==
    /\ WatcherGoto("down", "poll")
    /\ \E kept \in SUBSET Clients :
        /\ \A c \in Clients : client[c] = "waiting" => c \in kept
        /\ results' = [c \in Clients |-> IF c \in kept THEN results[c] ELSE "none"]
    /\ UNCHANGED <<queue, processing, events, pending, batch, targets, outcome>>
    /\ UNCHANGED <<clientVars, repoVars, faults, served>>

-----------------------------------------------------------------------------
ClientStep(c) == Submit(c) \/ CountLines(c) \/ Open(c) \/ Append(c) \/ ReadResult(c)

WatchStep ==
    \/ \E p \in Paths : Receive(p)
    \/ Wake \/ Drain \/ ReadBatch \/ Remove \/ Gather
    \/ Extract \/ AlreadyCurrent \/ Index
    \/ \E c \in Clients : WriteResult(c)
    \/ ResultsWritten \/ Absorb

Next ==
    \/ \E c \in Clients : ClientStep(c) \/ Timeout(c) \/ Interrupt(c)
    \/ WatchStep \/ RemoveFails \/ ApplyFails \/ WriteFails
    \/ \E p \in Paths : Edit(p)
    \/ Crash \/ Restart

Spec == Init /\ [][Next]_vars

\* The watch thread keeps running while it is up, and a client that waits
\* keeps polling.  Nobody has to restart a watcher, and no timeout has to
\* fire.
Fairness == WF_vars(WatchStep) /\ \A c \in Clients : WF_vars(ReadResult(c))

FairSpec == Spec /\ Fairness

-----------------------------------------------------------------------------
Asking == {"count", "open", "append"}
Told   == {"ok", "err"}

TypeOK ==
    /\ queue \in {NoFile} \cup SUBSET Clients
    /\ processing \in {NoFile} \cup SUBSET Clients
    /\ handle \in [Clients -> {"none", "queue", "processing", "gone"}]
    /\ client \in [Clients -> {"idle", "waiting", "detached", "timeout", "full", "failed", "interrupted"}
                                \cup Asking \cup Told]
    /\ results \in [Clients -> {"none"} \cup Told]
    /\ watcher \in {"poll", "drain", "read", "remove", "gather", "apply", "index", "results", "absorb", "down"}
    /\ events \in SUBSET Paths /\ pending \in SUBSET Paths /\ targets \in SUBSET Paths
    /\ batch \in SUBSET Clients
    /\ outcome \in {"none"} \cup Told
    /\ disk \in [Paths -> Nat] /\ graph \in [Paths -> Nat] /\ tracker \in [Paths -> Nat]
    /\ faults \in Nat
    /\ wanted \in [Clients -> [Paths -> Nat]]
    /\ served \in [Clients -> {"no", "twice"} \cup Told]
    /\ \A c \in Clients : handle[c] = "queue" => queue # NoFile
    /\ \A c \in Clients : handle[c] = "processing" => processing # NoFile

(* No request is applied twice: neither when the watcher dies between the  *)
(* reading and the removal of the processing file, nor when a line lands   *)
(* in that file late.  A file that cannot be removed is applied twice.     *)
AtMostOnce == \A c \in Clients : served[c] # "twice"

(* A request is in one place at a time: the queue file, the processing     *)
(* file, or the batch of the update in progress.  Only between reading the *)
(* processing file and removing it is it in two.  Wherever it is, it was   *)
(* sent, and it was not served, except in a batch whose results are being  *)
(* written.                                                                *)
OnePlace ==
    /\ Lines(queue) \cap (Lines(processing) \cup batch) = {}
    /\ watcher # "remove" => Lines(processing) \cap batch = {}
    /\ watcher \in {"poll", "drain", "read", "absorb", "down"} => batch = {}
    /\ \A c \in Lines(queue) \cup Lines(processing) : served[c] = "no"
    /\ watcher # "results" => \A c \in batch : served[c] = "no"
    /\ \A c \in Clients : client[c] \in {"idle", "full", "failed"} \cup Asking =>
         c \notin Lines(queue) \cup Lines(processing) \cup batch /\ served[c] = "no"

(* A client that is told that its update succeeded reads a graph at least  *)
(* as new as the files it asked for were when it asked: all of them, when  *)
(* it named none.                                                          *)
Asked(c) == IF Request[c].mode = "paths" THEN Request[c].paths ELSE Paths

OkMeansFresh ==
    \A c \in Clients : client[c] = "ok" => \A p \in Asked(c) : graph[p] >= wanted[c][p]

(* When edits stop, a watcher that neither dies nor fails brings the graph *)
(* up to the files, whatever edits and requests overlapped its updates.    *)
Undisturbed == faults = 0
Converges == []Undisturbed => <>[](graph = disk)

(* A client whose line is in the queue file is told the outcome, unless it *)
(* gives up first or the watcher dies or fails, however many events the    *)
(* watcher absorbs in between.                                             *)
LandedIsAnswered ==
    []Undisturbed => \A c \in Clients :
        client[c] = "waiting" /\ c \in Lines(queue) ~> client[c] \in Told \cup {"timeout", "interrupted"}

(* While a client waits, its request has not vanished: it is in one of the *)
(* two files, in the update in progress, or it was served.                 *)
SubmittedIsKept ==
    \A c \in Clients :
        client[c] = "waiting" => c \in Lines(queue) \cup Lines(processing) \cup batch \/ served[c] # "no"

(* The requests a crash left in the processing file are read again when a  *)
(* watcher is back.                                                        *)
LeftoverIsRecovered ==
    [](watcher = "poll" /\ Lines(processing) # {} => <>(Lines(processing) = {}))

-----------------------------------------------------------------------------
(* The queue implements UpdateRequests: a request is accepted while it is  *)
(* in a file or in the update in progress, and what the client prints is   *)
(* the abstract answer.                                                    *)
StageOf(c) ==
    IF served[c] # "no" THEN served[c]
    ELSE IF c \in Lines(queue) \cup Lines(processing) \cup batch THEN "accepted"
    ELSE IF client[c] \in {"waiting", "detached", "timeout", "interrupted"} THEN "lost"
    ELSE "new"

AnswerOf(c) == IF client[c] \in Told THEN client[c] ELSE "none"

Abstract == INSTANCE UpdateRequests WITH
    stage <- [c \in Clients |-> StageOf(c)],
    answer <- [c \in Clients |-> AnswerOf(c)]

AbstractSpec == Abstract!Spec

=============================================================================
