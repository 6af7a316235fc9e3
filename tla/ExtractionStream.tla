-------------------------- MODULE ExtractionStream --------------------------
(***************************************************************************)
(* The indexing of a repository by parallel workers: the threads that      *)
(* extract files and the bounded channel to the thread that merges them    *)
(* (crates/rgctl-pipeline/src/stream.rs, pipeline.rs), the cache of        *)
(* extracted facts they share (crates/rgctl-extraction/src/facts_cache.rs, *)
(* extractor.rs) and the hashes recorded at the end                        *)
(* (crates/rgctl-incremental/src/file_tracker.rs).                         *)
(*                                                                         *)
(* Paths are numbers, ordered as paths are sorted.  The facts of a file    *)
(* are what the extraction of its content depends on: the content, the     *)
(* stem of its name, the directory that relative links start from and the  *)
(* path in the locations.  A panic ends the process (panic = "abort").     *)
(***************************************************************************)
EXTENDS Integers, Sequences, FiniteSets, SequencesExt

CONSTANTS
    Files,          \* the paths
    Stem,           \* the stem of each path
    Contents,       \* what a file may contain
    None,           \* no content, or no facts
    Broken,         \* the contents a plugin does not extract
    Empty,          \* the contents without a symbol or relation in them
    Linked,         \* environment: contents with links relative to the file
    Workers,        \* the threads of the pool
    Capacity,       \* of the channel, 1024 by default
    MaxEdits,       \* bound on the edits of files
    MaxUnread,      \* bound on the reads that fail
    MaxRuns         \* bound on the commands

ASSUME FilesAssumption == Files \subseteq Nat /\ IsFiniteSet(Files)
ASSUME StemAssumption == DOMAIN Stem = Files
ASSUME ContentsAssumption == Broken \subseteq Contents /\ Linked \subseteq Contents
ASSUME EmptyAssumption == Empty \subseteq Contents \ Linked
ASSUME CapacityAssumption == Capacity \in Nat \ {0}

Facts == [content : Contents, stem : {Stem[f] : f \in Files},
          from : Files, file : Files]

ASSUME NoneAssumption == None \notin Contents /\ None \notin Facts

\* What the workers send: a FileExtraction or an ExtractionFailure.  A content
\* is its own hash.
Extraction == [path : Files, ok : {TRUE}, hash : Contents, facts : Facts]
Failure == [path : Files, ok : {FALSE}]

VARIABLES
    source,         \* the files, None for one that does not exist
    pc,             \* where the command is
    listed,         \* the files discover listed to record their hashes
    files,          \* the files the pipeline listed to extract them
    caching,        \* does this command use the cache?
    todo,           \* the files no worker has taken
    worker,         \* what each worker is doing
    channel,        \* results sent and not received
    cache,          \* FactsCache.entries, by hash of content
    saved,          \* cache/facts.bin
    tails,          \* the files merged, in the order they arrived
    merged,         \* the facts merged for each of them
    hashes,         \* StreamStats.file_hashes
    failures,       \* StreamStats.extraction_failures
    graph,          \* the snapshot
    recorded,       \* file_hashes.json
    outcome,        \* how the last command ended
    edits, unread, runs

command == <<listed, files, caching, todo, worker, channel, cache, tails, merged,
             hashes, failures>>
stores == <<saved, graph, recorded>>
counters == <<edits, unread, runs>>
vars == <<source, pc, outcome, command, stores, counters>>

Idle == [at |-> "idle"]
NoCache == [c \in Contents |-> None]
Unmerged == [f \in Files |-> None]
Unhashed == [f \in Files |-> None]

\* What extracting the content c of the file f gives.
Fresh(f, c) == [content |-> c, stem |-> Stem[f], from |-> f, file |-> f]

\* What earlier commands may have left in cache/facts.bin: facts of any file
\* that had the content once.
Earlier == {facts \in [Contents -> Facts \cup {None}] :
                \A c \in Contents : facts[c] # None =>
                    c \notin Broken /\ \E f \in Files : facts[c] = Fresh(f, c)}

-----------------------------------------------------------------------------
Init ==
    /\ source \in [Files -> Contents \cup {None}]
    /\ pc = "idle" /\ outcome = "none"
    /\ listed = {} /\ files = {} /\ caching = FALSE /\ todo = {}
    /\ worker = [w \in Workers |-> Idle] /\ channel = << >>
    /\ cache = NoCache /\ tails = << >> /\ merged = Unmerged
    /\ hashes = Unhashed /\ failures = << >>
    /\ saved \in Earlier
    /\ graph = [nodes |-> Unmerged, order |-> << >>]
    /\ recorded = Unhashed
    /\ edits = 0 /\ unread = 0 /\ runs = 0

\* A file is edited, created or deleted, at any time.
Edit(f, c) ==
    /\ edits < MaxEdits
    /\ c # source[f]
    /\ source' = [source EXCEPT ![f] = c]
    /\ edits' = edits + 1
    /\ UNCHANGED <<pc, outcome, command, stores, unread, runs>>

\* The process ends, with all it has in memory.
Ends(how) ==
    /\ pc' = "idle" /\ outcome' = how
    /\ listed' = {} /\ files' = {} /\ caching' = FALSE /\ todo' = {}
    /\ worker' = [w \in Workers |-> Idle] /\ channel' = << >>
    /\ cache' = NoCache /\ tails' = << >> /\ merged' = Unmerged
    /\ hashes' = Unhashed /\ failures' = << >>
    /\ UNCHANGED <<source, saved, graph, counters>>

Present == {f \in Files : source[f] # None}

\* discover_impl lists the files, and will record their hashes.
Begin ==
    /\ pc = "idle"
    /\ runs < MaxRuns
    /\ pc' = "list"
    /\ listed' = Present
    /\ runs' = runs + 1
    /\ outcome' = "none"
    /\ UNCHANGED <<source, files, caching, todo, worker, channel, cache, tails,
                   merged, hashes, failures, stores, edits, unread>>

\* The pipeline lists them again and loads the cache, unless the command is
\* --force, or there is no cache and the repository is huge.
StartExtraction(useCache) ==
    /\ pc = "list"
    /\ pc' = "extract"
    /\ files' = Present
    /\ todo' = Present
    /\ caching' = useCache
    /\ cache' = IF useCache THEN saved ELSE NoCache
    /\ UNCHANGED <<source, outcome, listed, worker, channel, tails, merged,
                   hashes, failures, stores, counters>>

-----------------------------------------------------------------------------
(* A worker: reads a file, looks its content up, or else parses it, and    *)
(* sends what it has, waiting for room in the channel.                     *)

working == <<source, pc, outcome, listed, files, caching, tails, merged,
             hashes, failures, stores, edits, runs>>

Goes(w, doing) == worker' = [worker EXCEPT ![w] = doing]

Sending(result) == [at |-> "send", result |-> result]
Extracted(f, hash, facts) ==
    Sending([path |-> f, ok |-> TRUE, hash |-> hash, facts |-> facts])
Failed(f) == Sending([path |-> f, ok |-> FALSE])

Read(w, f) ==
    /\ worker[w].at = "idle" /\ f \in todo
    /\ source[f] # None
    /\ todo' = todo \ {f}
    /\ Goes(w, [at |-> "read", file |-> f, content |-> source[f]])
    /\ UNCHANGED <<working, channel, cache, unread>>

\* The file is gone, or cannot be read.
ReadFails(w, f) ==
    /\ worker[w].at = "idle" /\ f \in todo
    /\ \/ source[f] = None /\ UNCHANGED unread
       \/ source[f] # None /\ unread < MaxUnread /\ unread' = unread + 1
    /\ todo' = todo \ {f}
    /\ Goes(w, Failed(f))
    /\ UNCHANGED <<working, channel, cache>>

\* Mutant: the facts of a file of another name are reused.
UsableAnywhere(hit, f) == hit # None

\* Facts of the same content are reused if they name no file, or one of the
\* same stem.
Usable(hit, f) ==
    /\ hit # None
    /\ hit.content \in Empty \/ Stem[hit.file] = Stem[f]

Hit(w) ==
    LET f == worker[w].file
        c == worker[w].content
    IN  /\ worker[w].at = "read"
        /\ caching
        /\ Usable(cache[c], f)
        /\ Goes(w, Extracted(f, c, [cache[c] EXCEPT !.file = f]))
        /\ UNCHANGED <<working, channel, cache, todo, unread>>

Miss(w) ==
    /\ worker[w].at = "read"
    /\ caching => ~Usable(cache[worker[w].content], worker[w].file)
    /\ Goes(w, [worker[w] EXCEPT !.at = "parse"])
    /\ UNCHANGED <<working, channel, cache, todo, unread>>

Parse(w) ==
    LET f == worker[w].file
        c == worker[w].content
    IN  /\ worker[w].at = "parse"
        /\ IF c \in Broken
           THEN /\ Goes(w, Failed(f))
                /\ UNCHANGED cache
           ELSE /\ Goes(w, Extracted(f, c, Fresh(f, c)))
                /\ cache' = IF caching THEN [cache EXCEPT ![c] = Fresh(f, c)]
                                       ELSE cache
        /\ UNCHANGED <<working, channel, todo, unread>>

\* Mutant: what does not fit in the channel is dropped.
SendOrDrop(w) ==
    /\ worker[w].at = "send"
    /\ channel' = IF Len(channel) < Capacity
                  THEN Append(channel, worker[w].result) ELSE channel
    /\ Goes(w, Idle)
    /\ UNCHANGED <<working, cache, todo, unread>>

\* Mutant: the channel has no bound.
SendAnyway(w) ==
    /\ worker[w].at = "send"
    /\ channel' = Append(channel, worker[w].result)
    /\ Goes(w, Idle)
    /\ UNCHANGED <<working, cache, todo, unread>>

Send(w) ==
    /\ worker[w].at = "send"
    /\ Len(channel) < Capacity
    /\ channel' = Append(channel, worker[w].result)
    /\ Goes(w, Idle)
    /\ UNCHANGED <<working, cache, todo, unread>>

-----------------------------------------------------------------------------
(* The thread that merges.                                                 *)

merging == <<source, outcome, listed, files, caching, todo, worker, cache, counters>>

\* Pass 1: the symbols enter the graph as they arrive, the relations wait.
Receive ==
    /\ pc = "extract"
    /\ channel # << >>
    /\ channel' = Tail(channel)
    /\ LET r == Head(channel)
       IN  IF r.ok
           THEN /\ tails' = Append(tails, r.path)
                /\ merged' = [merged EXCEPT ![r.path] = r.facts]
                /\ hashes' = [hashes EXCEPT ![r.path] = r.hash]
                /\ UNCHANGED failures
           ELSE /\ failures' = Append(failures, r.path)
                /\ UNCHANGED <<tails, merged, hashes>>
    /\ UNCHANGED <<merging, pc, stores>>

\* Mutant: the receiver keeps a sender of its own.
NeverClosed == FALSE

\* The sender is dropped when no worker has anything left to do.
Closed == todo = {} /\ \A w \in Workers : worker[w].at = "idle"

\* Mutant: the relations are added in the order their files arrived.
AsArrived(arrived) == arrived

\* The order in which pass 2 adds the relations of the files: sorted by path.
PathOrder(arrived) ==
    LET places == 1..Len(arrived)
    IN  CHOOSE order \in {[i \in places |-> arrived[p[i]]] : p \in Bijection(places, places)} :
            \A i, j \in places : i < j => order[i] <= order[j]

\* Mutant: the receiver stops when every file is taken and it sees no result.
WriteGraphEarly ==
    /\ pc = "extract"
    /\ channel = << >> /\ todo = {}
    /\ graph' = [nodes |-> merged, order |-> PathOrder(tails)]
    /\ pc' = "save"
    /\ UNCHANGED <<merging, channel, tails, merged, hashes, failures, saved, recorded>>

\* Pass 2, and the snapshot.
WriteGraph ==
    /\ pc = "extract"
    /\ channel = << >> /\ Closed
    /\ graph' = [nodes |-> merged, order |-> PathOrder(tails)]
    /\ pc' = "save"
    /\ UNCHANGED <<merging, channel, tails, merged, hashes, failures, saved, recorded>>

\* cache/facts.bin is replaced as a whole; a failure is a warning.
SaveFacts ==
    /\ pc = "save"
    /\ saved' \in (IF caching THEN {saved, cache} ELSE {saved})
    /\ pc' = "track"
    /\ UNCHANGED <<merging, channel, tails, merged, hashes, failures, graph, recorded>>

\* Mutant: every file is hashed when its hash is recorded.
HashNow(f) == source[f]

\* The hash of the bytes that were extracted, or else of the file as it is.
HashOf(f) == IF hashes[f] # None THEN hashes[f] ELSE source[f]

\* index_files_with_mapping: fails if there is nothing to hash.
Track ==
    /\ pc = "track"
    /\ IF \A f \in listed : HashOf(f) # None
       THEN /\ recorded' = [f \in Files |-> IF f \in listed THEN HashOf(f) ELSE None]
            /\ Ends("ok")
       ELSE /\ Ends("error")
            /\ UNCHANGED recorded

\* The process is killed.
Kill ==
    /\ pc # "idle"
    /\ Ends("killed")
    /\ UNCHANGED recorded

-----------------------------------------------------------------------------
Step(w) ==
    \/ \E f \in Files : Read(w, f) \/ ReadFails(w, f)
    \/ Hit(w)
    \/ Miss(w)
    \/ Parse(w)
    \/ Send(w)

Finish == Receive \/ WriteGraph \/ SaveFacts \/ Track

Next ==
    \/ \E f \in Files, c \in Contents \cup {None} : Edit(f, c)
    \/ Begin
    \/ \E b \in BOOLEAN : StartExtraction(b)
    \/ \E w \in Workers : Step(w)
    \/ Finish
    \/ Kill

Fairness ==
    /\ WF_vars(\E b \in BOOLEAN : StartExtraction(b))
    /\ \A w \in Workers : WF_vars(Step(w))
    /\ WF_vars(Finish)

Spec == Init /\ [][Next]_vars /\ Fairness

-----------------------------------------------------------------------------
Result == Extraction \cup Failure

Doing == [at : {"idle"}]
         \cup [at : {"read", "parse"}, file : Files, content : Contents]
         \cup [at : {"send"}, result : Result]

\* The variables have the values the code gives them; the channel never
\* holds more than its capacity.
StreamTypeOK ==
    /\ source \in [Files -> Contents \cup {None}]
    /\ pc \in {"idle", "list", "extract", "save", "track"}
    /\ outcome \in {"none", "ok", "error", "killed"}
    /\ listed \subseteq Files /\ files \subseteq Files /\ todo \subseteq files
    /\ caching \in BOOLEAN
    /\ worker \in [Workers -> Doing]
    /\ channel \in Seq(Result) /\ Len(channel) <= Capacity
    /\ cache \in [Contents -> Facts \cup {None}]
    /\ saved \in [Contents -> Facts \cup {None}]
    /\ tails \in Seq(Files) /\ failures \in Seq(Files)
    /\ merged \in [Files -> Facts \cup {None}]
    /\ hashes \in [Files -> Contents \cup {None}]
    /\ DOMAIN graph = {"nodes", "order"}
    /\ graph.nodes \in [Files -> Facts \cup {None}]
    /\ recorded \in [Files -> Contents \cup {None}]
    /\ edits \in Nat /\ unread \in Nat /\ runs \in Nat

\* What is merged for a file is what extracting the bytes that were read
\* from it gives, though most of it may have been extracted by another
\* worker, from another file, in an earlier command, and though the file may
\* have changed since (Extractor::extract_file_with_source).
MergedIsExtracted ==
    \A f \in Files : merged[f] # None =>
        /\ merged[f].content = hashes[f]
        /\ merged[f].file = f
        /\ merged[f].content \notin Empty => merged[f].stem = Stem[f]
        /\ merged[f].content \in Linked => merged[f].from = f

\* After a command, the hash recorded for a file whose symbols are in the
\* graph is of the bytes they were extracted from: an edit made while the
\* command ran is a change for the next one (index_files_with_mapping).
RecordedIsMerged ==
    outcome = "ok" => \A f \in Files :
        graph.nodes[f] # None /\ recorded[f] # None
            => recorded[f] = graph.nodes[f].content

\* The relations are added in the order of the paths, each file's once,
\* however the workers were scheduled (populate_pass2).
OrderIsOfPaths ==
    LET order == graph.order
    IN  /\ \A i, j \in 1..Len(order) : i < j => order[i] < order[j]
        /\ {order[i] : i \in 1..Len(order)} = {f \in Files : graph.nodes[f] # None}

\* A file recorded as indexed is in the graph (fails: a file that could not
\* be extracted is recorded all the same, and left alone until it changes).
RecordedIsInGraph ==
    outcome = "ok" => \A f \in Files : recorded[f] # None => graph.nodes[f] # None

\* The stream merges or reports each file once (stream_into_graph).
Indexing == INSTANCE FileIndexing WITH
    pending <- IF pc = "extract"
               THEN files \ (ToSet(tails) \cup ToSet(failures)) ELSE {},
    merged <- ToSet(tails),
    failed <- ToSet(failures),
    published <- {f \in Files : graph.nodes[f] # None}

IndexesEachOnce == Indexing!Spec

\* A command ends, whatever the room in the channel: no worker and no
\* receiver waits for ever.
CommandEnds == pc # "idle" ~> pc = "idle"
=============================================================================
