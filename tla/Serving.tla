------------------------------- MODULE Serving -------------------------------
(***************************************************************************)
(* `rgctl serve` on top of FullPipeline (src/cli/http_serve.rs): a server  *)
(* that answers queries from a graph it holds in memory.  A loop of it     *)
(* reloads the graph when the digest in the status document of the         *)
(* pipeline is not the one it saw last; it does not look at the snapshot   *)
(* to see whether there is anything to reload.                             *)
(***************************************************************************)
EXTENDS FullPipeline

CONSTANT Absent     \* no such digest was seen: distinct from every digest

ASSUME AbsentAssumption == Absent \notin Digest

VARIABLES
    up,         \* the server runs
    served,     \* the graph it answers from
    last,       \* last_digest of pipeline_watch_loop
    polled      \* the digest of the status document it is reloading for

server == <<up, served, last, polled>>
allVars == <<vars, server>>

ServeInit == Init /\ up = FALSE /\ served = None /\ last = None /\ polled = Absent

\* The server starts: it loads the graph, if there is one.
Start ==
    /\ ~up /\ up' = TRUE
    /\ served' = snap
    /\ last' = None /\ polled' = Absent
    /\ UNCHANGED vars

Stop ==
    /\ up /\ up' = FALSE
    /\ served' = None /\ last' = None /\ polled' = Absent
    /\ UNCHANGED vars

\* The loop reads the status document; with another digest it will reload.
Poll ==
    /\ up /\ polled = Absent
    /\ status.digest # last
    /\ snap # None
    /\ polled' = status.digest
    /\ UNCHANGED <<vars, up, served, last>>

\* Mutant: a graph that is loaded is never replaced.
LoadOnce ==
    /\ polled # Absent
    /\ served' = IF served = None THEN snap ELSE served
    /\ last' = polled /\ polled' = Absent
    /\ UNCHANGED <<vars, up>>

\* It opens the snapshot that is there by then, and replaces the graph.
Reload ==
    /\ polled # Absent
    /\ served' = snap
    /\ last' = polled /\ polled' = Absent
    /\ UNCHANGED <<vars, up>>

Serve == Start \/ Stop \/ Poll \/ Reload

ServeNext == Serve \/ (Next /\ UNCHANGED server)

\* The loop polls every 400 ms and a command that runs goes on.  Nobody has to
\* start one, and nothing has to fail.
Fairness ==
    /\ WF_allVars(Poll) /\ WF_allVars(Reload)
    /\ WF_allVars(Run /\ UNCHANGED server)
    /\ WF_allVars((DropSidecars \/ UpdateTracker) /\ UNCHANGED server)

ServeSpec == ServeInit /\ [][ServeNext]_allVars /\ Fairness

-----------------------------------------------------------------------------
ServeTypeOK ==
    /\ TypeOK
    /\ up \in BOOLEAN
    /\ {served, last} \subseteq Digest
    /\ polled \in Digest \cup {Absent}

\* When the status document names the snapshot that is on disk, a server comes
\* to answer from that snapshot, unless it is replaced or the server stops.
AnnouncedIsServed ==
    (up /\ snap # None /\ status.digest = snap)
        ~> (~up \/ served = snap \/ status.digest # snap)

\* A server comes to answer from the snapshot that an update has written next
\* to it ("Live refresh while serving | `rgctl serve --watch`",
\* docs/agents/USER_AGENTS_TEMPLATE.md:86).
UpdateIsServed ==
    \A s \in Snapshot :
        (up /\ upd = "sidecars" /\ snap = s) ~> (~up \/ served = s \/ snap # s)
=============================================================================
