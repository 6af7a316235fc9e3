------------------------------ MODULE CallGraph ------------------------------
(***************************************************************************)
(* What updates do to the call graph of the snapshot: the extraction and   *)
(* resolution of calls (crates/rgctl-extraction/src/graph_builder.rs), the *)
(* cascade to callers (crates/rgctl-incremental/src/cascade.rs), the       *)
(* compaction (crates/rgctl-graph/src/graph_compactor.rs) and the          *)
(* rebuilding of relations (crates/rgctl-incremental/src/updater.rs).      *)
(*                                                                         *)
(* Each command is one step here; its steps, crashes and concurrent edits  *)
(* are IncrementalUpdate's subject.  All files are in the root directory   *)
(* of the repository, where the paths of a change set match the paths of   *)
(* nodes.  Symbols are plain functions, without qualifiers or type hints.  *)
(***************************************************************************)
EXTENDS Naturals, FiniteSets

CONSTANTS
    Files,          \* source files
    Names,          \* names of functions
    Sources,        \* what a file may contain, see Source
    Depth,          \* --cascade-depth, 1 by default
    DistinctNames   \* environment: no name is defined in two files

\* A file defines functions, each with the names it calls; a file that
\* defines nothing stands for one that does not exist.
Source == UNION {[defs -> SUBSET Names] : defs \in SUBSET Names}

ASSUME SourcesAssumption == Sources \subseteq Source
ASSUME DepthAssumption == Depth \in Nat
ASSUME EnvironmentAssumption == DistinctNames \in BOOLEAN

VARIABLES
    source,         \* the source files
    indexed,        \* the source files as file_hashes.json records them
    symbols,        \* the nodes of the snapshot
    calls           \* its edges

vars == <<source, indexed, symbols, calls>>

\* The id of a node is derived from its file and its name.
Symbol == Files \X Names

-----------------------------------------------------------------------------
(* Extraction and resolution.                                              *)

Defined(files) == {x \in Symbol : x[1] \in files /\ x[2] \in DOMAIN source[x[1]]}

\* <<x, n>>: the function x calls something named n.
CallSites(files) ==
    {c \in Defined(files) \X Names : c[2] \in source[c[1][1]][c[1][2]]}

Named(syms, n) == {y \in syms : y[2] = n}

\* resolve_symbol_tracked: a function of the file, or the only function of
\* that name; an ambiguous name is not resolved.
Resolves(syms, x, y) ==
    /\ y \in syms
    /\ \/ y[1] = x[1]
       \/ Named(syms, y[2]) = {y}

\* The calls that building a graph from some files finds.
Extracted(files) ==
    {e \in Defined(files) \X Defined(files) :
        <<e[1], e[2][2]>> \in CallSites(files) /\ Resolves(Defined(files), e[1], e[2])}

Unambiguous(src) ==
    \A f, g \in Files : f # g => DOMAIN src[f] \cap DOMAIN src[g] = {}

-----------------------------------------------------------------------------
Init ==
    /\ source \in [Files -> Sources]
    /\ DistinctNames => Unambiguous(source)
    /\ indexed = source
    /\ symbols = Defined(Files)
    /\ calls = Extracted(Files)

\* Files are edited, created and deleted; functions move between them.
Edit(f, s) ==
    /\ s # source[f]
    /\ source' = [source EXCEPT ![f] = s]
    /\ UNCHANGED <<indexed, symbols, calls>>

Dirty == {f \in Files : source[f] # indexed[f]}

\* The files that define a function that calls into some files.
CallersOf(files) == {f \in Files : \E e \in calls : e[1][1] = f /\ e[2][1] \in files}

\* Mutant: only the files that changed are extracted.
DeltaUncascaded == Dirty

\* expand_extract_paths: the files from which a chain of at most Depth calls
\* leads to a file that changed.
Delta ==
    {f \in Files : \E d \in 0..Depth : \E chain \in [0..d -> Files] :
        /\ chain[0] \in Dirty /\ chain[d] = f
        /\ \A i \in 1..d : chain[i] \in CallersOf({chain[i - 1]})}

\* Mutant: a node of the base goes only when it is replaced.
KeptUnlessReplaced == symbols \ Defined(Delta)

\* The nodes of the base that survive: those of the other files.
Kept == {x \in symbols : x[1] \notin Delta}
Alive == Kept \cup Defined(Delta)

\* Mutant: only the target of an edge is looked up.
KeptCallsByTarget == {e \in calls : e[2] \in Alive}

\* Mutant: the source of an edge only has to be alive.
KeptCallsAnySource == {e \in calls : e[1] \in Alive /\ e[2] \in Alive}

\* An edge of the base survives if its source does and its target is alive.
KeptCalls == {e \in calls : e[1] \in Kept /\ e[2] \in Alive}

\* resolve_symbol of rebuild_relations: the path is relative where the index
\* has absolute ones, so any function of the name is taken, the first in the
\* order of a hash map.
Choices ==
    LET names == {x[2] : x \in Alive}
    IN {choice \in [names -> Alive] : \A n \in names : choice[n][2] = n}

\* rebuild_relations: the calls of the extracted files into the whole graph.
Rebuilt(choice) ==
    {<<choice[c[1][2]], choice[c[2]]>> : c \in {d \in CallSites(Delta) : d[2] \in DOMAIN choice}}

\* The graph of the delta has the nodes that are alive.
Update ==
    /\ Dirty # {}
    /\ symbols' = Alive
    /\ \E choice \in Choices : calls' = KeptCalls \cup Extracted(Delta) \cup Rebuilt(choice)
    /\ indexed' = source
    /\ UNCHANGED source

\* A full rebuild.
Discover ==
    /\ symbols' = Defined(Files)
    /\ calls' = Extracted(Files)
    /\ indexed' = source
    /\ UNCHANGED source

Next ==
    \/ \E f \in Files, s \in Sources : Edit(f, s)
    \/ (DistinctNames => Unambiguous(source)) /\ (Update \/ Discover)

Spec == Init /\ [][Next]_vars
-----------------------------------------------------------------------------
(* No edge dangles, whatever is compacted and rebuilt.                     *)
TypeOK ==
    /\ source \in [Files -> Source]
    /\ indexed \in [Files -> Source]
    /\ symbols \subseteq Symbol
    /\ calls \subseteq symbols \X symbols

(* The nodes of the snapshot are the functions of the indexed files: none  *)
(* survives the file that defined it, none is lost with the file of        *)
(* another.                                                                *)
SymbolsAreIndexed == symbols = {x \in Symbol : x[2] \in DOMAIN indexed[x[1]]}

(* Every edge is a call that its source makes in the indexed files: an     *)
(* omitted call stays omitted.                                             *)
NoPhantomCalls == \A e \in calls : e[2][2] \in indexed[e[1][1]][e[1][2]]

(* An update does not lose a call that was linked and can be: if the       *)
(* function that is called moves to another file, the edge follows.        *)
CallsStayLinked ==
    [][Update => \A e \in Extracted(Files) :
        (\E y \in symbols : y[2] = e[2][2] /\ <<e[1], y>> \in calls) => e \in calls']_vars

(* Whatever full discover would link is linked.                            *)
NoMissingCalls == indexed = source => Extracted(Files) \subseteq calls

=============================================================================
