------------------------- MODULE MCIncrementalUpdate -------------------------
(* Instances of IncrementalUpdate for TLC: the files and the commands.     *)
EXTENDS IncrementalUpdate, TLC

CONSTANTS a, b

All(mode) == [mode |-> mode, paths |-> {}, filter |-> Files]
Only(mode, files) == [mode |-> mode, paths |-> {}, filter |-> files]
Named(files) == [mode |-> "files", paths |-> files, filter |-> Files]

\* Two files with different names, one of which may end with the other, or of
\* the same name.
DifferentNames == (a :> "a.rs") @@ (b :> "b.rs")
SuffixNames == (a :> "a.rs") @@ (b :> "ba.rs")
SameNames == (a :> "lib.rs") @@ (b :> "lib.rs")

\* The path of no file ends with that of the other, or that of b with that of a.
OwnPaths == [f \in Files |-> {f}]
PathsOfA == [f \in Files |-> IF f = b THEN {a, b} ELSE {f}]

\* No file calls another; b calls within itself and is called by a.
NoCallers == [f \in Files |-> {}]
InnerCalls == [f \in Files |-> IF f = b THEN {a, b} ELSE {}]

\* Every command that compares the whole tree, some for one language.
WholeTree == {All("diff"), All("force"), All("discover"), All("rebuild"), Only("diff", {a})}
Unfiltered == {All("diff"), All("force"), All("discover"), All("rebuild")}
DiffOnly == {All("diff"), All("discover")}
OneFile == {Named({a}), All("discover")}
NamedAndRebuild == {Named({a}), All("diff"), All("rebuild")}
=============================================================================
