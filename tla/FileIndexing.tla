---------------------------- MODULE FileIndexing ----------------------------
(***************************************************************************)
(* What the indexing of a repository promises, whatever the number of      *)
(* threads: every discovered file is merged into the graph or reported as  *)
(* failed, once, in any order, and the graph is published when no file is  *)
(* left.  An indexing may be given up at any time.                         *)
(***************************************************************************)
CONSTANT Files

VARIABLES
    pending,        \* the files still to be merged or reported
    merged,         \* the files merged so far
    failed,         \* the files reported as failed so far
    published       \* the files of the graph last published

vars == <<pending, merged, failed, published>>

Init ==
    /\ pending = {} /\ merged = {} /\ failed = {}
    /\ published = {}

Begin ==
    /\ pending = {}
    /\ pending' \in SUBSET Files
    /\ merged' = {} /\ failed' = {}
    /\ UNCHANGED published

Merge(f) ==
    /\ f \in pending
    /\ pending' = pending \ {f}
    /\ merged' = merged \cup {f}
    /\ UNCHANGED <<failed, published>>

Fail(f) ==
    /\ f \in pending
    /\ pending' = pending \ {f}
    /\ failed' = failed \cup {f}
    /\ UNCHANGED <<merged, published>>

Publish ==
    /\ pending = {}
    /\ published' = merged
    /\ UNCHANGED <<pending, merged, failed>>

GiveUp ==
    /\ pending' = {} /\ merged' = {} /\ failed' = {}
    /\ UNCHANGED published

Next ==
    \/ Begin
    \/ \E f \in Files : Merge(f) \/ Fail(f)
    \/ Publish
    \/ GiveUp

Spec == Init /\ [][Next]_vars
=============================================================================
