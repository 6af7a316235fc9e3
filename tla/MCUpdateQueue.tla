---------------------------- MODULE MCUpdateQueue ----------------------------
(* Instances of UpdateQueue for TLC: which client asks for what.           *)
EXTENDS UpdateQueue, TLC

CONSTANTS c1, c2, c3, p1, p2

PathsRequest(ps) == [mode |-> "paths", paths |-> ps]
DiffRequest == [mode |-> "hash_diff", paths |-> {}]
SinceRequest == [mode |-> "since", paths |-> {}]

\* Every mode in one batch; the client without --no-wait last.
MixedRequest == (c1 :> PathsRequest({p1})) @@ (c2 :> DiffRequest) @@ (c3 :> SinceRequest)

\* Two clients that name files, one of them both files.
PathsOnlyRequest == (c1 :> PathsRequest({p1})) @@ (c2 :> PathsRequest({p1, p2}))

\* Two clients that name the same file.
SameFileRequest == (c1 :> PathsRequest({p1})) @@ (c2 :> PathsRequest({p1}))

\* One plain `rgctl update`.
DiffOnlyRequest == (c1 :> DiffRequest)
=============================================================================
