----------------------------- MODULE MCCallGraph -----------------------------
(* Instances of CallGraph for TLC: what the files may contain.             *)
EXTENDS CallGraph, TLC

CONSTANTS a, b, c, m, n

\* No file, m alone or with a call, n alone or with a call, both.
SomeSources ==
    { << >>, m :> {}, m :> {n}, n :> {}, n :> {m},
      (m :> {n}) @@ (n :> {}), (m :> {}) @@ (n :> {}) }
=============================================================================
