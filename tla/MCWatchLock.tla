---------------------------- MODULE MCWatchLock ----------------------------
(* Finite instances of WatchLock for TLC.                                  *)
EXTENDS WatchLock, TLC

\* The runs of one kind of command are interchangeable.
Symmetry == Permutations(Watchers) \cup Permutations(Updaters)
=============================================================================
