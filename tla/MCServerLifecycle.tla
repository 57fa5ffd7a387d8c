-------------------------- MODULE MCServerLifecycle --------------------------
(* Small instances of ServerLifecycle for TLC. *)
EXTENDS ServerLifecycle, TLC

\* Instances are interchangeable, and so are PIDs (used by the safety runs only).
Interchangeable == Permutations(Instances) \cup Permutations(Pids)
=============================================================================
