---------------------------- MODULE MCWorkerLoop ----------------------------
(* Small instances of WorkerLoop for TLC. *)
EXTENDS WorkerLoop, TLC

\* Clients are interchangeable (used by the safety runs only).
ClientSymmetry == Permutations(Conns)
=============================================================================
