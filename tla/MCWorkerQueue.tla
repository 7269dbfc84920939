---------------------------- MODULE MCWorkerQueue ----------------------------
(* Model-checking instances of WorkerQueue. *)
EXTENDS WorkerQueue, TLC

\* Submitters are interchangeable, and so are the worker tasks.
QueueSymmetry == Permutations(Submitters) \cup Permutations(Workers)
=============================================================================
