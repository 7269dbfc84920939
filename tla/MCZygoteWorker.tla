--------------------------- MODULE MCZygoteWorker ---------------------------
(* Model-checking instances of ZygoteWorker. *)
EXTENDS ZygoteWorker, TLC

\* Any free pid may be given out: pids are interchangeable.
PidSymmetry == Permutations(Pids)
=============================================================================
