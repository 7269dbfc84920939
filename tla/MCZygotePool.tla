---------------------------- MODULE MCZygotePool ----------------------------
(* Model-checking instances of ZygotePool. *)
EXTENDS ZygotePool, TLC

\* The calls are interchangeable: they differ only by when they start.
CallSymmetry == Permutations(Callers)
=============================================================================
