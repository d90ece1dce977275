---------------------------- MODULE MCTaskLocks ----------------------------
(* TLC instances of TaskLocks. *)
EXTENDS TaskLocks, TLC

\* Runs are interchangeable when all or none of them are runtime-owned and
\* all or none of them are mortal.
Symmetry == Permutations(Runs)
=============================================================================
