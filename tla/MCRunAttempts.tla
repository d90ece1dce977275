---------------------------- MODULE MCRunAttempts ----------------------------
(* TLC instances of RunAttempts. *)
EXTENDS RunAttempts, TLC

CONSTANTS p1, p2

Symmetry == Permutations(Mortal)
=============================================================================
