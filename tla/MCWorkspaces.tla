---------------------------- MODULE MCWorkspaces ----------------------------
(* TLC instances of Workspaces. *)
EXTENDS Workspaces, TLC

CONSTANTS r1, r2, c1, c2, c3

Symmetry == Permutations(Runs) \cup Permutations(Changes)
=============================================================================
