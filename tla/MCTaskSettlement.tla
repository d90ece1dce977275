-------------------------- MODULE MCTaskSettlement --------------------------
(* TLC instances of TaskSettlement. *)
EXTENDS TaskSettlement

CONSTANTS r1, r2, c1
=============================================================================
