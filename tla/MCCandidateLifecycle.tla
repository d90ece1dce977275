------------------------ MODULE MCCandidateLifecycle ------------------------
(* TLC instances of CandidateLifecycle. *)
EXTENDS CandidateLifecycle

CONSTANTS w1, f1
=============================================================================
