--------------------------- MODULE MCAutopilotStop ---------------------------
(* TLC instances of AutopilotStop. *)
EXTENDS AutopilotStop, TLC

CONSTANTS s1, s2, k1, k2, o1

\* The pids that are taken over: the first supervisor's and the first worker's.
ReusedPids == {Sup(s1), Worker(k1)}
=============================================================================
