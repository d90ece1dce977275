-------------------------- MODULE MCMainIntegration --------------------------
EXTENDS MainIntegration, TLC

CONSTANTS r1, r2, a1, o1

MCRuns   == {r1, r2}
MCAgents == {a1}
MCOthers == {o1}
MCMortal == {r1}
MCPolicies == {[push |-> TRUE, sync |-> FALSE], [push |-> FALSE, sync |-> TRUE]}

\* Bound: either the agent-owned run or the outsider interferes, not both; and
\* what follows on a lock taken from its owner is not pursued.
OneOutsider == (place[a1] = "idle" \/ seen = {}) /\ ~undercut
=============================================================================
