--------------------------- MODULE MCBudgetLedger ---------------------------
(* TLC instances of BudgetLedger. *)
EXTENDS BudgetLedger, TLC

CONSTANTS run1, run2, review1, remedy1, sup1, sup2, total, hourly

\* Two supervisors share a cumulative cap; a windowed cap covers one of them
\* and the review launch.
MCOwner == [l \in Launches |-> IF l \in {run2} THEN sup2 ELSE sup1]
MCCovered == [m \in Limits |-> IF m = total THEN Launches ELSE Launches \ {run2}]
MCCap == [m \in Limits |-> IF m = total THEN 5 ELSE 3]
MCWindow == [m \in Limits |-> IF m = total THEN 0 ELSE 1]
MCDeclared == [l \in Launches |-> 2]
MCFailSafe == [l \in Launches |-> 2]

\* The caps of these instances are to hold.
ASSUME MCNoOveruse == NoOveruse
=============================================================================
