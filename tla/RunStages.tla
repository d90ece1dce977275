------------------------------ MODULE RunStages ------------------------------
(***************************************************************************)
(* The stage machine of a run (RunStage, LEGAL_STAGE_TRANSITIONS and        *)
(* RunLifecycleStateMachine in src/vibe_loop/orchestration.py): one current *)
(* stage, and for every stage the number of times the run has entered it.   *)
(***************************************************************************)
EXTENDS Naturals

\* Where a run may go from each stage when nothing fails. A worker-owned run
\* goes from implementing to its classification directly.
Legal ==
    [activation     |-> {"workspace"},
     workspace      |-> {"implementing"},
     implementing   |-> {"candidate", "classification"},
     candidate      |-> {"gates"},
     gates          |-> {"review", "remediation", "closure"},
     review         |-> {"remediation", "integration"},
     remediation    |-> {"candidate"},
     closure        |-> {"remediation", "integration"},
     integration    |-> {"provenance"},
     provenance     |-> {"classification"},
     classification |-> {"finalization"},
     finalization   |-> {}]

RunStage == DOMAIN Legal

VARIABLES
    stage,    \* the current stage, "none" before the first
    ordinal   \* times each stage was entered

TypeOK ==
    /\ stage \in RunStage \cup {"none"}
    /\ ordinal \in [RunStage -> Nat]

Init ==
    /\ stage = "none"
    /\ ordinal = [s \in RunStage |-> 0]

\* transition accepts a destination the table lists, and refuses any other.
Accepts(to) ==
    IF stage = "none" THEN to = "activation" ELSE to \in Legal[stage]

Enters(to) ==
    /\ stage' = to
    /\ ordinal' = [ordinal EXCEPT ![to] = @ + 1]

Transition(to) == Accepts(to) /\ Enters(to)

\* fail leaves any stage for the classification, and that for the finalization.
Fail ==
    /\ stage # "none"
    /\ Enters(IF stage \in {"classification", "finalization"}
                THEN "finalization" ELSE "classification")

Next == (\E to \in RunStage : Transition(to)) \/ Fail

Spec == Init /\ [][Next]_<<stage, ordinal>>

\* Main is reached through one approved candidate of a run, however often its
\* stages are repeated: every review and closure had its own gates, those their
\* own candidate, and the integration is entered once.
EachCandidateGated ==
    /\ ordinal["gates"] <= ordinal["candidate"]
    /\ ordinal["review"] + ordinal["closure"] <= ordinal["gates"]
    /\ ordinal["integration"] <= ordinal["review"] + ordinal["closure"]
    /\ ordinal["integration"] <= 1
=============================================================================
