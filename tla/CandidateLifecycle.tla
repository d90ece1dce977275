-------------------------- MODULE CandidateLifecycle --------------------------
(***************************************************************************)
(* The life of one run from its activation to its recorded result (run_task *)
(* and execute_runtime_owned_lifecycle in src/vibe_loop/runner.py) and, in  *)
(* between, what becomes of its candidate: collection and re-anchoring,     *)
(* gates, reviews and remediation (CandidateCollector,                      *)
(* CandidateBaseReanchorer, RuntimeGateController, GateRunner and           *)
(* ReviewRouter in orchestration.py).                                       *)
(*                                                                          *)
(* The run shares its worktree with its worker and with what the worker may *)
(* have left running, and the main branch with everyone. A commit is named  *)
(* by the work it holds and by the state of main it is built on. The merge  *)
(* itself is one step here; MainIntegration has its protocol.               *)
(***************************************************************************)
EXTENDS Naturals, FiniteSets

CONSTANTS
    Works,           \* contents a worker may commit
    NGates,          \* gates of the run contract, run in order
    Findings,        \* what a reviewer may object to
    NoHead,
    MaxRounds,       \* remediation.max_rounds
    MaxReanchors,    \* candidate_stabilization.max_reanchors
    MaxInitial,      \* reviewer.max_initial_passes
    MaxClosure,      \* reviewer.max_closure_passes
    MaxMain,         \* bound on the advances of main
    MaxStrays        \* bound on changes nobody asked for

ASSUME LifecycleAssumption ==
    /\ {NGates, MaxRounds, MaxReanchors, MaxClosure, MaxMain, MaxStrays} \subseteq Nat
    /\ MaxInitial \in Nat \ {0}

Head == [work : Works, base : 0 .. MaxMain]

ASSUME NoHeadAssumption == NoHead \notin Head

Tree == [head : Head, dirty : BOOLEAN]
Gates == 1 .. NGates
Evidence == {"none", "passed", "failed", "unsigned"}
FindingState == {"none", "open", "closed"}
Family == {"initial", "closure"}
Outcomes == {"none", "completed", "failed", "blocked", "timed_out",
             "provider_limit", "aborted", "raised"}
Points ==
    {"starting", "activating", "provisioning", "working",
     "collecting", "anchoring", "entering",
     "gating", "checking",
     "remediating", "repairing", "deriving",
     "reviewing", "claiming", "judging",
     "integrating", "resolving", "merged", "confirming",
     "classifying", "finalizing", "recording", "done"}

VARIABLES
    at,        \* control point of the supervisor
    mode,      \* who owns the lifecycle, from the run contract
    stage, ordinal,  \* the stage machine
    refused,   \* whether it has refused a transition
    mainMoves, \* advances of the main branch
    base,      \* base_main of the candidate collector
    tree,      \* the worktree: its HEAD and whether tracked files changed
    candidate, \* the last recorded candidate, a head
    anchors,   \* re-anchoring attempts
    gate,      \* the next gate
    evidence,  \* gate_result events
    attempt,   \* the review attempt: its ordinal and the retries used
    passes,    \* review passes that returned a verdict
    ledger,    \* the findings ledger
    verdicts,  \* heads found clean and heads with findings
    launches,  \* remediation workers launched
    strays,
    outcome,   \* classification of the run
    integrated \* the head this run brought to main

stages == <<stage, ordinal, refused>>
worktree == <<mainMoves, tree, strays>>
collected == <<mode, base, anchors>>
reviewed == <<attempt, passes, ledger, verdicts>>
vars == <<at, stages, worktree, collected, candidate, gate, evidence, reviewed,
          launches, outcome, integrated>>

SM == INSTANCE RunStages

FirstAttempt == [ordinal |-> 1, family |-> "initial", transient |-> FALSE,
                 malformed |-> FALSE, resumed |-> FALSE]

OpenFindings == {f \in Findings : ledger[f] = "open"}

TypeOK ==
    /\ at \in Points
    /\ mode \in {"worker-owned", "runtime-owned"}
    /\ SM!TypeOK
    /\ refused \in BOOLEAN
    /\ {mainMoves, base} \subseteq 0 .. MaxMain
    /\ tree \in Tree
    /\ {candidate, integrated} \subseteq Head \cup {NoHead}
    /\ anchors \in 0 .. MaxReanchors
    /\ gate \in 1 .. NGates + 1
    /\ evidence \in [Gates \X Head -> Evidence]
    /\ attempt \in [ordinal : 1 .. 3, family : Family, transient : BOOLEAN,
                    malformed : BOOLEAN, resumed : BOOLEAN]
    /\ passes \in [Family -> Nat]
    /\ ledger \in [Findings -> FindingState]
    /\ verdicts \subseteq Head \X {"clean", "findings"}
    /\ launches \in Nat
    /\ strays \in 0 .. MaxStrays
    /\ outcome \in Outcomes

Init ==
    /\ at = "starting"
    /\ mode \in {"worker-owned", "runtime-owned"}
    /\ SM!Init
    /\ refused = FALSE
    /\ mainMoves = 0 /\ base = 0
    /\ \E w \in Works : tree = [head |-> [work |-> w, base |-> 0], dirty |-> FALSE]
    /\ candidate = NoHead /\ integrated = NoHead
    /\ anchors = 0
    /\ gate = 1
    /\ evidence = [p \in Gates \X Head |-> "none"]
    /\ attempt = FirstAttempt
    /\ passes = [f \in Family |-> 0]
    /\ ledger = [f \in Findings |-> "none"]
    /\ verdicts = {}
    /\ launches = 0 /\ strays = 0
    /\ outcome = "none"

-----------------------------------------------------------------------------
(* The stage machine and the ways a run ends.                               *)

Goes(to) ==
    IF SM!Accepts(to)
      THEN SM!Enters(to) /\ UNCHANGED refused
      ELSE refused' = TRUE /\ UNCHANGED <<stage, ordinal>>

Fails == SM!Fail /\ UNCHANGED refused

GoesOn(point) == at' = point /\ UNCHANGED outcome

\* An exception that run_task maps to a classification; the step that raises
\* it has failed the stage itself (EndsFailing) or leaves that to run_task.
Ends(o) == at' = "classifying" /\ outcome' = o /\ UNCHANGED stages
EndsFailing(o) == at' = "classifying" /\ outcome' = o /\ Fails

\* What a step that only ends the run leaves alone.
Stop == UNCHANGED <<worktree, collected, candidate, gate, evidence, reviewed,
                    launches, integrated>>

Launched == launches' = launches + 1

-----------------------------------------------------------------------------
(* Activation, launch and the worker.                                       *)

Resolve ==
    /\ at = "starting"
    /\ Goes("activation")
    /\ GoesOn("activating")
    /\ Stop

Activate ==
    /\ at = "activating"
    /\ Goes("workspace")
    /\ GoesOn("provisioning")
    /\ Stop

\* The worktree is new, or adopted on a base that main has left behind.
Launch ==
    /\ at = "provisioning"
    /\ \E b \in 0 .. mainMoves :
          /\ base' = b
          /\ tree' = [head |-> [tree.head EXCEPT !.base = b], dirty |-> FALSE]
    /\ Goes("implementing")
    /\ GoesOn("working")
    /\ UNCHANGED <<mainMoves, strays, mode, anchors, candidate, gate, evidence, reviewed,
                   launches, integrated>>

\* An open attempt circuit or a contract that does not resolve stops the run
\* before its first stage.
PreLaunchFails ==
    /\ \/ at = "starting" /\ at' = "done" /\ UNCHANGED stages
       \/ at \in {"activating", "provisioning"} /\ at' = "finalizing" /\ Fails
    /\ outcome' = "aborted"
    /\ Stop

\* snapshot: the branch descends from the base and has no tracked changes.
Collectable == ~tree.dirty /\ base <= tree.head.base

\* matches: the worktree is still the candidate's.
Matches(h) == ~tree.dirty /\ tree.head = h

\* The worker declares its candidate before it reports.
Declare ==
    /\ at = "working" /\ mode = "runtime-owned"
    /\ Collectable
    /\ candidate' = tree.head
    /\ UNCHANGED <<at, stages, worktree, collected, gate, evidence, reviewed, launches, outcome, integrated>>

WorkerFails ==
    /\ at = "working"
    /\ \E o \in {"failed", "blocked", "timed_out", "provider_limit"} : Ends(o)
    /\ Stop

\* A worker that owns its lifecycle reports a completion.
WorkerCompletes ==
    /\ at = "working" /\ mode = "worker-owned"
    /\ Ends("completed")
    /\ Stop

WorkerReady ==
    /\ at = "working" /\ mode = "runtime-owned"
    /\ Goes("candidate")
    /\ GoesOn("collecting")
    /\ Stop

-----------------------------------------------------------------------------
(* The candidate and its base.                                              *)

Collect ==
    /\ at = "collecting"
    /\ Collectable
    /\ candidate \in {NoHead, tree.head}
    /\ candidate' = tree.head
    /\ GoesOn("anchoring")
    /\ UNCHANGED <<stages, worktree, collected, gate, evidence, reviewed, launches, integrated>>

\* A worktree that does not match, a base main has not, a scope that drifts.
CollectionFails ==
    /\ at \in {"collecting", "entering", "deriving"}
    /\ Ends("failed")
    /\ Stop

\* stabilize stops when main is where the candidate's base is, or when
\* re-anchoring is disabled.
BaseSettled ==
    /\ at = "anchoring"
    /\ mainMoves = base \/ (anchors = 0 /\ MaxReanchors = 0)
    /\ GoesOn("entering")
    /\ UNCHANGED stages
    /\ Stop

ReanchorExhausted ==
    /\ at = "anchoring"
    /\ mainMoves # base /\ anchors >= MaxReanchors /\ anchors > 0
    /\ Ends("blocked")
    /\ Stop

\* The rebase is clean and keeps the candidate's changes.
Reanchor ==
    /\ at = "anchoring"
    /\ mainMoves # base /\ anchors < MaxReanchors
    /\ Matches(candidate)
    /\ LET head == [candidate EXCEPT !.base = mainMoves] IN
         /\ tree' = [tree EXCEPT !.head = head]
         /\ candidate' = head
    /\ base' = mainMoves
    /\ anchors' = anchors + 1
    /\ UNCHANGED <<at, stages, mainMoves, strays, mode, gate, evidence,
                   reviewed, launches, outcome, integrated>>

\* It conflicts or diverges: the branch is put back, the candidate kept. A
\* branch that is not where it was and does not rebase cannot be put back.
ReanchorRefused ==
    /\ at = "anchoring"
    /\ mainMoves # base /\ anchors < MaxReanchors
    /\ \/ /\ tree.head = candidate
          /\ UNCHANGED tree
          /\ GoesOn("entering")
       \/ /\ tree.head # candidate /\ ~tree.dirty
          /\ tree' = [tree EXCEPT !.head = candidate]
          /\ GoesOn("entering")
       \/ /\ tree.head # candidate
          /\ UNCHANGED tree
          /\ at' = "classifying" /\ outcome' = "failed"
    /\ UNCHANGED <<stages, mainMoves, strays, collected, candidate, gate, evidence,
                   reviewed, launches, integrated>>

\* The task source must still hold the task as it was when the run started.
SourceChanged ==
    /\ at = "entering"
    /\ Ends("blocked")
    /\ Stop

EnterGates ==
    /\ at = "entering"
    /\ Matches(candidate)
    /\ gate' = 1
    /\ Goes("gates")
    /\ GoesOn("gating")
    /\ UNCHANGED <<worktree, collected, candidate, evidence,
                   reviewed, launches, integrated>>

-----------------------------------------------------------------------------
(* Gates.                                                                   *)

Result == evidence[<<gate, candidate>>]

RecordGate(result) ==
    evidence' = [evidence EXCEPT ![<<gate, candidate>>] = result]

\* A failed gate costs a remediation round, or the run.
GateFailed ==
    \/ /\ ordinal["remediation"] < MaxRounds
       /\ Goes("remediation")
       /\ GoesOn("remediating")
    \/ /\ ordinal["remediation"] >= MaxRounds
       /\ EndsFailing("failed")

\* The base fails the same way: the run ends and no round is charged.
GateEnvironmentFailed == EndsFailing("failed")

NextGate == gate' = gate + 1 /\ GoesOn("gating") /\ UNCHANGED stages

\* A recorded result of this candidate stands, a failed one as well.
GateReused ==
    /\ at = "gating" /\ gate <= NGates
    /\ \/ Result = "passed" /\ NextGate
       \/ Result = "failed" /\ GateFailed /\ UNCHANGED gate
    /\ UNCHANGED <<worktree, collected, candidate, evidence, reviewed, launches,
                   integrated>>

GateStarts ==
    /\ at = "gating" /\ gate <= NGates
    /\ Result \in {"none", "unsigned"}
    /\ \/ /\ Matches(candidate)
          /\ GoesOn("checking")
          /\ UNCHANGED <<stages, evidence>>
       \/ /\ ~Matches(candidate)
          /\ RecordGate("failed")
          /\ GateFailed
    /\ UNCHANGED <<worktree, collected, candidate, gate, reviewed, launches,
                   integrated>>

\* A gate that changes the candidate, or sees it changed, has failed; a failure
\* without a signature is not reused.
GateEnds ==
    /\ at = "checking"
    /\ \/ /\ Matches(candidate)
          /\ RecordGate("passed")
          /\ NextGate
       \/ /\ \E r \in {"failed", "unsigned"} : RecordGate(r)
          /\ GateFailed
          /\ UNCHANGED gate
       \/ /\ Matches(candidate)
          /\ \E r \in {"failed", "unsigned"} : RecordGate(r)
          /\ GateEnvironmentFailed
          /\ UNCHANGED gate
    /\ UNCHANGED <<worktree, collected, candidate, reviewed, launches, integrated>>

GatesPassed ==
    /\ at = "gating" /\ gate = NGates + 1
    /\ GoesOn("reviewing")
    /\ UNCHANGED stages
    /\ Stop

-----------------------------------------------------------------------------
(* Remediation.                                                             *)

\* After a review the round is checked here, after a gate before the stage.
RemediationExhausted ==
    /\ at = "remediating"
    /\ ordinal["remediation"] > MaxRounds
    /\ EndsFailing("blocked")
    /\ Stop

Remediate ==
    /\ at = "remediating"
    /\ ordinal["remediation"] <= MaxRounds
    /\ Launched
    /\ GoesOn("repairing")
    /\ UNCHANGED <<stages, worktree, collected, candidate, gate, evidence,
                   reviewed, integrated>>

RemediationEnds ==
    /\ at = "repairing"
    /\ Goes("candidate")
    /\ GoesOn("deriving")
    /\ Stop

\* No budget for the launch, a timeout, a worker that fails.
RemediationFails ==
    /\ \/ at = "remediating" /\ ordinal["remediation"] <= MaxRounds /\ Ends("blocked")
       \/ at = "repairing" /\ \E o \in {"failed", "timed_out"} : Ends(o)
    /\ Stop

\* collect_derived: the branch as the remediation left it.
Derive ==
    /\ at = "deriving"
    /\ Collectable
    /\ candidate' = tree.head
    /\ gate' = 1
    /\ Goes("gates")
    /\ GoesOn("gating")
    /\ UNCHANGED <<worktree, collected, evidence, reviewed,
                   launches, integrated>>

-----------------------------------------------------------------------------
(* Review.                                                                  *)

Limit(family) == IF family = "initial" THEN MaxInitial ELSE MaxClosure

\* A closure resumes the session of the reviewer before it, when it can.
BeginReview ==
    /\ at = "reviewing"
    /\ \E resumed \in BOOLEAN :
          LET family == IF passes["initial"] = 0 THEN "initial" ELSE "closure" IN
            /\ resumed => family = "closure"
            /\ attempt' = [FirstAttempt EXCEPT !.family = family, !.resumed = resumed]
            /\ Goes(IF family = "initial" THEN "review" ELSE "closure")
    /\ GoesOn("claiming")
    /\ UNCHANGED <<worktree, collected, candidate, gate, evidence, passes, ledger,
                   verdicts, launches, integrated>>

\* claim_review_attempt: what counts is the passes that returned a verdict.
Claim ==
    /\ at = "claiming"
    /\ passes[attempt.family] < Limit(attempt.family)
    /\ GoesOn("judging")
    /\ UNCHANGED stages
    /\ Stop

PassesExhausted ==
    /\ at = "claiming"
    /\ passes[attempt.family] >= Limit(attempt.family)
    /\ EndsFailing("blocked")
    /\ Stop

\* No budget for the launch, or a reviewer the contract did not name.
ReviewRefused ==
    /\ at = "claiming"
    /\ Ends("blocked") \/ EndsFailing("failed")
    /\ Stop

ReviewerFails ==
    /\ at = "judging"
    /\ \E o \in {"failed", "blocked", "timed_out", "provider_limit"} : EndsFailing(o)
    /\ Stop

Asks(new) ==
    /\ attempt' = new
    /\ GoesOn("claiming")
    /\ UNCHANGED <<stages, worktree, collected, candidate, gate, evidence, passes,
                   ledger, verdicts, launches, integrated>>

\* Mutant: the attempt is made again in the session that expired.
SessionExpired_SameSession ==
    /\ at = "judging" /\ attempt.resumed
    /\ Asks(attempt)

\* The attempt is made again, in a new session.
SessionExpired ==
    /\ at = "judging" /\ attempt.resumed
    /\ Asks([attempt EXCEPT !.resumed = FALSE])

\* One transient error is retried, one malformed answer asked again.
Retry ==
    /\ at = "judging"
    /\ \E resumed \in BOOLEAN :
         LET next == [attempt EXCEPT !.ordinal = @ + 1, !.resumed = resumed] IN
           \/ ~attempt.transient /\ Asks([next EXCEPT !.transient = TRUE])
           \/ ~attempt.malformed /\ Asks([next EXCEPT !.malformed = TRUE])

RetryExhausted ==
    /\ at = "judging"
    /\ \/ attempt.transient /\ EndsFailing("failed")
       \/ attempt.malformed /\ EndsFailing("blocked")
    /\ Stop

\* Mutant: a closure may leave a prior finding out of its answer.
Verdict_Partial(verdict, open) ==
    /\ passes' = [passes EXCEPT ![attempt.family] = @ + 1]
    /\ verdicts' = verdicts \cup {<<candidate, verdict>>}
    /\ ledger' = [f \in Findings |-> IF f \in open THEN "open" ELSE ledger[f]]
    /\ attempt' = FirstAttempt
    /\ UNCHANGED <<worktree, collected, candidate, gate, evidence, launches,
                   integrated>>

Verdict(verdict, open) ==
    /\ passes' = [passes EXCEPT ![attempt.family] = @ + 1]
    /\ verdicts' = verdicts \cup {<<candidate, verdict>>}
    /\ ledger' = [f \in Findings |->
                    IF f \in open THEN "open"
                    ELSE IF f \in OpenFindings THEN "closed" ELSE ledger[f]]
    /\ attempt' = FirstAttempt
    /\ UNCHANGED <<worktree, collected, candidate, gate, evidence, launches,
                   integrated>>

\* Mutant: the last verdict decides.
Clear_Last(h) == TRUE

\* require_candidate_review_clear: no verdict on this candidate found anything.
Clear(h) == <<h, "findings">> \notin verdicts

\* An approval has no findings, or closes every one that was open.
Approve ==
    /\ at = "judging"
    /\ Verdict("clean", {})
    /\ \/ Clear(candidate) /\ Goes("integration") /\ GoesOn("integrating")
       \/ ~Clear(candidate) /\ EndsFailing("blocked")

\* A first review objects to anything, a closure to what was open before.
Object ==
    /\ at = "judging"
    /\ \E open \in SUBSET (IF attempt.family = "initial" THEN Findings
                           ELSE OpenFindings) :
          open # {} /\ Verdict("findings", open)
    /\ Goes("remediation")
    /\ GoesOn("remediating")

-----------------------------------------------------------------------------
(* Integration and provenance.                                              *)

\* Integration is disabled, refuses the workspace, fails its checks or its push.
IntegrationFails ==
    /\ at = "integrating"
    /\ \E o \in {"failed", "blocked"} : EndsFailing(o)
    /\ Stop

Integrates ==
    /\ integrated' = candidate
    /\ at' = "merged" /\ outcome' = "completed"
    /\ UNCHANGED <<stages, worktree, collected, candidate, gate, evidence,
                   reviewed, launches>>

Merge ==
    /\ at = "integrating"
    /\ Matches(candidate)
    /\ Integrates

\* The worker is asked to resolve a conflict once, in a round that is not
\* entered in the stages.
MergeConflicts ==
    /\ at = "integrating"
    /\ tree.head = candidate /\ candidate.base < mainMoves
    /\ \/ /\ ordinal["remediation"] < MaxRounds
          /\ Launched
          /\ GoesOn("resolving")
       \/ /\ ordinal["remediation"] >= MaxRounds
          /\ UNCHANGED launches
          /\ at' = "classifying" /\ outcome' = "blocked"
    /\ UNCHANGED <<stages, worktree, collected, candidate, gate, evidence,
                   reviewed, integrated>>

\* The resolution must be the merge of the candidate and of main: a commit that
\* the worker wrote and nobody reviewed. `integrated' names the candidate merged.
ConflictResolved ==
    /\ at = "resolving"
    /\ Integrates

ResolutionFails ==
    /\ at = "resolving"
    /\ \/ \E o \in {"failed", "blocked", "timed_out"} : Ends(o)
       \/ EndsFailing("blocked")
    /\ Stop

Provenance ==
    /\ at = "merged"
    /\ Goes("provenance")
    /\ GoesOn("confirming")
    /\ Stop

Confirm ==
    /\ at = "confirming"
    /\ GoesOn("classifying")
    /\ UNCHANGED stages
    /\ Stop

\* The upstream is behind, the task source does not confirm.
ProvenanceFails ==
    /\ \/ at = "merged" /\ Ends("blocked")
       \/ at = "confirming" /\ EndsFailing("blocked")
    /\ Stop

-----------------------------------------------------------------------------
(* The end of the run.                                                      *)

\* Mutant: the stage is failed again by the step that classifies the run.
Classify_FailsAgain ==
    /\ at = "classifying"
    /\ \/ outcome = "completed" /\ Goes("classification")
       \/ outcome # "completed" /\ Fails
    /\ GoesOn("finalizing")
    /\ Stop

\* A step that failed the stage has entered the classification already.
Classify ==
    /\ at = "classifying"
    /\ \/ outcome = "completed" /\ Goes("classification")
       \/ outcome # "completed" /\ stage # "classification" /\ Fails
       \/ outcome # "completed" /\ stage = "classification" /\ UNCHANGED stages
    /\ GoesOn("finalizing")
    /\ Stop

Finalize ==
    /\ at = "finalizing"
    /\ Goes("finalization")
    /\ GoesOn(IF outcome \in {"aborted", "raised"} THEN "done" ELSE "recording")
    /\ Stop

\* record_result.
Record ==
    /\ at = "recording"
    /\ GoesOn("done")
    /\ UNCHANGED stages
    /\ Stop

\* An exception nobody maps, or an interrupt.
Raises ==
    /\ at \notin {"starting", "activating", "provisioning", "done"}
    /\ outcome \notin {"aborted", "raised"}
    /\ Fails
    /\ outcome' = "raised"
    /\ at' = IF stage \in {"classification", "finalization"} THEN "done"
             ELSE "finalizing"
    /\ Stop

-----------------------------------------------------------------------------
(* Around the supervisor.                                                   *)

\* Where the supervisor has yet to read the worktree, or main.
Exposed ==
    {"collecting", "anchoring", "entering", "gating", "checking", "deriving",
     "reviewing", "claiming", "judging", "integrating"}

\* The worktree changes as the worker pleases while it runs, and now and then
\* when nobody should touch it.
Edit ==
    /\ \/ at \in {"working", "repairing"} /\ UNCHANGED strays
       \/ /\ at \in Exposed
          /\ strays < MaxStrays
          /\ strays' = strays + 1
    /\ \E new \in Tree : new # tree /\ new.head.base <= mainMoves /\ tree' = new
    /\ UNCHANGED <<at, stages, mainMoves, collected, candidate, gate, evidence,
                   reviewed, launches, outcome, integrated>>

MainAdvances ==
    /\ mainMoves < MaxMain
    /\ at \in Exposed \cup {"starting", "activating", "provisioning", "working", "repairing"}
    /\ mainMoves' = mainMoves + 1
    /\ UNCHANGED <<at, stages, tree, strays, collected, candidate, gate, evidence,
                   reviewed, launches, outcome, integrated>>

Starting == Resolve \/ Activate \/ Launch \/ PreLaunchFails
Working == WorkerFails \/ WorkerCompletes \/ WorkerReady
Collecting ==
    \/ Collect \/ CollectionFails \/ BaseSettled \/ ReanchorExhausted
    \/ Reanchor \/ ReanchorRefused \/ SourceChanged \/ EnterGates
Gating == GateReused \/ GateStarts \/ GateEnds \/ GatesPassed
Remediating ==
    RemediationExhausted \/ Remediate \/ RemediationEnds \/ RemediationFails \/ Derive
Reviewing ==
    \/ BeginReview \/ Claim \/ PassesExhausted \/ ReviewRefused \/ ReviewerFails
    \/ SessionExpired \/ Retry \/ RetryExhausted \/ Approve \/ Object
Integrating ==
    \/ IntegrationFails \/ Merge \/ MergeConflicts \/ ConflictResolved
    \/ ResolutionFails \/ Provenance \/ Confirm \/ ProvenanceFails
Closing == Classify \/ Finalize \/ Record \/ Raises

Supervise ==
    \/ Starting \/ Working \/ Collecting \/ Gating
    \/ Remediating \/ Reviewing \/ Integrating \/ Closing

Next == Supervise \/ Declare \/ Edit \/ MainAdvances

Spec == Init /\ [][Next]_vars

\* The supervisor keeps going: workers are stopped by their timeout; gates and
\* reviewers have none and are taken to return.
FairSpec == Spec /\ WF_vars(Supervise)

-----------------------------------------------------------------------------
(* Properties.                                                              *)

\* A run brings to main only a commit that passed every gate and that a reviewer
\* approved and none objected to, whatever happens to the worktree, to main and
\* to the answers in between (require_review_ready, require_candidate_review_clear).
Promise == INSTANCE ReviewedMerge WITH
    Heads <- Head,
    gated <- {h \in Head : \A g \in Gates : evidence[<<g, h>>] = "passed"},
    approved <- {h \in Head : <<h, "clean">> \in verdicts},
    rejected <- {h \in Head : <<h, "findings">> \in verdicts},
    merged <- integrated

ReviewedOnly == Promise!Spec

\* Every finding of the run, on whatever candidate, is closed by a reviewer
\* before main moves (the loop of execute_runtime_owned_lifecycle).
MergedWithoutFindings == integrated # NoHead => OpenFindings = {}

\* Gate failures, review findings and merge conflicts draw on one allowance: no
\* run launches more remediation workers than its contract grants.
RoundsBounded == launches <= MaxRounds

\* No path through retries, failures and exceptions asks the stage machine for a
\* transition it refuses: IllegalStageTransitionError never hides an outcome.
NeverRefused == ~refused

\* However rounds are repeated, each review had its gates, those their candidate,
\* and the integration is entered once.
EachCandidateGated == SM!EachCandidateGated

\* A completed run has merged, unless its worker owns the lifecycle.
CompletedIsMerged ==
    outcome = "completed" /\ mode = "runtime-owned" => integrated # NoHead

\* Every run ends, and its stages with it unless it never entered one.
RunEnds == <>[](at = "done" /\ stage \in {"none", "finalization"})
=============================================================================
