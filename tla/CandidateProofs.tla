--------------------------- MODULE CandidateProofs ---------------------------
(***************************************************************************)
(* Proofs about a candidate on its way to main.                            *)
(*                                                                         *)
(* The first part is about CandidateLifecycle, the life of a run, for any  *)
(* number of gates, findings, rounds, passes and advances of main, and any *)
(* behaviour of its worktree.  The second is about MainIntegration, the    *)
(* last step of that life taken apart: type correctness, that the lock     *)
(* goes with the work on main, that only what was verified is pushed, and  *)
(* that a completed result stays on main and upstream, for any number of   *)
(* runs, agents, people who commit, restarts and lock attempts.            *)
(***************************************************************************)
EXTENDS CandidateLifecycle, MainIntegration, TLAPS

-----------------------------------------------------------------------------
(* The life of a run: the inductive invariant. *)

\* Retries of each kind are made once, which bounds the attempts.
AttemptInv ==
    attempt.ordinal <= 1 + (IF attempt.transient THEN 1 ELSE 0)
                         + (IF attempt.malformed THEN 1 ELSE 0)

\* The stage the run is in wherever the supervisor asks for the next.
StageInv ==
    /\ at = "starting" => stage = "none"
    /\ at = "activating" => stage = "activation"
    /\ at = "provisioning" => stage = "workspace"
    /\ at = "working" => stage = "implementing"
    /\ at \in {"collecting", "anchoring", "entering", "deriving"} => stage = "candidate"
    /\ at \in {"gating", "checking", "reviewing"} => stage = "gates"
    /\ at \in {"remediating", "repairing"} => stage = "remediation"
    /\ at \in {"claiming", "judging"} => stage \in {"review", "closure"}
    /\ at \in {"integrating", "resolving", "merged"} => stage = "integration"
    /\ at = "confirming" => stage = "provenance"
    /\ at = "classifying" => stage \notin {"none", "finalization"}
    /\ at = "classifying" /\ outcome = "completed"
         => stage \in {"implementing", "provenance"}
    /\ at \in {"merged", "confirming"} => outcome = "completed"
    /\ at = "finalizing" => stage = "classification"

Examined == {"reviewing", "claiming", "judging", "integrating", "resolving"}
Over == {"merged", "confirming", "classifying", "finalizing", "recording", "done"}

Passed(h) == \A g \in Gates : evidence[<<g, h>>] = "passed"

\* The candidate is a head while the run works on it, and nothing is merged
\* before the merge.
CandidateInv ==
    /\ at \in {"anchoring", "entering", "gating", "checking"} \cup Examined
         => candidate \in Head
    /\ at \notin Over => integrated = NoHead

\* The gates behind the next one are passed, by this candidate.
GateInv ==
    /\ at \in {"gating", "checking"} =>
         \A g \in Gates : g < gate => evidence[<<g, candidate>>] = "passed"
    /\ at = "checking" => gate <= NGates /\ Result \in {"none", "unsigned"}
    /\ at \in Examined => Passed(candidate)

\* What is integrated has been approved, and every finding is closed.
VerdictInv ==
    /\ at \in {"integrating", "resolving"} =>
         <<candidate, "clean">> \in verdicts /\ Clear(candidate)
    /\ at \in {"integrating", "resolving"} \/ integrated # NoHead
         => OpenFindings = {}

\* A launch follows its entry of the stage, but for the one of a conflict.
RoundInv ==
    /\ launches <= MaxRounds
    /\ at \notin Over \cup {"resolving"} => launches <= ordinal["remediation"]
    /\ at = "remediating" => launches < ordinal["remediation"]

RunInv ==
    /\ TypeOK
    /\ AttemptInv
    /\ NeverRefused
    /\ StageInv
    /\ CandidateInv
    /\ GateInv
    /\ VerdictInv
    /\ RoundInv
    /\ CompletedIsMerged

-----------------------------------------------------------------------------
(* The stage machine.                                                       *)

LEMMA StageNames ==
    SM!RunStage = {"activation", "workspace", "implementing", "candidate", "gates",
                   "review", "remediation", "closure", "integration", "provenance",
                   "classification", "finalization"}
  BY DEF SM!RunStage, SM!Legal

\* The transitions the supervisor asks for.
LEMMA Accepted ==
    /\ stage = "none" => SM!Accepts("activation")
    /\ stage = "activation" => SM!Accepts("workspace")
    /\ stage = "workspace" => SM!Accepts("implementing")
    /\ stage = "implementing" => SM!Accepts("candidate") /\ SM!Accepts("classification")
    /\ stage = "candidate" => SM!Accepts("gates")
    /\ stage = "gates" => /\ SM!Accepts("review") /\ SM!Accepts("closure")
                          /\ SM!Accepts("remediation")
    /\ stage \in {"review", "closure"} => /\ SM!Accepts("remediation")
                                          /\ SM!Accepts("integration")
    /\ stage = "remediation" => SM!Accepts("candidate")
    /\ stage = "integration" => SM!Accepts("provenance")
    /\ stage = "provenance" => SM!Accepts("classification")
    /\ stage = "classification" => SM!Accepts("finalization")
  BY DEF SM!Accepts, SM!Legal

StagesTyped == SM!TypeOK /\ refused = FALSE

\* What a step does to the stages: the remediation is counted, and nothing else
\* is remembered of where the run has been.
Enters(to) ==
    /\ StagesTyped'
    /\ stage' = to
    /\ ordinal'["remediation"] =
         IF to = "remediation" THEN ordinal["remediation"] + 1
         ELSE ordinal["remediation"]

LEMMA Going ==
    ASSUME StagesTyped, NEW to \in SM!RunStage, SM!Accepts(to), Goes(to)
    PROVE  Enters(to)
  BY StageNames DEF StagesTyped, Goes, SM!TypeOK, SM!Enters, Enters

LEMMA Failing ==
    ASSUME StagesTyped, Fails
    PROVE  /\ stage # "none"
           /\ stage \in {"classification", "finalization"} => Enters("finalization")
           /\ stage \notin {"classification", "finalization"} => Enters("classification")
  <1>1. stage # "none" /\ UNCHANGED refused
    BY DEF Fails, SM!Fail
  <1>2. CASE stage \in {"classification", "finalization"}
    <2>1. SM!Enters("finalization")
      BY <1>2 DEF Fails, SM!Fail
    <2> QED
      BY <1>1, <1>2, <2>1, StageNames DEF StagesTyped, SM!TypeOK, SM!Enters, Enters
  <1>3. CASE stage \notin {"classification", "finalization"}
    <2>1. SM!Enters("classification")
      BY <1>3 DEF Fails, SM!Fail
    <2> QED
      BY <1>1, <1>3, <2>1, StageNames DEF StagesTyped, SM!TypeOK, SM!Enters, Enters
  <1> QED
    BY <1>1, <1>2, <1>3

Stays == UNCHANGED <<stage, refused>> /\ StagesTyped' /\ ordinal' = ordinal

LEMMA Staying ==
    ASSUME StagesTyped, UNCHANGED stages
    PROVE  Stays
  BY DEF StagesTyped, SM!TypeOK, stages, Stays

LEMMA Typed ==
    ASSUME RunInv
    PROVE  /\ StagesTyped
           /\ ordinal["remediation"] \in Nat
           /\ launches \in Nat /\ MaxRounds \in Nat
  BY LifecycleAssumption, StageNames
  DEF RunInv, TypeOK, SM!TypeOK, StagesTyped, NeverRefused, LifecycleAssumption

LEMMA GateNumbers ==
    ASSUME RunInv
    PROVE  /\ NGates \in Nat /\ gate \in Nat /\ 1 <= gate /\ gate <= NGates + 1
           /\ Gates \subseteq Nat
           /\ \A g \in Gates : 1 <= g /\ g <= NGates
           /\ \A g \in Nat : 1 <= g /\ g <= NGates => g \in Gates
  BY LifecycleAssumption DEF RunInv, TypeOK, LifecycleAssumption, Gates

-----------------------------------------------------------------------------
(* Steps that only move on.                                                 *)

\* Types and attempts are kept by whatever changes only the stages and the
\* outcome.
LEMMA StopTyped ==
    ASSUME RunInv, Stop, StagesTyped', at' \in Points, outcome' \in Outcomes
    PROVE  TypeOK' /\ AttemptInv' /\ NeverRefused'
  BY DEF RunInv, TypeOK, AttemptInv, NeverRefused, Stop, StagesTyped, worktree,
         collected, reviewed

\* Closing the run disturbs nothing but the stages.
LEMMA Closing1 ==
    ASSUME RunInv, Stop, StagesTyped', StageInv', outcome' \in Outcomes,
           at' \in {"confirming", "classifying", "finalizing", "recording", "done"},
           outcome' = "completed" =>
              outcome = "completed" \/ mode = "worker-owned"
    PROVE  RunInv'
  <1>1. TypeOK' /\ AttemptInv' /\ NeverRefused'
    BY StopTyped DEF Points
  <1>2. CandidateInv' /\ GateInv'
    BY DEF CandidateInv, GateInv, Over, Examined
  <1>3. VerdictInv' /\ RoundInv' /\ CompletedIsMerged'
    BY DEF RunInv, VerdictInv, RoundInv, CompletedIsMerged, OpenFindings, Stop, Over,
           reviewed, collected
  <1> QED
    BY <1>1, <1>2, <1>3 DEF RunInv

AtWork == Points \ ({"starting", "activating", "provisioning", "done"} \cup Over)

LEMMA Ending ==
    ASSUME RunInv, Stop, NEW o \in Outcomes \ {"none", "completed"}, Ends(o),
           stage \notin {"none", "finalization"}
    PROVE  RunInv'
  <1>1. Stays /\ at' = "classifying" /\ outcome' = o
    BY Staying, Typed DEF Ends
  <1>2. StageInv'
    BY <1>1 DEF StageInv, Stays
  <1> QED
    BY <1>1, <1>2, Closing1 DEF Stays

LEMMA EndingFailing ==
    ASSUME RunInv, Stop, NEW o \in Outcomes \ {"none", "completed"}, EndsFailing(o),
           stage \notin {"none", "classification", "finalization"}
    PROVE  RunInv'
  <1>1. Enters("classification") /\ at' = "classifying" /\ outcome' = o
    BY Failing, Typed DEF EndsFailing
  <1>2. StageInv'
    BY <1>1 DEF StageInv, Enters
  <1> QED
    BY <1>1, <1>2, Closing1 DEF Enters

\* The steps that end the run, of whatever part.
Ended ==
    \/ PreLaunchFails \/ WorkerFails \/ WorkerCompletes \/ CollectionFails
    \/ ReanchorExhausted \/ SourceChanged \/ RemediationExhausted
    \/ RemediationFails \/ PassesExhausted \/ ReviewRefused \/ ReviewerFails
    \/ RetryExhausted \/ IntegrationFails \/ ResolutionFails \/ ProvenanceFails
    \/ Confirm \/ Closing

LEMMA EndedInv ==
    ASSUME RunInv, Ended
    PROVE  RunInv'
  <1> USE Ending, EndingFailing
  <1>1. CASE PreLaunchFails
    <2>1. CASE at = "starting" /\ at' = "done" /\ UNCHANGED stages
      <3>1. Stays
        BY <2>1, Staying, Typed
      <3>2. StageInv'
        BY <2>1 DEF StageInv
      <3> QED
        BY <1>1, <2>1, <3>1, <3>2, Closing1 DEF PreLaunchFails, Stays, Outcomes
    <2>2. CASE at \in {"activating", "provisioning"} /\ at' = "finalizing" /\ Fails
      <3>1. Enters("classification")
        BY <2>2, Failing, Typed DEF RunInv, StageInv
      <3>2. StageInv'
        BY <2>2, <3>1 DEF StageInv, Enters
      <3> QED
        BY <1>1, <2>2, <3>1, <3>2, Closing1 DEF PreLaunchFails, Enters, Outcomes
    <2> QED
      BY <1>1, <2>1, <2>2 DEF PreLaunchFails
  <1>2. CASE WorkerFails
    <2>1. PICK o \in {"failed", "blocked", "timed_out", "provider_limit"} : Ends(o)
      BY <1>2 DEF WorkerFails
    <2> QED
      BY <1>2, <2>1 DEF WorkerFails, Outcomes, RunInv, StageInv
  <1>3. CASE WorkerCompletes
    <2>1. Stays
      BY <1>3, Staying, Typed DEF WorkerCompletes, Ends
    <2>2. StageInv'
      BY <1>3, <2>1 DEF WorkerCompletes, Ends, RunInv, StageInv, Stays
    <2> QED
      BY <1>3, <2>1, <2>2, Closing1 DEF WorkerCompletes, Ends, Stays, Outcomes
  <1>4. CASE CollectionFails
    BY <1>4 DEF CollectionFails, Outcomes, RunInv, StageInv
  <1>5. CASE ReanchorExhausted
    BY <1>5 DEF ReanchorExhausted, Outcomes, RunInv, StageInv
  <1>6. CASE SourceChanged
    BY <1>6 DEF SourceChanged, Outcomes, RunInv, StageInv
  <1>7. CASE RemediationExhausted
    BY <1>7 DEF RemediationExhausted, Outcomes, RunInv, StageInv
  <1>8. CASE RemediationFails
    <2>1. PICK o \in {"blocked", "failed", "timed_out"} : Ends(o)
      BY <1>8 DEF RemediationFails
    <2> QED
      BY <1>8, <2>1 DEF RemediationFails, Outcomes, RunInv, StageInv
  <1>9. CASE PassesExhausted
    BY <1>9 DEF PassesExhausted, Outcomes, RunInv, StageInv
  <1>10. CASE ReviewRefused
    BY <1>10 DEF ReviewRefused, Outcomes, RunInv, StageInv
  <1>11. CASE ReviewerFails
    <2>1. PICK o \in {"failed", "blocked", "timed_out", "provider_limit"} :
              EndsFailing(o)
      BY <1>11 DEF ReviewerFails
    <2> QED
      BY <1>11, <2>1 DEF ReviewerFails, Outcomes, RunInv, StageInv
  <1>12. CASE RetryExhausted
    BY <1>12 DEF RetryExhausted, Outcomes, RunInv, StageInv
  <1>13. CASE IntegrationFails
    <2>1. PICK o \in {"failed", "blocked"} : EndsFailing(o)
      BY <1>13 DEF IntegrationFails
    <2> QED
      BY <1>13, <2>1 DEF IntegrationFails, Outcomes, RunInv, StageInv
  <1>14. CASE ResolutionFails
    <2>1. CASE EndsFailing("blocked")
      BY <1>14, <2>1 DEF ResolutionFails, Outcomes, RunInv, StageInv
    <2>2. ASSUME NEW o \in {"failed", "blocked", "timed_out"}, Ends(o)
          PROVE  RunInv'
      BY <1>14, <2>2 DEF ResolutionFails, Outcomes, RunInv, StageInv
    <2> QED
      BY <1>14, <2>1, <2>2 DEF ResolutionFails
  <1>15. CASE ProvenanceFails
    BY <1>15 DEF ProvenanceFails, Outcomes, RunInv, StageInv
  <1>16. CASE Confirm
    <2>1. Stays
      BY <1>16, Staying, Typed DEF Confirm
    <2>2. StageInv'
      BY <1>16, <2>1 DEF Confirm, GoesOn, RunInv, StageInv, Stays
    <2> QED
      BY <1>16, <2>1, <2>2, Closing1 DEF Confirm, GoesOn, Stays, RunInv, TypeOK
  <1>17. CASE Classify
    <2>1. StagesTyped' /\ stage' = "classification"
      <3>1. CASE outcome = "completed" /\ Goes("classification")
        <4>1. SM!Accepts("classification")
          BY <1>17, <3>1, Accepted DEF Classify, RunInv, StageInv
        <4> QED
          BY <3>1, <4>1, Going, Typed, StageNames DEF Enters
      <3>2. CASE stage # "classification" /\ Fails
        BY <1>17, <3>2, Failing, Typed DEF Enters, Classify, RunInv, StageInv
      <3>3. CASE stage = "classification" /\ UNCHANGED stages
        BY <3>3, Staying, Typed DEF Stays
      <3> QED
        BY <1>17, <3>1, <3>2, <3>3 DEF Classify
    <2>2. StageInv'
      BY <1>17, <2>1 DEF Classify, GoesOn, StageInv
    <2> QED
      BY <1>17, <2>1, <2>2, Closing1 DEF Classify, GoesOn, RunInv, TypeOK
  <1>18. CASE Finalize
    <2>1. Enters("finalization")
      BY <1>18, Going, Accepted, Typed, StageNames DEF Finalize, RunInv, StageInv
    <2>2. at' \in {"recording", "done"} /\ outcome' = outcome
      BY <1>18 DEF Finalize, GoesOn
    <2>3. StageInv'
      BY <2>2 DEF StageInv
    <2> QED
      BY <1>18, <2>1, <2>2, <2>3, Closing1 DEF Finalize, Enters, RunInv, TypeOK
  <1>19. CASE Record
    <2>1. Stays
      BY <1>19, Staying, Typed DEF Record
    <2>2. StageInv'
      BY <1>19 DEF Record, GoesOn, StageInv
    <2> QED
      BY <1>19, <2>1, <2>2, Closing1 DEF Record, GoesOn, Stays, RunInv, TypeOK
  <1>20. CASE Raises
    <2>1. /\ at' \in {"done", "finalizing"} /\ StagesTyped'
          /\ at' = "finalizing" => stage' = "classification"
      BY <1>20, Failing, Typed DEF Raises, Enters
    <2>2. StageInv'
      BY <2>1 DEF StageInv
    <2> QED
      BY <1>20, <2>1, <2>2, Closing1 DEF Raises, Outcomes
  <1> QED
    BY <1>1, <1>2, <1>3, <1>4, <1>5, <1>6, <1>7, <1>8, <1>9, <1>10, <1>11, <1>12,
       <1>13, <1>14, <1>15, <1>16, <1>17, <1>18, <1>19, <1>20 DEF Ended, Closing

\* The steps that take the run further and change nothing else.
Advanced ==
    \/ Resolve \/ Activate \/ WorkerReady \/ BaseSettled \/ GatesPassed
    \/ RemediationEnds \/ Claim \/ Provenance

LEMMA AdvancedInv ==
    ASSUME RunInv, Advanced
    PROVE  RunInv'
  <1>1. Stop /\ outcome' = outcome /\ outcome \in Outcomes
    BY DEF Advanced, Resolve, Activate, WorkerReady, BaseSettled, GatesPassed,
           RemediationEnds, Claim, Provenance, GoesOn, RunInv, TypeOK
  <1>2. /\ at' \in Points /\ StagesTyped' /\ StageInv'
        /\ at' \notin Over \cup {"remediating", "resolving"} =>
             at \notin Over \cup {"resolving"}
        /\ ordinal'["remediation"] = ordinal["remediation"]
    <2> USE Accepted, Going, Staying, Typed, StageNames
        DEF RunInv, StageInv, Enters, Stays, GoesOn, Points, Over
    <2>1. CASE Resolve BY <2>1 DEF Resolve
    <2>2. CASE Activate BY <2>2 DEF Activate
    <2>3. CASE WorkerReady BY <2>3 DEF WorkerReady
    <2>4. CASE BaseSettled BY <2>4 DEF BaseSettled
    <2>5. CASE GatesPassed BY <2>5 DEF GatesPassed
    <2>6. CASE RemediationEnds BY <2>6 DEF RemediationEnds
    <2>7. CASE Claim BY <2>7 DEF Claim
    <2>8. CASE Provenance BY <2>8 DEF Provenance
    <2> QED
      BY <2>1, <2>2, <2>3, <2>4, <2>5, <2>6, <2>7, <2>8 DEF Advanced
  <1>3. TypeOK' /\ AttemptInv' /\ NeverRefused'
    BY <1>1, <1>2, StopTyped
  <1>4. CandidateInv' /\ GateInv'
    <2>1. UNCHANGED <<candidate, gate, evidence, integrated>>
      BY <1>1 DEF Stop
    <2>2. \/ at = "claiming" /\ at' = "judging"
          \/ at = "anchoring" /\ at' = "entering"
          \/ at = "gating" /\ gate = NGates + 1 /\ at' = "reviewing"
          \/ at' \in {"activating", "provisioning", "collecting", "deriving",
                      "confirming"}
      BY DEF Advanced, Resolve, Activate, WorkerReady, BaseSettled, GatesPassed,
             RemediationEnds, Claim, Provenance, GoesOn
    <2>3. at = "gating" /\ gate = NGates + 1 => Passed(candidate)
      BY GateNumbers DEF RunInv, GateInv, Passed
    <2>4. CandidateInv'
      BY <1>2, <2>1, <2>2 DEF RunInv, CandidateInv, Over, Examined
    <2>5. at' \in Examined => Passed(candidate)
      BY <2>2, <2>3 DEF RunInv, GateInv, Examined
    <2> QED
      BY <2>1, <2>2, <2>4, <2>5 DEF GateInv, Passed
  <1>5. VerdictInv' /\ RoundInv' /\ CompletedIsMerged'
    BY <1>1, <1>2, Typed DEF Advanced, Resolve, Activate, WorkerReady, BaseSettled,
       GatesPassed, RemediationEnds, Claim, Provenance, GoesOn, RunInv, VerdictInv,
       RoundInv, CompletedIsMerged, OpenFindings, Over, Stop, reviewed, collected
  <1> QED
    BY <1>2, <1>3, <1>4, <1>5 DEF RunInv

-----------------------------------------------------------------------------
(* Steps that change the candidate, its evidence or its worktree.           *)

\* What the worktree's neighbours do.
LEMMA OutsideInv ==
    ASSUME RunInv, Edit \/ MainAdvances
    PROVE  RunInv'
  <1>1. /\ UNCHANGED <<at, stages, collected, candidate, gate, evidence, reviewed,
                       launches, outcome, integrated>>
        /\ tree' \in Tree /\ mainMoves' \in 0 .. MaxMain /\ strays' \in 0 .. MaxStrays
    BY LifecycleAssumption
    DEF Edit, MainAdvances, RunInv, TypeOK, LifecycleAssumption
  <1>2. TypeOK' /\ AttemptInv' /\ NeverRefused' /\ StageInv'
    BY <1>1 DEF RunInv, TypeOK, SM!TypeOK, AttemptInv, NeverRefused, StageInv, stages,
                collected, reviewed
  <1>3. CandidateInv' /\ GateInv'
    BY <1>1 DEF RunInv, CandidateInv, GateInv, Passed, Result
  <1>4. VerdictInv' /\ RoundInv' /\ CompletedIsMerged'
    BY <1>1 DEF RunInv, VerdictInv, RoundInv, CompletedIsMerged, OpenFindings, Clear,
                stages, collected, reviewed
  <1> QED
    BY <1>2, <1>3, <1>4 DEF RunInv

\* Nothing but the control point, the stages, the candidate, the worktree and
\* the evidence changes before a verdict.
Gathers ==
    /\ UNCHANGED <<reviewed, launches, integrated, mode, outcome>>
    /\ at \notin Over \cup {"resolving"}

LEMMA GatheringInv ==
    ASSUME RunInv, Gathers, TypeOK', NeverRefused', StageInv', CandidateInv', GateInv',
           at' \notin Over \cup Examined,
           ordinal'["remediation"] >= ordinal["remediation"],
           at' = "remediating" => ordinal'["remediation"] > ordinal["remediation"]
    PROVE  RunInv'
  <1>1. AttemptInv' /\ CompletedIsMerged'
    BY DEF RunInv, Gathers, AttemptInv, CompletedIsMerged, reviewed
  <1>2. VerdictInv' /\ RoundInv'
    BY Typed, StageNames
    DEF RunInv, Gathers, VerdictInv, RoundInv, OpenFindings, reviewed, Examined, TypeOK,
        SM!TypeOK, CandidateInv, Over
  <1> QED
    BY <1>1, <1>2 DEF RunInv

LEMMA LaunchInv ==
    ASSUME RunInv, Launch
    PROVE  RunInv'
  <1>1. Enters("implementing")
    BY Accepted, Going, Typed, StageNames DEF Launch, RunInv, StageInv
  <1>2. at = "provisioning" /\ at' = "working" /\ Gathers
    BY DEF Launch, GoesOn, Gathers, Over
  <1>3. tree' \in Tree /\ base' \in 0 .. MaxMain
    BY LifecycleAssumption DEF Launch, RunInv, TypeOK, Tree, Head, LifecycleAssumption
  <1>4. TypeOK'
    BY <1>1, <1>2, <1>3
    DEF Launch, Enters, RunInv, TypeOK, StagesTyped, Points, Gathers, reviewed
  <1>5. NeverRefused' /\ StageInv'
    BY <1>1, <1>2 DEF Enters, StagesTyped, StageInv, NeverRefused
  <1>6. CandidateInv' /\ GateInv'
    BY <1>2 DEF CandidateInv, GateInv, Examined, Gathers, RunInv
  <1> QED
    BY <1>1, <1>2, <1>4, <1>5, <1>6, GatheringInv, Typed DEF Enters, Over, Examined

\* The candidate is the worktree's head, collected or rebased.
LEMMA CollectingInv ==
    ASSUME RunInv,
           Declare \/ Collect \/ Reanchor \/ (ReanchorRefused /\ at' = "entering")
    PROVE  RunInv'
  <1>1. Stays
    BY Staying, Typed DEF Declare, Collect, Reanchor, ReanchorRefused
  <1>2. /\ Gathers
        /\ \/ at = "working" /\ at' = "working"
           \/ at = "collecting" /\ at' = "anchoring"
           \/ at = "anchoring" /\ at' \in {"anchoring", "entering"}
    BY DEF Declare, Collect, Reanchor, ReanchorRefused, GoesOn, Gathers, Over, collected
  <1>3. candidate' \in Head /\ tree' \in Tree
    BY DEF Declare, Collect, Reanchor, ReanchorRefused, RunInv, TypeOK, CandidateInv,
           Tree, Head, worktree
  <1>4. anchors' \in 0 .. MaxReanchors /\ base' \in 0 .. MaxMain
        /\ UNCHANGED <<mainMoves, strays, gate, evidence>>
    BY LifecycleAssumption
    DEF Declare, Collect, Reanchor, ReanchorRefused, RunInv, TypeOK, collected, worktree,
        LifecycleAssumption
  <1>5. TypeOK'
    BY <1>1, <1>2, <1>3, <1>4
    DEF Stays, RunInv, TypeOK, StagesTyped, Points, Gathers, reviewed
  <1>6. NeverRefused' /\ StageInv'
    BY <1>1, <1>2 DEF Stays, StagesTyped, StageInv, NeverRefused, RunInv
  <1>7. CandidateInv' /\ GateInv'
    BY <1>2, <1>3 DEF CandidateInv, GateInv, Examined, Gathers, RunInv, Over
  <1> QED
    BY <1>1, <1>2, <1>5, <1>6, <1>7, GatheringInv, Typed DEF Stays, Over, Examined

LEMMA ReanchorRefusedInv ==
    ASSUME RunInv, ReanchorRefused
    PROVE  RunInv'
  <1>1. CASE at' = "entering"
    BY <1>1, CollectingInv
  <1>2. CASE at' # "entering"
    <2>1. at = "anchoring" /\ Stop /\ Ends("failed")
      BY <1>2 DEF ReanchorRefused, GoesOn, Ends, Stop, worktree
    <2> QED
      BY <2>1, Ending DEF Outcomes, RunInv, StageInv
  <1> QED
    BY <1>1, <1>2

\* A new candidate starts with its first gate.
LEMMA EnteringInv ==
    ASSUME RunInv, EnterGates \/ Derive
    PROVE  RunInv'
  <1>1. Enters("gates")
    BY Accepted, Going, Typed, StageNames DEF EnterGates, Derive, RunInv, StageInv
  <1>2. at \in {"entering", "deriving"} /\ at' = "gating" /\ gate' = 1 /\ Gathers
    BY DEF EnterGates, Derive, GoesOn, Gathers, Over, collected
  <1>3. candidate' \in Head
    BY DEF EnterGates, Derive, RunInv, TypeOK, CandidateInv, Tree
  <1>4. UNCHANGED <<worktree, collected, evidence>>
    BY DEF EnterGates, Derive
  <1>5. 1 \in 1 .. NGates + 1 /\ \A g \in Gates : ~(g < 1)
    BY LifecycleAssumption DEF LifecycleAssumption, Gates
  <1>6. TypeOK'
    BY <1>1, <1>2, <1>3, <1>4, <1>5
    DEF Enters, RunInv, TypeOK, StagesTyped, Points, Gathers, reviewed, collected,
        worktree
  <1>7. NeverRefused' /\ StageInv'
    BY <1>1, <1>2 DEF Enters, StagesTyped, StageInv, NeverRefused
  <1>8. CandidateInv' /\ GateInv'
    BY <1>2, <1>3, <1>5 DEF CandidateInv, GateInv, Examined, Gathers, RunInv, Over
  <1> QED
    BY <1>1, <1>2, <1>6, <1>7, <1>8, GatheringInv, Typed DEF Enters, Over, Examined

-----------------------------------------------------------------------------
(* Gates.                                                                   *)

\* What a step of the gates leaves alone.
GateFrame == UNCHANGED <<worktree, collected, candidate, reviewed, launches, integrated>>

LEMMA GateTyped ==
    ASSUME RunInv, GateFrame, StagesTyped', at' \in Points, outcome' \in Outcomes,
           gate' \in 1 .. NGates + 1,
           evidence' \in [Gates \X Head -> Evidence]
    PROVE  TypeOK' /\ AttemptInv' /\ NeverRefused'
  BY DEF RunInv, TypeOK, AttemptInv, NeverRefused, GateFrame, StagesTyped, worktree,
         collected, reviewed

\* A failed gate leaves the gates, whatever it recorded.
LEMMA GateFailing ==
    ASSUME RunInv, GateFrame, UNCHANGED gate, at \in {"gating", "checking"},
           GateFailed \/ GateEnvironmentFailed,
           evidence' \in [Gates \X Head -> Evidence]
    PROVE  RunInv'
  <1>1. CASE ordinal["remediation"] < MaxRounds /\ Goes("remediation")
             /\ GoesOn("remediating")
    <2>1. Enters("remediation")
      BY <1>1, Accepted, Going, Typed, StageNames DEF RunInv, StageInv
    <2>2. at' = "remediating" /\ Gathers
      BY <1>1 DEF GateFrame, GoesOn, Gathers, Over, collected
    <2>3. TypeOK' /\ NeverRefused'
      BY <2>1, <2>2, GateTyped DEF Enters, Points, Gathers, RunInv, TypeOK
    <2>4. StageInv'
      BY <2>1, <2>2 DEF Enters, StageInv
    <2>5. CandidateInv' /\ GateInv'
      BY <2>2 DEF CandidateInv, GateInv, Examined, Gathers, RunInv, Over
    <2> QED
      BY <2>1, <2>2, <2>3, <2>4, <2>5, GatheringInv, Typed DEF Enters, Over, Examined
  <1>2. CASE EndsFailing("failed")
    <2>1. Enters("classification") /\ at' = "classifying" /\ outcome' = "failed"
      BY <1>2, Failing, Typed DEF EndsFailing, RunInv, StageInv
    <2>2. TypeOK' /\ AttemptInv' /\ NeverRefused'
      BY <2>1, GateTyped DEF Enters, Points, Outcomes, RunInv, TypeOK
    <2>3. StageInv' /\ CandidateInv' /\ GateInv'
      BY <2>1 DEF Enters, StageInv, CandidateInv, GateInv, Examined, Over
    <2>4. VerdictInv' /\ RoundInv' /\ CompletedIsMerged'
      BY <2>1 DEF RunInv, VerdictInv, RoundInv, CompletedIsMerged, OpenFindings, Over,
                  GateFrame, reviewed, CandidateInv
    <2> QED
      BY <2>2, <2>3, <2>4 DEF RunInv
  <1> QED
    BY <1>1, <1>2 DEF GateFailed, GateEnvironmentFailed

\* A passed gate makes the next one due.
LEMMA GatePassing ==
    ASSUME RunInv, GateFrame, NextGate, at \in {"gating", "checking"}, gate <= NGates,
           evidence' \in [Gates \X Head -> Evidence],
           evidence'[<<gate, candidate>>] = "passed",
           \A g \in Gates : evidence[<<g, candidate>>] = "passed"
                              => evidence'[<<g, candidate>>] = "passed"
    PROVE  RunInv'
  <1>1. Stays /\ gate' = gate + 1 /\ at' = "gating" /\ Gathers
    BY Staying, Typed DEF NextGate, GateFrame, GoesOn, Gathers, Over, collected
  <1>2. gate' \in 1 .. NGates + 1
    BY <1>1, GateNumbers
  <1>3. TypeOK' /\ NeverRefused'
    BY <1>1, <1>2, GateTyped DEF Stays, Points, Gathers, RunInv, TypeOK
  <1>4. StageInv'
    BY <1>1 DEF Stays, StageInv, RunInv
  <1>5. CandidateInv'
    BY <1>1 DEF CandidateInv, Gathers, RunInv, Over, GateFrame, Examined
  <1>6. GateInv'
    <2>1. \A g \in Gates : g < gate' => g < gate \/ g = gate
      BY <1>1, GateNumbers
    <2> QED
      BY <1>1, <2>1 DEF GateInv, RunInv, GateFrame, Examined
  <1> QED
    BY <1>1, <1>3, <1>4, <1>5, <1>6, GatheringInv, Typed DEF Stays, Over, Examined

LEMMA RecordTyped ==
    ASSUME RunInv, at \in {"gating", "checking"}, gate <= NGates,
           NEW recorded \in Evidence, RecordGate(recorded)
    PROVE  /\ evidence' \in [Gates \X Head -> Evidence]
           /\ evidence'[<<gate, candidate>>] = recorded
           /\ \A g \in Gates : \A h \in Head :
                <<g, h>> # <<gate, candidate>> =>
                   evidence'[<<g, h>>] = evidence[<<g, h>>]
  BY GateNumbers DEF RunInv, TypeOK, CandidateInv, RecordGate

LEMMA GatingInv ==
    ASSUME RunInv, GateReused \/ GateStarts \/ GateEnds
    PROVE  RunInv'
  <1> USE DEF Evidence
  <1>1. CASE GateReused
    <2>1. GateFrame /\ evidence' = evidence /\ at = "gating" /\ gate <= NGates
      BY <1>1 DEF GateReused, GateFrame
    <2>2. evidence' \in [Gates \X Head -> Evidence]
      BY <2>1 DEF RunInv, TypeOK
    <2>3. CASE Result = "passed" /\ NextGate
      BY <2>1, <2>2, <2>3, GatePassing DEF Result
    <2>4. CASE GateFailed /\ UNCHANGED gate
      BY <2>1, <2>2, <2>4, GateFailing
    <2> QED
      BY <1>1, <2>3, <2>4 DEF GateReused
  <1>2. CASE GateStarts
    <2>1. GateFrame /\ UNCHANGED gate /\ at = "gating" /\ gate <= NGates
          /\ Result \in {"none", "unsigned"}
      BY <1>2 DEF GateStarts, GateFrame
    <2>2. CASE GoesOn("checking") /\ UNCHANGED <<stages, evidence>>
      <3>1. Stays /\ at' = "checking" /\ Gathers
        BY <2>1, <2>2, Staying, Typed DEF GateFrame, GoesOn, Gathers, Over, collected
      <3>2. TypeOK' /\ NeverRefused'
        BY <2>1, <2>2, <3>1, GateTyped DEF Stays, Points, Gathers, RunInv, TypeOK
      <3>3. StageInv'
        BY <2>1, <3>1 DEF Stays, StageInv, RunInv
      <3>4. CandidateInv' /\ GateInv'
        BY <2>1, <2>2, <3>1
        DEF CandidateInv, GateInv, Gathers, RunInv, Over, GateFrame, Examined, Result
      <3> QED
        BY <3>1, <3>2, <3>3, <3>4, GatheringInv, Typed DEF Stays, Over, Examined
    <2>3. CASE RecordGate("failed") /\ GateFailed
      BY <2>1, <2>3, RecordTyped, GateFailing
    <2> QED
      BY <1>2, <2>2, <2>3 DEF GateStarts
  <1>3. CASE GateEnds
    <2>1. GateFrame /\ at = "checking" /\ gate <= NGates /\ candidate \in Head
      BY <1>3 DEF GateEnds, GateFrame, RunInv, GateInv, CandidateInv
    <2>2. CASE RecordGate("passed") /\ NextGate
      <3>1. /\ evidence' \in [Gates \X Head -> Evidence]
            /\ evidence'[<<gate, candidate>>] = "passed"
            /\ \A g \in Gates : evidence[<<g, candidate>>] = "passed"
                                  => evidence'[<<g, candidate>>] = "passed"
        BY <2>1, <2>2, RecordTyped
      <3> QED
        BY <2>1, <2>2, <3>1, GatePassing
    <2>3. ASSUME NEW r \in {"failed", "unsigned"}, RecordGate(r), UNCHANGED gate,
                 GateFailed \/ GateEnvironmentFailed
          PROVE  RunInv'
      BY <2>1, <2>3, RecordTyped, GateFailing
    <2> QED
      BY <1>3, <2>2, <2>3 DEF GateEnds
  <1> QED
    BY <1>1, <1>2, <1>3

-----------------------------------------------------------------------------
(* Remediation, reviews and the merge.                                      *)

\* What is kept where neither the candidate nor its evidence changes.
EvidenceFrame == UNCHANGED <<worktree, collected, candidate, gate, evidence>>

LEMMA EvidenceTyped ==
    ASSUME RunInv, EvidenceFrame, StagesTyped', at' \in Points, outcome' \in Outcomes,
           attempt' \in [ordinal : 1 .. 3, family : Family, transient : BOOLEAN,
                         malformed : BOOLEAN, resumed : BOOLEAN],
           passes' \in [Family -> Nat], ledger' \in [Findings -> FindingState],
           verdicts' \subseteq Head \X {"clean", "findings"},
           launches' \in Nat, integrated' \in Head \cup {NoHead}
    PROVE  TypeOK' /\ NeverRefused'
  BY DEF RunInv, TypeOK, NeverRefused, EvidenceFrame, StagesTyped, worktree, collected

LEMMA RemediateInv ==
    ASSUME RunInv, Remediate
    PROVE  RunInv'
  <1>1. Stays /\ EvidenceFrame /\ UNCHANGED <<outcome, reviewed, integrated>>
        /\ at = "remediating" /\ at' = "repairing"
    BY Staying, Typed DEF Remediate, GoesOn, EvidenceFrame
  <1>2. launches' = launches + 1 /\ ordinal["remediation"] <= MaxRounds
        /\ launches < ordinal["remediation"]
    BY DEF Remediate, Launched, RunInv, RoundInv
  <1>3. TypeOK' /\ NeverRefused'
    BY <1>1, <1>2, EvidenceTyped, Typed DEF Stays, Points, RunInv, TypeOK, reviewed
  <1>4. StageInv' /\ CandidateInv' /\ GateInv'
    BY <1>1 DEF Stays, RunInv, StageInv, CandidateInv, GateInv, Examined, Over
  <1>5. AttemptInv' /\ VerdictInv' /\ CompletedIsMerged'
    BY <1>1 DEF RunInv, AttemptInv, VerdictInv, CompletedIsMerged, OpenFindings, Over,
                reviewed, CandidateInv, EvidenceFrame, collected
  <1>6. RoundInv'
    BY <1>1, <1>2, Typed DEF RoundInv, Stays, Over
  <1> QED
    BY <1>3, <1>4, <1>5, <1>6 DEF RunInv

\* A review that goes on keeps the verdicts and the ledger.
Reviewing1 ==
    /\ EvidenceFrame
    /\ UNCHANGED <<outcome, passes, ledger, verdicts, launches, integrated>>
    /\ at \in {"reviewing", "judging"} /\ at' = "claiming"
    /\ ordinal'["remediation"] = ordinal["remediation"]

LEMMA ReviewingInv ==
    ASSUME RunInv, Reviewing1, StagesTyped', stage' \in {"review", "closure"},
           attempt' \in [ordinal : 1 .. 3, family : Family, transient : BOOLEAN,
                         malformed : BOOLEAN, resumed : BOOLEAN],
           AttemptInv'
    PROVE  RunInv'
  <1>1. TypeOK' /\ NeverRefused'
    BY EvidenceTyped DEF Reviewing1, Points, RunInv, TypeOK
  <1>2. StageInv' /\ CandidateInv' /\ GateInv'
    BY DEF Reviewing1, EvidenceFrame, RunInv, StageInv, CandidateInv, GateInv, Examined,
           Over, Passed
  <1>3. VerdictInv' /\ RoundInv' /\ CompletedIsMerged'
    BY DEF Reviewing1, EvidenceFrame, RunInv, VerdictInv, RoundInv, CompletedIsMerged,
           OpenFindings, Over, CandidateInv, collected
  <1> QED
    BY <1>1, <1>2, <1>3 DEF RunInv

LEMMA BeginReviewInv ==
    ASSUME RunInv, BeginReview
    PROVE  RunInv'
  <1>1. PICK resumed \in BOOLEAN, family \in Family :
            /\ attempt' = [FirstAttempt EXCEPT !.family = family, !.resumed = resumed]
            /\ Goes(IF family = "initial" THEN "review" ELSE "closure")
    BY DEF BeginReview, Family
  <1>2. PICK to \in {"review", "closure"} : Goes(to)
    BY <1>1
  <1>3. at = "reviewing" /\ stage = "gates"
    BY DEF BeginReview, RunInv, StageInv
  <1>4. Enters(to)
    BY <1>2, <1>3, Accepted, Going, Typed, StageNames
  <1>5. Reviewing1
    BY <1>4 DEF BeginReview, Reviewing1, GoesOn, EvidenceFrame, Enters
  <1>6. attempt' = [ordinal |-> 1, family |-> family, transient |-> FALSE,
                    malformed |-> FALSE, resumed |-> resumed]
    BY <1>1 DEF FirstAttempt
  <1> QED
    BY <1>4, <1>5, <1>6, ReviewingInv DEF Enters, AttemptInv

LEMMA AskingInv ==
    ASSUME RunInv, at = "judging", NEW new, Asks(new),
           new \in [ordinal : 1 .. 3, family : Family, transient : BOOLEAN,
                    malformed : BOOLEAN, resumed : BOOLEAN],
           new.ordinal <= 1 + (IF new.transient THEN 1 ELSE 0)
                            + (IF new.malformed THEN 1 ELSE 0)
    PROVE  RunInv'
  <1>1. Stays
    BY Staying, Typed DEF Asks
  <1>2. Reviewing1
    BY <1>1 DEF Asks, Reviewing1, GoesOn, EvidenceFrame, Stays
  <1>3. AttemptInv' /\ attempt' = new
    BY DEF Asks, AttemptInv
  <1> QED
    BY <1>1, <1>2, <1>3, ReviewingInv DEF Stays, RunInv, StageInv

AttemptSet == [ordinal : 1 .. 3, family : Family, transient : BOOLEAN,
               malformed : BOOLEAN, resumed : BOOLEAN]

Counted(a) ==
    a.ordinal <= 1 + (IF a.transient THEN 1 ELSE 0) + (IF a.malformed THEN 1 ELSE 0)

\* A retry of a kind not used yet leaves the attempt counted.
LEMMA RetryCounted ==
    ASSUME NEW a \in AttemptSet, Counted(a), NEW r \in BOOLEAN
    PROVE  LET next == [a EXCEPT !.ordinal = @ + 1, !.resumed = r] IN
             /\ ~a.transient =>
                  LET new == [next EXCEPT !.transient = TRUE] IN
                    new \in AttemptSet /\ Counted(new)
             /\ ~a.malformed =>
                  LET new == [next EXCEPT !.malformed = TRUE] IN
                    new \in AttemptSet /\ Counted(new)
  <1>1. ~a.transient \/ ~a.malformed => a.ordinal + 1 \in 1 .. 3
    BY DEF AttemptSet, Counted
  <1> DEFINE next == [a EXCEPT !.ordinal = @ + 1, !.resumed = r]
  <1>2. /\ next \in [ordinal : Nat, family : Family, transient : BOOLEAN,
                      malformed : BOOLEAN, resumed : BOOLEAN]
        /\ next.ordinal = a.ordinal + 1
        /\ next.transient = a.transient /\ next.malformed = a.malformed
    <2>1. a.ordinal \in Nat /\ a.ordinal + 1 \in Nat
      BY DEF AttemptSet
    <2> QED
      BY <2>1 DEF AttemptSet
  <1> HIDE DEF next
  <1>3. ASSUME ~a.transient
        PROVE  /\ [next EXCEPT !.transient = TRUE] \in AttemptSet
               /\ Counted([next EXCEPT !.transient = TRUE])
    <2>1. [next EXCEPT !.transient = TRUE] \in AttemptSet
      BY <1>1, <1>2, <1>3 DEF AttemptSet
    <2>2. Counted([next EXCEPT !.transient = TRUE])
      BY <1>2, <1>3 DEF AttemptSet, Counted
    <2> QED
      BY <2>1, <2>2
  <1>4. ASSUME ~a.malformed
        PROVE  /\ [next EXCEPT !.malformed = TRUE] \in AttemptSet
               /\ Counted([next EXCEPT !.malformed = TRUE])
    <2>1. [next EXCEPT !.malformed = TRUE] \in AttemptSet
      BY <1>1, <1>2, <1>4 DEF AttemptSet
    <2>2. Counted([next EXCEPT !.malformed = TRUE])
      BY <1>2, <1>4 DEF AttemptSet, Counted
    <2> QED
      BY <2>1, <2>2
  <1> QED
    BY <1>3, <1>4 DEF next

LEMMA RetryingInv ==
    ASSUME RunInv, SessionExpired \/ Retry
    PROVE  RunInv'
  <1>1. at = "judging" /\ attempt \in AttemptSet /\ Counted(attempt)
    BY DEF SessionExpired, Retry, RunInv, TypeOK, AttemptSet, Counted, AttemptInv
  <1>2. PICK new \in AttemptSet : Counted(new) /\ Asks(new)
    <2>1. CASE SessionExpired
      <3>1. /\ [attempt EXCEPT !.resumed = FALSE] \in AttemptSet
            /\ Counted([attempt EXCEPT !.resumed = FALSE])
        BY <1>1 DEF AttemptSet, Counted
      <3> QED
        BY <2>1, <3>1 DEF SessionExpired
    <2>2. CASE Retry
      BY <1>1, <2>2, RetryCounted DEF Retry
    <2> QED
      BY <2>1, <2>2
  <1> QED
    BY <1>1, <1>2, AskingInv DEF AttemptSet, Counted

\* A verdict is on a head; it opens what it found and closes what was open.
LEMMA VerdictTyped ==
    ASSUME RunInv, at = "judging", NEW verdict \in {"clean", "findings"},
           NEW open \in SUBSET Findings, Verdict(verdict, open)
    PROVE  /\ attempt' \in [ordinal : 1 .. 3, family : Family, transient : BOOLEAN,
                            malformed : BOOLEAN, resumed : BOOLEAN]
           /\ AttemptInv'
           /\ passes' \in [Family -> Nat]
           /\ ledger' \in [Findings -> FindingState]
           /\ verdicts' \subseteq Head \X {"clean", "findings"}
           /\ open = {} => OpenFindings' = {}
           /\ EvidenceFrame /\ UNCHANGED <<launches, integrated>>
  <1>1. candidate \in Head
    BY DEF RunInv, CandidateInv, Examined
  <1>2. verdicts' \subseteq Head \X {"clean", "findings"}
    BY <1>1 DEF Verdict, RunInv, TypeOK
  <1>3. attempt' = [ordinal |-> 1, family |-> "initial", transient |-> FALSE,
                    malformed |-> FALSE, resumed |-> FALSE]
    BY DEF Verdict, FirstAttempt
  <1>4. ledger' = [f \in Findings |->
                    IF f \in open THEN "open"
                    ELSE IF f \in OpenFindings THEN "closed" ELSE ledger[f]]
    BY DEF Verdict
  <1>5. ledger' \in [Findings -> FindingState]
    BY <1>4 DEF RunInv, TypeOK, FindingState
  <1>6. open = {} => OpenFindings' = {}
    BY <1>4 DEF OpenFindings
  <1>7. passes' \in [Family -> Nat]
    BY DEF Verdict, RunInv, TypeOK, Family
  <1>8. EvidenceFrame /\ UNCHANGED <<launches, integrated>>
    BY DEF Verdict, EvidenceFrame
  <1> QED
    BY <1>2, <1>3, <1>5, <1>6, <1>7, <1>8 DEF Family, AttemptInv

LEMMA ApproveInv ==
    ASSUME RunInv, Approve
    PROVE  RunInv'
  <1> USE VerdictTyped
  <1>1. at = "judging" /\ Verdict("clean", {}) /\ stage \in {"review", "closure"}
        /\ integrated = NoHead /\ launches <= ordinal["remediation"]
    BY DEF Approve, RunInv, StageInv, CandidateInv, RoundInv, Over
  <1>2. /\ AttemptInv' /\ OpenFindings' = {}
        /\ EvidenceFrame /\ UNCHANGED <<launches, integrated>>
    BY <1>1
  <1>3. CASE Clear(candidate) /\ Goes("integration") /\ GoesOn("integrating")
    <2>1. Enters("integration") /\ at' = "integrating" /\ outcome' = outcome
      BY <1>1, <1>3, Accepted, Going, Typed, StageNames DEF GoesOn
    <2>2. TypeOK' /\ NeverRefused'
      BY <1>1, <1>2, <2>1, EvidenceTyped DEF Enters, Points, RunInv, TypeOK
    <2>3. StageInv' /\ CandidateInv' /\ GateInv'
      BY <1>1, <1>2, <2>1 DEF Enters, StageInv, RunInv, CandidateInv, GateInv, Examined,
         Over, EvidenceFrame, Passed
    <2>4. VerdictInv'
      <3>1. verdicts' = verdicts \cup {<<candidate, "clean">>} /\ candidate' = candidate
        BY <1>1, <1>2 DEF Verdict, EvidenceFrame
      <3>2. <<candidate, "clean">> # <<candidate, "findings">>
        OBVIOUS
      <3>3. <<candidate', "clean">> \in verdicts' /\ Clear(candidate)'
        BY <1>3, <3>1, <3>2 DEF Clear
      <3> QED
        BY <1>2, <3>3 DEF VerdictInv
    <2>5. RoundInv' /\ CompletedIsMerged'
      BY <1>1, <1>2, <2>1 DEF RoundInv, CompletedIsMerged, RunInv, Enters, EvidenceFrame,
         collected, Over
    <2> QED
      BY <1>2, <2>2, <2>3, <2>4, <2>5 DEF RunInv
  <1>4. CASE EndsFailing("blocked")
    <2>1. Enters("classification") /\ at' = "classifying" /\ outcome' = "blocked"
      BY <1>1, <1>4, Failing, Typed DEF EndsFailing
    <2>2. TypeOK' /\ NeverRefused'
      BY <1>1, <1>2, <2>1, EvidenceTyped DEF Enters, Points, Outcomes, RunInv, TypeOK
    <2>3. StageInv' /\ CandidateInv' /\ GateInv'
      BY <2>1 DEF Enters, StageInv, CandidateInv, GateInv, Examined, Over
    <2>4. VerdictInv' /\ RoundInv' /\ CompletedIsMerged'
      BY <1>1, <1>2, <2>1 DEF VerdictInv, RoundInv, CompletedIsMerged, RunInv, Over
    <2> QED
      BY <1>2, <2>2, <2>3, <2>4 DEF RunInv
  <1> QED
    BY <1>3, <1>4 DEF Approve

LEMMA ObjectInv ==
    ASSUME RunInv, Object
    PROVE  RunInv'
  <1>1. /\ at = "judging" /\ at' = "remediating" /\ outcome' = outcome
        /\ stage \in {"review", "closure"}
        /\ integrated = NoHead /\ launches <= ordinal["remediation"]
    BY DEF Object, GoesOn, RunInv, StageInv, CandidateInv, RoundInv, Over
  <1>2. PICK open \in SUBSET Findings : Verdict("findings", open)
    BY DEF Object, OpenFindings
  <1>3. /\ attempt' \in [ordinal : 1 .. 3, family : Family, transient : BOOLEAN,
                            malformed : BOOLEAN, resumed : BOOLEAN]
        /\ AttemptInv'
        /\ passes' \in [Family -> Nat]
        /\ ledger' \in [Findings -> FindingState]
        /\ verdicts' \subseteq Head \X {"clean", "findings"}
        /\ EvidenceFrame /\ UNCHANGED <<launches, integrated>>
    BY <1>1, <1>2, VerdictTyped
  <1>4. Enters("remediation")
    BY <1>1, Accepted, Going, Typed, StageNames DEF Object
  <1>5. TypeOK' /\ NeverRefused'
    BY <1>1, <1>3, <1>4, EvidenceTyped DEF Enters, Points, RunInv, TypeOK
  <1>6. StageInv' /\ CandidateInv' /\ GateInv'
    BY <1>1, <1>3, <1>4 DEF Enters, StageInv, CandidateInv, GateInv, Examined
  <1>7. VerdictInv' /\ RoundInv' /\ CompletedIsMerged'
    BY <1>1, <1>3, <1>4, Typed
    DEF VerdictInv, RoundInv, CompletedIsMerged, RunInv, Over, Enters, EvidenceFrame,
        collected
  <1> QED
    BY <1>3, <1>5, <1>6, <1>7 DEF RunInv

\* The merge of the candidate, resolved or not.
LEMMA MergingInv ==
    ASSUME RunInv, Merge \/ ConflictResolved
    PROVE  RunInv'
  <1>1. /\ at \in {"integrating", "resolving"} /\ at' = "merged"
        /\ integrated' = candidate /\ outcome' = "completed"
        /\ EvidenceFrame /\ UNCHANGED <<reviewed, launches>>
    BY DEF Merge, ConflictResolved, Integrates, EvidenceFrame
  <1>2. Stays
    BY Staying, Typed DEF Merge, ConflictResolved, Integrates
  <1>3. candidate \in Head /\ candidate # NoHead /\ OpenFindings = {}
    BY <1>1, NoHeadAssumption DEF RunInv, CandidateInv, VerdictInv, Examined
  <1>4. TypeOK' /\ NeverRefused'
    BY <1>1, <1>2, <1>3, EvidenceTyped
    DEF Stays, Points, Outcomes, RunInv, TypeOK, reviewed
  <1>5. AttemptInv' /\ StageInv' /\ CandidateInv' /\ GateInv'
    BY <1>1, <1>2 DEF Stays, RunInv, AttemptInv, StageInv, CandidateInv, GateInv, Over,
                      Examined, reviewed
  <1>6. VerdictInv' /\ RoundInv' /\ CompletedIsMerged'
    BY <1>1, <1>2, <1>3
    DEF VerdictInv, RoundInv, CompletedIsMerged, RunInv, OpenFindings, Over, reviewed
  <1> QED
    BY <1>4, <1>5, <1>6 DEF RunInv

LEMMA MergeConflictsInv ==
    ASSUME RunInv, MergeConflicts
    PROVE  RunInv'
  <1>1. Stays /\ at = "integrating" /\ EvidenceFrame /\ UNCHANGED <<reviewed, integrated>>
    BY Staying, Typed DEF MergeConflicts, EvidenceFrame
  <1>2. \/ /\ ordinal["remediation"] < MaxRounds /\ launches' = launches + 1
           /\ at' = "resolving" /\ outcome' = outcome
        \/ launches' = launches /\ at' = "classifying" /\ outcome' = "blocked"
    BY DEF MergeConflicts, Launched, GoesOn
  <1>3. TypeOK' /\ NeverRefused'
    BY <1>1, <1>2, EvidenceTyped, Typed
    DEF Stays, Points, Outcomes, RunInv, TypeOK, reviewed
  <1>4. AttemptInv' /\ StageInv' /\ CandidateInv' /\ GateInv'
    BY <1>1, <1>2 DEF Stays, RunInv, AttemptInv, StageInv, CandidateInv, GateInv, Over,
                      Examined, reviewed, EvidenceFrame, Passed
  <1>5. VerdictInv' /\ RoundInv' /\ CompletedIsMerged'
    BY <1>1, <1>2, Typed
    DEF VerdictInv, RoundInv, CompletedIsMerged, RunInv, OpenFindings, Over, reviewed,
        EvidenceFrame, collected, Clear
  <1> QED
    BY <1>3, <1>4, <1>5 DEF RunInv

-----------------------------------------------------------------------------
(* The invariant.                                                           *)

LEMMA Initially == Init => RunInv
  <1> SUFFICES ASSUME Init PROVE RunInv
    OBVIOUS
  <1>1. TypeOK
    <2>1. /\ 0 \in 0 .. MaxMain /\ 0 \in 0 .. MaxReanchors /\ 0 \in 0 .. MaxStrays
          /\ 1 \in 1 .. NGates + 1
      BY LifecycleAssumption DEF LifecycleAssumption
    <2>2. tree \in Tree
      BY <2>1 DEF Init, Tree, Head
    <2>3. SM!TypeOK
      BY StageNames DEF Init, SM!Init, SM!TypeOK
    <2>4. evidence \in [Gates \X Head -> Evidence] /\ ledger \in [Findings -> FindingState]
      BY DEF Init, Evidence, FindingState
    <2>5. attempt \in [ordinal : 1 .. 3, family : Family, transient : BOOLEAN,
                      malformed : BOOLEAN, resumed : BOOLEAN]
          /\ passes \in [Family -> Nat]
      BY DEF Init, FirstAttempt, Family
    <2> QED
      BY <2>1, <2>2, <2>3, <2>4, <2>5 DEF Init, TypeOK, Points, Outcomes
  <1>2. AttemptInv /\ NeverRefused /\ StageInv /\ CandidateInv /\ GateInv
    BY DEF Init, AttemptInv, NeverRefused, StageInv, CandidateInv, GateInv, SM!Init,
           FirstAttempt, Examined
  <1>3. VerdictInv /\ RoundInv /\ CompletedIsMerged
    BY LifecycleAssumption, StageNames
    DEF Init, VerdictInv, RoundInv, CompletedIsMerged, SM!Init, LifecycleAssumption
  <1> QED
    BY <1>1, <1>2, <1>3 DEF RunInv

LEMMA StepKeeps ==
    ASSUME RunInv, Next
    PROVE  RunInv'
  <1>1. CASE Starting
    BY <1>1, AdvancedInv, LaunchInv, EndedInv DEF Starting, Advanced, Ended
  <1>2. CASE Working
    BY <1>2, AdvancedInv, EndedInv DEF Working, Advanced, Ended
  <1>3. CASE Collecting
    BY <1>3, AdvancedInv, EndedInv, CollectingInv, ReanchorRefusedInv, EnteringInv
    DEF Collecting, Advanced, Ended
  <1>4. CASE Gating
    BY <1>4, AdvancedInv, GatingInv DEF Gating, Advanced
  <1>5. CASE Remediating
    BY <1>5, AdvancedInv, EndedInv, RemediateInv, EnteringInv
    DEF Remediating, Advanced, Ended
  <1>6. CASE Reviewing
    BY <1>6, AdvancedInv, EndedInv, BeginReviewInv, RetryingInv, ApproveInv, ObjectInv
    DEF Reviewing, Advanced, Ended
  <1>7. CASE Integrating
    BY <1>7, AdvancedInv, EndedInv, MergingInv, MergeConflictsInv
    DEF Integrating, Advanced, Ended
  <1>8. CASE Closing
    BY <1>8, EndedInv DEF Ended
  <1>9. CASE Declare
    BY <1>9, CollectingInv
  <1>10. CASE Edit \/ MainAdvances
    BY <1>10, OutsideInv
  <1> QED
    BY <1>1, <1>2, <1>3, <1>4, <1>5, <1>6, <1>7, <1>8, <1>9, <1>10
    DEF Next, Supervise

LEMMA StutterKeeps ==
    ASSUME RunInv, UNCHANGED vars
    PROVE  RunInv'
  BY DEF RunInv, TypeOK, SM!TypeOK, AttemptInv, NeverRefused, StageInv, CandidateInv,
         GateInv, Passed, Result, VerdictInv, Clear, OpenFindings, RoundInv,
         CompletedIsMerged, vars, stages, worktree, collected, reviewed

LEMMA RunInvariant == Spec => []RunInv
  <1>1. RunInv /\ [Next]_vars => RunInv'
    BY StepKeeps, StutterKeeps
  <1> QED
    BY Initially, <1>1, PTL DEF Spec

\* Every reachable state of a run is type correct; no attempt at a review is
\* repeated more often than each kind of retry allows (ReviewRouter).
THEOREM TypeCorrect == Spec => []TypeOK
  <1>1. RunInv => TypeOK
    BY DEF RunInv
  <1> QED
    BY RunInvariant, <1>1, PTL

\* Whatever fails, retries or raises, the supervisor asks the stage machine for
\* legal transitions only, so that no outcome is hidden by its error.
THEOREM TransitionsLegal == Spec => []NeverRefused
  <1>1. RunInv => NeverRefused
    BY DEF RunInv
  <1> QED
    BY RunInvariant, <1>1, PTL

\* Gates, reviews and conflicts together launch no more remediation workers
\* than the run contract grants (remediation.max_rounds).
THEOREM RoundsKept == Spec => []RoundsBounded
  <1>1. RunInv => RoundsBounded
    BY DEF RunInv, RoundInv, RoundsBounded
  <1> QED
    BY RunInvariant, <1>1, PTL

\* Nothing is merged with a finding open, and a completed run has merged unless
\* its worker owns the lifecycle.
THEOREM MergedClean == Spec => [](MergedWithoutFindings /\ CompletedIsMerged)
  <1>1. RunInv => MergedWithoutFindings /\ CompletedIsMerged
    BY DEF RunInv, VerdictInv, MergedWithoutFindings
  <1> QED
    BY RunInvariant, <1>1, PTL

-----------------------------------------------------------------------------
(* The promise.                                                             *)

GatedHeads == {h \in Head : Passed(h)}
ApprovedHeads == {h \in Head : <<h, "clean">> \in verdicts}
RejectedHeads == {h \in Head : <<h, "findings">> \in verdicts}

\* The step of ReviewedMerge each step of a run is: Quiet ones are none.
Quiet == UNCHANGED <<evidence, verdicts, integrated>>

LEMMA QuietSteps ==
    ASSUME Next
    PROVE  \/ Quiet \/ GateStarts \/ GateEnds \/ Approve \/ Object \/ Merge
           \/ ConflictResolved
  <1> USE DEF Quiet, Stop, reviewed
  <1>1. CASE Starting
    BY <1>1 DEF Starting, Resolve, Activate, Launch, PreLaunchFails
  <1>2. CASE Working
    BY <1>2 DEF Working, WorkerFails, WorkerCompletes, WorkerReady
  <1>3. CASE Collecting
    BY <1>3 DEF Collecting, Collect, CollectionFails, BaseSettled, ReanchorExhausted,
       Reanchor, ReanchorRefused, SourceChanged, EnterGates
  <1>4. CASE Gating
    BY <1>4 DEF Gating, GateReused, GatesPassed
  <1>5. CASE Remediating
    BY <1>5 DEF Remediating, RemediationExhausted, Remediate, RemediationEnds,
       RemediationFails, Derive
  <1>6. CASE Reviewing
    BY <1>6 DEF Reviewing, BeginReview, Claim, PassesExhausted, ReviewRefused,
       ReviewerFails, SessionExpired, Retry, RetryExhausted, Asks
  <1>7. CASE Integrating
    BY <1>7 DEF Integrating, IntegrationFails, MergeConflicts, ResolutionFails,
       Provenance, Confirm, ProvenanceFails
  <1>8. CASE Closing
    BY <1>8 DEF Closing, Classify, Finalize, Record, Raises
  <1>9. CASE Declare \/ Edit \/ MainAdvances
    BY <1>9 DEF Declare, Edit, MainAdvances
  <1> QED
    BY <1>1, <1>2, <1>3, <1>4, <1>5, <1>6, <1>7, <1>8, <1>9 DEF Next, Supervise

\* Recording a result of a gate gates the candidate at most.
LEMMA RecordGates ==
    ASSUME RunInv, at \in {"gating", "checking"}, gate <= NGates,
           Result \in {"none", "unsigned"}, NEW recorded \in Evidence, RecordGate(recorded),
           candidate' = candidate
    PROVE  GatedHeads' \in {GatedHeads, GatedHeads \cup {candidate}}
  <1>1. candidate \in Head /\ gate \in Gates
    BY GateNumbers DEF RunInv, CandidateInv
  <1>2. \A h \in Head \ {candidate} : Passed(h)' <=> Passed(h)
    <2> SUFFICES ASSUME NEW h \in Head \ {candidate}, NEW g \in Gates
                 PROVE  evidence'[<<g, h>>] = evidence[<<g, h>>]
      BY DEF Passed
    <2>1. <<g, h>> # <<gate, candidate>>
      OBVIOUS
    <2> QED
      BY <2>1, RecordTyped
  <1>3. ~Passed(candidate)
    BY <1>1 DEF Passed, Result
  <1>4. GatedHeads \subseteq GatedHeads' /\ GatedHeads' \subseteq GatedHeads \cup {candidate}
    BY <1>2, <1>3 DEF GatedHeads
  <1> QED
    BY <1>4

LEMMA PromiseStep ==
    ASSUME RunInv, Next
    PROVE  [Promise!Next]_(Promise!vars)
  <1> USE DEF GatedHeads, ApprovedHeads, RejectedHeads, Passed
  <1>1. CASE Quiet
    BY <1>1 DEF Quiet, Promise!vars
  <1>2. CASE GateStarts \/ GateEnds
    <2>1. /\ at \in {"gating", "checking"} /\ integrated = NoHead /\ gate <= NGates
          /\ Result \in {"none", "unsigned"}
          /\ UNCHANGED <<candidate, verdicts, integrated>> /\ candidate \in Head
      BY <1>2 DEF GateStarts, GateEnds, RunInv, CandidateInv, GateInv, Over, reviewed
    <2>2. CASE evidence' = evidence
      BY <2>1, <2>2 DEF Promise!vars
    <2>3. ASSUME NEW recorded \in Evidence, RecordGate(recorded)
          PROVE  [Promise!Next]_(Promise!vars)
      <3>1. GatedHeads' \in {GatedHeads, GatedHeads \cup {candidate}}
        BY <2>1, <2>3, RecordGates
      <3> QED
        BY <2>1, <3>1 DEF Promise!vars, Promise!Next, Promise!Gate
    <2> QED
      BY <1>2, <2>2, <2>3 DEF GateStarts, GateEnds, Evidence
  <1>3. CASE Approve \/ Object
    <2>1. /\ candidate \in Head /\ integrated = NoHead /\ candidate \in GatedHeads
          /\ UNCHANGED <<evidence, integrated>>
      BY <1>3 DEF Approve, Object, Verdict, RunInv, CandidateInv, GateInv, Examined, Over
    <2>2. PICK v \in {"clean", "findings"} :
              verdicts' = verdicts \cup {<<candidate, v>>}
      BY <1>3 DEF Approve, Object, Verdict
    <2>3. CASE v = "clean"
      <3>1. ApprovedHeads' = ApprovedHeads \cup {candidate} /\ RejectedHeads' = RejectedHeads
        BY <2>1, <2>2, <2>3
      <3> QED
        BY <2>1, <3>1 DEF Promise!vars, Promise!Next, Promise!Approve
    <2>4. CASE v = "findings"
      <3>1. RejectedHeads' = RejectedHeads \cup {candidate} /\ ApprovedHeads' = ApprovedHeads
        BY <2>1, <2>2, <2>4
      <3> QED
        BY <2>1, <3>1 DEF Promise!vars, Promise!Next, Promise!Reject
    <2> QED
      BY <2>3, <2>4
  <1>4. CASE Merge \/ ConflictResolved
    <2>1. /\ candidate \in Head /\ integrated = NoHead /\ candidate \in GatedHeads
          /\ <<candidate, "clean">> \in verdicts /\ <<candidate, "findings">> \notin verdicts
          /\ integrated' = candidate /\ UNCHANGED <<evidence, verdicts>>
      BY <1>4 DEF Merge, ConflictResolved, Integrates, RunInv, CandidateInv, GateInv,
                  VerdictInv, Clear, Examined, Over, reviewed
    <2> QED
      BY <2>1 DEF Promise!vars, Promise!Next, Promise!Merge
  <1> QED
    BY <1>1, <1>2, <1>3, <1>4, QuietSteps

\* Whatever the worker leaves in the worktree, wherever main moves and whatever
\* gates and reviewers answer: a run brings to main only a head that passed
\* every gate, that a reviewer approved and that none rejected.
THEOREM ReviewedRefined == ASSUME NGates # 0 PROVE Spec => ReviewedOnly
  <1>1. Init => Promise!Init
    <2> SUFFICES ASSUME Init PROVE Promise!Init
      OBVIOUS
    <2>1. 1 \in Gates
      BY LifecycleAssumption DEF LifecycleAssumption, Gates
    <2>2. \A h \in Head : evidence[<<1, h>>] = "none"
      BY <2>1 DEF Init
    <2> QED
      BY <2>1, <2>2 DEF Init, Promise!Init
  <1>2. RunInv /\ [Next]_vars => [Promise!Next]_(Promise!vars)
    <2>1. CASE UNCHANGED vars
      BY <2>1 DEF vars, reviewed, Promise!vars
    <2> QED
      BY <2>1, PromiseStep
  <1> QED
    BY <1>1, <1>2, RunInvariant, PTL DEF Spec, ReviewedOnly, Promise!Spec

-----------------------------------------------------------------------------
(* The stages.                                                              *)

Before == {"none", "activation", "workspace", "implementing", "candidate",
           "gates", "review", "remediation", "closure"}

Judged == ordinal["review"] + ordinal["closure"]

\* What EachCandidateGated needs to be inductive: a stage that stands has used
\* one visit of the stage before it, and the integration has none behind it.
GatedInv ==
    /\ SM!TypeOK
    /\ SM!EachCandidateGated
    /\ stage = "candidate" => ordinal["gates"] < ordinal["candidate"]
    /\ stage = "gates" => Judged < ordinal["gates"]
    /\ stage \in {"review", "closure"} => Judged > 0
    /\ stage \in Before => ordinal["integration"] = 0

LEMMA LegalRows ==
    /\ SM!Legal["activation"] = {"workspace"}
    /\ SM!Legal["workspace"] = {"implementing"}
    /\ SM!Legal["implementing"] = {"candidate", "classification"}
    /\ SM!Legal["candidate"] = {"gates"}
    /\ SM!Legal["gates"] = {"review", "remediation", "closure"}
    /\ SM!Legal["review"] = {"remediation", "integration"}
    /\ SM!Legal["remediation"] = {"candidate"}
    /\ SM!Legal["closure"] = {"remediation", "integration"}
    /\ SM!Legal["integration"] = {"provenance"}
    /\ SM!Legal["provenance"] = {"classification"}
    /\ SM!Legal["classification"] = {"finalization"}
    /\ SM!Legal["finalization"] = {}
  BY DEF SM!Legal

\* The table read backwards: where an accepted destination was reached from.
LEMMA Sources ==
    ASSUME SM!TypeOK, NEW to, SM!Accepts(to)
    PROVE  /\ to = "gates" => stage = "candidate"
           /\ to \in {"review", "closure"} => stage = "gates"
           /\ to = "integration" => stage \in {"review", "closure"}
           /\ to \in Before => stage \in Before
  BY LegalRows, StageNames DEF SM!Accepts, SM!TypeOK, Before

\* Entering any stage keeps the type.
LEMMA EntersTyped ==
    ASSUME SM!TypeOK, NEW to \in SM!RunStage, SM!Enters(to)
    PROVE  SM!TypeOK'
  BY DEF SM!TypeOK, SM!Enters

LEMMA StageInitially == SM!Init => GatedInv
  BY StageNames DEF SM!Init, GatedInv, SM!TypeOK, SM!EachCandidateGated, Judged, Before

LEMMA TransitionKeeps ==
    ASSUME GatedInv, NEW to \in SM!RunStage, SM!Transition(to)
    PROVE  GatedInv'
  <1>1. SM!TypeOK'
    BY EntersTyped DEF GatedInv, SM!Transition
  <1>2. /\ stage' = to
        /\ ordinal' = [ordinal EXCEPT ![to] = @ + 1]
        /\ ordinal \in [SM!RunStage -> Nat]
    BY DEF SM!Transition, SM!Enters, GatedInv, SM!TypeOK
  <1>3. CASE to \in {"activation", "workspace", "implementing", "provenance",
                     "classification", "finalization"}
    <2>1. \A s \in {"candidate", "gates", "review", "closure", "integration"} :
              ordinal'[s] = ordinal[s]
      BY <1>2, <1>3, StageNames
    <2>2. stage' \in Before => stage \in Before
      BY <1>2, Sources DEF SM!Transition, GatedInv
    <2> QED
      BY <1>1, <1>2, <1>3, <2>1, <2>2, StageNames
      DEF GatedInv, SM!EachCandidateGated, Judged, SM!TypeOK
  <1>4. CASE to \in {"candidate", "remediation"}
    <2>1. stage \in Before
      BY <1>4, Sources DEF SM!Transition, GatedInv, Before
    <2> QED
      BY <1>1, <1>2, <1>4, <2>1, StageNames
      DEF GatedInv, SM!EachCandidateGated, Judged, SM!TypeOK, Before
  <1>5. CASE to = "gates"
    <2>1. stage = "candidate"
      BY <1>5, Sources DEF SM!Transition, GatedInv
    <2> QED
      BY <1>1, <1>2, <1>5, <2>1, StageNames
      DEF GatedInv, SM!EachCandidateGated, Judged, SM!TypeOK, Before
  <1>6. CASE to \in {"review", "closure"}
    <2>1. stage = "gates"
      BY <1>6, Sources DEF SM!Transition, GatedInv
    <2> QED
      BY <1>1, <1>2, <1>6, <2>1, StageNames
      DEF GatedInv, SM!EachCandidateGated, Judged, SM!TypeOK, Before
  <1>7. CASE to = "integration"
    <2>1. stage \in {"review", "closure"}
      BY <1>7, Sources DEF SM!Transition, GatedInv
    <2> QED
      BY <1>1, <1>2, <1>7, <2>1, StageNames
      DEF GatedInv, SM!EachCandidateGated, Judged, SM!TypeOK, Before
  <1> QED
    BY <1>3, <1>4, <1>5, <1>6, <1>7, StageNames

LEMMA FailKeeps ==
    ASSUME GatedInv, SM!Fail
    PROVE  GatedInv'
  <1>1. PICK to \in {"classification", "finalization"} : SM!Enters(to)
    BY DEF SM!Fail
  <1>2. SM!TypeOK'
    BY <1>1, EntersTyped, StageNames DEF GatedInv
  <1>3. \A s \in {"candidate", "gates", "review", "closure", "integration"} :
            ordinal'[s] = ordinal[s]
    BY <1>1, StageNames DEF SM!Enters, GatedInv, SM!TypeOK
  <1>4. stage' = to
    BY <1>1 DEF SM!Enters
  <1> QED
    BY <1>2, <1>3, <1>4 DEF GatedInv, SM!EachCandidateGated, Judged, Before

\* Whatever order the stages are requested in and wherever a run fails, each
\* review had its gates, those their candidate, and the integration is entered
\* once (LEGAL_STAGE_TRANSITIONS is what makes it so).
THEOREM StagesGated == SM!Spec => []SM!EachCandidateGated
  <1>1. GatedInv /\ [SM!Next]_<<stage, ordinal>> => GatedInv'
    <2> SUFFICES ASSUME GatedInv, [SM!Next]_<<stage, ordinal>>
                 PROVE  GatedInv'
      OBVIOUS
    <2>1. ASSUME NEW to \in SM!RunStage, SM!Transition(to)
          PROVE  GatedInv'
      BY <2>1, TransitionKeeps
    <2>2. CASE SM!Fail
      BY <2>2, FailKeeps
    <2>3. CASE UNCHANGED <<stage, ordinal>>
      BY <2>3 DEF GatedInv, SM!TypeOK, SM!EachCandidateGated, Judged
    <2> QED
      BY <2>1, <2>2, <2>3 DEF SM!Next
  <1>2. GatedInv => SM!EachCandidateGated
    BY DEF GatedInv
  <1> QED
    BY StageInitially, <1>1, <1>2, PTL DEF SM!Spec

LEMMA StageSteps ==
    ASSUME Next
    PROVE  \/ UNCHANGED <<stage, ordinal>>
           \/ \E to \in SM!RunStage : Goes(to)
           \/ Fails
  <1> USE StageNames DEF stages, Ends, EndsFailing
  <1>1. CASE Starting
    BY <1>1 DEF Starting, Resolve, Activate, Launch, PreLaunchFails
  <1>2. CASE Working
    BY <1>2 DEF Working, WorkerFails, WorkerCompletes, WorkerReady
  <1>3. CASE Collecting
    BY <1>3 DEF Collecting, Collect, CollectionFails, BaseSettled, ReanchorExhausted,
       Reanchor, ReanchorRefused, SourceChanged, EnterGates
  <1>4. CASE Gating
    BY <1>4 DEF Gating, GateReused, GateStarts, GateEnds, GatesPassed, NextGate,
       GateFailed, GateEnvironmentFailed
  <1>5. CASE Remediating
    BY <1>5 DEF Remediating, RemediationExhausted, Remediate, RemediationEnds,
       RemediationFails, Derive
  <1>6. CASE Reviewing
    BY <1>6 DEF Reviewing, BeginReview, Claim, PassesExhausted, ReviewRefused,
       ReviewerFails, SessionExpired, Retry, RetryExhausted, Asks, Approve, Object
  <1>7. CASE Integrating
    BY <1>7 DEF Integrating, IntegrationFails, Merge, MergeConflicts, ConflictResolved,
       Integrates, ResolutionFails, Provenance, Confirm, ProvenanceFails
  <1>8. CASE Closing
    BY <1>8 DEF Closing, Classify, Finalize, Record, Raises
  <1>9. CASE Declare \/ Edit \/ MainAdvances
    BY <1>9 DEF Declare, Edit, MainAdvances
  <1> QED
    BY <1>1, <1>2, <1>3, <1>4, <1>5, <1>6, <1>7, <1>8, <1>9 DEF Next, Supervise

\* The supervisor drives the stage machine by its transitions and failures only,
\* so that what holds of every sequence of those holds of every run.
THEOREM CandidatesGated == Spec => []EachCandidateGated
  <1>1. Init => SM!Init
    BY DEF Init
  <1>2. [Next]_vars => [SM!Next]_<<stage, ordinal>>
    <2>1. ASSUME NEW to \in SM!RunStage, Goes(to)
          PROVE  [SM!Next]_<<stage, ordinal>>
      BY <2>1 DEF Goes, SM!Next, SM!Transition
    <2>2. CASE Fails
      BY <2>2 DEF Fails, SM!Next
    <2>3. CASE UNCHANGED vars
      BY <2>3 DEF vars, stages
    <2> QED
      BY <2>1, <2>2, <2>3, StageSteps
  <1>3. SM!EachCandidateGated => EachCandidateGated
    BY DEF EachCandidateGated
  <1> QED
    BY <1>1, <1>2, <1>3, StagesGated, PTL DEF Spec, SM!Spec

-----------------------------------------------------------------------------
(* The integration: the inductive invariant. *)

\* Each kind of owner has control points of its own.
TypeInv ==
    /\ IntegrationTypeOK
    /\ \A r \in Runs : place[r] \in RunPCs
    /\ \A a \in Agents : place[a] \in AgentPCs

\* From the first look at main to the end of the attempt on it.
OnMain == {"refreshing", "resolving", "checking", "landing", "landed",
           "verifying", "restoring", "resetting", "pushing", "reconfirming",
           "fencing", "recording"}

\* The branch has landed.
Landed == {"landed", "verifying", "pushing", "reconfirming", "fencing",
           "recording"}

\* What landed passed its checks.
Checked == {"pushing", "reconfirming", "fencing", "recording"}

\* The candidate is never taken off its branch; a conflict is open only on a
\* branch that was not refreshed; and a branch whose candidate was on main
\* already has nothing that is not.
HeadInv ==
    \A r \in Runs :
        /\ Ancestor(Candidate(r), head[r])
        /\ merging[r] # NoCommit \/ place[r] \in {"refreshing", "resolving"}
                => head[r] = Candidate(r)
        /\ place[r] = "refreshing" =>
               merging[r] = NoCommit /\ ~AlreadyMerged(r, before[r])
        /\ place[r] = "checking" /\ AlreadyMerged(r, before[r])
                => Ancestor(head[r], main)
        /\ place[r] \in Landed => Ancestor(head[r], main)

\* What a run knows of main: main was not behind what it saw first, it verifies
\* a commit with its candidate, and delivers the commit it verified.
ViewInv ==
    \A r \in Runs :
        /\ place[r] \in OnMain => Ancestor(before[r], main)
        /\ place[r] \in {"refreshing", "resolving", "checking"} => after[r] = before[r]
        /\ place[r] \in {"verifying"} \cup Checked => Ancestor(Candidate(r), after[r])
        /\ place[r] \in Checked => checked[r] = after[r]

\* A completed result is the last of its run, and was on main before any run
\* looked at main that still works on it.
CompletedInv ==
    \A r \in Runs : result[r] = "completed" =>
        /\ place[r] \in {"releasing", "done", "over", "dead", "begin"}
        /\ \A q \in Runs : place[q] \in OnMain => Ancestor(head[r], before[q])

\* What is about to be recorded as completed is upstream where it has to be.
DeliveryInv ==
    \A r \in Runs :
        /\ place[r] \in {"fencing", "recording"} /\ policy.push
                => Ancestor(after[r], remote)
        /\ place[r] = "recording" /\ policy.sync => Ancestor(Candidate(r), remote)

IntegrationInv ==
    /\ TypeInv
    /\ WorkHasLock
    /\ HeadInv
    /\ ViewInv
    /\ CompletedInv
    /\ ResultsDelivered
    /\ DeliveryInv
-----------------------------------------------------------------------------
(* Facts about the operators. *)

\* A run in the critical section goes on to its work, or is blocked.
LEMMA FirstStepAtWork ==
    ASSUME NEW r \in Runs
    PROVE  FirstStep(r) \in {"resolving", "checking", "refreshing", "blocked"}
BY DEF FirstStep

LEMMA FirstLockAttempt == 1 \in 1..MaxLockAttempts
BY IntegrationAssumption DEF IntegrationAssumption

LEMMA OwnersDiffer == NoOne \notin Owners /\ Runs \cap Agents = {}
BY IntegrationAssumption DEF IntegrationAssumption, Owners

\* The lock excludes: no two runs are in the critical section.
LEMMA OneInCritical ==
    ASSUME WorkHasLock, NEW q \in Runs, NEW r \in Runs,
           place[q] \in Critical, place[r] \in Critical
    PROVE  q = r
BY DEF WorkHasLock, Owners

\* A completed run is not in the critical section before its release.
LEMMA CriticalIsOpen ==
    ASSUME CompletedInv, NEW r \in Runs, place[r] \in OnMain
    PROVE  result[r] # "completed"
BY DEF CompletedInv, OnMain

\* A completed result is reusable: its run never works on main again.
LEMMA CompletedIsReusable ==
    ASSUME ResultsDelivered, NEW r \in Runs, result[r] = "completed"
    PROVE  Reusable(r)
BY DEF ResultsDelivered, Reusable

LEMMA IInvInit == IntegrationInit => IntegrationInv
<1> SUFFICES ASSUME IntegrationInit PROVE IntegrationInv
  OBVIOUS
<1>1. TypeInv
  <2>1. undercut \in BOOLEAN BY DEF IntegrationInit
  <2>2. /\ head \in [Runs -> Commits] /\ merging \in [Runs -> Commits]
        /\ {before, after, checked} \subseteq [Runs -> Commits]
        /\ main \in Commits /\ remote \in Commits
    BY DEF IntegrationInit, Commits, Candidate, NoCommit
  <2>3. QED
    BY <2>1, <2>2, IntegrationAssumption, FirstLockAttempt
      DEF IntegrationAssumption, IntegrationInit, TypeInv, IntegrationTypeOK, Owners,
          RunPCs, AgentPCs, Waiting, Critical, Results
<1>2. WorkHasLock
  BY OwnersDiffer DEF IntegrationInit, WorkHasLock, Owners, Critical
<1>3. HeadInv /\ ViewInv /\ CompletedInv /\ ResultsDelivered /\ DeliveryInv
  BY DEF IntegrationInit, Owners, HeadInv, ViewInv, CompletedInv, ResultsDelivered,
         DeliveryInv, OnMain, Landed, Checked, Ancestor, NoCommit
<1>4. QED BY <1>1, <1>2, <1>3 DEF IntegrationInv

-----------------------------------------------------------------------------
(* The steps of a run. *)

\* An attempt that fails leaves the critical section to the release.
LEMMA FailureKeeps ==
    ASSUME IntegrationInv, NEW r \in Runs, NEW from \in OnMain \cup {"locked"},
           FailsAt(r, from),
           UNCHANGED <<policy, undercut, gitVars, lock, branchVars, viewVars,
                       lock_attempt, restarts, seen>>
    PROVE  IntegrationInv'
<1> USE OwnersDiffer DEF IntegrationInv, FailsAt, Goto, Records, gitVars, branchVars,
                         viewVars
<1>1. TypeInv' /\ WorkHasLock'
  BY DEF TypeInv, IntegrationTypeOK, WorkHasLock, RunPCs, Critical, OnMain, Owners,
         Results
<1>2. HeadInv' /\ ViewInv'
  BY DEF HeadInv, ViewInv, TypeInv, IntegrationTypeOK, Owners, OnMain, Landed, Checked
<1>3. CompletedInv' /\ ResultsDelivered' /\ DeliveryInv'
  BY DEF CompletedInv, ResultsDelivered, DeliveryInv, TypeInv, IntegrationTypeOK,
         Owners, OnMain
<1>4. QED BY <1>1, <1>2, <1>3

\* What an owner does outside the work on main, when all that happens to the
\* lock is that it becomes free or goes to the owner, keeps what is known of
\* main and of the branches.
Outside(o) ==
    /\ UNCHANGED <<policy, main, remote, head, merging, resolved, before, after,
                   checked>>
    /\ \A r \in Runs : r # o => place'[r] = place[r] /\ result'[r] = result[r]
    /\ place'[o] = place[o] \/ place'[o] \notin OnMain \cup {"releasing"}
    /\ o \in Runs =>
         \/ result'[o] = result[o]
         \/ place[o] \notin OnMain /\ result'[o] # "completed"
    /\ o \in Runs /\ result[o] = "completed" =>
         place'[o] \in {"releasing", "done", "over", "dead", "begin"}

LEMMA OutsideKeeps ==
    ASSUME IntegrationInv, TypeInv', WorkHasLock', NEW o \in Owners,
           Outside(o)
    PROVE  IntegrationInv'
<1> USE DEF Outside, gitVars, branchVars, viewVars
<1>1. HeadInv'
  BY DEF IntegrationInv, HeadInv, OnMain, Landed, NoCommit, Ancestor, AlreadyMerged
<1>2. ViewInv'
  BY DEF IntegrationInv, ViewInv, OnMain, Checked, Ancestor
<1>3. CompletedInv'
  BY DEF IntegrationInv, CompletedInv, OnMain, Ancestor
<1>4. ResultsDelivered' /\ DeliveryInv'
  BY DEF IntegrationInv, ResultsDelivered, DeliveryInv, OnMain, Ancestor
<1>5. QED BY <1>1, <1>2, <1>3, <1>4 DEF IntegrationInv

LEMMA EnterKeeps ==
    ASSUME IntegrationInv, NEW r \in Runs, Enter(r)
    PROVE  IntegrationInv'
<1> USE OwnersDiffer DEF Goto, Records
<1>0. /\ place \in [Owners -> RunPCs \cup AgentPCs]
      /\ result \in [Runs -> Results]
      /\ r \in Owners
      /\ result[r] = "completed" =>
            place[r] \in {"releasing", "done", "over", "dead", "begin"}
  BY DEF IntegrationInv, TypeInv, IntegrationTypeOK, CompletedInv, Owners
<1>1. CASE ReusePrior(r) \/ PreflightRefuses(r)
  <2>1. TypeInv'
    BY <1>1 DEF IntegrationInv, TypeInv, IntegrationTypeOK, ReusePrior, PreflightRefuses,
       RecoveredLockReleased, RunPCs, Results, Owners, gitVars, branchVars, viewVars
  <2>2. WorkHasLock'
    BY <1>1 DEF IntegrationInv, TypeInv, IntegrationTypeOK, WorkHasLock, ReusePrior,
       PreflightRefuses, RecoveredLockReleased, Critical, Owners
  <2>3. Outside(r)
    BY <1>0, <1>1, <2>1, <2>2 DEF Outside, ReusePrior, PreflightRefuses, OnMain, Owners,
       gitVars, branchVars, viewVars
  <2>4. QED BY <1>0, <2>1, <2>2, <2>3, OutsideKeeps
<1>2. CASE PreflightPasses(r)
  <2>1. result[r] # "completed"
    BY <1>2, CompletedIsReusable DEF IntegrationInv, PreflightPasses
  <2>2. TypeInv' /\ WorkHasLock'
    BY <1>2, FirstLockAttempt
      DEF IntegrationInv, TypeInv, IntegrationTypeOK, WorkHasLock,
          PreflightPasses, RunPCs, Waiting, Critical, Owners, gitVars, branchVars,
          viewVars
  <2>3. Outside(r)
    BY <1>0, <1>2, <2>1, <2>2
      DEF Outside, PreflightPasses, OnMain, Owners, gitVars, branchVars, viewVars
  <2>4. QED BY <1>0, <2>1, <2>2, <2>3, OutsideKeeps
<1>3. CASE Acquire(r)
  <2>1. result[r] # "completed"
    BY <1>3 DEF IntegrationInv, CompletedInv, Acquire
  <2>2. TypeInv'
    BY <1>3
      DEF IntegrationInv, TypeInv, IntegrationTypeOK, Acquire, RunPCs, Critical,
          Owners, gitVars, branchVars, viewVars
  <2>3. WorkHasLock'
    BY <1>3
      DEF IntegrationInv, TypeInv, IntegrationTypeOK, WorkHasLock, Acquire,
          Owners
  <2>4. Outside(r)
    BY <1>0, <1>3, <2>1, <2>2, <2>3
      DEF Outside, Acquire, OnMain, Owners, gitVars, branchVars, viewVars
  <2>5. QED BY <1>0, <2>1, <2>2, <2>3, <2>4, OutsideKeeps
<1>4. CASE LockUnavailable(r)
  <2>1. TypeInv' /\ WorkHasLock'
    BY <1>4
      DEF IntegrationInv, TypeInv, IntegrationTypeOK, WorkHasLock,
          LockUnavailable, RunPCs, Critical, Results, Owners, gitVars, branchVars,
          viewVars
  <2>2. Outside(r)
    BY <1>0, <1>4, <2>1
      DEF Outside, LockUnavailable, OnMain, Owners, gitVars, branchVars, viewVars
  <2>3. QED BY <1>0, <2>1, <2>2, OutsideKeeps
<1>5. CASE LockTimesOut(r)
  <2>1. lock_attempt' \in [Runs -> 1..MaxLockAttempts]
    BY <1>5, IntegrationAssumption
       DEF IntegrationAssumption, IntegrationInv, TypeInv, IntegrationTypeOK, LockTimesOut,
           AttemptsLeft
  <2>2. TypeInv'
    BY <1>5, <2>1
      DEF IntegrationInv, TypeInv, IntegrationTypeOK, LockTimesOut, RunPCs, Results,
          Owners, gitVars, branchVars, viewVars
  <2>2a. WorkHasLock'
    BY <1>5
      DEF IntegrationInv, TypeInv, IntegrationTypeOK, WorkHasLock, LockTimesOut,
          Critical, Owners
  <2>3. Outside(r)
    BY <1>0, <1>5, <2>2
      DEF Outside, LockTimesOut, OnMain, Owners, gitVars, branchVars, viewVars
  <2>4. QED BY <1>0, <2>2, <2>2a, <2>3, OutsideKeeps
<1>6. QED BY <1>1, <1>2, <1>3, <1>4, <1>5 DEF Enter

\* What a run does to its branch and its view of main is its own.
LEMMA PrepareKeeps ==
    ASSUME IntegrationInv, NEW r \in Runs, Prepare(r)
    PROVE  IntegrationInv'
<1> USE OwnersDiffer DEF Goto, FailsAt, Records, NoCommit
<1>1. CASE LockedRefuses(r) \/ RefreshFails(r) \/ IntegrationChecksFail(r)
  BY <1>1, FailureKeeps
     DEF LockedRefuses, RefreshFails, IntegrationChecksFail, OnMain
<1>2. CASE ReadMain(r)
  <2>1. TypeInv' /\ WorkHasLock'
    <3>1. TypeInv'
      BY <1>2, FirstStepAtWork, SMTT(30)
        DEF IntegrationInv, TypeInv, IntegrationTypeOK, ReadMain, RunPCs, AgentPCs,
            Critical, Owners, Commits, Results, gitVars, branchVars, viewVars
    <3>2. WorkHasLock'
      BY <1>2, FirstStepAtWork
        DEF IntegrationInv, TypeInv, IntegrationTypeOK, WorkHasLock, ReadMain,
            Critical, Owners
    <3>3. QED BY <3>1, <3>2
  <2>2. HeadInv'
    BY <1>2 DEF IntegrationInv, HeadInv, TypeInv, IntegrationTypeOK, ReadMain, FirstStep,
       RecoverableRefresh, AlreadyMerged, Ancestor, Landed, Owners, gitVars,
       branchVars
  <2>3. ViewInv'
    BY <1>2
      DEF IntegrationInv, ViewInv, TypeInv, IntegrationTypeOK, ReadMain, FirstStep,
          Ancestor, OnMain, Checked, Owners, gitVars
  <2>4. CompletedInv'
    <3>1. result[r] # "completed"
      BY <1>2 DEF IntegrationInv, CompletedInv, ReadMain
    <3>2. QED
      BY <1>2, <3>1
         DEF IntegrationInv, CompletedInv, ResultsDelivered, TypeInv, IntegrationTypeOK,
             ReadMain, FirstStep, Ancestor, OnMain, Owners, branchVars
  <2>5. ResultsDelivered' /\ DeliveryInv'
    <3>1. result[r] # "completed"
      BY <1>2 DEF IntegrationInv, CompletedInv, ReadMain
    <3>2. QED
      BY <1>2, <3>1
        DEF IntegrationInv, ResultsDelivered, DeliveryInv, TypeInv,
            IntegrationTypeOK, ReadMain, FirstStep, Ancestor, Owners, gitVars,
            branchVars
  <2>6. QED BY <2>1, <2>2, <2>3, <2>4, <2>5 DEF IntegrationInv
<1>3. CASE Refresh(r) \/ RefreshConflicts(r) \/ ResolutionAccepted(r)
           \/ ResolutionRefused(r)
  <2>0. result[r] # "completed" /\ result'[r] # "completed"
    BY <1>3
      DEF IntegrationInv, CompletedInv, TypeInv, IntegrationTypeOK, Refresh,
          RefreshConflicts, ResolutionAccepted, ResolutionRefused
  <2>1. TypeInv'
    <3>1. head' \in [Runs -> Commits] /\ merging' \in [Runs -> Commits]
      BY <1>3 DEF IntegrationInv, TypeInv, IntegrationTypeOK, Refresh, RefreshConflicts,
         ResolutionAccepted, ResolutionRefused, Resolves, Commits, branchVars
    <3>2. resolved' \in [Runs -> BOOLEAN]
      BY <1>3 DEF IntegrationInv, TypeInv, IntegrationTypeOK, Refresh, RefreshConflicts,
         ResolutionAccepted, ResolutionRefused, Resolves, branchVars
    <3>3. QED
      BY <1>3, <3>1, <3>2
         DEF IntegrationInv, TypeInv, IntegrationTypeOK, Refresh, RefreshConflicts,
             ResolutionAccepted, ResolutionRefused, RunPCs, AgentPCs, Critical,
             Owners, Results, gitVars, viewVars
  <2>2. WorkHasLock'
    BY <1>3 DEF IntegrationInv, TypeInv, IntegrationTypeOK, WorkHasLock, Refresh,
       RefreshConflicts, ResolutionAccepted, ResolutionRefused, Critical, Owners
  <2>3. HeadInv'
    BY <1>3 DEF IntegrationInv, HeadInv, ViewInv, TypeInv, IntegrationTypeOK, Refresh,
       RefreshConflicts, ResolutionAccepted, ResolutionRefused, Resolves,
       WorkerResolvedRefresh, AlreadyMerged, Ancestor, Candidate, OnMain,
       Landed, Owners, gitVars, branchVars, viewVars
  <2>4. ViewInv'
    BY <1>3
      DEF IntegrationInv, ViewInv, TypeInv, IntegrationTypeOK, Refresh,
          RefreshConflicts, ResolutionAccepted, ResolutionRefused, OnMain, Checked,
          Owners, gitVars, viewVars
  <2>5. CompletedInv' /\ ResultsDelivered' /\ DeliveryInv'
    BY <1>3, <2>0
       DEF IntegrationInv, CompletedInv, ResultsDelivered, DeliveryInv, TypeInv,
           IntegrationTypeOK, Refresh, RefreshConflicts, ResolutionAccepted,
           ResolutionRefused, Resolves, OnMain, Owners, gitVars, branchVars, viewVars
  <2>6. QED BY <2>1, <2>2, <2>3, <2>4, <2>5 DEF IntegrationInv
<1>4. CASE ResolverRaises(r) \/ IntegrationChecksPass(r)
  <2>1. TypeInv' /\ WorkHasLock'
    BY <1>4
      DEF IntegrationInv, TypeInv, IntegrationTypeOK, WorkHasLock,
          ResolverRaises, IntegrationChecksPass, RunPCs, AgentPCs, Critical, Owners,
          gitVars, branchVars, viewVars
  <2>2. HeadInv' /\ ViewInv'
    BY <1>4
      DEF IntegrationInv, HeadInv, ViewInv, TypeInv, IntegrationTypeOK,
          ResolverRaises, IntegrationChecksPass, AlreadyMerged, Ancestor, OnMain,
          Landed, Checked, Owners, gitVars, branchVars, viewVars
  <2>3. CompletedInv' /\ ResultsDelivered' /\ DeliveryInv'
    BY <1>4 DEF IntegrationInv, CompletedInv, ResultsDelivered, DeliveryInv, TypeInv,
       IntegrationTypeOK, ResolverRaises, IntegrationChecksPass, OnMain, Owners, gitVars,
       branchVars, viewVars
  <2>4. QED BY <2>1, <2>2, <2>3 DEF IntegrationInv
<1>5. QED BY <1>1, <1>2, <1>3, <1>4 DEF Prepare

\* Only the restore takes something off main, and then nobody else is at work
\* on it, and what is completed was on main before.
LEMMA LandAndVerifyKeeps ==
    ASSUME IntegrationInv, NEW r \in Runs, LandAndVerify(r)
    PROVE  IntegrationInv'
<1> USE OwnersDiffer DEF Goto, FailsAt, Records
<1>1. CASE FastForwardFails(r)
  BY <1>1, FailureKeeps DEF FastForwardFails, OnMain
<1>2. CASE FastForward(r)
  <2>1. TypeInv' /\ WorkHasLock'
    BY <1>2
      DEF IntegrationInv, TypeInv, IntegrationTypeOK, WorkHasLock, FastForward,
          RunPCs, AgentPCs, Critical, Commits, Owners, branchVars, viewVars
  <2>2. HeadInv' /\ ViewInv'
    BY <1>2
      DEF IntegrationInv, HeadInv, ViewInv, TypeInv, IntegrationTypeOK, FastForward,
          Ancestor, AlreadyMerged, OnMain, Landed, Checked, Owners, branchVars,
          viewVars
  <2>3. CompletedInv' /\ ResultsDelivered' /\ DeliveryInv'
    BY <1>2 DEF IntegrationInv, CompletedInv, ResultsDelivered, DeliveryInv, TypeInv,
       IntegrationTypeOK, FastForward, Ancestor, OnMain, Owners, branchVars, viewVars
  <2>4. QED BY <2>1, <2>2, <2>3 DEF IntegrationInv
<1>3. CASE ReadLanded(r) \/ MainChecksPass(r) \/ MainChecksFail(r)
           \/ RestoreCompares(r)
  <2>1. TypeInv' /\ WorkHasLock'
    BY <1>3 DEF IntegrationInv, TypeInv, IntegrationTypeOK, WorkHasLock, ReadLanded,
       MainChecksPass, MainChecksFail, RestoreCompares, RunPCs, AgentPCs,
       Critical, Owners, Results, gitVars, branchVars, viewVars
  <2>2. HeadInv'
    BY <1>3
      DEF IntegrationInv, HeadInv, TypeInv, IntegrationTypeOK, ReadLanded,
          MainChecksPass, MainChecksFail, RestoreCompares, OnMain, Landed, Owners,
          gitVars, branchVars, viewVars
  <2>3. ViewInv'
    BY <1>3 DEF IntegrationInv, HeadInv, ViewInv, TypeInv, IntegrationTypeOK, ReadLanded,
       MainChecksPass, MainChecksFail, RestoreCompares, Ancestor, OnMain, Landed,
       Checked, Owners, gitVars, branchVars, viewVars
  <2>4. CompletedInv' /\ ResultsDelivered' /\ DeliveryInv'
    BY <1>3 DEF IntegrationInv, CompletedInv, ResultsDelivered, DeliveryInv, TypeInv,
       IntegrationTypeOK, ReadLanded, MainChecksPass, MainChecksFail, RestoreCompares,
       OnMain, Owners, gitVars, branchVars, viewVars
  <2>5. QED BY <2>1, <2>2, <2>3, <2>4 DEF IntegrationInv
<1>4. CASE Reset(r)
  <2>1. \A q \in Runs : place[q] \in OnMain => q = r
    BY <1>4, OneInCritical DEF IntegrationInv, Reset, OnMain, Critical
  <2>2. TypeInv' /\ WorkHasLock'
    BY <1>4
      DEF IntegrationInv, TypeInv, IntegrationTypeOK, WorkHasLock, Reset,
          RestorePoint, RunPCs, AgentPCs, Critical, Owners, Results, branchVars,
          viewVars
  <2>3. \A q \in Runs : place'[q] \notin OnMain
    BY <1>4, <2>1 DEF IntegrationInv, TypeInv, IntegrationTypeOK, Reset, OnMain, Owners
  <2>4. HeadInv' /\ ViewInv' /\ DeliveryInv'
    BY <1>4, <2>3
      DEF IntegrationInv, HeadInv, ViewInv, DeliveryInv, TypeInv, IntegrationTypeOK,
          Reset, OnMain, Landed, Checked, Owners, branchVars, viewVars
  <2>5. CompletedInv'
    BY <1>4, <2>3
      DEF IntegrationInv, CompletedInv, TypeInv, IntegrationTypeOK, Reset, OnMain,
          Owners
  <2>6. \A q \in Runs : result[q] = "completed" => Ancestor(head[q], main')
    BY <1>4 DEF IntegrationInv, CompletedInv, ResultsDelivered, Reset, RestorePoint,
       OnMain
  <2>7. ResultsDelivered'
    BY <1>4, <2>6
      DEF IntegrationInv, ResultsDelivered, TypeInv, IntegrationTypeOK, Reset,
          branchVars, viewVars
  <2>8. QED BY <2>2, <2>4, <2>5, <2>7 DEF IntegrationInv
<1>5. QED BY <1>1, <1>2, <1>3, <1>4 DEF LandAndVerify

LEMMA DeliverKeeps ==
    ASSUME IntegrationInv, NEW r \in Runs, Deliver(r)
    PROVE  IntegrationInv'
<1> USE OwnersDiffer DEF Goto, FailsAt, Records
<1>1. CASE PushFails(r) \/ TimedOutPushUnconfirmed(r)
  BY <1>1, FailureKeeps DEF PushFails, TimedOutPushUnconfirmed, OnMain
<1>2. CASE PushSucceeds(r) \/ PushTimesOut(r) \/ TimedOutPushConfirmed(r)
  <2>0. result[r] # "completed" /\ result'[r] # "completed"
    BY <1>2
      DEF IntegrationInv, CompletedInv, TypeInv, IntegrationTypeOK, PushSucceeds,
          PushTimesOut, TimedOutPushConfirmed
  <2>1. Ancestor(remote, remote') /\ remote' \in Commits
    BY <1>2 DEF IntegrationInv, TypeInv, IntegrationTypeOK, PushSucceeds, PushTimesOut,
       TimedOutPushConfirmed, Pushed, PushTarget, Ancestor, gitVars
  <2>2. TypeInv' /\ WorkHasLock'
    BY <1>2, <2>1
      DEF IntegrationInv, TypeInv, IntegrationTypeOK, WorkHasLock, PushSucceeds,
          PushTimesOut, TimedOutPushConfirmed, RunPCs, AgentPCs, Critical, Owners,
          Results, gitVars, branchVars, viewVars
  <2>3. HeadInv' /\ ViewInv' /\ CompletedInv'
    BY <1>2, <2>0
      DEF IntegrationInv, HeadInv, ViewInv, CompletedInv, TypeInv, IntegrationTypeOK,
          PushSucceeds, PushTimesOut, TimedOutPushConfirmed, OnMain, Landed, Checked,
          Owners, gitVars, branchVars, viewVars
  <2>4. ResultsDelivered'
    BY <1>2, <2>0, <2>1
       DEF IntegrationInv, ResultsDelivered, TypeInv, IntegrationTypeOK, PushSucceeds,
           PushTimesOut, TimedOutPushConfirmed, Ancestor, gitVars, branchVars, viewVars
  <2>5. DeliveryInv'
    BY <1>2, <2>1
      DEF IntegrationInv, DeliveryInv, TypeInv, IntegrationTypeOK, PushSucceeds,
          PushTimesOut, TimedOutPushConfirmed, TimedOutPushArrived, Pushed,
          PushTarget, Ancestor, Owners, gitVars, viewVars
  <2>6. QED BY <2>2, <2>3, <2>4, <2>5 DEF IntegrationInv
<1>3. CASE FencePasses(r) \/ RecordCompleted(r)
  <2>1. TypeInv' /\ WorkHasLock'
    BY <1>3 DEF IntegrationInv, TypeInv, IntegrationTypeOK, WorkHasLock, FencePasses,
       RecordCompleted, RunPCs, AgentPCs, Critical, Owners, Results, gitVars,
       branchVars, viewVars
  <2>2. HeadInv' /\ ViewInv'
    BY <1>3 DEF IntegrationInv, HeadInv, ViewInv, TypeInv, IntegrationTypeOK, FencePasses,
       RecordCompleted, OnMain, Landed, Checked, Owners, gitVars, branchVars, viewVars
  <2>3. CompletedInv'
    <3>1. CASE FencePasses(r)
      BY <3>1
        DEF IntegrationInv, CompletedInv, TypeInv, IntegrationTypeOK, FencePasses,
            OnMain, Owners, branchVars, viewVars
    <3>2. CASE RecordCompleted(r)
      <4>1. \A q \in Runs : place'[q] \notin OnMain
        BY <3>2, OneInCritical
          DEF IntegrationInv, TypeInv, IntegrationTypeOK, RecordCompleted, OnMain,
              Critical, Owners
      <4>2. QED
        BY <3>2, <4>1
          DEF IntegrationInv, CompletedInv, TypeInv, IntegrationTypeOK,
              RecordCompleted, OnMain, Owners
    <3>3. QED BY <1>3, <3>1, <3>2
  <2>4. ResultsDelivered' /\ DeliveryInv'
    BY <1>3 DEF IntegrationInv, HeadInv, ResultsDelivered, DeliveryInv, TypeInv,
       IntegrationTypeOK, FencePasses, RecordCompleted, InSync, Ancestor, Candidate,
       Landed, Owners, gitVars, branchVars, viewVars
  <2>5. QED BY <2>1, <2>2, <2>3, <2>4 DEF IntegrationInv
<1>4. CASE FenceBlocks(r) \/ Release(r)
  <2>1. TypeInv'
    BY <1>4
      DEF IntegrationInv, TypeInv, IntegrationTypeOK, FenceBlocks, Release,
          ReleasesAfter, Forgets, RunPCs, AgentPCs, Commits, Owners, Results,
          gitVars, branchVars, viewVars
  <2>2. WorkHasLock'
    BY <1>4
      DEF IntegrationInv, TypeInv, IntegrationTypeOK, WorkHasLock, FenceBlocks,
          Release, ReleasesAfter, Critical, Owners
  <2>3. HeadInv' /\ ViewInv'
    BY <1>4
      DEF IntegrationInv, HeadInv, ViewInv, TypeInv, IntegrationTypeOK, FenceBlocks,
          Release, Forgets, AlreadyMerged, OnMain, Landed, Checked, Owners, gitVars,
          branchVars, viewVars
  <2>4. CompletedInv'
    BY <1>4
      DEF IntegrationInv, CompletedInv, TypeInv, IntegrationTypeOK, FenceBlocks,
          Release, Forgets, OnMain, Owners, branchVars, viewVars
  <2>5. ResultsDelivered' /\ DeliveryInv'
    BY <1>4
      DEF IntegrationInv, ResultsDelivered, DeliveryInv, TypeInv,
          IntegrationTypeOK, FenceBlocks, Release, Forgets, Owners, gitVars,
          branchVars, viewVars
  <2>6. QED BY <2>1, <2>2, <2>3, <2>4, <2>5 DEF IntegrationInv
<1>5. QED BY <1>1, <1>2, <1>3, <1>4 DEF Deliver

LEMMA RunKeeps ==
    ASSUME IntegrationInv, NEW r \in Runs, Integrate(r) \/ Exit(r) \/ Restart(r)
    PROVE  IntegrationInv'
<1>1. CASE Integrate(r)
  BY <1>1, EnterKeeps, PrepareKeeps, LandAndVerifyKeeps, DeliverKeeps
     DEF Integrate
<1>2. CASE Exit(r) \/ Restart(r)
  <2>1. TypeInv' /\ WorkHasLock'
    BY <1>2, OwnersDiffer, IntegrationAssumption
      DEF IntegrationAssumption, IntegrationInv, TypeInv, IntegrationTypeOK,
          WorkHasLock, Exit, Restart, Goto, RunPCs, AgentPCs, Waiting, Critical,
          Owners, gitVars, branchVars, viewVars
  <2>2. Outside(r)
    BY <1>2
      DEF IntegrationInv, TypeInv, IntegrationTypeOK, CompletedInv, Outside, Exit,
          Restart, Goto, OnMain, Owners, gitVars, branchVars, viewVars
  <2>3. r \in Owners BY DEF Owners
  <2>4. QED BY <2>1, <2>2, <2>3, OutsideKeeps
<1>3. QED BY <1>1, <1>2

-----------------------------------------------------------------------------
(* The steps of the agents and of everyone else, and the theorems. *)

\* Commits and pushes of others only add.
LEMMA GrowthKeeps ==
    ASSUME IntegrationInv, Ancestor(main, main'), Ancestor(remote, remote'),
           main' \in Commits, remote' \in Commits, seen' \subseteq Others,
           UNCHANGED <<policy, undercut, lock, place, branchVars, viewVars, result,
                       lock_attempt, restarts>>
    PROVE  IntegrationInv'
<1> USE DEF branchVars, viewVars
<1>1. TypeInv' /\ WorkHasLock'
  BY DEF IntegrationInv, TypeInv, IntegrationTypeOK, WorkHasLock
<1>2. HeadInv' /\ ViewInv'
  BY DEF IntegrationInv, HeadInv, ViewInv, Ancestor, NoCommit, AlreadyMerged
<1>3. CompletedInv' /\ ResultsDelivered' /\ DeliveryInv'
  BY DEF IntegrationInv, CompletedInv, ResultsDelivered, DeliveryInv, Ancestor
<1>4. QED BY <1>1, <1>2, <1>3 DEF IntegrationInv

LEMMA AgentKeeps ==
    ASSUME IntegrationInv, NEW a \in Agents, Agent(a)
    PROVE  IntegrationInv'
<1> USE OwnersDiffer DEF Goto
<1>1. CASE AgentAcquire(a) \/ AgentRefused(a)
  <2>1. TypeInv' /\ WorkHasLock'
    BY <1>1 DEF IntegrationInv, TypeInv, IntegrationTypeOK, WorkHasLock, AgentAcquire,
       AgentRefused, RunPCs, AgentPCs, Critical, Owners, gitVars, branchVars, viewVars
  <2>2. Outside(a)
    BY <1>1
      DEF IntegrationInv, TypeInv, IntegrationTypeOK, Outside, AgentAcquire,
          AgentRefused, OnMain, Owners, gitVars, branchVars, viewVars
  <2>3. a \in Owners BY DEF Owners
  <2>4. QED BY <2>1, <2>2, <2>3, OutsideKeeps
<1>2. CASE AgentMerges(a)
  <2>1. main' \in Commits /\ Ancestor(main, main')
    BY <1>2 DEF IntegrationInv, TypeInv, IntegrationTypeOK, AgentMerges, Commits, Ancestor
  <2>2. QED
    BY <1>2, <2>1, GrowthKeeps
       DEF IntegrationInv, TypeInv, IntegrationTypeOK, AgentMerges, Ancestor
<1>3. QED BY <1>1, <1>2 DEF Agent

LEMMA CliTypes ==
    ASSUME TypeInv, NEW o \in Owners, CliRelease(o) \/ Die(o)
    PROVE  TypeInv'
<1>1. undercut' \in BOOLEAN
  BY DEF TypeInv, IntegrationTypeOK, CliRelease, Die
<1>2. QED
  BY <1>1, OwnersDiffer
    DEF TypeInv, IntegrationTypeOK, CliRelease, Die, Goto, RunPCs, AgentPCs, Waiting,
        Critical, Owners, gitVars, branchVars, viewVars

LEMMA WorldKeeps ==
    ASSUME IntegrationInv, World, ~undercut'
    PROVE  IntegrationInv'
<1>1. CASE \E o \in Owners : CliRelease(o) \/ Die(o)
  <2>1. PICK o \in Owners : CliRelease(o) \/ Die(o)
    BY <1>1
  <2>2. TypeInv' BY <2>1, CliTypes DEF IntegrationInv
  <2>2a. WorkHasLock'
    BY <2>1, OwnersDiffer
      DEF IntegrationInv, TypeInv, IntegrationTypeOK, WorkHasLock, CliRelease, Goto,
          Die, Critical, Owners, gitVars, branchVars, viewVars
  <2>3. Outside(o)
    BY <2>1
      DEF IntegrationInv, TypeInv, IntegrationTypeOK, CompletedInv, Outside, Goto,
          CliRelease, Die, OnMain, Owners, gitVars, branchVars, viewVars
  <2>4. QED BY <2>2, <2>2a, <2>3, OutsideKeeps
<1>2. CASE (\E c \in Others : OthersCommit(c)) \/ OthersPush \/ OthersPull
  <2>1. main' \in Commits /\ remote' \in Commits /\ seen' \subseteq Others
    BY <1>2
      DEF IntegrationInv, TypeInv, IntegrationTypeOK, OthersCommit, OthersPush,
          OthersPull, Commits
  <2>2. Ancestor(main, main') /\ Ancestor(remote, remote')
    BY <1>2 DEF OthersCommit, OthersPush, OthersPull, Ancestor
  <2>3. UNCHANGED <<policy, undercut, lock, place, branchVars, viewVars, result,
                    lock_attempt, restarts>>
    BY <1>2 DEF OthersCommit, OthersPush, OthersPull
  <2>4. QED BY <2>1, <2>2, <2>3, GrowthKeeps
<1>3. QED BY <1>1, <1>2 DEF World

LEMMA IInvStep ==
    ASSUME IntegrationInv, [IntegrationNext]_integrationVars, ~undercut'
    PROVE  IntegrationInv'
<1>1. CASE IntegrationNext
  BY <1>1, RunKeeps, AgentKeeps, WorldKeeps DEF IntegrationNext
<1>2. CASE UNCHANGED integrationVars
  BY <1>2
    DEF integrationVars, gitVars, branchVars, viewVars, IntegrationInv, TypeInv,
        IntegrationTypeOK, WorkHasLock, HeadInv, ViewInv, CompletedInv,
        ResultsDelivered, DeliveryInv, AlreadyMerged
<1>3. QED BY <1>1, <1>2

\* Once a lock was taken from its owner, that is remembered.
LEMMA UndercutStays ==
    ASSUME [IntegrationNext]_integrationVars, undercut
    PROVE  undercut'
<1>1. ASSUME NEW r \in Runs, Integrate(r) PROVE undercut'
  <2>1. CASE Enter(r)
    BY <2>1 DEF Enter, ReusePrior, PreflightRefuses, PreflightPasses, Acquire,
       LockUnavailable, LockTimesOut
  <2>2. CASE Prepare(r)
    BY <2>2 DEF Prepare, LockedRefuses, ReadMain, Refresh, RefreshConflicts,
       RefreshFails, ResolutionAccepted, ResolutionRefused, ResolverRaises,
       IntegrationChecksPass, IntegrationChecksFail
  <2>3. CASE LandAndVerify(r)
    BY <2>3 DEF LandAndVerify, FastForward, FastForwardFails, ReadLanded,
       MainChecksPass, MainChecksFail, RestoreCompares, Reset
  <2>4. CASE Deliver(r)
    BY <2>4 DEF Deliver, PushSucceeds, PushFails, PushTimesOut,
       TimedOutPushConfirmed, TimedOutPushUnconfirmed, FencePasses, FenceBlocks,
       RecordCompleted, Release
  <2>5. QED BY <1>1, <2>1, <2>2, <2>3, <2>4 DEF Integrate
<1>2. ASSUME NEW r \in Runs, Exit(r) \/ Restart(r) PROVE undercut'
  BY <1>2 DEF Exit, Restart
<1>3. ASSUME NEW a \in Agents, Agent(a) PROVE undercut'
  BY <1>3 DEF Agent, AgentAcquire, AgentRefused, AgentMerges
<1>4. CASE World
  BY <1>4 DEF World, CliRelease, Die, OthersCommit, OthersPush, OthersPull
<1>5. CASE UNCHANGED integrationVars
  BY <1>5 DEF integrationVars
<1>6. QED BY <1>1, <1>2, <1>3, <1>4, <1>5 DEF IntegrationNext

-----------------------------------------------------------------------------
(* The types hold also when a lock was taken from its owner. *)

LEMMA EnterTypes ==
    ASSUME TypeInv, NEW r \in Runs, Enter(r)
    PROVE  TypeInv'
<1> USE DEF TypeInv, IntegrationTypeOK, Goto, Records
<1>1. lock_attempt' \in [Runs -> 1..MaxLockAttempts]
  BY FirstLockAttempt, IntegrationAssumption
    DEF Enter, ReusePrior, PreflightRefuses, PreflightPasses, Acquire,
        LockUnavailable, LockTimesOut, AttemptsLeft, IntegrationAssumption
<1>2. CASE ReusePrior(r) \/ PreflightRefuses(r) \/ PreflightPasses(r)
  BY <1>1, <1>2, OwnersDiffer
    DEF ReusePrior, PreflightRefuses, PreflightPasses, RecoveredLockReleased, RunPCs,
        Waiting, Results, Owners, gitVars, branchVars, viewVars
<1>3. CASE Acquire(r) \/ LockUnavailable(r) \/ LockTimesOut(r)
  BY <1>1, <1>3, OwnersDiffer
    DEF Acquire, LockUnavailable, LockTimesOut, RunPCs, Critical, Results, Owners,
        gitVars, branchVars, viewVars
<1>4. QED BY <1>2, <1>3 DEF Enter

LEMMA PrepareTypes ==
    ASSUME TypeInv, NEW r \in Runs, Prepare(r)
    PROVE  TypeInv'
<1> USE OwnersDiffer DEF TypeInv, IntegrationTypeOK, Goto, FailsAt, Records, NoCommit
<1>1. CASE LockedRefuses(r) \/ RefreshFails(r) \/ IntegrationChecksFail(r)
           \/ ResolverRaises(r) \/ IntegrationChecksPass(r)
  BY <1>1
    DEF LockedRefuses, RefreshFails, IntegrationChecksFail, ResolverRaises,
        IntegrationChecksPass, RunPCs, Critical, Results, Owners, gitVars,
        branchVars, viewVars
<1>2. CASE ReadMain(r)
  BY <1>2, FirstStepAtWork, SMTT(30)
    DEF ReadMain, RunPCs, AgentPCs, Critical, Owners, Commits, Results, gitVars,
        branchVars, viewVars
<1>3. CASE Refresh(r) \/ RefreshConflicts(r) \/ ResolutionAccepted(r)
           \/ ResolutionRefused(r)
  <2>1. head' \in [Runs -> Commits] /\ merging' \in [Runs -> Commits]
    BY <1>3
      DEF Refresh, RefreshConflicts, ResolutionAccepted, ResolutionRefused, Resolves,
          Commits, branchVars
  <2>2. resolved' \in [Runs -> BOOLEAN]
    BY <1>3
      DEF Refresh, RefreshConflicts, ResolutionAccepted, ResolutionRefused, Resolves,
          branchVars
  <2>3. QED
    BY <1>3, <2>1, <2>2
      DEF Refresh, RefreshConflicts, ResolutionAccepted, ResolutionRefused, RunPCs,
          AgentPCs, Critical, Owners, Results, gitVars, viewVars
<1>4. QED BY <1>1, <1>2, <1>3 DEF Prepare

LEMMA LandAndVerifyTypes ==
    ASSUME TypeInv, NEW r \in Runs, LandAndVerify(r)
    PROVE  TypeInv'
<1> USE OwnersDiffer DEF TypeInv, IntegrationTypeOK, Goto, FailsAt, Records
<1>1. CASE FastForward(r) \/ FastForwardFails(r)
  BY <1>1
    DEF FastForward, FastForwardFails, RunPCs, AgentPCs, Critical, Commits, Owners,
        Results, gitVars, branchVars, viewVars
<1>2. CASE ReadLanded(r) \/ MainChecksPass(r) \/ MainChecksFail(r)
           \/ RestoreCompares(r)
  BY <1>2
    DEF ReadLanded, MainChecksPass, MainChecksFail, RestoreCompares, RunPCs, AgentPCs,
        Critical, Owners, Results, gitVars, branchVars, viewVars
<1>3. CASE Reset(r)
  BY <1>3
    DEF Reset, RestorePoint, RunPCs, AgentPCs, Critical, Owners, Results, branchVars,
        viewVars
<1>4. QED BY <1>1, <1>2, <1>3 DEF LandAndVerify

LEMMA DeliverTypes ==
    ASSUME TypeInv, NEW r \in Runs, Deliver(r)
    PROVE  TypeInv'
<1> USE OwnersDiffer DEF TypeInv, IntegrationTypeOK, Goto, FailsAt, Records
<1>1. CASE PushSucceeds(r) \/ PushTimesOut(r) \/ PushFails(r)
           \/ TimedOutPushConfirmed(r) \/ TimedOutPushUnconfirmed(r)
  BY <1>1
    DEF PushSucceeds, PushTimesOut, PushFails, TimedOutPushConfirmed,
        TimedOutPushUnconfirmed, Pushed, PushTarget, RunPCs, AgentPCs, Critical,
        Owners, Results, gitVars, branchVars, viewVars
<1>2. CASE FencePasses(r) \/ RecordCompleted(r)
  BY <1>2
    DEF FencePasses, RecordCompleted, RunPCs, AgentPCs, Critical, Owners, Results,
        gitVars, branchVars, viewVars
<1>3. CASE FenceBlocks(r) \/ Release(r)
  BY <1>3
    DEF FenceBlocks, Release, ReleasesAfter, Forgets, RunPCs, AgentPCs, Commits,
        Owners, Results, gitVars, branchVars, viewVars
<1>4. QED BY <1>1, <1>2, <1>3 DEF Deliver

LEMMA TypeInvStep ==
    ASSUME TypeInv, [IntegrationNext]_integrationVars
    PROVE  TypeInv'
<1>1. ASSUME NEW r \in Runs, Integrate(r) PROVE TypeInv'
  BY <1>1, EnterTypes, PrepareTypes, LandAndVerifyTypes, DeliverTypes DEF Integrate
<1> USE OwnersDiffer DEF TypeInv, IntegrationTypeOK, Goto
<1>2. ASSUME NEW r \in Runs, Exit(r) \/ Restart(r) PROVE TypeInv'
  BY <1>2, IntegrationAssumption
    DEF IntegrationAssumption, Exit, Restart, RunPCs, AgentPCs, Waiting, Critical,
        Owners, gitVars, branchVars, viewVars
<1>3. ASSUME NEW a \in Agents, Agent(a) PROVE TypeInv'
  BY <1>3
    DEF Agent, AgentAcquire, AgentRefused, AgentMerges, RunPCs, AgentPCs, Critical,
        Owners, Commits, gitVars, branchVars, viewVars
<1>4. ASSUME NEW o \in Owners, CliRelease(o) \/ Die(o) PROVE TypeInv'
  BY <1>4, CliTypes
<1>5. CASE (\E c \in Others : OthersCommit(c)) \/ OthersPush \/ OthersPull
  BY <1>5
    DEF OthersCommit, OthersPush, OthersPull, Commits, branchVars, viewVars
<1>6. CASE UNCHANGED integrationVars
  BY <1>6 DEF integrationVars, gitVars, branchVars, viewVars
<1>7. QED BY <1>1, <1>2, <1>3, <1>4, <1>5, <1>6 DEF IntegrationNext, World

\* What holds in every state.
StandingInv == TypeInv /\ (undercut \/ IntegrationInv)

LEMMA IInvHolds == IntegrationSpec => []StandingInv
<1>1. IntegrationInit => StandingInv
  BY IInvInit DEF StandingInv, IntegrationInv
<1>2. StandingInv /\ [IntegrationNext]_integrationVars => StandingInv'
  BY TypeInvStep, IInvStep, UndercutStays DEF StandingInv
<1>3. QED BY <1>1, <1>2, PTL DEF IntegrationSpec

\* The variables always have values of their types.
THEOREM IntegrationTypes == IntegrationSpec => []IntegrationTypeOK
<1>1. StandingInv => IntegrationTypeOK BY DEF StandingInv, TypeInv
<1>2. QED BY <1>1, IInvHolds, PTL

\* Whoever works on main has the lock, so no two do, whatever dies and is run
\* again; and only a failed fence leaves the lock behind; unless somebody took
\* the lock from an owner at work.
THEOREM LockKept == IntegrationSpec => []LockGoesWithWork
<1>1. StandingInv => LockGoesWithWork
  BY DEF StandingInv, IntegrationInv, LockGoesWithWork
<1>2. QED BY <1>1, IInvHolds, PTL

OneWorks ==
    \A o, p \in Owners :
        {place[o], place[p]} \subseteq Critical \cup {"holding"} => o = p \/ undercut

\* Two owners are never in the critical section at once, unless somebody took the
\* lock from one of them.
THEOREM MutualExclusion == IntegrationSpec => []OneWorks
<1>1. StandingInv => OneWorks
  BY DEF StandingInv, IntegrationInv, WorkHasLock, OneWorks
<1>2. QED BY <1>1, IInvHolds, PTL

\* What was recorded as completed stays on main, and upstream where the project
\* wants it: no restore of main takes it away.
THEOREM DeliveredKept == IntegrationSpec => []CompletedIsDelivered
<1>1. StandingInv => CompletedIsDelivered
  BY DEF StandingInv, IntegrationInv, CompletedIsDelivered
<1>2. QED BY <1>1, IInvHolds, PTL

\* The upstream branch changes with a push of a run that gives up the place of
\* its push, or with a step of somebody else that moves no run.
LEMMA RemoteChanges ==
    ASSUME IntegrationNext, remote' # remote
    PROVE  \/ \E q \in Runs : PushSucceeds(q) \/ PushTimesOut(q)
           \/ place' = place
<1>1. CASE \E q \in Runs : Integrate(q) \/ Exit(q) \/ Restart(q)
  <2>1. PICK q \in Runs : Integrate(q) \/ Exit(q) \/ Restart(q)
    BY <1>1
  <2>2. ~(Enter(q) \/ Exit(q) \/ Restart(q))
    BY DEF Enter, ReusePrior, PreflightRefuses, PreflightPasses, Acquire,
       LockUnavailable, LockTimesOut, Exit, Restart, gitVars
  <2>3. ~Prepare(q)
    BY DEF Prepare, LockedRefuses, ReadMain, Refresh, RefreshConflicts,
       RefreshFails, ResolutionAccepted, ResolutionRefused, ResolverRaises,
       IntegrationChecksPass, IntegrationChecksFail, gitVars
  <2>4. ~LandAndVerify(q)
    BY DEF LandAndVerify, FastForward, FastForwardFails, ReadLanded,
       MainChecksPass, MainChecksFail, RestoreCompares, Reset, gitVars
  <2>5. Deliver(q) => PushSucceeds(q) \/ PushTimesOut(q)
    BY DEF Deliver, PushFails, TimedOutPushConfirmed, TimedOutPushUnconfirmed,
       FencePasses, FenceBlocks, RecordCompleted, Release, gitVars
  <2>6. QED BY <2>1, <2>2, <2>3, <2>4, <2>5 DEF Integrate
<1>2. CASE \E a \in Agents : Agent(a)
  BY <1>2 DEF Agent, AgentAcquire, AgentRefused, AgentMerges, gitVars
<1>3. CASE World
  BY <1>3 DEF World, CliRelease, Die, OthersCommit, OthersPush, OthersPull,
     gitVars
<1>4. QED BY <1>1, <1>2, <1>3 DEF IntegrationNext

LEMMA OnlyVerifiedStep ==
    StandingInv /\ [IntegrationNext]_integrationVars =>
      \A r \in Runs : place[r] = "pushing" /\ place'[r] # "pushing" /\ remote' # remote
          => \/ remote' = checked[r] /\ Ancestor(Candidate(r), checked[r])
             \/ undercut
<1> SUFFICES ASSUME IntegrationInv, [IntegrationNext]_integrationVars,
                     NEW r \in Runs, place[r] = "pushing",
                    place'[r] # "pushing", remote' # remote
             PROVE  remote' = checked[r] /\ Ancestor(Candidate(r), checked[r])
  BY DEF StandingInv
<1>1. checked[r] = after[r] /\ Ancestor(Candidate(r), after[r])
  BY DEF IntegrationInv, ViewInv, Checked
<1>2. IntegrationNext
  BY DEF integrationVars, gitVars
<1>3. PICK q \in Runs : PushSucceeds(q) \/ PushTimesOut(q)
  BY <1>2, RemoteChanges
<1>4. q = r
  BY <1>3
    DEF PushSucceeds, PushTimesOut, Goto, FailsAt, IntegrationInv, TypeInv,
        IntegrationTypeOK, Owners
<1>5. QED
  BY <1>1, <1>3, <1>4 DEF PushSucceeds, PushTimesOut, Pushed, PushTarget

\* No unverified commit is pushed, whatever happens to main meanwhile.
THEOREM OnlyVerified == IntegrationSpec => VerifiedOnly
BY IInvHolds, OnlyVerifiedStep, PTL DEF IntegrationSpec, VerifiedOnly
=============================================================================
