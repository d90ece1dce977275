--------------------------- MODULE TaskSettlement ---------------------------
(***************************************************************************)
(* How a runtime-owned run claims a task in an external task source and     *)
(* gives it back (run_task in src/vibe_loop/runner.py, TaskSourceCompleter  *)
(* and TaskSourceSettler in src/vibe_loop/orchestration.py), and how        *)
(* stale-lock cleanup does it for a run that ended without (workers.py).    *)
(* The source activates a task, completes, parks or resets it through       *)
(* adapter commands that may refuse, or fail after they took effect; the    *)
(* run writes down what was confirmed and then releases its task lock.      *)
(*                                                                          *)
(* Several runs and cleaners meet on one task. The lock is the abstract     *)
(* one: who holds it, owner checks included (TaskLocks has its protocol).   *)
(***************************************************************************)
EXTENDS Naturals, FiniteSets

CONSTANTS
    Runs,          \* runs of the task
    Continuations, \* those that recover a run of unknown outcome
    Cleaners,      \* stale-lock recovery: workers clean, the autopilot cycle
    NoOne,
    Mortal,        \* runs and cleaners whose process may die at any point
    Refused,       \* runs and cleaners whose adapter calls and probes may fail
    ParkAdapter,   \* whether task_source.park is configured
    Forced,        \* whether cleaners are run with --force
    MaxAttempts,   \* fenced settlement attempts of a run
    MaxMisjudged   \* bound: live runs that cleanup judges by their worker

ASSUME SettlementAssumption ==
    /\ NoOne \notin Runs
    /\ Continuations \subseteq Runs
    /\ Mortal \cup Refused \subseteq Runs \cup Cleaners
    /\ {ParkAdapter, Forced} \subseteq BOOLEAN
    /\ MaxAttempts \in Nat \ {0}
    /\ MaxMisjudged \in Nat

Statuses == {"ready", "active", "parked", "done"}
Classes == {"completed", "blocked", "unknown"}
Records == {"activation", "stage", "integration", "attempted", "settled", "provenance",
            "released", "completed", "blocked", "unknown"}

RunPCs ==
    {"idle", "selected", "locked", "staged", "activated",
     "aborting", "aborted",                  \* pre-launch failure
     "working",
     "completing", "confirmed",              \* TaskSourceCompleter
     "settling", "settled", "unsettled",     \* TaskSourceSettler.settle
     "recording", "releasing", "released",
     "post_settling", "post_settled", "post_unsettled", \* settle_after_release
     "raised", "ended"}
CleanerPCs ==
    {"idle", "collected", "claiming", "settling", "settled", "unsettled",
     "closing", "releasing", "forcing", "resetting"}

VARIABLES
    status,    \* the task's status in the source
    holder,    \* who holds the task lock
    pc,        \* control point of a run
    alive,     \* its supervisor process exists
    worker,    \* its worker process: "none", "alive", "gone"
    journal,   \* its durable records
    latched,   \* its settlement latch: what the order of its records says
    activated, \* activated_runtime_owned: activation may have happened
    class,     \* its classification
    attempts,  \* fenced settlement attempts it has made
    postponed, \* post_release_settlement_intent
    step,      \* control point of a cleaner
    view,      \* the stale lock a cleaner has collected
    misjudged  \* history: live runs that cleanup judged by their worker alone

runVars     == <<pc, alive, worker, activated, class, attempts, postponed>>
recordVars  == <<journal, latched>>
cleanerVars == <<step, view, misjudged>>
vars == <<status, holder, runVars, recordVars, cleanerVars>>

NothingSeen == [run |-> NoOne, latched |-> FALSE, class |-> "unknown"]

TypeOK ==
    /\ status \in Statuses
    /\ holder \in Runs \cup {NoOne}
    /\ pc \in [Runs -> RunPCs]
    /\ alive \in [Runs -> BOOLEAN]
    /\ worker \in [Runs -> {"none", "alive", "gone"}]
    /\ journal \in [Runs -> SUBSET Records]
    /\ latched \in [Runs -> BOOLEAN]
    /\ activated \in [Runs -> BOOLEAN]
    /\ class \in [Runs -> Classes]
    /\ attempts \in [Runs -> 0..MaxAttempts]
    /\ postponed \in [Runs -> BOOLEAN]
    /\ step \in [Cleaners -> CleanerPCs]
    /\ view \in [Cleaners -> [run : Runs \cup {NoOne}, latched : BOOLEAN,
                              class : Classes]]
    /\ misjudged \in SUBSET Runs

Init ==
    /\ status = "ready"
    /\ holder = NoOne
    /\ pc = [r \in Runs |-> "idle"]
    /\ alive = [r \in Runs |-> TRUE]
    /\ worker = [r \in Runs |-> "none"]
    /\ journal = [r \in Runs |-> {}]
    /\ latched = [r \in Runs |-> FALSE]
    /\ activated = [r \in Runs |-> FALSE]
    /\ class = [r \in Runs |-> "unknown"]
    /\ attempts = [r \in Runs |-> 0]
    /\ postponed = [r \in Runs |-> FALSE]
    /\ step = [c \in Cleaners |-> "idle"]
    /\ view = [c \in Cleaners |-> NothingSeen]
    /\ misjudged = {}

-----------------------------------------------------------------------------
(* Records, the lock and the source. *)

Durable(r) == journal[r] \cap Classes # {}

\* The classification of the run's durable result, "unknown" without one.
DurableClass(r) ==
    IF Durable(r) THEN CHOOSE k \in Classes : k \in journal[r] ELSE "unknown"

\* Mutant: the activation stage does not latch.
Latches_AttemptedOnly == {"attempted"}

\* task_source_settlement_pending_run_ids: the records that latch a run ...
Latches == {"activation", "attempted"}

\* ... and the ones that clear its latch.
Unlatches == {"provenance", "settled", "released"}

Append(r, rec) ==
    /\ journal' = [journal EXCEPT ![r] = @ \cup {rec}]
    /\ latched' = [latched EXCEPT ![r] =
                     rec \in Latches \/ (@ /\ rec \notin Unlatches)]

Goto(r, label) == pc' = [pc EXCEPT ![r] = label]
At(r, label) == alive[r] /\ pc[r] = label

\* settlement_intent, and its fallback without a park adapter.
ParkedClass(k) == k = "blocked" /\ ParkAdapter

\* The status that confirms a settlement of classification k.
Settled(k) == IF ParkedClass(k) THEN "parked" ELSE "ready"

\* An adapter command of process a that moves the task to `target`, and what
\* the probe after it says: the call may have no effect, may fail after it took
\* effect, and the probe may fail too.
Adapter(a, target, confirmed) ==
    \/ /\ status' = target
       /\ confirmed
    \/ /\ a \in Refused
       /\ status' \in {status, target}
       /\ ~confirmed

-----------------------------------------------------------------------------
(* A run before its launch. *)

\* Dispatch lists runnable tasks; nothing is probed again when the lock is
\* acquired. A continuation follows a durable result of unknown outcome.
Select(r) ==
    /\ At(r, "idle")
    /\ IF r \in Continuations THEN \E q \in Runs : "unknown" \in journal[q]
                             ELSE status = "ready"
    /\ Goto(r, "selected")
    /\ UNCHANGED <<status, holder, recordVars, alive, worker, activated, class, attempts,
                   postponed, cleanerVars>>

Acquire(r) ==
    /\ At(r, "selected")
    /\ IF holder = NoOne THEN holder' = r /\ Goto(r, "locked")
                         ELSE UNCHANGED holder /\ Goto(r, "ended")
    /\ UNCHANGED <<status, recordVars, alive, worker, activated, class, attempts,
                   postponed, cleanerVars>>

BeginActivation(r) ==
    /\ At(r, "locked")
    /\ Append(r, "activation")
    /\ Goto(r, "staged")
    /\ UNCHANGED <<status, holder, alive, worker, activated, class, attempts, postponed,
                   cleanerVars>>

\* The attempt circuit is open, the contract does not resolve or the budget
\* denies the launch; after the activation, the workspace is not provisioned.
PreLaunchFails(r) ==
    /\ At(r, "locked") \/ At(r, "staged") \/ At(r, "activated")
    /\ Goto(r, "aborting")
    /\ UNCHANGED <<status, holder, recordVars, alive, worker, activated, class, attempts,
                   postponed, cleanerVars>>

\* The adapter moves a runnable task to in-progress and leaves any other
\* alone; a task that is in-progress counts as activated without it.
ActivateTask(r, confirmed) ==
    IF r \notin Continuations /\ status = "ready"
      THEN Adapter(r, "active", confirmed)
      ELSE /\ UNCHANGED status
           /\ \/ /\ confirmed
                 /\ status = "active" \/ (r \in Continuations /\ status = "parked")
              \/ /\ ~confirmed
                 /\ r \in Refused \/ status # "active"

\* activate_task_before_launch. A continuation only probes, and refuses a
\* task that is runnable or done. From here on the run owes a settlement,
\* whether the activation is confirmed or not.
Activate(r) ==
    /\ At(r, "staged")
    /\ \E confirmed \in BOOLEAN :
          /\ ActivateTask(r, confirmed)
          /\ Goto(r, IF confirmed THEN "activated" ELSE "aborting")
    /\ activated' = [activated EXCEPT ![r] = TRUE]
    /\ UNCHANGED <<holder, recordVars, alive, worker, class, attempts, postponed,
                   cleanerVars>>

\* finalize_pre_launch_failure gives the lock back ...
ReleaseAborted(r) ==
    /\ At(r, "aborting")
    /\ IF holder = r THEN holder' = NoOne /\ Goto(r, "aborted")
                     ELSE UNCHANGED holder /\ Goto(r, "raised")
    /\ UNCHANGED <<status, recordVars, alive, worker, activated, class, attempts,
                   postponed, cleanerVars>>

OwesRequeue(r) == activated[r]

\* ... and requeues the task afterwards if it may be activated.
RecordAborted(r) ==
    /\ At(r, "aborted")
    /\ Append(r, "released")
    /\ Goto(r, IF OwesRequeue(r) THEN "post_settling" ELSE "ended")
    /\ UNCHANGED <<status, holder, alive, worker, activated, class, attempts, postponed,
                   cleanerVars>>

-----------------------------------------------------------------------------
(* A launched run. *)

\* The worker is published, or its launch fails.
Launch(r) ==
    /\ At(r, "activated")
    /\ Goto(r, "working")
    /\ \E w \in {"none", "alive"} : worker' = [worker EXCEPT ![r] = w]
    /\ UNCHANGED <<status, holder, recordVars, alive, activated, class, attempts,
                   postponed, cleanerVars>>

\* It may outlive its supervisor.
WorkerExits(r) ==
    /\ worker[r] = "alive"
    /\ worker' = [worker EXCEPT ![r] = "gone"]
    /\ UNCHANGED <<status, holder, recordVars, pc, alive, activated, class, attempts,
                   postponed, cleanerVars>>

\* The supervisor has reaped the worker and journals the first stage that is
\* its own.
EnterRuntimeStages(r) ==
    /\ At(r, "working")
    /\ worker[r] = "gone"
    /\ "stage" \notin journal[r]
    /\ Append(r, "stage")
    /\ UNCHANGED <<status, holder, runVars, cleanerVars>>

\* The runtime stages merge the candidate and record integration_result.
Integrate(r) ==
    /\ At(r, "working")
    /\ "stage" \in journal[r]
    /\ "integration" \notin journal[r]
    /\ Append(r, "integration")
    /\ UNCHANGED <<status, holder, runVars, cleanerVars>>

\* The stages end in a classification; the upstream gate may still block a
\* run that has integrated.
Classify(r, k) ==
    /\ At(r, "working")
    /\ "stage" \in journal[r]
    /\ k = "completed" => "integration" \in journal[r]
    /\ class' = [class EXCEPT ![r] = k]
    /\ Goto(r, IF k = "completed" THEN "completing" ELSE "settling")
    /\ UNCHANGED <<status, holder, recordVars, alive, worker, activated, attempts,
                   postponed, cleanerVars>>

\* An exception out of the launch, the stages, or the append of the result; the
\* handler fails the stage, which journals the one after it.
RunRaises(r) ==
    /\ At(r, "working") \/ At(r, "recording")
    /\ worker[r] # "alive"
    /\ Append(r, "stage")
    /\ Goto(r, "releasing")
    /\ UNCHANGED <<status, holder, alive, worker, activated, class, attempts,
                   postponed, cleanerVars>>

\* Mutant: a completion that is not confirmed leaves the classification.
ClassAfterCompletion_Kept(confirmed) == "completed"

ClassAfterCompletion(confirmed) == IF confirmed THEN "completed" ELSE "blocked"

\* TaskSourceCompleter.complete: a task that is already done is recovered.
CompleteSource(r) ==
    /\ At(r, "completing")
    /\ IF holder = r /\ "integration" \in journal[r]
         THEN \E confirmed \in BOOLEAN :
                /\ Adapter(r, "done", confirmed)
                /\ class' = [class EXCEPT ![r] = ClassAfterCompletion(confirmed)]
                /\ Goto(r, IF confirmed THEN "confirmed" ELSE "settling")
         ELSE Goto(r, "releasing") /\ UNCHANGED <<status, class>>
    /\ UNCHANGED <<holder, recordVars, alive, worker, activated, attempts, postponed,
                   cleanerVars>>

CommitProvenance(r) ==
    /\ At(r, "confirmed")
    /\ Append(r, "provenance")
    /\ Goto(r, "recording")
    /\ UNCHANGED <<status, holder, alive, worker, activated, class, attempts, postponed,
                   cleanerVars>>

\* TaskSourceSettler.settle under the run's own lock: a probe, or a call of
\* the adapter and a probe.
SettleSource(r) ==
    /\ At(r, "settling")
    /\ IF holder = r
         THEN \E confirmed \in BOOLEAN :
                /\ Adapter(r, Settled(class[r]), confirmed)
                /\ Goto(r, IF confirmed THEN "settled" ELSE "unsettled")
         ELSE Goto(r, "releasing") /\ UNCHANGED status
    /\ UNCHANGED <<holder, recordVars, alive, worker, activated, class, attempts,
                   postponed, cleanerVars>>

RecordSettled(r) ==
    /\ At(r, "settled")
    /\ Append(r, "settled")
    /\ Goto(r, "recording")
    /\ UNCHANGED <<status, holder, alive, worker, activated, class, attempts, postponed,
                   cleanerVars>>

AttemptsLeft(r) == attempts[r] + 1 < MaxAttempts

\* Three refusals end the fenced settlement: it is put off until the lock is
\* released.
RecordAttempt(r) ==
    /\ At(r, "unsettled")
    /\ Append(r, "attempted")
    /\ attempts' = [attempts EXCEPT ![r] = @ + 1]
    /\ IF AttemptsLeft(r)
         THEN Goto(r, "settling") /\ UNCHANGED postponed
         ELSE Goto(r, "recording") /\ postponed' = [postponed EXCEPT ![r] = TRUE]
    /\ UNCHANGED <<status, holder, alive, worker, activated, class, cleanerVars>>

RecordResult(r) ==
    /\ At(r, "recording")
    /\ Append(r, class[r])
    /\ Goto(r, "releasing")
    /\ UNCHANGED <<status, holder, alive, worker, activated, class, attempts, postponed,
                   cleanerVars>>

\* Mutant: the lock is released whatever is recorded.
MayRelease_Always(r) == TRUE

\* settle_outcome_and_release returns False without a durable result.
MayRelease(r) == Durable(r)

\* The run's lock is released, or retained for recovery.
ReleaseSettled(r) ==
    /\ At(r, "releasing")
    /\ IF MayRelease(r) /\ holder = r
         THEN holder' = NoOne /\ Goto(r, "released")
         ELSE UNCHANGED holder /\ Goto(r, "raised")
    /\ UNCHANGED <<status, recordVars, alive, worker, activated, class, attempts,
                   postponed, cleanerVars>>

RecordReleased(r) ==
    /\ At(r, "released")
    /\ Append(r, "released")
    /\ Goto(r, IF postponed[r] THEN "post_settling" ELSE "ended")
    /\ UNCHANGED <<status, holder, alive, worker, activated, class, attempts, postponed,
                   cleanerVars>>

\* settle_after_release: one call without a fencing claim.
SettleAfterRelease(r) ==
    /\ At(r, "post_settling")
    /\ IF "settled" \in journal[r]
         THEN Goto(r, "ended") /\ UNCHANGED status
         ELSE \E confirmed \in BOOLEAN :
                /\ Adapter(r, Settled(class[r]), confirmed)
                /\ Goto(r, IF confirmed THEN "post_settled" ELSE "post_unsettled")
    /\ UNCHANGED <<holder, recordVars, alive, worker, activated, class, attempts,
                   postponed, cleanerVars>>

RecordPost(r) ==
    /\ At(r, "post_settled") \/ At(r, "post_unsettled")
    /\ Append(r, IF pc[r] = "post_settled" THEN "settled" ELSE "attempted")
    /\ Goto(r, "ended")
    /\ UNCHANGED <<status, holder, alive, worker, activated, class, attempts, postponed,
                   cleanerVars>>

\* An exception that leaves run_task ends the supervisor; it may die anywhere.
SupervisorGoes(r) ==
    /\ alive[r]
    /\ \/ pc[r] = "raised"
       \/ r \in Mortal /\ pc[r] \notin {"idle", "ended"}
    /\ alive' = [alive EXCEPT ![r] = FALSE]
    /\ UNCHANGED <<status, holder, recordVars, pc, worker, activated, class, attempts,
                   postponed, cleanerVars>>

-----------------------------------------------------------------------------
(* Stale-lock recovery. *)

\* Mutant: a run counts as finished although its supervisor goes on.
Finished_Anyone(r) == TRUE

\* Mutant: the death of a supervisor proves nothing.
Finished_ByResult(r) == Durable(r)

\* The supervisor owns the run: it has not published a worker, or has
\* journaled a stage of its own.
SupervisorDecides(r) == worker[r] = "none" \/ "stage" \in journal[r]

\* classify_run: a durable result, or a process that is gone; between the
\* publication of the worker and the first runtime stage that is the worker,
\* whatever its supervisor does.
Finished(r) ==
    \/ Durable(r)
    \/ IF SupervisorDecides(r) THEN ~alive[r] ELSE worker[r] = "gone"

\* Finished in fact: no step of the run follows.
Over(r) == Durable(r) \/ ~alive[r]

\* What cleanup may take a run for that it acts on.
Judged(r) == Over(r) \/ r \in misjudged

\* The verdict rests on the worker alone, and the supervisor goes on.
MissingWorkerVerdict(r) ==
    ~Over(r) /\ ~SupervisorDecides(r) /\ worker[r] = "gone"

To(c, label) ==
    /\ step' = [step EXCEPT ![c] = label]
    /\ view' = IF label = "idle" THEN [view EXCEPT ![c] = NothingSeen] ELSE view

\* collect_stale_locks
Collect(c) ==
    /\ step[c] = "idle"
    /\ holder # NoOne
    /\ Finished(holder)
    /\ step' = [step EXCEPT ![c] = "collected"]
    /\ view' = [view EXCEPT ![c] = [run |-> holder, latched |-> latched[holder],
                                   class |-> DurableClass(holder)]]
    /\ misjudged' = misjudged \cup {r \in {holder} : MissingWorkerVerdict(r)}
    /\ Cardinality(misjudged') <= MaxMisjudged
    /\ UNCHANGED <<status, holder, runVars, recordVars>>

\* clean_stale_locks reads the source of a latched run again: a task that is
\* not in-progress needs no settlement.
Inspect(c) ==
    /\ step[c] = "collected"
    /\ IF view[c].latched
         THEN \/ status # "active" /\ To(c, "releasing")
              \/ (c \in Refused \/ status = "active") /\ To(c, "claiming")
         ELSE To(c, "releasing")
    /\ UNCHANGED <<status, holder, runVars, recordVars, misjudged>>

GiveUp == IF Forced THEN "forcing" ELSE "idle"

\* recover_and_release under the recorded generation of the run's lock; a
\* settlement that is on record is not repeated.
Claim(c) ==
    /\ step[c] = "claiming"
    /\ To(c, IF holder # view[c].run THEN GiveUp
             ELSE IF "settled" \in journal[view[c].run] THEN "closing"
             ELSE "settling")
    /\ UNCHANGED <<status, holder, runVars, recordVars, misjudged>>

SettleStale(c) ==
    /\ step[c] = "settling"
    /\ \E confirmed \in BOOLEAN :
          /\ Adapter(c, Settled(view[c].class), confirmed)
          /\ To(c, IF confirmed THEN "settled" ELSE "unsettled")
    /\ UNCHANGED <<holder, runVars, recordVars, misjudged>>

RecordStale(c) ==
    /\ step[c] \in {"settled", "unsettled"}
    /\ IF step[c] = "settled"
         THEN Append(view[c].run, "settled") /\ To(c, "closing")
         ELSE Append(view[c].run, "attempted") /\ To(c, GiveUp)
    /\ UNCHANGED <<status, holder, runVars, misjudged>>

\* The lock is not released before the run's result is durable.
Close(c) ==
    /\ step[c] = "closing"
    /\ IF Durable(view[c].run) /\ holder = view[c].run
         THEN holder' = NoOne /\ Append(view[c].run, "released") /\ To(c, "idle")
         ELSE UNCHANGED <<holder, recordVars>> /\ To(c, GiveUp)
    /\ UNCHANGED <<status, runVars, misjudged>>

\* release_stale_lock, fenced by the run it collected.
ReleaseStale(c) ==
    /\ step[c] \in {"releasing", "forcing"}
    /\ IF holder = view[c].run
         THEN /\ holder' = NoOne
              /\ To(c, IF step[c] = "forcing" THEN "resetting" ELSE "idle")
         ELSE UNCHANGED holder /\ To(c, "idle")
    /\ UNCHANGED <<status, runVars, recordVars, misjudged>>

\* settle_released_task_source
ResetReleased(c) ==
    /\ step[c] = "resetting"
    /\ \E confirmed \in BOOLEAN : Adapter(c, "ready", confirmed)
    /\ To(c, "idle")
    /\ UNCHANGED <<holder, runVars, recordVars, misjudged>>

CleanerDies(c) ==
    /\ c \in Mortal
    /\ step[c] # "idle"
    /\ To(c, "idle")
    /\ UNCHANGED <<status, holder, runVars, recordVars, misjudged>>

-----------------------------------------------------------------------------
RunStep(r) ==
    \/ Select(r) \/ Acquire(r) \/ BeginActivation(r) \/ PreLaunchFails(r)
    \/ Activate(r) \/ ReleaseAborted(r) \/ RecordAborted(r)
    \/ Launch(r) \/ WorkerExits(r) \/ EnterRuntimeStages(r) \/ Integrate(r)
    \/ (\E k \in Classes : Classify(r, k)) \/ RunRaises(r) \/ CompleteSource(r) \/ CommitProvenance(r)
    \/ SettleSource(r) \/ RecordSettled(r) \/ RecordAttempt(r)
    \/ RecordResult(r) \/ ReleaseSettled(r) \/ RecordReleased(r)
    \/ SettleAfterRelease(r) \/ RecordPost(r)

CleanerStep(c) ==
    \/ Collect(c) \/ Inspect(c) \/ Claim(c) \/ SettleStale(c) \/ RecordStale(c)
    \/ Close(c) \/ ReleaseStale(c) \/ ResetReleased(c)

Next ==
    \/ \E r \in Runs : RunStep(r) \/ SupervisorGoes(r)
    \/ \E c \in Cleaners : CleanerStep(c) \/ CleanerDies(c)

Spec == Init /\ [][Next]_vars

\* Cleanup is repeated, an adapter it calls or probes again and again answers
\* in the end, a worker exits, and an exception out of run_task ends its process.
Fairness ==
    /\ \A c \in Cleaners :
          /\ WF_vars(CleanerStep(c))
          /\ SF_vars(Inspect(c) /\ step'[c] = "releasing")
          /\ SF_vars(SettleStale(c) /\ step'[c] = "settled")
    /\ \A r \in Runs : /\ WF_vars(WorkerExits(r))
                       /\ WF_vars(pc[r] = "raised" /\ SupervisorGoes(r))

FairSpec == Spec /\ Fairness

-----------------------------------------------------------------------------
(* Properties *)

AtWork == {"working", "completing", "confirmed", "settling", "settled",
           "unsettled", "recording"}

\* A launched run keeps the task lock under a living supervisor until its
\* result is durable, whatever cleanup does meanwhile (clean_stale_locks:
\* "refusing to release the task lock because its run is not proven finished").
\* The exception the code has is a run that cleanup judged by its exited worker
\* before the supervisor had journaled a stage of its own (misjudged).
LaunchedKeepsLock ==
    \A r \in Runs \ misjudged : alive[r] /\ pc[r] \in AtWork => holder = r

\* What a completed result is the end of: an integration and a confirmed
\* completion of the task, both on record (stages 9 to 11 of the lifecycle).
CompletedIsCommitted ==
    \A r \in Runs :
        "completed" \in journal[r] => {"integration", "provenance"} \subseteq journal[r]

\* The supervisor of a launched run releases the lock with a durable result
\* and a task that is settled, completed, or refused by every attempt.
ReleasedIsSettled ==
    \A r \in Runs :
        pc[r] \in {"released", "post_settling"} /\ "integration" \in journal[r]
        => /\ Durable(r)
           /\ \/ journal[r] \cap {"settled", "provenance"} # {}
              \/ attempts[r] = MaxAttempts

\* Cleanup without --force never leaves a task in-progress without a lock: it
\* settles the task of a run that may have activated it, or keeps the lock.
RecoveryNeverStrands ==
    [][\A c \in Cleaners, r \in Runs :
          CleanerStep(c) /\ step[c] # "forcing" /\ activated[r]
            /\ holder = r /\ holder' # r
          => status # "active"]_vars

\* A task is in-progress without a lock only while the run that released it
\* has its settlement before it, died there, or saw it fail
\* (settle_after_release: "retries settlement once more"); without --force.
StrandedHasOwner ==
    holder = NoOne /\ status = "active" =>
        \E r \in Runs :
            \/ pc[r] \in {"aborted", "released", "post_settling", "post_unsettled"}
            \/ pc[r] = "ended" /\ latched[r]

\* The task a run has activated and left behind with its lock is taken over:
\* some cleanup settles it and frees the lock; and no task is left behind
\* without one (without --force).
AbandonedTaskSettled ==
    /\ []StrandedHasOwner
    /\ \A r \in Runs :
           holder = r /\ ~alive[r] /\ activated[r]
           ~> holder # r /\ (status = "active" => holder # NoOne)

-----------------------------------------------------------------------------
(* The inductive invariant behind LaunchedKeepsLock, CompletedIsCommitted   *)
(* and ReleasedIsSettled.                                                   *)

BeforeLaunch == {"idle", "selected", "locked", "staged", "activated",
                 "aborting", "aborted"}
Owning == {"locked", "staged", "activated"} \cup AtWork

\* Settled or completed on record, or every attempt refused.
Closed(r) == \/ journal[r] \cap {"settled", "provenance"} # {}
             \/ attempts[r] = MaxAttempts

\* Nobody is a finished run's heir before it has finished: a run that owns the
\* lock has no durable result, so that recovery may only judge it by its death
\* (or misjudge it once its worker is published).
OwnerInv(r) ==
    /\ alive[r] /\ pc[r] \in Owning /\ r \notin misjudged => holder = r
    /\ pc[r] \in BeforeLaunch \cup AtWork => ~Durable(r)
    /\ worker[r] # "none" \/ r \in misjudged => pc[r] \notin BeforeLaunch

\* What a run has written down by the time it gets somewhere.
RecordInv(r) ==
    /\ pc[r] \in BeforeLaunch => "integration" \notin journal[r]
    /\ pc[r] \in {"completing", "confirmed"} => "integration" \in journal[r]
    /\ pc[r] \in {"settling", "settled", "unsettled"} => class[r] # "completed"
    /\ pc[r] = "recording" /\ class[r] = "completed"
         => {"integration", "provenance"} \subseteq journal[r]
    /\ pc[r] \in BeforeLaunch \cup (AtWork \ {"recording"})
         => attempts[r] < MaxAttempts

CloseInv(r) ==
    /\ pc[r] = "recording" => Closed(r)
    /\ pc[r] = "releasing" /\ Durable(r) => Closed(r)

\* A cleaner examines a run that is over, or one it has misjudged.
CleanerInv(c) ==
    step[c] # "idle" =>
        /\ view[c].run \in Runs
        /\ Judged(view[c].run)

SettlementInv ==
    /\ TypeOK
    /\ \A r \in Runs : OwnerInv(r) /\ RecordInv(r) /\ CloseInv(r)
    /\ \A c \in Cleaners : CleanerInv(c)
    /\ LaunchedKeepsLock
    /\ CompletedIsCommitted
    /\ ReleasedIsSettled
=============================================================================
