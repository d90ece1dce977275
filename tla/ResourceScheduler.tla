------------------------- MODULE ResourceScheduler -------------------------
(***************************************************************************)
(* Which tasks run side by side: run-until-done with several jobs, the     *)
(* selection of a batch, the conflict domains that the task locks carry,   *)
(* and the scheduler lock under which a task lock is acquired and the      *)
(* scope of a run is widened (runner.py).                                  *)
(*                                                                         *)
(* A supervisor is one invocation of run_until_done_parallel. It has one   *)
(* thread per task in flight; the scheduler lock, an flock, is exclusive   *)
(* among the threads of all supervisors and the commands of the workers,   *)
(* and it goes with the process that holds it. The task lock itself is the *)
(* abstract one: TaskLocks has its protocol. What a run does between its   *)
(* launch and its end is its worker and an outcome.                        *)
(***************************************************************************)
EXTENDS Naturals, FiniteSets, Sequences

CONSTANTS
    Supervisors,    \* invocations of run-until-done
    Mortal,         \* those that may die
    Tasks,          \* the tasks of the source
    Slices,         \* Slices[t]: how often t completes before the source has it done
    Domain,         \* Domain[t]: the conflict domains t declares
    Endings,        \* Endings[t]: how the runs of t may end
    Wider,          \* Wider[t]: the domains its scope may be widened to
    Jobs,           \* Jobs[s]: --jobs
    MaxTasks,       \* MaxTasks[s]: --max-tasks; 0 is no limit
    MaxSlices,      \* MaxSlices[s]: --max-slices; 0 is no limit
    MaxRestarts,    \* MaxRestarts[s]: supervision.max_restarts
    ContinueOnFailure,
    Activates,      \* the source has an activate command
    NoOne

\* Conflict domains: resources, and paths as sequences of names; a domain that
\* is not known may be anything.
DomainType(d) ==
    /\ DOMAIN d = {"known", "resources", "paths"}
    /\ d.known \in BOOLEAN
    /\ \A p \in d.paths : p = [i \in 1..Len(p) |-> p[i]]

\* How a run ends. A transient failure is one whose log says so; a run that timed
\* out is passed over like a blocked one; what is raised is no result.
Outcomes == {"completed", "provider_limit", "transient", "unknown", "failed",
             "blocked", "raised"}

Assumption ==
    /\ Mortal \subseteq Supervisors /\ NoOne \notin Supervisors \cup Tasks
    /\ IsFiniteSet(Tasks) /\ Slices \in [Tasks -> Nat]
    /\ Endings \in [Tasks -> SUBSET Outcomes]
    /\ \A t \in Tasks : DomainType(Domain[t]) /\ DomainType(Wider[t])
    /\ Jobs \in [Supervisors -> Nat \ {0}]
    /\ MaxTasks \in [Supervisors -> Nat] /\ MaxSlices \in [Supervisors -> Nat]
    /\ MaxRestarts \in [Supervisors -> Nat]
    /\ ContinueOnFailure \in BOOLEAN /\ Activates \in BOOLEAN
ASSUME Assumption

VARIABLES
    loop,           \* loop[s]: the loop of supervisor s and its counters
    slot,           \* slot[s][t]: the thread of s for t, if one
    flock,          \* holder of the scheduler lock and what it has found
    lock,           \* lock[t]: the supervisor whose run holds the task lock
    claim,          \* claim[t]: the domains in the lock's metadata
    worker,         \* the tasks with a live worker
    left,           \* left[t]: slices of t that the source still has
    selfRefused     \* a supervisor refused its task for another task of its own

vars == <<loop, slot, flock, lock, claim, worker, left, selfRefused>>

---------------------------------------------------------------------------
(* Conflict domains. *)

\* path_domain_overlaps: one is the other or lies below it, "." being the empty
\* sequence.
Within(p, q) == Len(q) <= Len(p) /\ SubSeq(p, 1, Len(q)) = q
PathsOverlap(p, q) == Within(p, q) \/ Within(q, p)

Overlap(d, e) ==
    \/ ~d.known \/ ~e.known
    \/ d.resources \cap e.resources # {}
    \/ \E p \in d.paths, q \in e.paths : PathsOverlap(p, q)

\* resource_conflicts_enabled: domains count once one of them is known.
PolicyOn(domains) == \E d \in domains : d.known

Declared(ts) == {Domain[t] : t \in ts}
ClearOf(t, domains) == \A d \in domains : ~Overlap(Domain[t], d)

Alive(s) == loop[s].pc \in {"loop", "recovering", "aborting"}

\* active_run_is_live: the worker or the supervisor of the lock is there. Leases,
\* which are off by default, do not lapse.
Live(t) == lock[t] # NoOne /\ (Alive(lock[t]) \/ t \in worker)

\* active_lock_conflict_domains: what the locks of live runs carry.
Active(except) == {claim[t] : t \in {u \in Tasks \ except : Live(u)}}

---------------------------------------------------------------------------
(* Selection. *)

InFlight(s) == {t \in Tasks : slot[s][t].pc # "none"}

\* candidate_snapshot_from_tasks: what the source has left and this invocation
\* neither skips nor has scheduled, unlocked and clear of the live runs.
Ready(s) ==
    {t \in Tasks : left[t] > 0} \ (loop[s].skipped \cup loop[s].cooling \cup InFlight(s))
Snapshot(s) ==
    {t \in Ready(s) :
        /\ lock[t] = NoOne
        /\ PolicyOn(Declared(Ready(s)) \cup Active({})) => ClearOf(t, Active({}))}

\* Mutant: candidates are not compared with what is scheduled.
Candidates_Unfiltered(s) == Snapshot(s)

\* filter_scheduled_conflicts.
Candidates(s) ==
    {t \in Snapshot(s) :
        PolicyOn(Declared(Snapshot(s) \cup InFlight(s))) => ClearOf(t, Declared(InFlight(s)))}

\* deterministic_task_batch takes the first that fit, the agent any that
\* validate_selected_task_batch accepts.
Batches(candidates) ==
    {b \in SUBSET candidates \ {{}} :
        PolicyOn(Declared(candidates)) => \A t \in b : ClearOf(t, Declared(b \ {t}))}

\* Mutant: runs in flight are not set against --max-tasks.
Fits_Completed(s, n) ==
    /\ Cardinality(InFlight(s)) + n <= Jobs[s]
    /\ MaxSlices[s] > 0 => loop[s].results + Cardinality(InFlight(s)) + n <= MaxSlices[s]
    /\ MaxTasks[s] > 0 => loop[s].completed + n <= MaxTasks[s]

\* Room for n more runs.
Fits(s, n) ==
    LET running == Cardinality(InFlight(s)) + n
    IN  /\ running <= Jobs[s]
        /\ MaxSlices[s] > 0 => loop[s].results + running <= MaxSlices[s]
        /\ MaxTasks[s] > 0 => loop[s].completed + running <= MaxTasks[s]

---------------------------------------------------------------------------
NoSlot == [pc |-> "none", enforce |-> FALSE, out |-> "none"]
Fresh == [pc |-> "loop", task |-> NoOne, attempt |-> 0, skipped |-> {}, cooling |-> {},
          restarts |-> [t \in Tasks |-> 0], results |-> 0, recoveries |-> 0,
          completed |-> 0, stopping |-> FALSE]
Gone == [Fresh EXCEPT !.pc = "over"]
Free == [by |-> NoOne, task |-> NoOne, cleared |-> FALSE]

Init ==
    /\ loop = [s \in Supervisors |-> Fresh]
    /\ slot = [s \in Supervisors |-> [t \in Tasks |-> NoSlot]]
    /\ flock = Free
    /\ lock = [t \in Tasks |-> NoOne]
    /\ claim = [t \in Tasks |-> Domain[t]]
    /\ worker = {}
    /\ left = Slices
    /\ selfRefused = FALSE

Dispatch(s) ==
    /\ loop[s].pc = "loop" /\ ~loop[s].stopping /\ Fits(s, 1)
    /\ \E batch \in Batches(Candidates(s)) :
           /\ Fits(s, Cardinality(batch))
           /\ slot' = [slot EXCEPT ![s] = [t \in Tasks |->
                  IF t \in batch
                  THEN [pc |-> "queued", out |-> "none",
                        enforce |-> PolicyOn(Declared(Candidates(s)))]
                  ELSE @[t]]]
    /\ UNCHANGED <<loop, flock, lock, claim, worker, left, selfRefused>>

---------------------------------------------------------------------------
(* A thread: run_task from acquire_scheduled_task_lock to its outcome. *)

Thread(s, t, pc) == slot' = [slot EXCEPT ![s][t].pc = pc]
Ends(s, t, out) == slot' = [slot EXCEPT ![s][t].pc = "ended", ![s][t].out = out]
\* The metadata goes with the lock.
Unlocks(t) ==
    /\ lock' = [lock EXCEPT ![t] = NoOne]
    /\ claim' = [claim EXCEPT ![t] = Domain[t]]
Recovering(s, t) == loop[s].pc = "recovering" /\ loop[s].task = t

TakeFlock(s, t) ==
    /\ slot[s][t].pc = "queued" /\ flock = Free
    /\ flock' = [by |-> s, task |-> t, cleared |-> FALSE]
    /\ Thread(s, t, "scheduling")
    /\ UNCHANGED <<loop, lock, claim, worker, left, selfRefused>>

\* SchedulerLockBusy after five seconds: the loop passes the task over, but
\* resume_pending_recovery does not expect it.
FlockTimesOut(s, t) ==
    /\ slot[s][t].pc = "queued" /\ flock # Free
    /\ Ends(s, t, IF Recovering(s, t) THEN "raised" ELSE "refused")
    /\ UNCHANGED <<loop, flock, lock, claim, worker, left, selfRefused>>

\* The live runs in whose domains t falls.
Enforced(s, t) == slot[s][t].enforce \/ PolicyOn({Domain[t]} \cup Active({}))
Rivals(s, t) ==
    {u \in Tasks : Live(u) /\ Enforced(s, t) /\ Overlap(Domain[t], claim[u])}

\* Mutant: the scheduler lock is not given back with the refusal.
ConflictRefused_Holds(s, t) ==
    /\ slot[s][t].pc = "scheduling" /\ ~flock.cleared /\ Rivals(s, t) # {}
    /\ Ends(s, t, "refused")
    /\ UNCHANGED <<loop, flock, lock, claim, worker, left, selfRefused>>

\* LockBusy for a resource conflict. It is noted when the task was refused for no
\* other reason than tasks of the same invocation, as declared, of which it or
\* they declare something.
ConflictRefused(s, t) ==
    /\ slot[s][t].pc = "scheduling" /\ ~flock.cleared /\ Rivals(s, t) # {}
    /\ flock' = Free
    /\ Ends(s, t, "refused")
    /\ selfRefused' = (selfRefused \/ \A u \in Rivals(s, t) :
           /\ u # t /\ lock[u] = s /\ claim[u] = Domain[u]
           /\ Domain[t].known \/ Domain[u].known)
    /\ UNCHANGED <<loop, lock, claim, worker, left>>

ConflictCleared(s, t) ==
    /\ slot[s][t].pc = "scheduling" /\ ~flock.cleared /\ Rivals(s, t) = {}
    /\ flock' = [flock EXCEPT !.cleared = TRUE]
    /\ UNCHANGED <<loop, slot, lock, claim, worker, left, selfRefused>>

LockHeld(s, t) ==
    /\ slot[s][t].pc = "scheduling" /\ flock.cleared /\ lock[t] # NoOne
    /\ flock' = Free
    /\ Ends(s, t, "refused")
    /\ UNCHANGED <<loop, lock, claim, worker, left, selfRefused>>

Acquire(s, t) ==
    /\ slot[s][t].pc = "scheduling" /\ flock.cleared /\ lock[t] = NoOne
    /\ lock' = [lock EXCEPT ![t] = s]
    /\ claim' = [claim EXCEPT ![t] = Domain[t]]
    /\ flock' = Free
    /\ Thread(s, t, "locked")
    /\ UNCHANGED <<loop, worker, left, selfRefused>>

\* The attempt circuit, the budget or the workspace refuses the launch.
LaunchRefused(s, t) ==
    /\ slot[s][t].pc = "locked"
    /\ Unlocks(t)
    /\ Ends(s, t, "refused")
    /\ UNCHANGED <<loop, flock, worker, left, selfRefused>>

\* activate_task_before_launch: the selection was stale, the source has the task
\* done. No caller expects a TaskActivationError.
ActivationRefused(s, t) ==
    /\ slot[s][t].pc = "locked" /\ Activates /\ left[t] = 0
    /\ Unlocks(t)
    /\ Ends(s, t, "raised")
    /\ UNCHANGED <<loop, flock, worker, left, selfRefused>>

Launch(s, t) ==
    /\ slot[s][t].pc = "locked" /\ (Activates => left[t] > 0)
    /\ worker' = worker \cup {t}
    /\ Thread(s, t, "running")
    /\ UNCHANGED <<loop, flock, lock, claim, left, selfRefused>>

\* The lock of a run that is not completed may be retained: its settlement
\* failed, or an exception came before the run had released it.
Finish(s, t, out) ==
    /\ slot[s][t].pc = "running"
    /\ \/ Unlocks(t)
       \/ out \in {"unknown", "failed", "raised"} /\ UNCHANGED <<lock, claim>>
    /\ worker' = worker \ {t}
    /\ left' = IF out = "completed" THEN [left EXCEPT ![t] = IF @ = 0 THEN 0 ELSE @ - 1]
               ELSE left
    /\ Ends(s, t, out)
    /\ UNCHANGED <<loop, flock, selfRefused>>

\* The worker of an invocation that died.
OrphanEnds(t) ==
    /\ t \in worker /\ ~Alive(lock[t])
    /\ worker' = worker \ {t}
    /\ UNCHANGED <<loop, slot, flock, lock, claim, left, selfRefused>>

---------------------------------------------------------------------------
(* authorize_task_lock_scope_widening, by the thread of the run or by the   *)
(* `worker candidate' command of its worker.                                *)

WidenTakes(t) ==
    /\ flock = Free /\ Live(t) /\ claim[t] # Wider[t]
    /\ flock' = [by |-> NoOne, task |-> t, cleared |-> FALSE]
    /\ UNCHANGED <<loop, slot, lock, claim, worker, left, selfRefused>>

Widening(t) == flock.by = NoOne /\ flock.task = t

\* Mutant: a widened scope is compared with nothing.
WidenCleared_Unchecked(t) ==
    /\ Widening(t) /\ ~flock.cleared
    /\ flock' = [flock EXCEPT !.cleared = TRUE]
    /\ UNCHANGED <<loop, slot, lock, claim, worker, left, selfRefused>>

WidenCleared(t) ==
    /\ Widening(t) /\ ~flock.cleared
    /\ \A d \in Active({t}) : ~Overlap(Wider[t], d)
    /\ flock' = [flock EXCEPT !.cleared = TRUE]
    /\ UNCHANGED <<loop, slot, lock, claim, worker, left, selfRefused>>

\* The run owns the lock still, or the update is refused.
WidenPublishes(t) ==
    /\ Widening(t) /\ flock.cleared /\ lock[t] # NoOne
    /\ claim' = [claim EXCEPT ![t] = Wider[t]]
    /\ flock' = Free
    /\ UNCHANGED <<loop, slot, lock, worker, left, selfRefused>>

\* A rival, a lock that is gone, an error, or the end of the process.
WidenFails(t) ==
    /\ Widening(t)
    /\ flock' = Free
    /\ UNCHANGED <<loop, slot, lock, claim, worker, left, selfRefused>>

---------------------------------------------------------------------------
(* The loop: what becomes of a future, one at a time. *)

Ended(s, t, out) ==
    loop[s].pc = "loop" /\ slot[s][t].pc = "ended" /\ slot[s][t].out = out

Counters(s, changed) ==
    /\ loop' = [loop EXCEPT ![s] = changed]
    /\ UNCHANGED <<flock, lock, claim, worker, left, selfRefused>>
Taken(s, t) == slot' = [slot EXCEPT ![s][t] = NoSlot]

\* A result is counted, whatever it says.
Counted(s) == [loop[s] EXCEPT !.results = @ + 1]
Enough(s, n) == MaxTasks[s] > 0 /\ n >= MaxTasks[s]

\* The task completed: it may have more slices, and is not passed over.
Done(s, t, counted) ==
    [counted EXCEPT !.pc = "loop", !.task = NoOne, !.attempt = 0,
                    !.completed = @ + 1,
                    !.stopping = @ \/ Enough(s, counted.completed + 1),
                    !.restarts[t] = 0, !.cooling = @ \ {t}]

\* The task is passed over; a failed or unknown run ends the dispatch.
Over(t, counted, failure) ==
    [counted EXCEPT !.pc = "loop", !.task = NoOne, !.attempt = 0,
                    !.skipped = @ \cup {t}, !.cooling = @ \ {t},
                    !.stopping = @ \/ (failure /\ ~ContinueOnFailure)]

PassOver(s, t) ==
    /\ Ended(s, t, "refused") /\ Taken(s, t)
    /\ Counters(s, [loop[s] EXCEPT !.skipped = @ \cup {t}])

Complete(s, t) ==
    /\ Ended(s, t, "completed") /\ Taken(s, t)
    /\ Counters(s, Done(s, t, Counted(s)))

Pause(s, t) ==
    /\ Ended(s, t, "provider_limit") /\ Taken(s, t)
    /\ Counters(s, [Counted(s) EXCEPT !.stopping = TRUE])

\* A transient failure is tried again after its cooldown, max_restarts times.
Restart(s, t) ==
    /\ Ended(s, t, "transient") /\ Taken(s, t)
    /\ loop[s].restarts[t] < MaxRestarts[s]
    /\ Counters(s, [Counted(s) EXCEPT !.cooling = @ \cup {t}, !.restarts[t] = @ + 1])

RestartsSpent(s, t) ==
    /\ Ended(s, t, "transient") /\ Taken(s, t)
    /\ loop[s].restarts[t] >= MaxRestarts[s]
    /\ Counters(s, Over(t, Counted(s), TRUE))

CoolsDown(s, t) ==
    /\ loop[s].pc = "loop" /\ t \in loop[s].cooling
    /\ Counters(s, [loop[s] EXCEPT !.cooling = @ \ {t}])
    /\ UNCHANGED slot

Fail(s, t) ==
    /\ Ended(s, t, "failed") /\ Taken(s, t)
    /\ Counters(s, Over(t, Counted(s), TRUE))

Block(s, t) ==
    /\ Ended(s, t, "blocked") /\ Taken(s, t)
    /\ Counters(s, Over(t, Counted(s), FALSE))

\* drive_unknown_recovery, in the thread of the loop, which does nothing else.
Recover(s, t) ==
    /\ Ended(s, t, "unknown") /\ MaxRestarts[s] > 0
    /\ Counters(s, [Counted(s) EXCEPT !.pc = "recovering", !.task = t, !.attempt = 1])
    /\ slot' = [slot EXCEPT ![s][t] = [NoSlot EXCEPT !.pc = "queued"]]

\* Recovery is off, or the task source does not answer.
Unrecovered(s, t) ==
    /\ Ended(s, t, "unknown") /\ Taken(s, t)
    /\ Counters(s, Over(t, Counted(s), TRUE))

RecoveryEnds(s, t) ==
    LET out == slot[s][t].out
        counted == [Counted(s) EXCEPT !.recoveries = @ + 1]
    IN  /\ Recovering(s, t) /\ slot[s][t].pc = "ended" /\ out # "raised"
        /\ IF out = "unknown" /\ loop[s].attempt < MaxRestarts[s]
           THEN /\ Counters(s, [counted EXCEPT !.attempt = @ + 1])
                /\ slot' = [slot EXCEPT ![s][t] = [NoSlot EXCEPT !.pc = "queued"]]
           ELSE /\ Taken(s, t)
                /\ CASE out = "completed" -> Counters(s, Done(s, t, counted))
                     \* The unknown run stands.
                     [] out = "refused" -> Counters(s, Over(t, loop[s], TRUE))
                     \* The verdict is a result of its own.
                     [] out = "unknown" ->
                            Counters(s, Over(t, [counted EXCEPT !.results = @ + 1,
                                                                !.recoveries = @ + 1], TRUE))
                     [] OTHER -> Counters(s, Over(t, counted, out \in {"failed", "transient"}))

\* Any other exception ends the invocation, once its threads are through.
Abort(s, t) ==
    /\ loop[s].pc = "loop" \/ Recovering(s, t)
    /\ slot[s][t].pc = "ended" /\ slot[s][t].out = "raised"
    /\ Counters(s, [loop[s] EXCEPT !.pc = "aborting"])
    /\ Taken(s, t)

LoopEnds(s) ==
    /\ \/ /\ loop[s].pc = "loop" /\ InFlight(s) = {}
          /\ \/ loop[s].stopping \/ ~Fits(s, 1)
             \/ loop[s].cooling = {} /\ Candidates(s) = {}
       \/ loop[s].pc = "aborting" /\ \A t \in Tasks : slot[s][t].pc \in {"none", "ended"}
    /\ Counters(s, Gone)
    /\ slot' = [slot EXCEPT ![s] = [t \in Tasks |-> NoSlot]]

\* An invocation dies with its threads and its flock; its workers go on.
Dies(s) ==
    /\ s \in Mortal /\ Alive(s)
    /\ loop' = [loop EXCEPT ![s] = Gone]
    /\ slot' = [slot EXCEPT ![s] = [t \in Tasks |-> NoSlot]]
    /\ flock' = IF flock.by = s THEN Free ELSE flock
    /\ UNCHANGED <<lock, claim, worker, left, selfRefused>>

\* Stale-lock recovery.
RecoverLock(t) ==
    /\ lock[t] # NoOne /\ ~Live(t)
    /\ Unlocks(t)
    /\ UNCHANGED <<loop, slot, flock, worker, left, selfRefused>>

---------------------------------------------------------------------------
ThreadStep(s, t) ==
    \/ TakeFlock(s, t) \/ FlockTimesOut(s, t)
    \/ ConflictRefused(s, t) \/ ConflictCleared(s, t)
    \/ LockHeld(s, t) \/ Acquire(s, t) \/ LaunchRefused(s, t)
    \/ ActivationRefused(s, t) \/ Launch(s, t)
    \/ \E out \in Endings[t] : Finish(s, t, out)

LoopStep(s) ==
    \/ Dispatch(s) \/ LoopEnds(s)
    \/ \E t \in Tasks :
           \/ PassOver(s, t) \/ Complete(s, t) \/ Pause(s, t)
           \/ Restart(s, t) \/ RestartsSpent(s, t) \/ CoolsDown(s, t)
           \/ Fail(s, t) \/ Block(s, t) \/ Recover(s, t) \/ Unrecovered(s, t)
           \/ RecoveryEnds(s, t) \/ Abort(s, t)

Step(s) == LoopStep(s) \/ \E t \in Tasks : ThreadStep(s, t)

WidenStep(t) == WidenCleared(t) \/ WidenPublishes(t) \/ WidenFails(t)

Next ==
    \/ \E s \in Supervisors : Step(s) \/ Dies(s)
    \/ \E t \in Tasks :
           \/ WidenTakes(t) \/ WidenStep(t) \/ OrphanEnds(t) \/ RecoverLock(t)

Spec == Init /\ [][Next]_vars

---------------------------------------------------------------------------
(* Properties. *)

Bound(n, most) == most > 0 => n <= most

\* Every variable has its type; the scheduler lock is held by a thread that
\* schedules, or for a widening, and a worker belongs to a lock
\* (acquire_resource_scheduler_lock, run_task).
TypeOK ==
    /\ loop \in [Supervisors ->
           [pc : {"loop", "recovering", "aborting", "over"},
            task : Tasks \cup {NoOne}, attempt : Nat,
            skipped : SUBSET Tasks, cooling : SUBSET Tasks,
            restarts : [Tasks -> Nat],
            results : Nat, recoveries : Nat, completed : Nat, stopping : BOOLEAN]]
    /\ \A s \in Supervisors : loop[s].attempt <= MaxRestarts[s]
    /\ slot \in [Supervisors -> [Tasks ->
           [pc : {"none", "queued", "scheduling", "locked", "running", "ended"},
            enforce : BOOLEAN, out : Outcomes \cup {"none", "refused"}]]]
    /\ flock \in [by : Supervisors \cup {NoOne}, task : Tasks \cup {NoOne}, cleared : BOOLEAN]
    /\ \A s \in Supervisors, t \in Tasks :
           slot[s][t].pc = "scheduling" <=> flock.by = s /\ flock.task = t
    /\ lock \in [Tasks -> Supervisors \cup {NoOne}]
    /\ claim = [t \in Tasks |-> claim[t]]
    /\ \A t \in Tasks : claim[t] \in {Domain[t], Wider[t]}
    /\ worker \subseteq {t \in Tasks : lock[t] # NoOne}
    /\ left \in [Tasks -> Nat]
    /\ selfRefused \in BOOLEAN

\* Whoever schedules, widens, dies or is passed by a stale selection, two runs
\* that may still make progress never have overlapping domains, if the domains
\* of one of them are known (acquire_scheduled_task_lock,
\* authorize_task_lock_scope_widening).
DomainsDisjoint ==
    \A t, u \in Tasks :
        t # u /\ Live(t) /\ Live(u) /\ (claim[t].known \/ claim[u].known)
        => ~Overlap(claim[t], claim[u])

\* However futures end and in whatever order, an invocation never completes
\* more than --max-tasks, nor makes more fresh runs than --max-slices; the
\* recoveries of unknown runs are not held to the latter (run_until_done_parallel).
LimitsKept ==
    \A s \in Supervisors :
        LET l == loop[s]
        IN  /\ Bound(l.completed, MaxTasks[s])
            /\ Bound(l.results - l.recoveries + Cardinality(InFlight(s) \ {l.task}), MaxSlices[s])

\* The tasks of one batch, and those added while others run, are chosen so that
\* the lock step never refuses one for another of the same invocation (filter_
\* scheduled_conflicts, deterministic_task_batch), unless a scope was widened
\* meanwhile. Two tasks without domains may yet refuse each other: whether domains
\* count is decided at each dispatch, and what declares some may be gone by the
\* next one.
NeverInItsOwnWay == ~selfRefused
=============================================================================
