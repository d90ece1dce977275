------------------------------ MODULE TaskLocks ------------------------------
(***************************************************************************)
(* The lock row of one task: LockManager over the directory backend        *)
(* (src/vibe_loop/locks.py), used by the supervisors of competing runs,    *)
(* by the `worker heartbeat`, `worker claim` and `worker candidate`        *)
(* commands of a run (helpers), and by stale-lock recovery (`workers       *)
(* clean` and the autopilot cycle, src/vibe_loop/workers.py).              *)
(*                                                                         *)
(* Every access to the row is split exactly where the code drops a lock:   *)
(* a read of the row, the settlement mutex section of LockManager.update,  *)
(* and the flock section of the backend's update, release and acquire are  *)
(* steps of their own.  A process may die between any two of them.         *)
(***************************************************************************)
EXTENDS Integers, FiniteSets

CONSTANTS
    Runs,             \* run ids; each is run by one supervisor process
    RuntimeOwned,     \* the runs whose lifecycle the runtime owns
    Helpers,          \* heartbeat / claim / candidate command processes
    Cleaners,         \* stale-lock recovery processes
    Mortal,           \* the processes that may die at any point
    NoOne,            \* "no run" and "no process"
    MaxToken,         \* bound: fencing tokens minted
    MaxScope,         \* bound: scope widenings of one run
    WriteErrors,      \* whether replacing lock.json may raise OSError
    TornTokenWrites   \* whether the write of the token counter may be cut short

Actors == Runs \cup Helpers \cup Cleaners

ASSUME ActorsAssumption ==
    /\ Runs \cap Helpers = {}
    /\ Runs \cap Cleaners = {}
    /\ Helpers \cap Cleaners = {}
    /\ NoOne \notin Actors
    /\ RuntimeOwned \subseteq Runs
    /\ Mortal \subseteq Actors

ASSUME BoundsAssumption ==
    /\ MaxToken \in Nat \ {0}
    /\ MaxScope \in Nat
    /\ WriteErrors \in BOOLEAN
    /\ TornTokenWrites \in BOOLEAN

TERMINAL_LOCK_OUTCOMES == {"completed", "failed"}
Outcomes == {"unknown"} \cup TERMINAL_LOCK_OUTCOMES

\* A run's durable RunResult; "none" until record_result has appended it.
Results == {"none"} \cup Outcomes

\* What read_metadata returns for lock.json. token 0 is "no fencing_token";
\* scope 0 is the declared scope, k > 0 the k-th widening published with
\* scope_fence_source = "current"; wpid says worker_pid is recorded.
Rows == [run : Runs \cup {NoOne}, token : 0..MaxToken, wpid : BOOLEAN,
         outcome : Outcomes, scope : 0..MaxScope]

EmptyRow == [run |-> NoOne, token |-> 0, wpid |-> FALSE,
             outcome |-> "unknown", scope |-> 0]

\* What a reader of the run store and the process table knows of a run.
Views == [pending : Results, result : Results, runtime : BOOLEAN]
NoView == [pending |-> "none", result |-> "none", runtime |-> FALSE]

SupervisorPCs ==
    {"idle",       \* not started
     "granted",    \* the backend granted the lock, witness not recorded
     "giveback",   \* witness write failed: releasing the lock again
     "givenback",  \* ... status read and validated
     "held",       \* lock held, worker not launched
     "pub",        \* inside update: publishing worker_pid
     "running",    \* worker published; worker or runtime stages execute
     "settling",   \* the run body is over: settle_outcome_and_release
     "set",        \* inside update: publishing the settled outcome
     "releasing",  \* release: before the status read
     "rel",        \* release: status read and validated
     "retained",   \* over; the lock was deliberately left held
     "done",       \* over; the lock is released (or was never kept)
     "dead"}       \* the supervisor process died

HelperPCs  == {"idle", "refresh", "ref", "widen", "wid"}
CleanerPCs == {"idle", "pending", "records", "stale", "republish", "rep",
               "releasing", "rel"}

VARIABLES
    dir,      \* the lock directory exists
    row,      \* the content of its lock.json (EmptyRow when there is none)
    counter,  \* .fencing-tokens/<task>.token
    acquired, \* .fencing-tokens/<task>.acquired, the local witness
    mutex,    \* holder of the settlement mutex of the task
    pc,       \* control point of every process
    handle,   \* the TaskLock (run id and token) a process works with
    md,       \* the metadata a process is about to write
    worker,   \* worker process of a run: "none", "alive", "gone"
    stage,    \* last journaled stage: "worker" or "runtime" (candidate, ...)
    result,   \* durable RunResult of a run
    view,     \* what a cleaner has read of the run it examines
    authorized, \* last scope widening authorized for a run
    misjudged \* history: runs recovery judged finished by their worker alone

vars == <<dir, row, counter, acquired, mutex, pc, handle, md, worker, stage,
          result, view, authorized, misjudged>>

lockVars == <<dir, row, counter, acquired>>
runVars  == <<worker, stage, result, authorized>>

Handles == [run : Runs \cup {NoOne}, token : 0..MaxToken]
NoHandle == [run |-> NoOne, token |-> 0]
HandleOf(m) == [run |-> m.run, token |-> m.token]

TypeOK ==
    /\ dir \in BOOLEAN
    /\ row \in Rows
    /\ counter \in 0..MaxToken
    /\ acquired \in 0..MaxToken
    /\ mutex \in Actors \cup {NoOne}
    /\ pc \in [Actors -> SupervisorPCs \cup HelperPCs \cup CleanerPCs]
    /\ \A r \in Runs : pc[r] \in SupervisorPCs
    /\ \A h \in Helpers : pc[h] \in HelperPCs
    /\ \A c \in Cleaners : pc[c] \in CleanerPCs
    /\ handle \in [Actors -> Handles]
    /\ md \in [Actors -> Rows]
    /\ worker \in [Runs -> {"none", "alive", "gone"}]
    /\ stage \in [Runs -> {"worker", "runtime"}]
    /\ result \in [Runs -> Results]
    /\ view \in [Actors -> Views]
    /\ authorized \in [Runs -> 0..MaxScope]
    /\ misjudged \in SUBSET Runs
    /\ \A c \in Cleaners : pc[c] # "idle" => handle[c].run \in Runs

Init ==
    /\ dir = FALSE
    /\ row = EmptyRow
    /\ counter = 0
    /\ acquired = 0
    /\ mutex = NoOne
    /\ pc = [a \in Actors |-> "idle"]
    /\ handle = [a \in Actors |-> NoHandle]
    /\ md = [a \in Actors |-> EmptyRow]
    /\ worker = [r \in Runs |-> "none"]
    /\ stage = [r \in Runs |-> "worker"]
    /\ result = [r \in Runs |-> "none"]
    /\ view = [a \in Actors |-> NoView]
    /\ authorized = [r \in Runs |-> 0]
    /\ misjudged = {}

-----------------------------------------------------------------------------
(* Validation and merging of metadata. *)

\* validate_lock_fencing_token: a row without a token validates against any.
TokenMatches(h, current) == current.token = 0 \/ current.token = h.token

\* validate_lock_fencing_token and validate_lock_run_id together.
OwnerMatches(h, current) == TokenMatches(h, current) /\ current.run = h.run

\* Mutant: a stale snapshot may reopen a settled row.
PreservedOutcome_Overwritten(m, current) == m.outcome

\* preserve_settled_lock_outcome
PreservedOutcome(m, current) ==
    IF current.outcome \in TERMINAL_LOCK_OUTCOMES
         /\ m.outcome \notin TERMINAL_LOCK_OUTCOMES
      THEN current.outcome ELSE m.outcome

\* The scope fence part of preserve_runtime_lock_fields: the row's scope is
\* kept only against metadata that does not claim a current scope itself.
PreservedScope(m, current) ==
    IF current.scope > 0 /\ m.scope = 0 THEN current.scope ELSE m.scope

\* preserve_runtime_lock_fields
Preserve(m, current) ==
    [run     |-> m.run,
     token   |-> IF m.token = 0 THEN current.token ELSE m.token,
     wpid    |-> m.wpid \/ current.wpid,
     outcome |-> PreservedOutcome(m, current),
     scope   |-> PreservedScope(m, current)]

-----------------------------------------------------------------------------
(* The two halves of LockManager.update and of LockManager.release, shared  *)
(* by every process.  A step takes the process from `from` to `to`, or to   *)
(* `fail` when the code raises.                                             *)

Goto(a, to) == pc' = [pc EXCEPT ![a] = to]

\* A command that is over ("idle") has no locals left.
Forget(a, to) ==
    /\ handle' = [handle EXCEPT ![a] = IF to = "idle" THEN NoHandle ELSE @]
    /\ view' = [view EXCEPT ![a] = IF to = "idle" THEN NoView ELSE @]

Finish(a, to) == Goto(a, to) /\ Forget(a, to)

\* Settlement mutex taken; current_lock, the two validations and the first
\* merge. An error drops the mutex again within the same step.
UpdateRead(a, m, to, fail) ==
    /\ mutex = NoOne
    /\ IF dir /\ OwnerMatches(handle[a], row)
         THEN /\ mutex' = a
              /\ md' = [md EXCEPT ![a] = Preserve(m, row)]
              /\ Finish(a, to)
         ELSE /\ md' = [md EXCEPT ![a] = EmptyRow]
              /\ Finish(a, fail)
              /\ UNCHANGED mutex
    /\ UNCHANGED lockVars

\* DirectoryLockBackend.update under the metadata flock: re-read, validate
\* the token, merge, replace lock.json.
WriteRow(a, to) ==
    /\ mutex = a
    /\ mutex' = NoOne
    /\ dir
    /\ TokenMatches(handle[a], row)
    /\ row' = Preserve(md[a], row)
    /\ md' = [md EXCEPT ![a] = EmptyRow]
    /\ Finish(a, to)
    /\ UNCHANGED <<dir, counter, acquired>>

\* It raises: the generation changed, the directory is gone, or the write of
\* lock.json failed. The mutex is dropped on the way out.
WriteRaises(a, fail) ==
    /\ mutex = a
    /\ mutex' = NoOne
    /\ WriteErrors \/ ~dir \/ ~TokenMatches(handle[a], row)
    /\ md' = [md EXCEPT ![a] = EmptyRow]
    /\ Finish(a, fail)
    /\ UNCHANGED lockVars

UpdateWrite(a, to, fail) == WriteRow(a, to) \/ WriteRaises(a, fail)

\* LockManager.release_with_timeout up to the backend call.
ReleaseRead(a, to, gone, fail) ==
    /\ \/ dir /\ OwnerMatches(handle[a], row) /\ Finish(a, to)
       \/ ~dir /\ Finish(a, gone)
       \/ dir /\ ~OwnerMatches(handle[a], row) /\ Finish(a, fail)
    /\ UNCHANGED <<lockVars, mutex, md>>

\* Mutant: release removes the directory without re-checking the token.
ReleaseRemove_Unfenced(a, to, fail) ==
    /\ dir' = FALSE
    /\ row' = EmptyRow
    /\ Finish(a, to)
    /\ UNCHANGED <<counter, acquired, mutex, md>>

\* DirectoryLockBackend.release under the metadata flock.
ReleaseRemove(a, to, fail) ==
    /\ IF TokenMatches(handle[a], row)
         THEN dir' = FALSE /\ row' = EmptyRow /\ Finish(a, to)
         ELSE Finish(a, fail) /\ UNCHANGED <<dir, row>>
    /\ UNCHANGED <<counter, acquired, mutex, md>>

-----------------------------------------------------------------------------
(* The supervisor of a run. *)

\* next_fencing_token: the counter file is rewritten in place, so a write cut
\* short leaves it empty, which the next mint reads as 0.
CounterAfterFailedWrite ==
    {counter} \cup (IF counter < MaxToken THEN {counter + 1} ELSE {})
              \cup (IF TornTokenWrites THEN {0} ELSE {})

\* Mutant: the advanced counter is not stored.
Acquire_CounterLost(r) ==
    /\ pc[r] = "idle"
    /\ ~dir
    /\ counter < MaxToken
    /\ dir' = TRUE
    /\ row' = [EmptyRow EXCEPT !.run = r, !.token = counter + 1]
    /\ handle' = [handle EXCEPT ![r] = [run |-> r, token |-> counter + 1]]
    /\ Goto(r, "granted")
    /\ UNCHANGED <<counter, acquired, mutex, md, runVars, view, misjudged>>

\* LockManager.acquire -> DirectoryLockBackend.acquire, granted. An existing
\* directory raises LockBusy, which changes nothing.
Acquire(r) ==
    /\ pc[r] = "idle"
    /\ ~dir
    /\ counter < MaxToken
    /\ dir' = TRUE
    /\ counter' = counter + 1
    /\ row' = [EmptyRow EXCEPT !.run = r, !.token = counter + 1]
    /\ handle' = [handle EXCEPT ![r] = [run |-> r, token |-> counter + 1]]
    /\ Goto(r, "granted")
    /\ UNCHANGED <<acquired, mutex, md, runVars, view, misjudged>>

\* Minting the token or writing lock.json raises OSError: the new directory
\* is removed again; the token may be burnt.
AcquireFails(r) ==
    /\ pc[r] = "idle"
    /\ ~dir
    /\ counter' \in CounterAfterFailedWrite
    /\ Goto(r, "done")
    /\ UNCHANGED <<dir, row, acquired, mutex, handle, md, runVars, view, misjudged>>

\* The process dies between path.mkdir and the replace of lock.json.
AcquireTorn(r) ==
    /\ r \in Mortal
    /\ pc[r] = "idle"
    /\ ~dir
    /\ dir' = TRUE
    /\ counter' \in CounterAfterFailedWrite
    /\ Goto(r, "dead")
    /\ UNCHANGED <<row, acquired, mutex, handle, md, runVars, view, misjudged>>

\* record_acquired_fencing_token
RecordWitness(r) ==
    /\ pc[r] = "granted"
    /\ acquired' = handle[r].token
    /\ Goto(r, "held")
    /\ UNCHANGED <<dir, row, counter, mutex, handle, md, runVars, view, misjudged>>

\* The witness cannot be written: acquire gives the lock back and raises.
WitnessFails(r) ==
    /\ pc[r] = "granted"
    /\ Goto(r, "giveback")
    /\ UNCHANGED <<lockVars, mutex, handle, md, runVars, view, misjudged>>

GiveBackRead(r) ==
    /\ pc[r] = "giveback"
    /\ ReleaseRead(r, "givenback", "done", "retained")
    /\ UNCHANGED <<runVars, misjudged>>

GiveBackRemove(r) ==
    /\ pc[r] = "givenback"
    /\ ReleaseRemove(r, "done", "retained")
    /\ UNCHANGED <<runVars, misjudged>>

\* The metadata the supervisor writes: ActiveRunState.to_lock_metadata carries
\* no scope fence source, hence scope 0.
SupervisorMetadata(r, o) ==
    [run |-> r, token |-> handle[r].token, wpid |-> worker[r] # "none",
     outcome |-> o, scope |-> 0]

\* The worker process is started behind its launch barrier; record_worker_pid
\* publishes worker_pid on the row before the barrier opens. When the update
\* raises, the worker is torn down and the run body ends.
LaunchWorker(r) ==
    /\ pc[r] = "held"
    /\ UpdateRead(r, [SupervisorMetadata(r, "unknown") EXCEPT !.wpid = TRUE],
                  "pub", "settling")
    /\ UNCHANGED <<runVars, misjudged>>

PublishWorker(r) ==
    /\ pc[r] = "pub"
    /\ \/ WriteRow(r, "running") /\ worker' = [worker EXCEPT ![r] = "alive"]
       \/ WriteRaises(r, "settling") /\ UNCHANGED worker
    /\ UNCHANGED <<stage, result, authorized, misjudged>>

\* The worker exits by itself or is killed; it may outlive its supervisor.
WorkerExits(r) ==
    /\ worker[r] = "alive"
    /\ worker' = [worker EXCEPT ![r] = "gone"]
    /\ UNCHANGED <<lockVars, mutex, pc, handle, md, stage, result, authorized,
                   view, misjudged>>

\* The supervisor has reaped the worker and journals the first stage it owns
\* itself: candidate, or classification when there is nothing to collect.
EnterRuntimeStages(r) ==
    /\ pc[r] = "running"
    /\ worker[r] = "gone"
    /\ stage[r] = "worker"
    /\ stage' = [stage EXCEPT ![r] = "runtime"]
    /\ UNCHANGED <<lockVars, mutex, pc, handle, md, worker, result, authorized,
                   view, misjudged>>

\* record_result appends the durable RunResult.
RecordResult(r, o) ==
    /\ pc[r] = "running"
    /\ stage[r] = "runtime"
    /\ result' = [result EXCEPT ![r] = o]
    /\ Goto(r, "settling")
    /\ UNCHANGED <<lockVars, mutex, handle, md, worker, stage, authorized,
                   view, misjudged>>

\* The run body raises before a result is durable; the handler journals the
\* failure, which moves the run to the classification stage.
RunBodyRaises(r) ==
    /\ pc[r] \in {"held", "running"}
    /\ worker[r] # "alive"
    /\ stage' = [stage EXCEPT ![r] = "runtime"]
    /\ Goto(r, "settling")
    /\ UNCHANGED <<lockVars, mutex, handle, md, worker, result, authorized,
                   view, misjudged>>

SettledOutcome(r) == IF result[r] = "none" THEN "unknown" ELSE result[r]

\* settle_outcome_and_release, first guards: a runtime-owned run keeps its
\* lock for recovery when no result is durable, and may keep it when one is,
\* because the task source has not confirmed its end.
RetainLock(r) ==
    /\ pc[r] = "settling"
    /\ r \in RuntimeOwned
    /\ Goto(r, "retained")
    /\ UNCHANGED <<lockVars, mutex, handle, md, runVars, view, misjudged>>

\* Mutant: the update is no gate, the release follows in any case.
AfterFailedSettle_NoGate(r) == "releasing"

\* The outcome update. For a terminal outcome it is a gate (release_settled):
\* when it fails the lock is retained. For an unknown outcome the release is
\* attempted all the same.
AfterFailedSettle(r) ==
    IF SettledOutcome(r) \in TERMINAL_LOCK_OUTCOMES THEN "retained" ELSE "releasing"

SettleRead(r) ==
    /\ pc[r] = "settling"
    /\ r \in RuntimeOwned => result[r] # "none"
    /\ UpdateRead(r, SupervisorMetadata(r, SettledOutcome(r)),
                  "set", AfterFailedSettle(r))
    /\ UNCHANGED <<runVars, misjudged>>

SettleWrite(r) ==
    /\ pc[r] = "set"
    /\ UpdateWrite(r, "releasing", AfterFailedSettle(r))
    /\ UNCHANGED <<runVars, misjudged>>

ReleaseStatus(r) ==
    /\ pc[r] = "releasing"
    /\ ReleaseRead(r, "rel", "done", "retained")
    /\ UNCHANGED <<runVars, misjudged>>

Release(r) ==
    /\ pc[r] = "rel"
    /\ ReleaseRemove(r, "done", "retained")
    /\ UNCHANGED <<runVars, misjudged>>

-----------------------------------------------------------------------------
(* Helper commands of a run. *)

\* `worker heartbeat` (validate_owner) and `worker claim`
\* (active_task_lock_for_claim): the row is read outside the settlement mutex
\* and will be written back, refreshed, as the new metadata.
RefreshSnapshot(h, r) ==
    /\ pc[h] = "idle"
    /\ dir
    /\ row.run = r
    /\ handle' = [handle EXCEPT ![h] = HandleOf(row)]
    /\ md' = [md EXCEPT ![h] = row]
    /\ Goto(h, "refresh")
    /\ UNCHANGED <<lockVars, mutex, runVars, view, misjudged>>

RefreshRead(h) ==
    /\ pc[h] = "refresh"
    /\ UpdateRead(h, md[h], "ref", "idle")
    /\ UNCHANGED <<runVars, misjudged>>

RefreshWrite(h) ==
    /\ pc[h] = "ref"
    /\ UpdateWrite(h, "idle", "idle")
    /\ UNCHANGED <<runVars, misjudged>>

\* authorize_task_lock_scope_widening, under the resource scheduler lock (one
\* widening at a time): the owner is validated, the wider scope is published,
\* and only a successful update authorizes it.
WidenSnapshot(h, r) ==
    /\ pc[h] = "idle"
    /\ \A g \in Helpers : pc[g] \notin {"widen", "wid"}
    /\ pc[r] = "running"
    /\ dir
    /\ OwnerMatches(handle[r], row)
    /\ authorized[r] < MaxScope
    /\ handle' = [handle EXCEPT ![h] = HandleOf(row)]
    /\ md' = [md EXCEPT ![h] = [row EXCEPT !.scope = authorized[r] + 1]]
    /\ Goto(h, "widen")
    /\ UNCHANGED <<lockVars, mutex, runVars, view, misjudged>>

WidenRead(h) ==
    /\ pc[h] = "widen"
    /\ UpdateRead(h, md[h], "wid", "idle")
    /\ UNCHANGED <<runVars, misjudged>>

WidenWrite(h) ==
    /\ pc[h] = "wid"
    /\ \/ /\ WriteRow(h, "idle")
          /\ authorized' = [authorized EXCEPT ![handle[h].run] = md[h].scope]
       \/ WriteRaises(h, "idle") /\ UNCHANGED authorized
    /\ UNCHANGED <<worker, stage, result, misjudged>>

-----------------------------------------------------------------------------
(* Stale-lock recovery. *)

\* collect_stale_locks reads the run store for the pending settlement (a run
\* that has not started has neither records nor a lock) ...
CollectPending(c, r) ==
    /\ pc[c] = "idle"
    /\ pc[r] # "idle"
    /\ handle' = [handle EXCEPT ![c] = [run |-> r, token |-> 0]]
    /\ view' = [view EXCEPT ![c] = [NoView EXCEPT !.pending = result[r]]]
    /\ Goto(c, "pending")
    /\ UNCHANGED <<lockVars, mutex, md, runVars, misjudged>>

\* ... and build_worker_views reads it again for the result and the stage.
CollectRecords(c) ==
    LET r == handle[c].run IN
    /\ pc[c] = "pending"
    /\ view' = [view EXCEPT ![c].result = result[r],
                            ![c].runtime = stage[r] = "runtime"]
    /\ Goto(c, "records")
    /\ UNCHANGED <<lockVars, mutex, handle, md, runVars, misjudged>>

SupervisorGone(r) == pc[r] \in {"retained", "done", "dead"}

\* Mutant: only a published worker can be judged missing.
ProcessMissing_WorkerOnly(r, current) == current.wpid /\ worker[r] # "alive"

\* classify_process: before worker_pid is published the supervisor decides,
\* afterwards the worker alone does.
ProcessMissing(r, current) ==
    IF current.wpid THEN worker[r] # "alive" ELSE SupervisorGone(r)

\* classify_run and StaleLock.run_proven_finished.
RunProvenFinished(c, r, current) ==
    \/ view[c].result # "none"
    \/ IF view[c].runtime THEN SupervisorGone(r) ELSE ProcessMissing(r, current)

\* The verdict rests on the worker alone: no result and no stage of the
\* supervisor's own were journaled when the run store was read.
MissingWorkerVerdict(c, r, current) ==
    /\ view[c].result = "none"
    /\ ~view[c].runtime
    /\ current.wpid
    /\ worker[r] # "alive"

\* The lock listing and the process probes of build_worker_views, and the
\* refusal of clean_stale_locks to touch a lock whose run is not proven over;
\* a directory without a row names no run, so it is always refused.
CollectLock(c) ==
    LET r == handle[c].run
        stale == dir /\ row.run = r /\ RunProvenFinished(c, r, row) IN
    /\ pc[c] = "records"
    /\ Finish(c, IF stale THEN "stale" ELSE "idle")
    /\ misjudged' = IF stale /\ MissingWorkerVerdict(c, r, row)
                      THEN misjudged \cup {r} ELSE misjudged
    /\ UNCHANGED <<lockVars, mutex, md, runVars>>

\* No settlement is latched, its source is confirmed settled, or --force: then
\* release_stale_lock: status, comparison with the collected run id, and the
\* choice whether the settled outcome must be republished first.
StaleStatus(c) ==
    LET r == handle[c].run
        pending == view[c].pending IN
    /\ pc[c] = "stale"
    /\ IF dir /\ row.run = r
         THEN /\ handle' = [handle EXCEPT ![c] = HandleOf(row)]
              /\ IF pending \in TERMINAL_LOCK_OUTCOMES /\ row.outcome # pending
                   THEN /\ md' = [md EXCEPT ![c] = [row EXCEPT !.outcome = pending]]
                        /\ Goto(c, "republish")
                   ELSE Goto(c, "releasing") /\ UNCHANGED md
              /\ UNCHANGED view
         ELSE Finish(c, "idle") /\ UNCHANGED md
    /\ UNCHANGED <<lockVars, mutex, runVars, misjudged>>

\* clean_stale_locks: the settlement of a runtime-owned run is latched, the
\* source does not confirm it, fenced recovery could not settle it, and the
\* operator did not say --force.
RefuseLatched(c) ==
    /\ pc[c] = "stale"
    /\ handle[c].run \in RuntimeOwned
    /\ Finish(c, "idle")
    /\ UNCHANGED <<lockVars, mutex, md, runVars, misjudged>>

\* recover_and_release: ownership is claimed with the witness recorded here,
\* the source is settled under the lock, and the durable result is published
\* as a gate before the release, as a settling supervisor does.
FencedRecovery(c) ==
    LET r == handle[c].run
        claim == [run |-> r, token |-> acquired] IN
    /\ pc[c] = "stale"
    /\ r \in RuntimeOwned
    /\ result[r] # "none"
    /\ acquired # 0
    /\ dir
    /\ OwnerMatches(claim, row)
    /\ handle' = [handle EXCEPT ![c] = claim]
    /\ md' = [md EXCEPT ![c] = [row EXCEPT !.token = acquired,
                                          !.outcome = result[r]]]
    /\ Goto(c, "republish")
    /\ UNCHANGED <<lockVars, mutex, runVars, view, misjudged>>

\* _republish_settled_outcome: a failed update refuses the release. The gate
\* of a fenced recovery is the same update.
RepublishRead(c) ==
    /\ pc[c] = "republish"
    /\ UpdateRead(c, md[c], "rep", "idle")
    /\ UNCHANGED <<runVars, misjudged>>

RepublishWrite(c) ==
    /\ pc[c] = "rep"
    /\ UpdateWrite(c, "releasing", "idle")
    /\ UNCHANGED <<runVars, misjudged>>

StaleReleaseStatus(c) ==
    /\ pc[c] = "releasing"
    /\ ReleaseRead(c, "rel", "idle", "idle")
    /\ UNCHANGED <<runVars, misjudged>>

StaleRelease(c) ==
    /\ pc[c] = "rel"
    /\ ReleaseRemove(c, "idle", "idle")
    /\ UNCHANGED <<runVars, misjudged>>

-----------------------------------------------------------------------------
(* Process death. flock drops with the process, so a dead holder frees the  *)
(* settlement mutex.                                                        *)

\* Mutant: the mutex outlives its holder.
FreedMutex_Kept(a) == mutex

FreedMutex(a) == IF mutex = a THEN NoOne ELSE mutex

SupervisorDies(r) ==
    /\ r \in Mortal
    /\ ~SupervisorGone(r)
    /\ pc[r] # "idle"
    /\ mutex' = FreedMutex(r)
    /\ md' = [md EXCEPT ![r] = EmptyRow]
    /\ Goto(r, "dead")
    /\ UNCHANGED <<lockVars, handle, runVars, view, misjudged>>

CommandDies(a) ==
    /\ a \in Mortal
    /\ pc[a] # "idle"
    /\ mutex' = FreedMutex(a)
    /\ md' = [md EXCEPT ![a] = EmptyRow]
    /\ Finish(a, "idle")
    /\ UNCHANGED <<lockVars, runVars, misjudged>>

\* Death inside shutil.rmtree: lock.json is gone, the directory is not.
DiesInRemove(a) ==
    /\ a \in Mortal
    /\ pc[a] \in {"rel", "givenback"}
    /\ dir
    /\ TokenMatches(handle[a], row)
    /\ row' = EmptyRow
    /\ Finish(a, IF a \in Runs THEN "dead" ELSE "idle")
    /\ UNCHANGED <<dir, counter, acquired, mutex, md, runVars, misjudged>>

-----------------------------------------------------------------------------
AcquireStep(r) == Acquire(r) \/ AcquireFails(r) \/ AcquireTorn(r)

\* The steps a supervisor that holds the lock takes by itself.
SupervisorStep(r) ==
    \/ RecordWitness(r) \/ WitnessFails(r) \/ GiveBackRead(r) \/ GiveBackRemove(r)
    \/ LaunchWorker(r) \/ PublishWorker(r)
    \/ EnterRuntimeStages(r) \/ (\E o \in Outcomes : RecordResult(r, o))
    \/ RunBodyRaises(r) \/ RetainLock(r)
    \/ SettleRead(r) \/ SettleWrite(r) \/ ReleaseStatus(r) \/ Release(r)

HelperStart(h) == \E r \in Runs : RefreshSnapshot(h, r) \/ WidenSnapshot(h, r)

HelperStep(h) == RefreshRead(h) \/ RefreshWrite(h) \/ WidenRead(h) \/ WidenWrite(h)

CleanerStart(c) == \E r \in Runs : CollectPending(c, r)

CleanerStep(c) ==
    \/ CollectRecords(c) \/ CollectLock(c)
    \/ StaleStatus(c) \/ RefuseLatched(c) \/ FencedRecovery(c)
    \/ RepublishRead(c) \/ RepublishWrite(c)
    \/ StaleReleaseStatus(c) \/ StaleRelease(c)

Death ==
    \/ \E r \in Runs : SupervisorDies(r)
    \/ \E a \in Helpers \cup Cleaners : CommandDies(a)
    \/ \E a \in Actors : DiesInRemove(a)

Next ==
    \/ \E r \in Runs : AcquireStep(r) \/ SupervisorStep(r) \/ WorkerExits(r)
    \/ \E h \in Helpers : HelperStart(h) \/ HelperStep(h)
    \/ \E c \in Cleaners : CleanerStart(c) \/ CleanerStep(c)
    \/ Death

Spec == Init /\ [][Next]_vars

\* Fairness: every process that is at work keeps being scheduled, and a
\* waiter of the settlement mutex is served eventually (flock queues its
\* waiters). Stale-lock recovery is invoked again and again and examines
\* every lock each time: the autopilot cycle takes the locks of runs proven
\* finished by a missing process or with a settlement pending, and an
\* operator's `workers clean` takes the rest. A latched settlement is not
\* refused for ever: its source is settled in the end, or the operator says
\* --force.
Fairness ==
    /\ \A r \in Runs : SF_vars(SupervisorStep(r)) /\ WF_vars(WorkerExits(r))
    /\ \A h \in Helpers : SF_vars(HelperStep(h))
    /\ \A c \in Cleaners : /\ SF_vars(CleanerStep(c)) /\ SF_vars(StaleStatus(c))
                           /\ \A r \in Runs : SF_vars(CollectPending(c, r))

FairSpec == Spec /\ Fairness

-----------------------------------------------------------------------------
(* Properties *)

\* The run's supervisor believes that it owns the task.
AtWork(r) == pc[r] \in {"granted", "held", "pub", "running"}

\* No one takes the lock away from a run at work: as long as its supervisor
\* executes the run, the row on disk is the generation it acquired, whatever
\* heartbeats, claims, other runs and recovery do in between. The one
\* exception the code has is recovery judging the run by its exited worker
\* alone (misjudged); see OneRunAtWork.
LockHeldAtWork ==
    \A r \in Runs \ misjudged :
        AtWork(r) => dir /\ row.run = r /\ row.token = handle[r].token

\* No two runs are ever handed the same fencing token (next_fencing_token).
FencingTokensUnique ==
    \A r, s \in Runs :
        r # s /\ handle[r].token # 0 => handle[r].token # handle[s].token

\* Whoever removes a row whose terminal outcome it knows has that outcome on
\* the row first: a settling supervisor (release_settled) knows the durable
\* result, recovery (_republish_settled_outcome) the pending settlement it
\* read. A removal by another process in between makes the row theirs no more.
ReleasedRowCarriesOutcome ==
    /\ \A r \in Runs :
          pc[r] = "rel" /\ result[r] \in TERMINAL_LOCK_OUTCOMES
            /\ row.run = r
          => row.outcome = result[r]
    /\ \A c \in Cleaners :
          pc[c] = "rel" /\ view[c].pending \in TERMINAL_LOCK_OUTCOMES
            /\ row.run = handle[c].run
          => row.outcome = view[c].pending

\* What was published on the row is not lost while the row lives, whoever writes
\* from an older snapshot and whoever removes it: a widening that was authorized
\* does not revert to the declared scope (preserve_runtime_lock_fields), a
\* terminal outcome is final for its generation (preserve_settled_lock_outcome),
\* and a row is removed with the outcome that is known of its run.
PublishedIsKept ==
    /\ [](\A r \in Runs : row.run = r /\ authorized[r] > 0 => row.scope > 0)
    /\ []ReleasedRowCarriesOutcome
    /\ [][row.token # 0 /\ row'.token = row.token
             /\ row.outcome \in TERMINAL_LOCK_OUTCOMES
           => row'.outcome = row.outcome]_vars

\* Every command and every settlement ends: nobody waits for ever on the
\* settlement mutex or on a row that changes under its feet.
OperationsEnd ==
    /\ \A a \in Helpers \cup Cleaners : pc[a] # "idle" ~> pc[a] = "idle"
    /\ \A r \in Runs : pc[r] = "settling" ~> SupervisorGone(r)

\* A directory that names no run: its process died after mkdir and before
\* lock.json, or inside the removal.
Ownerless == dir /\ row.run = NoOne

\* The lock of a run that is over and whose worker is gone does not stay
\* behind: the task becomes free, or another run takes it, and the outcome that
\* recovery knows is on the row before (clean_stale_locks,
\* _republish_settled_outcome). Behaviours in which a death leaves an ownerless
\* directory are excluded: recovery refuses it, and the task stays blocked.
AbandonedLockRecovered ==
    /\ []ReleasedRowCarriesOutcome
    /\ []~Ownerless =>
         \A r \in Runs :
             (row.run = r /\ SupervisorGone(r) /\ worker[r] # "alive")
               ~> (~dir \/ row.run \in Runs \ {r})

-----------------------------------------------------------------------------
(* The inductive invariant behind LockHeldAtWork and FencingTokensUnique    *)
(* (without torn token writes).                                             *)

\* The supervisor has left the run body for good.
Over(r) == pc[r] \notin {"idle", "granted", "held", "pub", "running"}

\* A row is empty, or carries the run and token of a generation.
RowInv ==
    /\ ~dir => row = EmptyRow
    /\ row.run = NoOne => row.token = 0
    /\ row.run # NoOne => row.token # 0 /\ row.token = handle[row.run].token

\* Each run acquires at most once, keeps the handle of its generation, and
\* has no result before it is over.
RunInv(r) ==
    /\ pc[r] = "idle" => handle[r] = NoHandle
    /\ handle[r].token # 0 => handle[r].run = r
    /\ handle[r].token <= counter
    /\ pc[r] \notin {"idle", "done", "dead"} => handle[r].token # 0
    /\ result[r] # "none" => Over(r)

\* A command holds the token of the run it names, and no other.
CommandInv(a) ==
    handle[a].token # 0 =>
        /\ handle[a].run \in Runs
        /\ handle[a].token = handle[handle[a].run].token

HelperInv(h) == pc[h] # "idle" => handle[h].token # 0

\* A recovery verdict is final: the run it names is over, or was misjudged.
CleanerInv(c) ==
    /\ pc[c] \in {"republish", "rep", "releasing", "rel"} => handle[c].token # 0
    /\ pc[c] # "idle" /\ view[c].result # "none" => result[handle[c].run] # "none"
    /\ pc[c] \in {"stale", "republish", "rep", "releasing", "rel"} =>
         Over(handle[c].run) \/ handle[c].run \in misjudged

\* Metadata about to be written names the generation it was read from.
Writing == {"pub", "set", "refresh", "ref", "widen", "wid", "republish", "rep"}
WriterInv(a) == pc[a] \in Writing => HandleOf(md[a]) = handle[a]

LockInv ==
    /\ TypeOK
    /\ RowInv
    /\ FencingTokensUnique
    /\ \A r \in Runs : RunInv(r)
    /\ \A a \in Helpers \cup Cleaners : CommandInv(a)
    /\ \A h \in Helpers : HelperInv(h)
    /\ \A c \in Cleaners : CleanerInv(c)
    /\ \A a \in Actors : WriterInv(a)
    /\ LockHeldAtWork

=============================================================================
