# Formal models of vibe-loop

`vibe-loop` runs coding agents on the tasks of a repository: it picks a runnable
task, locks it, provisions a Git worktree, launches an agent as a worker process,
collects a candidate commit, gates and reviews it, merges it into main, writes the
outcome back to the task source and records everything in an append-only journal.
Several supervisors (`run-next`, `run-until-done --workers N`, the autopilot) and
one-shot commands (`worker heartbeat`, `workers clean`, ...) work on the same
files at the same time, and each of them can die at any point. This directory
holds TLA+ models of that program, the TLC configurations that check them and
TLAPS proofs about them.

Paths below are relative to `src/vibe_loop/` unless they say otherwise.

## 1. The system and its parts

| Part | Code | State | Operations | What is hard about it | What makes it correct |
|---|---|---|---|---|---|
| Task locks | `locks.py`, `workers.py` | lock directory, `lock.json`, token counter, acquired witness, settlement mutex | acquire, update, heartbeat, claim, scope widening, settled release, stale release | every access is a read and a later write; processes die in between; several writers merge metadata | one run at work per task; tokens unique; a terminal outcome and a wider scope are never lost |
| Usage budget | `budget.py`, callers in `runner.py`, `orchestration.py` | append-only ledger, checkpoint file, generation | reserve, reconcile, release, recover abandoned, compact | concurrent admission, torn rows, crash between two file replaces, PID reuse | caps are respected at admission; each reservation is charged exactly once; compaction loses no spend |
| Attempt circuit and review budget | `runs.py` `RunStore` | journal rows | reserve attempt, record outcome, reset, claim review attempt | two supervisors at the last permitted launch; result and opening are separate appends | at most the permitted launches; the opening is recorded; avoidance is recorded |
| Run journal | `runs.py` | `runs.jsonl`, append lock | append, read, derive views | unlocked readers, torn last row | each reader sees a prefix; derived state is a function of the journal |
| Run lifecycle | `runner.py` `run_task`, `execute_runtime_owned_lifecycle` | stage, classification, journal | preflight, activation, worker, candidate, gates, review, integration, finalization | an exception or a kill between any two steps | legal stage order; one terminal result; nothing integrated that was not gated and approved |
| Stage machine | `orchestration.py` 210-640 | current stage, ordinals | transition, fail, resume | restarts derive it from the journal | no illegal transition is attempted |
| Candidate collection and re-anchoring | `orchestration.py` 892-1505 | recorded candidate, base anchor | collect, match, re-anchor | main moves, crash between rebase and record | what is gated, reviewed and merged is one commit |
| Gates | `orchestration.py` 3880-4377 | gate records, remediation rounds | run, control run, classify, remediate | candidate changed by a gate; environment failures | bounded remediation, prior results are reused only for the same candidate |
| Review router | `orchestration.py` 2395-3800, 8600ff | review records, findings | initial pass, closure pass, verdict | reviewer death, transient retries, budget | approval names the candidate that is merged |
| Integration | `orchestration.py` 4610-5830, `locks.py` main lock | main branch, main-integration lock, integration records | merge, verify, record, reconcile | main moves, crash between merge and record | merged once, recorded once |
| Task settlement | `runner.py` 2458-4187, 6064-6665, `workers.py` 2344-2745 | external task status, provenance and settlement records | activate, complete, settle, requeue, recover | two-phase release around an external system that may fail | completed means integrated and settled; no task stays claimed without an owner |
| Scheduler | `runner.py` 889-950, 4188-4223, 5235-5883, 8037-8290 | resource scheduler lock, conflict domains | select, acquire scheduled lock, batch | stale selection, several supervisors | no two active runs with overlapping resources |
| Workspaces | `orchestration.py` 7329-8370, `workers.py` 740-1010 and 2770-3401, `autopilot.py` 6565-6695 | branch, worktree, claim records | create, attach, adopt, refresh, claim, compensate, capture, dispose | partial creation, strays that write at any time, checks that are old when used | no work is lost; what is claimed is what was checked; only what is over is removed |
| Worker containment | `worker_guard.py`, `processes.py`, `runner.py` 9266-10118 | process tree, gate pipe | launch barrier, watchdog, teardown | PID reuse, orphans, death between fork and publish | no worker code runs before its identity is published; nothing of it survives teardown |
| Recovery of unknown runs | `runner.py` 5298-6320, `runs.py` 2348ff | recovery intents | capture, defer, launch, cancel, charge | crash between intent and launch | each unknown run is recovered at most its budget and never forgotten |
| Autopilot | `autopilot.py` | cycle records, supervisor lock, reload requests, child | cycle, launch child, stop, reload, drain, wait | stop races start; stale child identity | one supervisor; stop reports what really stopped |
| Retry and provider limits | `retry.py` | none | bounded retry, wall detection, reset parsing | collision of wall and throttling wording | retries bounded; a wall is reported once |
| Upstream sync | `upstream.py` | none (Git refs) | check | fetch races push | completed only when main equals upstream |
| Task sources | `tasks.py`, `generated_*.py` | external | list, probe, adapters | external commands | - |
| Telemetry and activity | `telemetry.py`, `activity.py`, `runtime_events.py` | usage counters | stream parsing | - | - |
| Configuration, CLI, skills, evaluation | `config.py`, `cli.py`, `skill*.py`, `eval*.py`, ... | none of their own | parsing, reporting, offline grading | - | - |

### How the parts interact

- **Calls.** `run_task` (runner.py) drives one run: it asks the task locks for a
  lock, the budget for an allowance, the task source for the activation, and hands
  the candidate to the collector, the gate controller, the review router, the
  integrator and the completer, in this order. The scheduler starts it, the
  autopilot starts the scheduler as a child process.
- **Shared files.** Supervisors, worker commands and cleanup share the lock rows,
  the budget ledger and `runs.jsonl`. Each access is guarded by an OS lock, but a
  read and the write that depends on it are two accesses: the hazards of the lock
  and ledger modules are what may happen in between.
- **Shared repository.** A run shares its worktree with its worker and with
  whatever the worker left behind, and the main branch with other runs and people.
- **External systems.** The task source is reached through commands that may fail
  before or after they took effect; the provider reports usage as it likes; a
  reviewer answers as it likes.
- **Records.** What a process must know of another after it died, it reads from the
  journal: a settlement pending, a durable result, the last stage. Recovery is a
  second actor that decides on those records.

`PROJECT.json` lists the hazards at their lines with the properties that cover them.

## 2. The plan

The order puts first what every run rests on (exclusion, accounting, and what a run
promises about its task), then the run itself, then what goes on around it.

| Step | Module | Composes or refines | State |
|---|---|---|---|
| 1 | `TaskLocks` | | done, proved |
| 2 | `BudgetLedger` | | done, proved |
| 3 | `TaskSettlement` | uses the lock as an abstract one | done, proved |
| 4 | `RunStages`, `ReviewedMerge`, `CandidateLifecycle` | `CandidateLifecycle` instantiates `RunStages` and implements `ReviewedMerge` | done, proved |
| 5 | `MainIntegration`: main-integration lock, preflight, merge, conflict, checks, restore, push, fence | takes the merge step of `CandidateLifecycle` apart | done, proved |
| 6 | `RunAttempts`: the attempt circuit and the recovery intents of one task, and the loop that dispatches by them | joins `TaskSettlement` at the continuation | done, proved |
| 7 | `AutopilotStop`: the singleton lock, start, stop and stale recovery, the launch gate of a worker | | done, proved |
| 8 | `ResourceScheduler`: batches, conflict domains, the scheduler lock, limits | uses the abstract lock | done, proved |
| 9 | `Workspaces`: provisioning, claim, compensation and disposition of worktrees | uses the abstract lock; its integration step is `MainIntegration` | done, proved |
| 10 | the waits, planning and reload of an autopilot cycle | joins `AutopilotStop` | next |
| 11 | the teardown of a worker tree after its report; retry and reset-time arithmetic of `retry.py` as operators | | planned |

Abstract specifications worth stating: `ReviewedMerge` (done); an owner lock that
`TaskLocks` implements and the other modules rely on; for the integration, a main
branch that only moves to verified commits. The theorems are in section 6; of the
properties the runs check, only liveness is left to TLC.

## 3. Modules and code

Every definition that stands for code has its lines in the `map` of `PROJECT.json`.
Each of the MC modules only gives constants their values.

### TaskLocks

One task's lock row. The state is the files (`dir`, `row`, `counter`, `acquired`,
`mutex`) and the control points, handles and snapshots of the processes that work on
them: the supervisors of competing runs, the `worker heartbeat`, `worker claim` and
`worker candidate` commands of a run (helpers), and stale-lock recovery (cleaners). A
step ends wherever the code drops a lock, so `LockManager.update` is three steps: the
read that the caller made, the read in the settlement mutex, and the replace under the
backend's lock. `Death` is a process that disappears between two steps or inside a
removal. A scope is the number of widenings published. A cleaner refuses the lock of a
runtime-owned run whose settlement is latched and not confirmed (`RefuseLatched`),
unless it can settle the task itself under the lock, claimed anew (`FencedRecovery`), or
an operator says `--force`; it refuses a directory without a row in any case. A fenced
recovery that fails ends the cleaner's look.

### BudgetLedger

The rows of the ledger (`reservedAt`, `terminal`, `torn`), the header's generation
and the checkpoint. `Reserve`, `Settle`, `Recover` and `Compact` are one step each,
because they run under the append lock; what they use that was read before it (the
clock, a provider's figures, the results recovery looks up) is read in a step
of its own. Timestamps are small numbers, and windows look back over them.

### TaskSettlement

One task, its status in the source, and the runs and cleaners that claim it and give it
back: `run_task` from the lock to the release, `TaskSourceCompleter`,
`TaskSourceSettler` before and after the release, `clean_stale_locks` with and without
`--force`. An adapter that fails has or has not had its effect. The lock is the abstract
one (a holder, and owner checks where the code has them): `TaskLocks` has its protocol.
The worker of a run is a process of its own, because a cleaner judges a run by it until
a runtime stage is journaled: a live run that is judged so is in `misjudged`, at most
`MaxMisjudged` of them. `Refused` are the runs and cleaners whose adapter calls and
probes may fail. The model is of the runtime-owned lifecycle with activate, probe,
complete and reset configured, `park` by choice; an adapter compares the status it finds
with `ready`. Reviews carried over to a continuation are left out.

### RunStages

`LEGAL_STAGE_TRANSITIONS` and `RunLifecycleStateMachine`: the current stage, how
often each was entered, transitions and failures.

### CandidateLifecycle

`run_task` and `execute_runtime_owned_lifecycle` from the contract to the recorded
result, with `at` for the place the supervisor has reached. The stage machine is
`SM == INSTANCE RunStages` on the same variables; a transition it refuses is
recorded in `refused` (the code raises `IllegalStageTransitionError`).

A commit is a `Head`: the work it holds and the state of main it is built on. The
worktree has a head and may be dirty; `Edit` is the worker at work, or somebody who
changes it when nobody should (bounded by `MaxStrays`); `MainAdvances` is everyone
else. The candidate's fingerprint (commit, base, patch) is its head. Every step that
looks at the worktree looks at it in its own step, after the step that collected the
candidate: collection, re-anchoring, before and after a gate, before the merge.

The actions are grouped as the code is: `Collect` .. `EnterGates`
(`CandidateCollector`, `CandidateBaseReanchorer.stabilize`), `GateReused` ..
`GatesPassed` (`RuntimeGateController`, `GateRunner.run`), `RemediationExhausted` ..
`Derive`, `BeginReview` .. `Object` (`ReviewRouter`, the claim of an attempt, the
three kinds of retry), `IntegrationFails` .. `ProvenanceFails`, and the end
(`Classify` .. `Raises`): exceptions that `run_task` maps, ones it does not, and
interrupts.

What is smaller than the code: the merge is one step, and after a conflict what reaches
main is a merge commit the worker wrote, not the head that was reviewed (`integrated`
names the candidate in it; the checks that follow are in `MainIntegration`); the scope
check may refuse any candidate; a finding is a model value and a closure answers all
open ones, as the parser demands; a claim that is still pending and a run that restarts
under its own id do not occur, since every attempt of the code ends in the process that
claimed it and a continuation is a new run; `candidate_recorded` is the variable
`candidate`.

### ReviewedMerge

The promise: a head is gated, then approved or rejected, and merged only if it is
gated, approved and not rejected; after the merge there is nothing more. The
refinement mapping takes gated heads from the recorded gate results, approved and
rejected ones from the recorded verdicts, and the merge from `integrated`.

### MainIntegration

`Integrator`, the advisory main-integration lock, the lock commands of agent-owned
runs, and the upstream fence before a completion. A commit is the set of changes it
contains, so that an ancestor is a subset and a merge a union. `Others` are changes
that people commit to main or push upstream at any time: the lock binds only those who
ask for it. The tracking ref of the upstream is folded into the steps that fetch it.
A run that is killed may be invoked again under its own id, as the class and its tests
allow although no caller does so; the policies `push_main_to_upstream` and
`require_upstream_sync` are chosen at the start.

What is smaller than the code: the statuses *blocked* and *failed* are one; a lock that
stays busy too long ends the run as the code does and leaves main alone; the second look
at a result on record, which cannot be reached in one invocation, is left out.
`undercut` is history: a release command that gives the ids and the token of another run
takes its lock although it is at work. The run `integrate_base` does not pursue what follows
one, and lets either the agent-owned run or others interfere, not both (the state constraint
`OneOutsider`); the theorems have neither limit.

### RunAttempts

One task, the runs made of it, and the invocations of run-until-done that make them,
die, follow each other and overlap. Both readers of the journal (`attempt_circuit_state`,
`pending_recovery_records`) go through all of it; a variable holds what a reader has made
of the records so far, and an append is the step a reader takes at that record. `Reset`
is an operator's reset of the circuit, or inputs that change. `putOff` is history: the
recovered runs whose launched recovery was taken for one that was not launched
(`TakenForUnlaunched`). The pending recoveries are
read and renewed in one step, and taken in any order.

Left out: transient restarts, the parallel loop (`ResourceScheduler` has it), the
deferral of a recovery until its workspace changes, a skill or an agent that cannot be
resolved. An exception before the launch that nobody expects ends like a deferral. The
record that a circuit has opened decides nothing and is not kept.

### AutopilotStop

Detached supervisors, the run-until-done child of each and its guarded worker, the
commands that start, stop and recover a supervisor. A process is its birth; `strangers`
are the pids of dead processes that somebody else has got, and a signal that reaches one
sets `hit`. A stop is: find and verify, open its pidfds, collect the recorded roots,
snapshot their descendants, freeze the supervisor, signal, drain, look again, end,
reconcile. The snapshot is one step and there is one stop command.

Smaller than the code: a child runs one task and a worker stands for its guard and all it
contains; a first signal during the cleanup of a loop that has ended (which skips the
release of the lock) is left out; a child whose supervisor dies between snapshot and
pidfd is given up on, where the code may also go on. A killed run-until-done has no
handler for SIGTERM, so its own death is one step.

### ResourceScheduler

`run_until_done_parallel`: invocations with one thread per task in flight, the selection
of a batch by conflict domains, the `flock` under which a thread checks the domains of
all locks and takes its own, and under which a scope is widened, by a thread or by a
worker's command. Reading the queue and submitting are one step, because the check under
the lock is made again; an agent's selection is any valid batch.

Left out: leases of locks, an unhealthy source, the spec gate, recoveries that are pending
at the start and the serial loop (both in `RunAttempts`). A timeout counts as blocked; an
orphaned worker does not complete its task; counters of an invocation that ended are
forgotten. There is no fairness: nothing here promises progress.

### Workspaces

One task's branch and worktree (`branch`, `listed`, `dirt`), the main it grows from, and
what is recorded of it: the claims in the journal and on the lock row, reports and pending
recoveries. A commit is a set of changes again. A run goes through `WorkspaceProvisioner`
place by place: `Validate` (primary worktree and base), `Look` (what exists), `Create`,
`Reattach` or `Inspect` (what is checked of an existing one), `Refresh` and `Merge` (a
clean stale one), `Snapshot`, `Claim`, `ClaimRow`, `ClaimRecord`, `Launch`, and back by
`Scrap` (a failed creation) or `Undo` (a created workspace whose claim failed); each step
of these two may fail and then ends the way back (`CompensationFails`). A claim reads HEAD
and the files by two commands (`ClaimHead`, `Claim`). `Approve`
to `DeleteBranch` is the disposition of finished worktrees. `Edit` and `Commit` are the
worker or anybody else, at any time. `exposed`, `leaked`, `slipped` and `raced` are
history: what was written while a run merges, aborts a merge or removes a failed creation
by force; a creation that was cut short or could not be taken back; a commit between the
two reads of a claim; and a claim behind the last check of the disposition.

Smaller than the code: the name of a task's workspace does not change, so that a worker
that claims another worktree does not occur; another run's live claim cannot be met under
the abstract lock; a run may start at any time although a refused workspace defers its
task until its fingerprint changes; HEAD is read with the creation; of what a failed merge
leaves in the files only the conflict itself is told apart.

## 4. The runs

| Run | Instance | Question and answer |
|---|---|---|
| `locks_base` | 2 runs, 1 helper, 1 cleaner; runs may die, writes of `lock.json` may fail; 2 tokens, 1 widening | Does the lock stay with the run at work, are tokens unique, are a published outcome and scope kept by every later writer? They are, unless recovery misjudged the run. |
| `locks_live` | 1 runtime-owned run, 1 helper, 1 cleaner; run and helper may die | Does every command end, and is an abandoned lock recovered (13,436 states)? Yes, unless its directory lost its row. |
| `budget_base` | 3 launches, 2 supervisors, 1 recoverer, a cumulative and a windowed cap, 2 compactions of which the second replace may fail, PID reuse | Are caps respected, running launches reserved, charges made once? Yes. |
| `budget_live` | a run and a remediation, torn rows, an owner that dies | Is the reservation of a dead owner closed? Yes. |
| `settle_base` | 2 runs, a forced cleaner; one run and the cleaner may die, the adapters of that run may fail; 2 attempts, 1 misjudgement (973,237 states) | Does a launched run that was not misjudged keep its lock, is a completed result committed, is a task settled or refused before its release, does cleanup never strand it? Yes. |
| `settle_live` | a run and its continuation, which both may die and be misjudged, 1 cleaner; the adapters of the first and of the cleaner may fail (523,477 states) | Is a task left behind settled in the end? Yes. |
| `review_base` | 1 work, 1 gate, 1 finding, 2 rounds, 1 re-anchoring, 1 pass of each family, 2 advances of main, 1 stray change | Does only what was gated, approved and never objected to reach main? Does every run end, without a refused transition? Yes. |
| `integrate_base` | 2 integrators, of which one may die and run again, an agent-owned run, a change of others; 2 of the 4 combinations of push and sync; 2 lock attempts (1,397,638 states) | Does a completed candidate stay on main and reach its upstream, is only what was verified pushed, is the lock given back on every path but a failed fence? Yes, as long as no command released the lock of an owner at work. |
| `attempts_base` | 2 terminals, 3 invocations that may die and overlap, 4 runs, 2 recoveries, threshold 2 (2,351,077 states) | Do failures of unchanged inputs stay within the threshold (or, while invocations overlap, within their number), is an unknown run never forgotten, and recovered once? Yes, with the exceptions of section 5. |
| `stop_base` | 2 supervisors, 1 child with its worker, 1 stop; all but one supervisor may be killed, PIDs are reused (1,622,952 states) | Does one supervisor dispatch at a time, does a stop signal only what is ours and leave nothing running, frozen or unaccounted for? Yes. |
| `sched_base` | 2 invocations, one of which may die, 3 tasks of which one may widen its scope, limits and restarts (868,228 states) | Are live runs on disjoint domains, are the limits kept with futures in flight, does a batch never stand in its own way? Yes, the last with the exception of section 5. |
| `workspaces_base` | 2 runs, each may be killed, and a disposition; 3 changes (1,886,899 states) | Is any work lost, a half-made workspace left, a worktree claimed or taken on an outdated check? No, with the exceptions of section 5. |

Behaviours in which the code does otherwise are excluded by name in the passing runs:
`misjudged`, `escaped`, `overlapped`, `putOff`, `undercut`, `leaked`, `exposed`, `slipped`
and `raced` are history variables that mark the run, launch, lock or workspace concerned,
and the properties speak of the others. Section 5 lists them with their lines.

The type invariants of `TaskLocks`, `BudgetLedger`, `TaskSettlement`, `CandidateLifecycle`
and `Workspaces` are theorems (section 6) and are not repeated in the runs; the others are
invariants of their runs.

`CHECK_DEADLOCK FALSE` is set everywhere: a run, a launch or a settlement that is
over has nothing left to do.

### Bounds, and why they are enough

- *Two runs* are what every exclusion needs; a third can only repeat what the second
  does to the first. The theorems of section 6 lift this bound.
- *Tokens, widenings, generations*: one more than the first, so that the second meets
  the leftovers of the first (an old snapshot, an old generation).
- *Budget*: allowances of 2 under caps of 5 and 3 leave room for one launch less
  than there are, so that an admission against an old total is visible; a usage of 1
  is below the allowance. Time 0..2 with a window of 1 lets a charge age out once.
- *Settlement*: two attempts, so that a confirmed retry and an exhausted budget occur; one
  misjudged run beside one that is not. The process whose adapters fail is the one that
  may die, beside one that works, so that each has the other's leftovers to deal with.
- *Review*: one work on three states of main gives three heads, enough for a candidate,
  a changed one and one more, because the model only compares heads; two rounds so that
  a gate, a reviewer and a conflict compete for the last one; one re-anchoring and two
  advances of main, so that the loop is used, exhausted and not needed; one stray
  change, which may fall between any two steps; one gate, because results are recorded
  per gate and head and each gate sees the same steps; one finding, because verdicts on
  a head do not depend on how many there are. The proofs cover any numbers.
- *Integration*: two integrators, an agent and one change of somebody else are the four
  parties that move main; one repeated invocation meets what the first left behind.
- *Attempts*: four runs are enough to reach the threshold of two, pass it to a recovery
  chain of two and start afresh; three invocations let one die, one overlap and one find
  what both left.
- *Stop*: a second supervisor is started while the first is stopped; one child is enough
  because children do not interact.
- *Scheduler*: three tasks give a pair in conflict and one beside it; one widening turns
  the third into a conflict; two jobs, so that a batch and a task added to it differ.
- *Workspaces*: three changes give work on the branch, on main, and uncommitted work at
  once; two runs give an owner and a successor, and a recovery of the first by the
  second. The theorems lift both bounds.
- Symmetry is used in safety-only runs where runs have the same constants.

### Fairness

- `TaskLocks`: a process that is at work is scheduled, with strong fairness where it
  waits for the settlement mutex (`flock` queues its waiters); workers exit (their
  timeout stops them); recovery runs again and again and looks at every lock (every
  autopilot cycle does, and `workers clean`); a settlement that was latched is settled in
  the end, or an operator says `--force` (strong fairness of `StaleStatus`). Nothing makes a
  helper or a run start.
- `BudgetLedger`: time passes, every `run_until_done` recovers, and the disk takes a
  whole row again and again. No launch need ever end.
- `TaskSettlement`: cleanup is repeated; an adapter it calls again and again is
  confirmed in the end, also when it only looks at a source (strong fairness of the
  `Inspect` that finds a release due); an exception out of `run_task` ends its process; a
  worker exits.
- `MainIntegration`, `RunAttempts`, `AutopilotStop`, `ResourceScheduler` and
  `Workspaces` state no fairness: their properties are safety only.
- `CandidateLifecycle`: the supervisor goes on. Workers are stopped by their timeout;
  gates and reviewers have none in the code and are taken to return. The environment
  (`Edit`, `MainAdvances`, `Declare`) has no fairness.

## 5. What the checks show

- **Locks.** As long as recovery does not judge a live run finished, the row on disk
  is the generation of the run at work, under any interleaving of updates, deaths and
  failing writes; a published outcome and a published widening are kept; a lock left
  behind is recovered, if there is a row in its directory.
- **Budget.** No cap is exceeded by launches whose reservation the ledger can read;
  every charge is made once, in the journal or in the checkpoint; a reservation whose
  owner died is closed although its PID may have been handed on.
- **Settlement.** A launched run that is not misjudged keeps its lock until its result is
  durable; a task is
  settled, completed, or refused by every attempt when the lock goes; cleanup without
  `--force` never strands a task.
- **Candidate.** Whatever happens to the worktree and to main, what a run merges is
  the head that passed every gate, was approved and was never objected to; gate
  failures, findings and conflicts together launch no more remediation workers than
  the contract grants; no path asks the stage machine for a transition it refuses, so
  that an outcome is never replaced by that error; every run ends in its last stage.

- **Integration.** Main and the upstream only get, from an integrator, a commit whose
  checks passed, with the candidate in it; a completed candidate stays on main although
  other integrators restore it; the lock is held around every change of main and is left
  behind only by a failed fence. All of this as long as no release command names an owner
  that is at work.
- **Attempts.** Whoever dies, runs of unchanged inputs that fail alike stay within the
  threshold, or within the number of invocations that overlapped before anything had
  failed; an unknown run that may be recovered stays pending until its recovery is
  launched, cancelled or declared spent; a run is recovered once, unless its recovery was
  put off after its launch; no recovery follows a verdict.
- **Autopilot.** Starts, stops and stale recoveries leave one supervisor in its loop; no
  signal reaches a stranger; a stop that succeeds has drained what was recorded and given
  every drained run a result before its lock goes.
- **Scheduler.** Runs that may make progress have disjoint domains, also while scopes are
  widened and supervisors die; completed tasks and fresh slices stay within the limits; the
  lock step refuses no task for another of its invocation, as both were declared, if one of
  them declares anything.
- **Workspaces.** Nothing written is lost, whoever provisions, compensates or disposes,
  but for what is written while a run merges, aborts or removes by force; a failed
  provisioning whose compensation succeeds leaves nothing behind; a claimed workspace
  contains its base and is what was checked, commits between its two reads apart; a
  worktree whose claim is shown, or a branch that is not on the remote main, is not
  removed by a disposition that saw it.

Every property has a mutant in `PROJECT.json`: a plausible bug in a definition that
stands for code, which the same run finds.

### Where the code does otherwise

Found while modelling; the properties exclude these behaviours, by the history variables
above or by what they speak of.

- *Locks.* A live supervisor whose worker has just exited is judged by its worker until
  a runtime stage is journaled, and its lock is released (`workers.py:2054`;
  `autopilot.py:7814`: "Cleanup is eligible only when the run itself is durably terminal
  or its exact runtime supervisor identity is verified gone"). A writer that read the row
  between two widenings may publish the first over the second (`locks.py:1515`;
  `docs/prd/run-orchestration.md:207`), so `PublishedIsKept` says only that no scope
  falls back to the declared one. A lease that has expired hides a live run from the
  conflict check (`workers.py:2089`). A directory without a row, which a death before
  `lock.json` or inside a removal leaves, is refused by every recovery, and its task cannot
  be locked until somebody removes it by hand (`workers.py:2601`, `2623-2639`;
  `locks.py:931`): `AbandonedLockRecovered` speaks of behaviours that do not stay with one.
- *Budget.* A row behind a partial one is skipped as malformed, so that its launch escapes
  the cap (`budget.py:1156`; line 5: "cannot oversubscribe a cap"). A first compaction
  that stops half way leaves a checkpoint beside a journal without header, which is
  refused as corrupt (`budget.py:1139`; the comment at 1359 expects it to be replayable).
- *Settlement.* A failed activation requeues the task after the release, without a look
  at who holds it by then (`runner.py:2780`;
  `docs/parallel-worker-orchestration.md:63`). The continuation of an unknown run that
  was requeued refuses its runnable task (`runner.py:4300`;
  `docs/prd/autopilot.md:1242`). A live run that is judged by its worker
  (`workers.py:2020-2031`, `2054-2055`) loses its lock without a durable result: a
  cleanup settles its task, clears the latch, and releases the lock at its next look, or
  at once with `--force`. `LaunchedKeepsLock` speaks of the runs this does not happen
  to.
- *Integration.* The command that releases the main-integration lock compares the ids and
  the token it is given with the row and asks neither who calls it nor whether the owner is
  at work (`cli.py:2977-3015`, `locks.py:590-622`), so that somebody who reads them off the
  row takes the lock from an integrator in the middle of its merge (`undercut`).
- *Attempts.* A launched recovery without a result counts as crashed even while its
  worker lives (`runs.py:2425`): an overlapping invocation renews it, or at its last
  attempt declares it failed (`runner.py:5302`; `docs/prd/autopilot.md:1267`: "it
  neither reclassifies live work nor force-removes workspaces"). A reservation whose run
  dies before its launch stays pending and counts until a reset (`runs.py:1690`). A
  death between the last result of a recovery and its verdict forgets the verdict
  (`runner.py:4073`). An `OSError` or `SubprocessError` that comes out of a recovery
  after its launch was recorded is recorded as a deferral before the launch
  (`runner.py:6287-6297`), and the reader of the journal puts the intent back
  (`runs.py:2380-2394`), so that one intent launches twice without any overlap
  (`putOff`).
- *Stop.* If the recorded processes exit between the collection of the roots and the
  snapshot, `drain_owned_process_tree` returns without freezing the supervisor
  (`autopilot.py:3566`), and the second look is at one that may begin another cycle,
  against the comment at `autopilot.py:4786`. A stop that is killed between SIGSTOP and
  SIGCONT leaves its supervisor frozen (`autopilot.py:4699`); a child that is not
  recorded yet survives a stop (`autopilot.py:5190`); a reused pid makes a supervisor
  wait for a run-until-done that is gone (`autopilot.py:2019`). Of two stops at once, one
  that gives up resumes the supervisor that the other holds frozen, and the other may
  succeed with a child alive (`autopilot.py:4754`; section 6).
- *Scheduler.* Recoveries of unknown runs are added to the results without a look at
  `--max-slices` (`runner.py:6010`; `docs/prd/run-orchestration.md:577`,
  `docs/cli-reference.md:143`). A selection that has become stale
  (`TaskActivationError`, `runner.py:4296`) and a busy scheduler lock in a recovery
  (`runner.py:6225`) end the whole invocation. In the parallel loop an unknown run whose
  log looks transient gets a recovery intent and a fresh restart (`runner.py:5930`).
  Whether domains count is decided at each dispatch (`runner.py:5681`) and again under the
  scheduler lock (`runner.py:8114`): of two tasks that declare nothing, the first is
  dispatched while a candidate with domains is there, the second when it is gone, and the
  first then waits for the second. It was found when `NeverInItsOwnWay`, which TLC accepted
  for the tasks of `sched_base`, could not be proved.
- *Workspaces.* A new workspace whose first snapshot cannot be read, or that is
  interrupted there, is not taken back (`orchestration.py:7854`, outside the `try`), nor
  is one whose run is killed before its claim or whose compensation fails
  (`orchestration.py:8260-8289`, `7626-7650`, which report it and leave it); every later
  run refuses it (`docs/prd/run-orchestration.md`: "Provisioning failures unwind without
  leaking task locks or half-created workspaces"). A run that claims between the last
  check of the disposition and `git worktree remove` loses its worktree, though nothing
  that was written in it (`docs/prd/autopilot.md:550`: "never touch a worktree claimed
  by a live run"). What somebody writes into a conflicted file between a failed merge
  and `git merge --abort` is overwritten by the latter (`orchestration.py:8133`), and
  what is written into a failed creation goes with its forced removal (`exposed`). A
  claim reads HEAD and the files by two commands (`workers.py:900-901`): a commit in
  between goes unnoticed, and the claim records the older head (`slipped`). A branch
  that is created again behind the last check may be deleted while only the local main
  has it. A recovery whose base fell behind main is deferred for good, since main only
  advances (`orchestration.py:8078`); one whose branch is gone starts in a fresh
  workspace. The fingerprint of a refusal is taken after it (`orchestration.py:7511`),
  so that a workspace that became good in between stays suppressed until something
  changes again.

## 6. What is proved

TLAPS proves the following for every value of the constants that satisfies the named
assumptions of the modules: any number of runs, helpers, cleaners, launches, caps,
gates, findings, rounds, and no bound on what the bounds bound.

| Theorem | Says | Argument |
|---|---|---|
| `TaskLocksProofs!TypeCorrect`, `LockKept`, `TokensUnique`, `MutualExclusion` | the row at work is the generation acquired; no token twice; two runs that were not misjudged are never at work at once | `LockInv` |
| `TaskLocksProofs!PublicationKept` | what was published on the row is kept | `LockInv`, `PublishInv` |
| `BudgetLedgerProofs!TypeCorrect`, `RunningIsReserved`, `ChargesKept` | a running launch is reserved; each charge is kept once | type, freshness and where each row is |
| `BudgetLedgerProofs!CapKept` | no cap is exceeded, if no launch uses more than it declared | `RowsInv`, `OwedInCap` |
| `TaskSettlementProofs!TypeCorrect`, `LockKept`, `CompletedCommitted`, `ReleasedSettled` | the lock of a run that is not misjudged stays until its result is durable; a completion is integrated and confirmed; a release is settled | `SettlementInv` |
| `TaskSettlementProofs!NeverStrands`, `StrandedOwned` | a cleanup without `--force` lets go of no task that may be in progress unsettled; without `--force` a task in progress without a lock has a run that owes it | `StrandInv` |
| `CandidateProofs!StagesGated`, `CandidatesGated` | reviews have gates, gates a candidate, one integration: of the stage machine, and of the run that drives it | `GatedInv` |
| `CandidateProofs!TypeCorrect`, `ReviewedRefined`, `RoundsKept`, `TransitionsLegal`, `MergedClean` | the run implements `ReviewedMerge`; rounds are bounded; transitions are legal; nothing is merged with a finding open | `RunInv` |
| `CandidateProofs!IntegrationTypes`, `LockKept`, `MutualExclusion`, `DeliveredKept`, `OnlyVerified` | who works on main has its lock; one at a time; a completed candidate is delivered and stays; only what was checked is pushed; all while no command took the lock from under an owner | `IntegrationInv` |
| `RunAttemptsProofs!TypeCorrect`, `CircuitKept`, `RecoveryOnce`, `NoneForgotten` | failures stay within the threshold; a recovery that was not put off after its launch is made once, and none after a verdict; what may be recovered is on record | `IInv` |
| `ResourceSchedulerProofs!TypeCorrect`, `DisjointKept`, `LimitsHeld`, `NeverSelfRefused` | live runs have disjoint domains; limits are kept; an invocation is not in its own way | `IInv` |
| `WorkspacesProofs!TypeCorrect`, `WorkIsKept`, `ClaimIsChecked`, `ReapedWasOver` | no work is lost but what was exposed; a claim is what was checked; the disposition takes only what is over | `WorkspaceInv` |
| `WorkspacesProofs!NoneHalfMade` | a failed provisioning that could be taken back leaves no half of a workspace | `HalfInv` |
| `AutopilotStopProofs!TypeCorrect`, `SupervisorIsAlone`, `NoneLeftFrozen`, `OwnSignalsOnly`, `DrainedIsSettled` | one supervisor dispatches; nobody stays frozen behind a stop that ended; no stranger is signalled; what a successful stop drained is settled and released | `IInv` |
| `AutopilotStopProofs!DrainIsComplete` | with one stop at a time, a stop that froze its supervisor and succeeds leaves nothing of its run | `IInv`, `AloneInv` |

**The lock** (`LockInv`, in `TaskLocks` so that TLC could check it first). That the
row is the run's own is not inductive: a process that is about to replace the row
has decided on what it read earlier. So the invariant says in addition that what a
process is about to write names the generation it read (`WriterInv`), that a command
holds the token of the run it names (`CommandInv`), that a verdict of recovery is
final (`CleanerInv`: the run is over or was misjudged), and that no token is above
the counter (`RunInv`). The assumption is `~TornTokenWrites`: a counter that was cut
short may hand out an old number.

That what is published on the row is kept (`PublishInv`) needs the mutex: whoever
replaces the row has read it under the mutex and holds it still (`MutexInv`), so a
merge of other fields carries over what was there (`FreshInv`) and no older row comes
back. What is kept is a set of widened and of settled rows that absorbs every write
(`ScopeInv`, `OutcomeInv`); what is terminal is the durable result the row's outcome
was taken from (`Honest`), and a row goes when that is known (`KnownInv`).

**The ledger.** A reservation is closed by exactly one row, and a row is folded
into the checkpoint in the step that drops it from the journal. The invariant relates
`settled` (what really closed a reservation), the row and the checkpoint, for the
readable generation; that nobody starts with rows of its own is `Fresh`.

That no cap is exceeded (`CapKept`) is about a sum over the launches a cap covers. What
a launch has really taken is not inductive: a reserve call that raised may have written
its row, which recovery charges later. `Owed` counts every live reservation instead, and
`OwedInCap` says that what is owed fits. A step moves the rows of each launch in one of
four ways (`LedgerStep`): it keeps, folds, closes or reserves them, and only one launch
reserves. The first three never raise what is owed (`OwedShrinks`); the last leaves room
for its whole allowance, because the consumption it was admitted against counts
everything that is owed (`OwedCounted`): what was folded away is outside every window
for good (`FoldedOld`, which needs that the clock of a reserve call is not ahead,
`AskedPast`). The sums are those of the community modules, recursive functions on finite
sets; that such a function exists, that its terms may be taken in any order
(`SumRemove`) and that fewer and smaller terms have a smaller sum (`SumMonotone`) is
proved by induction with sets in place of predicates (`SubsetsInduction`, from the
well-founded order of the library). The hypotheses are that launches and caps are finite
in number, and `NoOveruse`: neither a report nor the fail-safe charge of a launch is
above what it declared. Without it the code lets a cap be exceeded by design, since a
launch is charged what it used.

**The settlement** (`SettlementInv`). A run that owns the lock has no durable result, so
that recovery can judge it only by the death of its supervisor or, before its first
runtime stage is journaled, by the exit of its worker, which makes it misjudged; a
cleaner keeps what it concluded as long as the run it looked at is over or misjudged;
what the records say by the time a run gets somewhere (`RecordInv`, `CloseInv`) follows
the order in which `run_task` writes them.

That a cleanup strands nothing (`StrandInv`) needs more, because a cleaner decides on what
it has read and lets go of a lock later. While a run holds the lock, what its records say
of the task is true of it, confirmed or not, since nobody else may act on the task
(`DebtInv`). What a cleaner has seen of a lock stays true as long as the lock is where it
found it, as a run that is over neither takes the lock again nor activates
(`KnowledgeInv`). And a task in progress always has a run that owes it (`OwedInv`), unless
a forced cleanup took it away. `StrandedOwned` is the safety half of
`AbandonedTaskSettled`; that the owner gets round to it stays with TLC.

**The stages** (`GatedInv`). Counting alone does not show that a review has gates: a
stage that stands must still have its visit of the one before to its credit.

**The run** (`RunInv`). Its parts: the stage at each point of the supervisor, from
which no transition is refused (`StageInv`); the gates behind the next one are passed
*by this candidate* (`GateInv`), the candidate being a head from its collection on
(`CandidateInv`); what is integrated was approved, with nothing open (`VerdictInv`);
each launch has its entry of the remediation stage, but for the one of a conflict,
which is made below the limit (`RoundInv`). The refinement maps the recording of a
gate result, a verdict and the merge to a step of `ReviewedMerge`, every other step
to none; it is stated for at least one gate, because with none every head counts as
gated from the start. For the stages it is enough that the supervisor moves the stage
machine by its transitions and failures only, so that `CandidatesGated` follows from
`StagesGated`, the theorem about the machine alone.

**The integration** (`IntegrationInv`; its proofs are beside those of the run, in
`CandidateProofs`). That the lock goes with the work is inductive with the types (until
a command undercuts it: `StandingInv`, and from then on nothing is claimed). What is
integrated rests on what a run knows at each place: its candidate is never taken off its
branch, and its branch is on main once it has landed (`HeadInv`); main is never behind
what the run saw first, it verifies a commit with its candidate and delivers the commit
it verified (`ViewInv`). A completed candidate stays on main although others restore it,
because it was there before any run looked at main that still works on it
(`CompletedInv`), and what is about to be recorded as completed is upstream where it has
to be (`DeliveryInv`).

**The attempts** (`IInv` of `RunAttemptsProofs`). The proof counts: recoveries without a
result that no invocation has in hand, and invocations beyond their look at what is
pending, are together no more than may be active, which is one as long as invocations
follow each other (`WidthInv`). So the attempts that failed alike, with those that still
may (`CircuitInv`), stay within the threshold, or within the number of invocations when
they overlap: each may have looked at the journal before any of the others failed. What a
recovery does once rests on the order of its records (`SeqInv`), and on what an invocation
has in hand and what a run has on record by then (`SupInv`, `RunInv`); a recovery that is
put off after its launch starts that order again, which is why it is excluded.

**The scheduler** (`IInv` of `ResourceSchedulerProofs`). Exclusion of domains is inductive
with what the holder of the scheduler lock has found out: once cleared, it stays clear of
every run that may make progress until the `flock` is given back (`ClearInv`), because
meanwhile such runs only become fewer. The limits hold because runs in flight are counted
against both before they are results (`CountInv`); a recovery adds one result and one
recovery at a time. For the invocation itself, tasks in flight or locked by it are pairwise
compatible as declared, or neither declares anything (`PairInv`).

**The workspace** (`WorkspaceInv`, checked by TLC first). That no work is lost needs that
one run at most is at work, the one with the abstract lock (`OneAtWork`), and that what it
merges into, aborts or removes by force was clean when it looked, but for what was exposed
since (`CleanInv`); that every base a run holds is on main, because a branch is deleted when
it is at such a base or merged into main; and that a listed worktree has a branch, because
only then is there a commit to keep. A claim needs what each run knows at each place
(`CheckInv`): a recovery is never refreshed, so that its head is the one it was recorded
with, and an ordinary run took its snapshot of a clean worktree; between the two reads of a
claim the head only grows, by what slips in (`HeadInv`). The disposition needs what it
checked and who could have changed it since (`ReaperInv`). That nothing is left half made
(`HalfInv`) speaks of the time before the first claim: until then what is in the workspace
was written there, the disposition has nothing to do, and a run has created what it is about
to claim or undo.

**The stop** (`IInv` of `AutopilotStopProofs`, checked by TLC first). A supervisor past
its boot holds the singleton until it is gone (`SingletonInv`): whoever else removes the
lock has found its owner gone, and a supervisor does not come back. A recorded child
that lives is the last one recorded, and its supervisor waits for it or is gone
(`RecordInv`); a worker runs only while its lock names it, and has a result before the
lock is given back (`WorkerInv`). A worker that a stop answers for is dead by the time
it gets to the records (`OwnedInv`). What it saw at its first look is dead by its
second, or is among what it is about to signal then (`SeenInv`). It freezes its
supervisor between its two looks only and has signalled nothing that was not verified
(`StopInv`).

That a stop leaves nothing (`AloneInv`) needs in addition that its supervisor records
nothing once it is frozen: it stays frozen up to the end of the second look, and is gone
or has a termination pending after that (`FrozenInv`). This is where `OneStop` is
assumed, the only assumption on how the commands are used. With two stops TLC finds a
counterexample: the second freezes the same supervisor, gives up and resumes it; the
supervisor goes on behind the back of the first, records its child and is killed; the
first stop succeeds with that child alive. The code has no exclusion between stop
commands. `stop_base` has one stop; the other five theorems hold for any number.

Only model-checked: liveness (`OperationsEnd`, `AbandonedLockRecovered`,
`AbandonedClosed`, `AbandonedTaskSettled`, `RunEnds`), because TLAPS has no ENABLED and
no fairness here. The other way round, `MutualExclusion`, `RoundsKept`, `StagesGated`,
`CandidatesGated` and `StrandedOwned` and the type invariants named in section 4 are
proved and are not properties of a run.

## 7. What is not modelled

- **Planned**: rows 10 and 11 of the plan: the waits, planning and reload of an
  autopilot cycle, its maintenance jobs, the teardown of a worker tree, retry
  arithmetic. `PROJECT.json` gives each part's state.
- **No state of its own**: configuration, the command line, telemetry and activity,
  task-source parsers and generated profiles, skills. They compute on one input; what
  they hand to the modelled parts is a nondeterministic choice there.
- **Offline**: evaluation, benchmarks, grading, release checks.
- **Outside**: Git, the provider's CLI, the operating system. Git's refs appear as
  the heads and the states of main; a provider answers anything; processes die.
- **Time** is discrete and small in `BudgetLedger` and absent elsewhere: a timeout is
  an outcome that may come at any point.
- Within the modelled parts, section 3 lists what is smaller than the code.
