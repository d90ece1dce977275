--------------------------- MODULE MainIntegration ---------------------------
(***************************************************************************)
(* How an approved candidate gets to main: Integrator and the advisory      *)
(* main-integration lock (src/vibe_loop/orchestration.py, locks.py), the    *)
(* commands an agent-owned run uses instead (cli.py), and the upstream      *)
(* fence before a completion (upstream.py, runner.py).                      *)
(*                                                                          *)
(* A commit is the set of changes it contains, so that a is an ancestor of  *)
(* b iff a \subseteq b; a merge is the union. People commit to main, push   *)
(* and pull at any time; the lock only binds those who ask for it.          *)
(***************************************************************************)
EXTENDS Naturals, FiniteSets

CONSTANTS
    Runs,            \* runs whose candidate the runtime integrates
    Agents,          \* agent-owned runs, which merge by hand under the lock
    Others,          \* changes other people commit to main or to the upstream
    NoOne,
    Policies,        \* push_main_to_upstream and require_upstream_sync
    Mortal,          \* runs and agents whose process may die
    MaxLockAttempts, \* max_lock_attempts of Integrator
    MaxRestarts      \* bound: invocations of Integrator.run beyond the first

ASSUME IntegrationAssumption ==
    /\ Runs \cap Agents = {} /\ Runs \cap Others = {} /\ Agents \cap Others = {}
    /\ NoOne \notin Runs \cup Agents
    /\ Policies \subseteq [push : BOOLEAN, sync : BOOLEAN]
    /\ Mortal \subseteq Runs \cup Agents
    /\ MaxLockAttempts \in Nat \ {0}
    /\ MaxRestarts \in Nat

Owners  == Runs \cup Agents
Commits == SUBSET (Runs \cup Agents \cup Others)

\* No MERGE_HEAD: the empty main conflicts with nothing.
NoCommit == {}

\* The code's _is_ancestor.
Ancestor(a, b) == a \subseteq b

\* The candidate of a run is built on the empty main all start from.
Candidate(r) == {r}

\* The last integration_result on record. "open" is none, or a lock_timeout, which
\* does not stand either; "failed" is failed or blocked; "fenced" is blocked by
\* the completion fence.
Results == {"open", "failed", "fenced", "completed"}

\* Where a run has the lock and works on main or on its branch.
Critical == {"locked", "refreshing", "resolving", "checking", "landing", "landed",
             "verifying", "restoring", "resetting", "pushing",
             "reconfirming", "fencing", "recording", "releasing"}
Waiting  == {"begin", "acquire"}
RunPCs   == {"done", "over", "dead"} \cup Waiting \cup Critical
AgentPCs == {"idle", "holding", "over", "dead"}

VARIABLES
    policy,    \* the project's policy: [push, sync]
    main,      \* the main branch, checked out in the repository
    remote,    \* the branch upstream
    lock,      \* the owner of the main-integration lock
    place,     \* control point of a run or an agent
    head,      \* head of the candidate's branch
    merging,   \* MERGE_HEAD of its worktree while a conflict is open
    resolved,  \* a worker resolved the conflict its head merges
    before,    \* main_before
    after,     \* main_after
    result,    \* its last integration_result on record
    lock_attempt, \* attempt of this invocation to get the lock
    restarts,  \* repeated invocations so far, of all runs
    seen,      \* changes of others that were made
    checked,   \* history: the commit its checks on main passed on
    undercut   \* history: the command released the lock of an owner at work

branchVars  == <<head, merging, resolved>>
viewVars    == <<before, after, checked>>
gitVars     == <<main, remote>>
integrationVars == <<policy, undercut, gitVars, lock, place, branchVars, viewVars,
                     result, lock_attempt, restarts, seen>>

IntegrationTypeOK ==
    /\ policy \in Policies
    /\ main \in Commits /\ remote \in Commits
    /\ lock \in Owners \cup {NoOne}
    /\ place \in [Owners -> RunPCs \cup AgentPCs]
    /\ head \in [Runs -> Commits]
    /\ merging \in [Runs -> Commits]
    /\ resolved \in [Runs -> BOOLEAN]
    /\ {before, after, checked} \subseteq [Runs -> Commits]
    /\ result \in [Runs -> Results]
    /\ lock_attempt \in [Runs -> 1..MaxLockAttempts]
    /\ restarts \in 0..MaxRestarts
    /\ seen \subseteq Others
    /\ undercut \in BOOLEAN

IntegrationInit ==
    /\ policy \in Policies
    /\ main = {} /\ remote = {}
    /\ lock = NoOne
    /\ place = [o \in Owners |-> IF o \in Runs THEN "begin" ELSE "idle"]
    /\ head = [r \in Runs |-> Candidate(r)]
    /\ merging = [r \in Runs |-> NoCommit]
    /\ resolved = [r \in Runs |-> FALSE]
    /\ before = [r \in Runs |-> {}]
    /\ after = [r \in Runs |-> {}]
    /\ checked = [r \in Runs |-> {}]
    /\ result = [r \in Runs |-> "open"]
    /\ lock_attempt = [r \in Runs |-> 1]
    /\ restarts = 0
    /\ seen = {}
    /\ undercut = FALSE

-----------------------------------------------------------------------------
(* Steps of a run. *)

Goto(r, from, to) == place[r] = from /\ place' = [place EXCEPT ![r] = to]

\* What was seen of main is a local of _run_locked.
Forgets(r) ==
    /\ before' = [before EXCEPT ![r] = {}]
    /\ after' = [after EXCEPT ![r] = {}]
    /\ checked' = [checked EXCEPT ![r] = {}]

Records(r, res) == result' = [result EXCEPT ![r] = res]

\* _record_failure, and out of the critical section.
FailsAt(r, from) ==
    /\ Goto(r, from, "releasing")
    /\ Records(r, "failed")

\* classify_integration_lock: the process that holds the lock is gone.
Stale(o) == place[o] \in {"over", "dead"}

\* _prior_result_is_reusable; a completed result must still be on main.
Reusable(r) ==
    /\ result[r] \in {"failed", "completed"}
    /\ result[r] = "completed" => Ancestor(head[r], main)

\* _release_recovered_lock
RecoveredLockReleased(r) == lock' = IF lock = r THEN NoOne ELSE lock

\* The integrator runs again for the same run, in another process: after a death,
\* or after a result that may not stand.
Restart(r) ==
    /\ \/ place[r] = "dead"
       \/ place[r] = "over" /\ result[r] \in {"open", "fenced"}
    /\ restarts < MaxRestarts
    /\ restarts' = restarts + 1
    /\ place' = [place EXCEPT ![r] = "begin"]
    /\ UNCHANGED <<policy, undercut, gitVars, lock, branchVars, viewVars,
                   result, lock_attempt, seen>>

ReusePrior(r) ==
    /\ Reusable(r)
    /\ Goto(r, "begin", "done")
    /\ RecoveredLockReleased(r)
    /\ UNCHANGED <<policy, undercut, gitVars, branchVars, viewVars, result,
                   lock_attempt, restarts, seen>>

\* The claimed workspace is not fit, for any of the reasons its views know.
PreflightRefuses(r) ==
    /\ ~Reusable(r)
    /\ Goto(r, "begin", "done")
    /\ Records(r, "failed")
    /\ RecoveredLockReleased(r)
    /\ UNCHANGED <<policy, undercut, gitVars, branchVars, viewVars,
                   lock_attempt, restarts, seen>>

PreflightPasses(r) ==
    /\ ~Reusable(r)
    /\ Goto(r, "begin", "acquire")
    /\ lock_attempt' = [lock_attempt EXCEPT ![r] = 1]
    /\ UNCHANGED <<policy, undercut, gitVars, lock, branchVars, viewVars,
                   result, restarts, seen>>

\* Acquires a free lock, or recovers the one an earlier process of the run left.
Acquire(r) ==
    /\ lock \in {NoOne, r}
    /\ Goto(r, "acquire", "locked")
    /\ lock' = r
    /\ UNCHANGED <<policy, undercut, gitVars, branchVars, viewVars, result,
                   lock_attempt, restarts, seen>>

\* A stale lock of somebody else is not worth waiting for.
LockUnavailable(r) ==
    /\ lock \notin {NoOne, r} /\ Stale(lock)
    /\ Goto(r, "acquire", "done")
    /\ Records(r, "failed")
    /\ UNCHANGED <<policy, undercut, gitVars, lock, branchVars, viewVars,
                   lock_attempt, restarts, seen>>

\* Mutant: one attempt too many.
AttemptsLeft_OneMore(r) == lock_attempt[r] <= MaxLockAttempts

AttemptsLeft(r) == lock_attempt[r] < MaxLockAttempts

LockTimesOut(r) ==
    /\ place[r] = "acquire"
    /\ lock \notin {NoOne, r} /\ ~Stale(lock)
    /\ Records(r, "open")
    /\ \/ /\ AttemptsLeft(r)
          /\ lock_attempt' = [lock_attempt EXCEPT ![r] = @ + 1]
          /\ UNCHANGED place
       \/ /\ ~AttemptsLeft(r)
          /\ place' = [place EXCEPT ![r] = "done"]
          /\ UNCHANGED lock_attempt
    /\ UNCHANGED <<policy, undercut, gitVars, lock, branchVars, viewVars,
                   restarts, seen>>

\* The second preflight refuses, or main is not what the repository has checked out.
LockedRefuses(r) ==
    /\ FailsAt(r, "locked")
    /\ UNCHANGED <<policy, undercut, gitVars, lock, branchVars, viewVars,
                   lock_attempt, restarts, seen>>

\* _is_recoverable_refresh: the head is the merge of the candidate with a
\* commit of main that git itself would make.
RecoverableRefresh(r) ==
    /\ ~resolved[r]
    /\ head[r] # Candidate(r)
    /\ Ancestor(head[r], Candidate(r) \cup main)

AlreadyMerged(r, base) == Ancestor(Candidate(r), base)

\* Where _run_locked goes from the first look at main and the branch.
FirstStep(r) ==
    IF merging[r] # NoCommit
    THEN IF merging[r] = main THEN "resolving" ELSE "blocked"
    ELSE IF AlreadyMerged(r, main)
    THEN IF head[r] \in {Candidate(r), main} THEN "checking" ELSE "blocked"
    ELSE IF head[r] = Candidate(r) THEN "refreshing"
    ELSE IF RecoverableRefresh(r) THEN "checking" ELSE "blocked"

ReadMain(r) ==
    /\ before' = [before EXCEPT ![r] = main]
    /\ after' = [after EXCEPT ![r] = main]
    /\ checked' = [checked EXCEPT ![r] = {}]
    /\ \/ /\ FirstStep(r) = "blocked"
          /\ FailsAt(r, "locked")
       \/ /\ FirstStep(r) # "blocked"
          /\ Goto(r, "locked", FirstStep(r))
          /\ UNCHANGED result
    /\ UNCHANGED <<policy, undercut, gitVars, lock, branchVars, lock_attempt,
                   restarts, seen>>

\* git merge of main, as it is by now, into the branch.
Refresh(r) ==
    /\ Goto(r, "refreshing", "checking")
    /\ head' = [head EXCEPT ![r] = @ \cup main]
    /\ UNCHANGED <<policy, undercut, gitVars, lock, merging, resolved,
                   viewVars, result, lock_attempt, restarts, seen>>

RefreshConflicts(r) ==
    /\ ~Ancestor(main, Candidate(r))
    /\ Goto(r, "refreshing", "resolving")
    /\ merging' = [merging EXCEPT ![r] = main]
    /\ UNCHANGED <<policy, undercut, gitVars, lock, head, resolved, viewVars,
                   result, lock_attempt, restarts, seen>>

RefreshFails(r) ==
    /\ FailsAt(r, "refreshing")
    /\ UNCHANGED <<policy, undercut, gitVars, lock, branchVars, viewVars,
                   lock_attempt, restarts, seen>>

\* The worker's continuation commits the merge.
Resolves(r) ==
    /\ place[r] = "resolving"
    /\ head' = [head EXCEPT ![r] = @ \cup merging[r]]
    /\ merging' = [merging EXCEPT ![r] = NoCommit]
    /\ resolved' = [resolved EXCEPT ![r] = TRUE]

\* _is_worker_resolved_refresh: the parents are the candidate and main_before.
WorkerResolvedRefresh(r) == merging[r] = before[r]

ResolutionAccepted(r) ==
    /\ Resolves(r)
    /\ WorkerResolvedRefresh(r)
    /\ Goto(r, "resolving", "checking")
    /\ UNCHANGED <<policy, undercut, gitVars, lock, viewVars, result,
                   lock_attempt, restarts, seen>>

\* Wrong parents, dropped content, a dirty tree, or conflicts still open.
ResolutionRefused(r) ==
    /\ FailsAt(r, "resolving")
    /\ Resolves(r) \/ UNCHANGED branchVars
    /\ UNCHANGED <<policy, undercut, gitVars, lock, viewVars, lock_attempt,
                   restarts, seen>>

\* The resolver raises (no round left, an interrupt): nothing is recorded.
ResolverRaises(r) ==
    /\ Goto(r, "resolving", "releasing")
    /\ UNCHANGED <<policy, undercut, gitVars, lock, branchVars, viewVars,
                   result, lock_attempt, restarts, seen>>

IntegrationChecksPass(r) ==
    /\ Goto(r, "checking",
            IF AlreadyMerged(r, before[r]) THEN "verifying" ELSE "landing")
    /\ UNCHANGED <<policy, undercut, gitVars, lock, branchVars, viewVars,
                   result, lock_attempt, restarts, seen>>

IntegrationChecksFail(r) ==
    /\ FailsAt(r, "checking")
    /\ UNCHANGED <<policy, undercut, gitVars, lock, branchVars, viewVars,
                   lock_attempt, restarts, seen>>

\* git merge --ff-only; git itself compares and moves the branch.
FastForward(r) ==
    /\ Ancestor(main, head[r]) \/ Ancestor(head[r], main)
    /\ Goto(r, "landing", "landed")
    /\ main' = main \cup head[r]
    /\ UNCHANGED <<policy, undercut, remote, lock, branchVars, viewVars,
                   result, lock_attempt, restarts, seen>>

\* Main has moved aside, or the checkout has changes in the way.
FastForwardFails(r) ==
    /\ ~Ancestor(head[r], main)
    /\ FailsAt(r, "landing")
    /\ UNCHANGED <<policy, undercut, gitVars, lock, branchVars, viewVars,
                   lock_attempt, restarts, seen>>

ReadLanded(r) ==
    /\ Goto(r, "landed", "verifying")
    /\ after' = [after EXCEPT ![r] = main]
    /\ UNCHANGED <<policy, undercut, gitVars, lock, branchVars, before,
                   checked, result, lock_attempt, restarts, seen>>

\* _run_main_checks on exactly main_after, in a clone of its own.
MainChecksPass(r) ==
    /\ Goto(r, "verifying", IF policy.push THEN "pushing" ELSE "fencing")
    /\ checked' = [checked EXCEPT ![r] = after[r]]
    /\ UNCHANGED <<policy, undercut, gitVars, lock, branchVars, before, after,
                   result, lock_attempt, restarts, seen>>

MainChecksFail(r) ==
    /\ \/ /\ AlreadyMerged(r, before[r])
          /\ FailsAt(r, "verifying")
       \/ /\ ~AlreadyMerged(r, before[r])
          /\ Goto(r, "verifying", "restoring")
          /\ UNCHANGED result
    /\ UNCHANGED <<policy, undercut, gitVars, lock, branchVars, viewVars,
                   lock_attempt, restarts, seen>>

\* _restore_main compares main with what it verified ...
MainMoved(r) == main # after[r]

RestoreCompares(r) ==
    /\ \/ /\ MainMoved(r)
          /\ FailsAt(r, "restoring")
       \/ /\ ~MainMoved(r)
          /\ Goto(r, "restoring", "resetting")
          /\ UNCHANGED result
    /\ UNCHANGED <<policy, undercut, gitVars, lock, branchVars, viewVars,
                   lock_attempt, restarts, seen>>

\* Mutant: main goes back to where all started.
RestorePoint_Root(r) == {}

RestorePoint(r) == before[r]

\* ... and then resets the branch, unless its checkout has changes in the way.
Reset(r) ==
    /\ FailsAt(r, "resetting")
    /\ main' \in {RestorePoint(r), main}
    /\ UNCHANGED <<policy, undercut, remote, lock, branchVars, viewVars,
                   lock_attempt, restarts, seen>>

Pushed(r, to) ==
    /\ Ancestor(remote, to)
    /\ remote' = to

\* Mutant: whatever main is by now is pushed.
PushTarget_Main(r) == main

\* _push_main pushes the commit it verified.
PushTarget(r) == after[r]

PushSucceeds(r) ==
    /\ Pushed(r, PushTarget(r))
    /\ \/ Goto(r, "pushing", "fencing") /\ UNCHANGED result
       \/ FailsAt(r, "pushing")  \* the upstream ref has moved on: somebody fetched
    /\ UNCHANGED <<policy, undercut, main, lock, branchVars, viewVars,
                   lock_attempt, restarts, seen>>

\* No upstream, or the push is rejected.
PushFails(r) ==
    /\ FailsAt(r, "pushing")
    /\ UNCHANGED <<policy, undercut, gitVars, lock, branchVars, viewVars,
                   lock_attempt, restarts, seen>>

\* Nobody knows whether the push arrived.
PushTimesOut(r) ==
    /\ Goto(r, "pushing", "reconfirming")
    /\ Pushed(r, PushTarget(r)) \/ UNCHANGED remote
    /\ UNCHANGED <<policy, undercut, main, lock, branchVars, viewVars, result,
                   lock_attempt, restarts, seen>>

\* Mutant: a fetch after a push that timed out settles it, whatever it shows.
TimedOutPushArrived_Assumed(r) == TRUE

TimedOutPushArrived(r) == remote = after[r]

\* _verify_timed_out_push: fetches, and compares what it fetched.
TimedOutPushConfirmed(r) ==
    /\ TimedOutPushArrived(r)
    /\ Goto(r, "reconfirming", "fencing")
    /\ UNCHANGED <<policy, undercut, gitVars, lock, branchVars, viewVars,
                   result, lock_attempt, restarts, seen>>

\* It did not arrive, somebody was faster, or the fetch fails.
TimedOutPushUnconfirmed(r) ==
    /\ FailsAt(r, "reconfirming")
    /\ UNCHANGED <<policy, undercut, gitVars, lock, branchVars, viewVars,
                   lock_attempt, restarts, seen>>

\* check_upstream_sync fetches, and compares main with what it fetched: nothing
\* that happens in between makes equal what was not, or undoes what arrived.
InSync(o) == main = remote /\ o \in remote

\* integration_completion_fence
FencePasses(r) ==
    /\ policy.sync => InSync(r)
    /\ Goto(r, "fencing", "recording")
    /\ UNCHANGED <<policy, undercut, gitVars, lock, branchVars, viewVars,
                   result, lock_attempt, restarts, seen>>

\* A fence that fails, or cannot fetch, is recorded and retains the lock.
FenceBlocks(r) ==
    /\ policy.sync
    /\ Goto(r, "fencing", "done")
    /\ Records(r, "fenced")
    /\ Forgets(r)
    /\ UNCHANGED <<policy, undercut, gitVars, lock, branchVars, lock_attempt,
                   restarts, seen>>

\* record_completed_integration: the result and its provenance in one append.
RecordCompleted(r) ==
    /\ Goto(r, "recording", "releasing")
    /\ Records(r, "completed")
    /\ UNCHANGED <<policy, undercut, gitVars, lock, branchVars, viewVars,
                   lock_attempt, restarts, seen>>

\* Mutant: the lock stays after a failed result.
ReleasesAfter_Completed(r) == result[r] = "completed"

\* The finally clause of run: always, unless the fence retains the lock.
ReleasesAfter(r) == TRUE

Release(r) ==
    /\ Goto(r, "releasing", "done")
    /\ lock' = IF ReleasesAfter(r) /\ lock = r THEN NoOne ELSE lock
    /\ IF result[r] = "completed" THEN UNCHANGED viewVars ELSE Forgets(r)
    /\ UNCHANGED <<policy, undercut, gitVars, branchVars, result, lock_attempt,
                   restarts, seen>>

\* The supervisor goes on to finish the run, and exits some time.
Exit(r) ==
    /\ Goto(r, "done", "over")
    /\ UNCHANGED <<policy, undercut, gitVars, lock, branchVars, viewVars,
                   result, lock_attempt, restarts, seen>>

-----------------------------------------------------------------------------
(* Agent-owned runs, the operator, and everyone else. *)

\* vibe-loop main-integration acquire, once its preflight passes.
AgentAcquire(a) ==
    /\ lock = NoOne
    /\ Goto(a, "idle", "holding")
    /\ lock' = a
    /\ UNCHANGED <<policy, undercut, gitVars, branchVars, viewVars, result,
                   lock_attempt, restarts, seen>>

\* The post-acquire preflight of that command refuses, and gives the lock back.
AgentRefused(a) ==
    /\ Goto(a, "holding", "over")
    /\ a \notin main
    /\ lock' = IF lock = a THEN NoOne ELSE lock
    /\ UNCHANGED <<policy, undercut, gitVars, branchVars, viewVars, result,
                   lock_attempt, restarts, seen>>

AgentMerges(a) ==
    /\ place[a] = "holding"
    /\ a \notin main
    /\ main' = main \cup {a}
    /\ UNCHANGED <<policy, undercut, remote, lock, place, branchVars, viewVars,
                   result, lock_attempt, restarts, seen>>

\* vibe-loop main-integration release, by the agent that has the lock, or by
\* anybody who knows the ids of the owner: the command does not ask whether the
\* owner is at work.  With require_upstream_sync it fetches and compares first.
CliRelease(o) ==
    /\ lock = o
    /\ policy.sync => InSync(o)
    /\ lock' = NoOne
    /\ \/ Goto(o, "holding", "over") /\ UNCHANGED undercut
       \/ /\ undercut' = (undercut \/ place[o] \in Critical \cup {"holding"})
          /\ UNCHANGED place
    /\ UNCHANGED <<policy, main, remote, branchVars, viewVars, result,
                   lock_attempt, restarts, seen>>

Die(o) ==
    /\ o \in Mortal
    /\ place[o] \in Critical \cup {"holding"}
    /\ place' = [place EXCEPT ![o] = "dead"]
    /\ UNCHANGED <<policy, undercut, gitVars, lock, branchVars, viewVars,
                   result, lock_attempt, restarts, seen>>

OthersCommit(c) ==
    /\ c \notin seen
    /\ seen' = seen \cup {c}
    /\ \/ main' = main \cup {c} /\ UNCHANGED remote
       \/ remote' = remote \cup {c} /\ UNCHANGED main
    /\ UNCHANGED <<policy, undercut, lock, place, branchVars, viewVars, result,
                   lock_attempt, restarts>>

OthersPush ==
    /\ Ancestor(remote, main) /\ remote # main
    /\ remote' = main
    /\ UNCHANGED <<policy, undercut, main, lock, place, branchVars, viewVars,
                   result, lock_attempt, restarts, seen>>

OthersPull ==
    /\ ~Ancestor(remote, main)
    /\ main' = main \cup remote
    /\ UNCHANGED <<policy, undercut, remote, lock, place, branchVars, viewVars,
                   result, lock_attempt, restarts, seen>>

-----------------------------------------------------------------------------

Enter(r) ==
    \/ ReusePrior(r) \/ PreflightRefuses(r) \/ PreflightPasses(r)
    \/ Acquire(r) \/ LockUnavailable(r) \/ LockTimesOut(r)

Prepare(r) ==
    \/ LockedRefuses(r) \/ ReadMain(r)
    \/ Refresh(r) \/ RefreshConflicts(r) \/ RefreshFails(r)
    \/ ResolutionAccepted(r) \/ ResolutionRefused(r) \/ ResolverRaises(r)
    \/ IntegrationChecksPass(r) \/ IntegrationChecksFail(r)

LandAndVerify(r) ==
    \/ FastForward(r) \/ FastForwardFails(r) \/ ReadLanded(r)
    \/ MainChecksPass(r) \/ MainChecksFail(r) \/ RestoreCompares(r) \/ Reset(r)

Deliver(r) ==
    \/ PushSucceeds(r) \/ PushFails(r) \/ PushTimesOut(r)
    \/ TimedOutPushConfirmed(r) \/ TimedOutPushUnconfirmed(r)
    \/ FencePasses(r) \/ FenceBlocks(r) \/ RecordCompleted(r) \/ Release(r)

Integrate(r) == Enter(r) \/ Prepare(r) \/ LandAndVerify(r) \/ Deliver(r)

Agent(a) == AgentAcquire(a) \/ AgentRefused(a) \/ AgentMerges(a)

World ==
    \/ \E o \in Owners : CliRelease(o) \/ Die(o)
    \/ \E c \in Others : OthersCommit(c)
    \/ OthersPush \/ OthersPull

IntegrationNext ==
    \/ \E r \in Runs : Integrate(r) \/ Exit(r) \/ Restart(r)
    \/ \E a \in Agents : Agent(a)
    \/ World

IntegrationSpec == IntegrationInit /\ [][IntegrationNext]_integrationVars

-----------------------------------------------------------------------------
(* Properties. *)

(* They speak of the behaviours in which nobody takes the lock from an owner *)
(* at work with the command.                                                 *)

\* Only a commit that passed the checks on main is pushed (_push_main), although
\* main may move during the checks and after them, and whoever pushes meanwhile.
VerifiedOnly ==
    [][\A r \in Runs : place[r] = "pushing" /\ place'[r] # "pushing" /\ remote' # remote
            => \/ remote' = checked[r] /\ Ancestor(Candidate(r), checked[r])
               \/ undercut]_integrationVars

WorkHasLock ==
    /\ \A o \in Owners : place[o] \in Critical \cup {"holding"} => lock = o
    /\ \A r \in Runs : place[r] \in {"done", "over"} /\ lock = r => result[r] = "fenced"

\* The main-integration lock goes with the work on main: one run or agent at a
\* time has it, however many die and are run again, and an integrator that has
\* ended leaves it behind only for a fence that failed (_retain_integration_lock),
\* on every other path it is given back.
LockGoesWithWork == undercut \/ WorkHasLock

ResultsDelivered ==
    \A r \in Runs : result[r] = "completed" =>
        /\ Ancestor(head[r], main)
        /\ policy.push => Ancestor(after[r], remote)
        /\ policy.sync => Ancestor(Candidate(r), remote)

\* A completed result is delivered: it stays on main, and no integrator that
\* restores main after a failed verification (_restore_main) takes it off again;
\* and it is upstream where the project wants it there, the pushed commit with
\* push_main_to_upstream, the candidate with require_upstream_sync, also when a
\* push timed out or others pushed in between.
CompletedIsDelivered == undercut \/ ResultsDelivered
=============================================================================
