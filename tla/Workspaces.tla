----------------------------- MODULE Workspaces -----------------------------
(***************************************************************************)
(* The workspace of one task: its branch and the worktree the branch is    *)
(* checked out in.  A run provisions it under the task's lock              *)
(* (orchestration.py, WorkspaceProvisioner): it creates it, attaches a     *)
(* branch that lost its worktree, or adopts what an earlier run left,      *)
(* brings that up to the selected base, checks it, claims it on the lock   *)
(* row and in the journal and launches its worker there.  A provisioning   *)
(* that fails takes back what it created.  The autopilot's disposition     *)
(* (autopilot.py, workers.py) removes a workspace that is finished.        *)
(*                                                                         *)
(* A commit is the set of changes it contains, so that ancestry is         *)
(* inclusion and a merge is a union.  Uncommitted work is the set `dirt';  *)
(* a merge that was not aborted leaves Conflict in it.  The name of a      *)
(* task's workspace does not change, and the task lock is the abstract one *)
(* (TaskLocks has its protocol).                                           *)
(***************************************************************************)
EXTENDS Naturals, Sequences, Functions

CONSTANTS Runs,         \* runs of the task
          Changes,      \* what may be written: the bound on all work
          Mortal,       \* the runs whose supervisor may be killed
          Conflict,     \* a merge in progress in the worktree
          None          \* no run, no branch, no report, no recovery

ASSUME WorkspaceAssumption ==
    /\ Mortal \subseteq Runs
    /\ None \notin Runs
    /\ \A c \in SUBSET Changes : c # None
    /\ Conflict \notin Changes

VARIABLES main,         \* the main branch
          remote,       \* the remote-tracking ref of main
          branch,       \* the head of the task's branch, or None
          listed,       \* the worktree exists, with the branch checked out
          dirt,         \* what is uncommitted in it
          made,         \* the changes written so far
          lock,         \* the run that holds the task's lock
          shown,        \* its lock row shows a workspace
          claims,       \* the workspace_claim records of the journal
          reports,      \* the commit each run reported completed
          intents,      \* pending recoveries of unknown runs
          at,           \* where each run is
          view,         \* what it works with
          reaper,       \* the disposition: where it is and what it approved
          \* history
          leaked,       \* a creation was cut short, or not taken back
          exposed,      \* written while a refresh merges or aborts, or a
                        \* failed creation is taken back
          slipped,      \* the runs at whose claim something was committed
                        \* between the reading of HEAD and of the files
          raced         \* a claim was written behind the disposition's check

git == <<main, remote, branch, listed, dirt, made, exposed, slipped>>
records == <<claims, reports, intents>>
vars == <<git, lock, shown, records, at, view, reaper, leaked, raced>>

Places == {"idle", "validate", "look", "reattach", "add", "scrap",
           "scrapBranch", "inspect", "refresh", "merge", "abort", "snapshot",
           "claim", "files", "row", "journal", "bind", "working", "unknown",
           "undo", "undoBranch", "release", "done", "dead"}
Commits == SUBSET Changes
Dirt == SUBSET (Changes \cup {Conflict})
Recoveries == [run : Runs, base : Commits, head : Commits, dirt : Dirt]
Views == [base : Commits, head : Commits, dirt : Dirt, created : BOOLEAN,
          resumes : {None} \cup Recoveries]
NoView == [base |-> {}, head |-> {}, dirt |-> {}, created |-> FALSE,
           resumes |-> None]
Claims == [run : Runs, base : Commits]

TypeOK ==
    /\ main \in Commits /\ remote \in Commits
    /\ branch \in {None} \cup Commits
    /\ listed \in BOOLEAN
    /\ dirt \in Dirt
    /\ made \in Commits /\ exposed \in Commits
    /\ slipped \subseteq Runs
    /\ lock \in {None} \cup Runs
    /\ shown \in BOOLEAN
    /\ claims \in Seq(Claims)
    /\ reports \in [Runs -> {None} \cup Commits]
    /\ intents \subseteq Recoveries
    /\ at \in [Runs -> Places]
    /\ view \in [Runs -> Views]
    /\ reaper \in [at : {"idle", "revalidate", "remove", "branch", "delete"},
                   head : Commits, owner : {None} \cup Runs]
    /\ leaked \in BOOLEAN /\ raced \in BOOLEAN

Init ==
    /\ main = {} /\ remote = {}
    /\ branch = None /\ listed = FALSE /\ dirt = {}
    /\ made = {} /\ exposed = {} /\ slipped = {}
    /\ lock = None /\ shown = FALSE
    /\ claims = <<>> /\ reports = [r \in Runs |-> None] /\ intents = {}
    /\ at = [r \in Runs |-> "idle"]
    /\ view = [r \in Runs |-> NoView]
    /\ reaper = [at |-> "idle", head |-> {}, owner |-> None]
    /\ leaked = FALSE /\ raced = FALSE

Goes(r, p) == at' = [at EXCEPT ![r] = p]
Resumes(r) == view[r].resumes # None
Exists == branch # None
Latest == claims[Len(claims)]

(***************************************************************************)
(* Provisioning.                                                           *)
(***************************************************************************)
\* The run takes the lock with the base it read; it may continue the work of
\* a pending recovery.
Start(r) ==
    /\ at[r] = "idle" /\ lock = None
    /\ \E i \in intents \cup {None} :
          view' = [view EXCEPT ![r].base = main, ![r].resumes = i]
    /\ lock' = r
    /\ Goes(r, "validate")
    /\ UNCHANGED <<git, shown, records, reaper, leaked, raced>>

\* The primary worktree is clean, on main, and main is still the base.
Validate(r) ==
    /\ at[r] = "validate"
    /\ view[r].base = main
    /\ Goes(r, "look")
    /\ UNCHANGED <<git, lock, shown, records, view, reaper, leaked, raced>>

PrimaryRefused(r) ==
    /\ at[r] = "validate"
    /\ Goes(r, "release")
    /\ UNCHANGED <<git, lock, shown, records, view, reaper, leaked, raced>>

\* The latest claim is of this task, and of the run a recovery continues.
Owned(r) ==
    claims # <<>> /\ (Resumes(r) => Latest.run = view[r].resumes.run)

\* What exists decides what is done about it.  A branch without a worktree
\* is attached if it is owned; without a claim it is a collision.
Look(r) ==
    /\ at[r] = "look"
    /\ Goes(r, CASE listed -> "inspect"
                 [] ~listed /\ ~Exists -> "add"
                 [] ~listed /\ Exists /\ Owned(r) -> "reattach"
                 [] OTHER -> "release")
    /\ UNCHANGED <<git, lock, shown, records, view, reaper, leaked, raced>>

\* git worktree add, of the branch; it fails without effect, and does when
\* the branch has gone in the meantime.
Reattach(r) ==
    /\ at[r] = "reattach" /\ Exists /\ ~listed
    /\ listed' = TRUE
    /\ Goes(r, "inspect")
    /\ UNCHANGED <<main, remote, branch, dirt, made, exposed, slipped, lock,
                   shown, records, view, reaper, leaked, raced>>

ReattachFails(r) ==
    /\ at[r] = "reattach"
    /\ Goes(r, "release")
    /\ UNCHANGED <<git, lock, shown, records, view, reaper, leaked, raced>>

\* git worktree add -b: the branch starts at the base; Git refuses to create
\* what exists.
Create(r) ==
    /\ at[r] = "add" /\ ~Exists /\ ~listed
    /\ branch' = view[r].base
    /\ listed' = TRUE
    /\ view' = [view EXCEPT ![r].created = TRUE, ![r].head = view[r].base]
    /\ Goes(r, "snapshot")
    /\ UNCHANGED <<main, remote, dirt, made, exposed, slipped, lock, shown,
                   records, reaper, leaked, raced>>

\* It fails, or HEAD cannot be read after it, and has left nothing, the
\* branch, or both behind.
CreateFails(r) ==
    /\ at[r] = "add"
    /\ \/ UNCHANGED <<branch, listed>>
       \/ /\ ~Exists /\ ~listed
          /\ branch' = view[r].base /\ listed' \in BOOLEAN
    /\ Goes(r, "scrap")
    /\ UNCHANGED <<main, remote, dirt, made, exposed, slipped, lock, shown,
                   records, view, reaper, leaked, raced>>

\* _compensate_partial_creation: the worktree goes by force,
Scrap(r) ==
    /\ at[r] = "scrap"
    /\ listed' = FALSE
    /\ dirt' = {}
    /\ Goes(r, "scrapBranch")
    /\ UNCHANGED <<main, remote, branch, made, exposed, slipped, lock, shown,
                   records, view, reaper, leaked, raced>>

\* and the branch if nothing was committed on it.
ScrapBranch(r) ==
    /\ at[r] = "scrapBranch"
    /\ branch' = IF branch = view[r].base /\ ~listed THEN None ELSE branch
    /\ Goes(r, "release")
    /\ UNCHANGED <<main, remote, listed, dirt, made, exposed, slipped, lock,
                   shown, records, view, reaper, leaked, raced>>

\* What an existing workspace is checked for before its files are looked at.
\* A recovery finds what it was recorded with, and is not refreshed.
Adoptable(r) ==
    /\ listed /\ Owned(r)
    /\ Latest.base \subseteq branch
    /\ Latest.base \subseteq view[r].base
    /\ Resumes(r) =>
          /\ Latest.base = view[r].resumes.base
          /\ branch = view[r].resumes.head
          /\ view[r].base \subseteq branch

Inspect(r) ==
    /\ at[r] = "inspect"
    /\ IF Adoptable(r)
       THEN /\ view' = [view EXCEPT ![r].head = branch]
            /\ Goes(r, IF view[r].base \subseteq branch
                       THEN "snapshot" ELSE "refresh")
       ELSE Goes(r, "release") /\ UNCHANGED view
    /\ UNCHANGED <<git, lock, shown, records, reaper, leaked, raced>>

\* A stale workspace is refreshed if it is clean and where it was.
Refresh(r) ==
    /\ at[r] = "refresh"
    /\ Goes(r, IF listed /\ branch = view[r].head /\ dirt = {}
               THEN "merge" ELSE "release")
    /\ UNCHANGED <<git, lock, shown, records, view, reaper, leaked, raced>>

Merge(r) ==
    /\ at[r] = "merge" /\ listed
    /\ branch' = branch \cup view[r].base
    /\ view' = [view EXCEPT ![r].head = branch']
    /\ Goes(r, "snapshot")
    /\ UNCHANGED <<main, remote, listed, dirt, made, exposed, slipped, lock,
                   shown, records, reaper, leaked, raced>>

\* A merge that is no fast-forward may conflict, and is aborted,
MergeConflicts(r) ==
    /\ at[r] = "merge" /\ listed
    /\ ~(branch \subseteq view[r].base)
    /\ dirt' = dirt \cup {Conflict}
    /\ Goes(r, "abort")
    /\ UNCHANGED <<main, remote, branch, listed, made, exposed, slipped, lock,
                   shown, records, view, reaper, leaked, raced>>

\* which may fail and then leaves it.  An abort restores the files of the
\* merge, whatever has been written into them since.
Abort(r) ==
    /\ at[r] = "abort"
    /\ \/ UNCHANGED dirt
       \/ Conflict \in dirt /\ dirt' \in SUBSET (dirt \ {Conflict})
    /\ Goes(r, "release")
    /\ UNCHANGED <<main, remote, branch, listed, made, exposed, slipped, lock,
                   shown, records, view, reaper, leaked, raced>>

\* It fails without entering the merge.
MergeFails(r) ==
    /\ at[r] = "merge"
    /\ Goes(r, "release")
    /\ UNCHANGED <<git, lock, shown, records, view, reaper, leaked, raced>>

\* The snapshot of the files: what an ordinary run adopts is clean, what a
\* recovery adopts is as it was recorded.
Snapshot(r) ==
    /\ at[r] = "snapshot"
    /\ IF listed /\ \/ view[r].created
                    \/ dirt = IF Resumes(r) THEN view[r].resumes.dirt ELSE {}
       THEN /\ view' = [view EXCEPT ![r].dirt = dirt]
            /\ Goes(r, "claim")
       ELSE Goes(r, "release") /\ UNCHANGED view
    /\ UNCHANGED <<git, lock, shown, records, reaper, leaked, raced>>

\* When Git does not answer, or the user interrupts, nothing takes a new
\* workspace back: neither _create_or_adopt nor provision handles that here.
SnapshotUnreadable(r) ==
    /\ at[r] = "snapshot"
    /\ leaked' = (leaked \/ view[r].created)
    /\ Goes(r, "release")
    /\ UNCHANGED <<git, lock, shown, records, view, reaper, raced>>

\* Mutant: only the failures inside the creation take it back.
Unwinds_Keeps(r) == Goes(r, "release")

\* From here on a failure takes back a workspace that this run created.
Unwinds(r) == Goes(r, IF view[r].created THEN "undo" ELSE "release")

(***************************************************************************)
(* The claim: claim_worker_workspace and what run_task does after it.      *)
(***************************************************************************)
\* The workspace is the one that was checked: HEAD is read,
ClaimHead(r) ==
    /\ at[r] = "claim"
    /\ IF listed /\ branch = view[r].head /\ view[r].base \subseteq branch
       THEN Goes(r, "files") ELSE Unwinds(r)
    /\ UNCHANGED <<git, lock, shown, records, view, reaper, leaked, raced>>

\* Mutant: the claim does not compare the files with what was checked.
SameFiles_Trusted(r) == listed

\* and after it the files.
SameFiles(r) == listed /\ dirt = view[r].dirt

Claim(r) ==
    /\ at[r] = "files"
    /\ IF SameFiles(r) THEN Goes(r, "row") ELSE Unwinds(r)
    /\ UNCHANGED <<git, lock, shown, records, view, reaper, leaked, raced>>

ClaimRow(r) ==
    /\ at[r] = "row"
    /\ shown' = TRUE
    /\ raced' = (raced \/ reaper.at = "remove")
    /\ Goes(r, "journal")
    /\ UNCHANGED <<git, lock, records, view, reaper, leaked>>

ClaimRecord(r) ==
    /\ at[r] = "journal"
    /\ claims' = Append(claims, [run |-> r, base |-> view[r].base])
    /\ Goes(r, "bind")
    /\ UNCHANGED <<git, lock, shown, reports, intents, view, reaper, leaked,
                   raced>>

\* The worker starts in the worktree; its recovery is then no longer pending.
Launch(r) ==
    /\ at[r] = "bind" /\ listed
    /\ intents' = intents \ {view[r].resumes}
    /\ Goes(r, "working")
    /\ UNCHANGED <<git, lock, shown, claims, reports, view, reaper, leaked,
                   raced>>

\* A record, the lock row or the launch fails.
ProvisionFails(r) ==
    /\ at[r] \in {"claim", "files", "row", "journal", "bind"}
    /\ Unwinds(r)
    /\ UNCHANGED <<git, lock, shown, records, view, reaper, leaked, raced>>

\* compensate_created: the worktree goes if it is clean, without force,
Undo(r) ==
    /\ at[r] = "undo"
    /\ IF listed /\ dirt = {}
       THEN listed' = FALSE /\ Goes(r, "undoBranch")
       ELSE UNCHANGED listed /\ Goes(r, "release")
    /\ UNCHANGED <<main, remote, branch, dirt, made, exposed, slipped, lock,
                   shown, records, view, reaper, leaked, raced>>

\* and the branch with git branch -d, which keeps one that is not merged.
UndoBranch(r) ==
    /\ at[r] = "undoBranch"
    /\ branch' = IF Exists /\ ~listed /\ branch \subseteq main
                 THEN None ELSE branch
    /\ Goes(r, "release")
    /\ UNCHANGED <<main, remote, listed, dirt, made, exposed, slipped, lock,
                   shown, records, view, reaper, leaked, raced>>

\* Git, or a check of what is there, does not let a workspace be taken back.
CompensationFails(r) ==
    /\ at[r] \in {"scrap", "scrapBranch", "undo", "undoBranch"}
    /\ leaked' = (leaked \/ Exists)
    /\ Goes(r, "release")
    /\ UNCHANGED <<git, lock, shown, records, view, reaper, raced>>

\* The lock is given back, and what the run knew is forgotten.
Release(r) ==
    /\ at[r] = "release"
    /\ lock' = None /\ shown' = FALSE
    /\ view' = [view EXCEPT ![r] = NoView]
    /\ Goes(r, "done")
    /\ UNCHANGED <<git, records, reaper, leaked, raced>>

(***************************************************************************)
(* The worker, and the end of the run.                                     *)
(***************************************************************************)
Fresh == Changes \ made

\* A run is about to restore or to remove what it found clean.
Exposing == \E r \in Runs : at[r] \in {"merge", "abort", "scrap"}

\* The worker, or somebody else who has access, writes and commits.
Edit ==
    /\ listed
    /\ \E c \in Fresh :
          /\ dirt' = dirt \cup {c} /\ made' = made \cup {c}
          /\ exposed' = IF Exposing THEN exposed \cup {c} ELSE exposed
    /\ UNCHANGED <<main, remote, branch, listed, slipped, lock, shown, records,
                   at, view, reaper, leaked, raced>>

Commit ==
    /\ listed /\ dirt # {}
    /\ branch' = branch \cup (dirt \cap Changes)
    /\ dirt' = {}
    /\ slipped' = slipped \cup {r \in Runs : at[r] = "files"}
    /\ UNCHANGED <<main, remote, listed, made, exposed, lock, shown, records,
                   at, view, reaper, leaked, raced>>

\* worker report --status completed: the first one counts, and may come
\* before the work is integrated.
Report(r) ==
    /\ at[r] = "working" /\ reports[r] = None /\ listed
    /\ reports' = [reports EXCEPT ![r] = branch]
    /\ UNCHANGED <<git, lock, shown, claims, intents, at, view, reaper, leaked,
                   raced>>

\* The candidate is merged into main (MainIntegration takes this apart).
Integrate(r) ==
    /\ at[r] = "working" /\ listed /\ dirt = {}
    /\ main' = main \cup branch
    /\ UNCHANGED <<remote, branch, listed, dirt, made, exposed, slipped, lock,
                   shown, records, at, view, reaper, leaked, raced>>

\* The run is over: its outcome is known, or it is not.
End(r) ==
    /\ at[r] = "working"
    /\ lock' = None /\ shown' = FALSE
    /\ view' = [view EXCEPT ![r] = NoView]
    /\ \E p \in {"done", "unknown"} : Goes(r, p)
    /\ UNCHANGED <<git, records, reaper, leaked, raced>>

\* Its recovery is recorded with what the workspace looks like by then.
Capture(r) ==
    /\ at[r] = "unknown"
    /\ intents' = IF listed
                  THEN intents \cup
                       {[run |-> r, base |-> c.base, head |-> branch,
                         dirt |-> dirt] : c \in {d \in Range(claims) : d.run = r}}
                  ELSE intents
    /\ Goes(r, "done")
    /\ UNCHANGED <<git, lock, shown, claims, reports, view, reaper, leaked,
                   raced>>

(***************************************************************************)
(* The disposition of finished worktrees.                                  *)
(***************************************************************************)
\* Mutant: the claims of the lock rows are left out.
Claimants_Recorded == {c.run : c \in Range(claims)}

\* Whoever has a claim, on its lock row or in the journal.
Claimants ==
    {c.run : c \in Range(claims)} \cup (IF shown THEN {lock} ELSE {})

SoleOwner(o) == Claimants = {o} /\ ~(shown /\ lock = o)

\* Mutant: the remote main is not asked.
MergedIntoBoth_Local == branch \subseteq main

\* merged_branch_targets: both the local and the remote main contain it.
MergedIntoBoth == branch \subseteq main /\ branch \subseteq remote

\* worktree_keep_guardrails leaves nothing to keep it for: it is clean, merged
\* into both, and its only owner is over and reported a commit it contains.
Reapable(o) ==
    /\ listed /\ dirt = {}
    /\ MergedIntoBoth
    /\ SoleOwner(o)
    /\ reports[o] # None /\ reports[o] \subseteq branch

ReaperGoes(p) == reaper' = [reaper EXCEPT !.at = p]
ReaperStops == reaper' = [at |-> "idle", head |-> {}, owner |-> None]

\* The evidence is collected and the agent decides to reap,
Approve ==
    /\ reaper.at = "idle"
    /\ \E o \in Runs :
          /\ Reapable(o)
          /\ reaper' = [at |-> "revalidate", head |-> branch, owner |-> o]
    /\ UNCHANGED <<git, lock, shown, records, at, view, leaked, raced>>

\* it is collected again,
Revalidate ==
    /\ reaper.at = "revalidate"
    /\ IF Reapable(reaper.owner) /\ branch = reaper.head
       THEN ReaperGoes("remove") ELSE ReaperStops
    /\ UNCHANGED <<git, lock, shown, records, at, view, leaked, raced>>

\* Mutant: the worktree is removed with --force.
Remove_Forced ==
    /\ reaper.at = "remove"
    /\ listed' = FALSE
    /\ dirt' = {}
    /\ ReaperGoes("branch")
    /\ UNCHANGED <<main, remote, branch, made, exposed, slipped, lock, shown,
                   records, at, view, leaked, raced>>

\* git worktree remove, without force,
Remove ==
    /\ reaper.at = "remove"
    /\ IF listed /\ dirt = {}
       THEN listed' = FALSE /\ ReaperGoes("branch")
       ELSE UNCHANGED listed /\ ReaperStops
    /\ UNCHANGED <<main, remote, branch, dirt, made, exposed, slipped, lock,
                   shown, records, at, view, leaked, raced>>

\* the branch is where it was, merged, and its owner is still the only one,
RevalidateBranch ==
    /\ reaper.at = "branch"
    /\ IF /\ ~listed /\ branch = reaper.head
          /\ MergedIntoBoth
          /\ SoleOwner(reaper.owner)
       THEN ReaperGoes("delete") ELSE ReaperStops
    /\ UNCHANGED <<git, lock, shown, records, at, view, leaked, raced>>

\* git branch -d.
DeleteBranch ==
    /\ reaper.at = "delete"
    /\ branch' = IF Exists /\ ~listed /\ branch \subseteq main
                 THEN None ELSE branch
    /\ ReaperStops
    /\ UNCHANGED <<main, remote, listed, dirt, made, exposed, slipped, lock,
                   shown, records, at, view, leaked, raced>>

(***************************************************************************)
(* The rest of the world.                                                  *)
(***************************************************************************)
MainAdvances ==
    /\ \E c \in Fresh : main' = main \cup {c} /\ made' = made \cup {c}
    /\ UNCHANGED <<remote, branch, listed, dirt, exposed, slipped, lock, shown,
                   records, at, view, reaper, leaked, raced>>

Push ==
    /\ remote' = main
    /\ UNCHANGED <<main, branch, listed, dirt, made, exposed, slipped, lock,
                   shown, records, at, view, reaper, leaked, raced>>

\* Where a run is that has a workspace to claim or to take back.
Creating == {"add", "scrap", "scrapBranch", "snapshot", "claim", "files",
             "row", "journal", "undo", "undoBranch"}

Kill(r) ==
    /\ r \in Mortal
    /\ at[r] \notin {"idle", "done", "dead"}
    /\ leaked' = (leaked \/ (at[r] \in Creating /\ Exists /\ claims = <<>>))
    /\ view' = [view EXCEPT ![r] = NoView]
    /\ Goes(r, "dead")
    /\ UNCHANGED <<git, lock, shown, records, reaper, raced>>

\* The lock of a dead run is recovered.
Clean ==
    /\ lock # None /\ at[lock] = "dead"
    /\ lock' = None /\ shown' = FALSE
    /\ UNCHANGED <<git, records, at, view, reaper, leaked, raced>>

ReaperDies ==
    /\ reaper.at # "idle"
    /\ ReaperStops
    /\ UNCHANGED <<git, lock, shown, records, at, view, leaked, raced>>

Next ==
    \/ \E r \in Runs :
          \/ Start(r) \/ Validate(r) \/ PrimaryRefused(r) \/ Look(r)
          \/ Reattach(r) \/ ReattachFails(r) \/ Create(r) \/ CreateFails(r)
          \/ Scrap(r) \/ ScrapBranch(r) \/ Inspect(r) \/ Refresh(r)
          \/ Merge(r) \/ MergeConflicts(r) \/ Abort(r) \/ MergeFails(r)
          \/ Snapshot(r) \/ SnapshotUnreadable(r)
          \/ ClaimHead(r) \/ Claim(r) \/ ClaimRow(r) \/ ClaimRecord(r)
          \/ Launch(r) \/ ProvisionFails(r) \/ Undo(r) \/ UndoBranch(r)
          \/ CompensationFails(r) \/ Release(r)
          \/ Report(r) \/ Integrate(r) \/ End(r) \/ Capture(r) \/ Kill(r)
    \/ Edit \/ Commit
    \/ Approve \/ Revalidate \/ Remove \/ RevalidateBranch \/ DeleteBranch
    \/ ReaperDies
    \/ MainAdvances \/ Push \/ Clean

Spec == Init /\ [][Next]_vars

(***************************************************************************)
(* Properties.                                                             *)
(***************************************************************************)
\* Nothing that was ever written is lost: it is uncommitted, on the branch or
\* on main, whatever provisioning, refresh, compensation and disposition do to
\* the workspace.  Only what is written while a refresh is merging, or a
\* failed creation is being taken back, may be: an abort restores the files
\* of the merge, and the removal is by force.
NothingLost ==
    made \subseteq dirt \cup (IF Exists THEN branch ELSE {}) \cup main
                   \cup exposed

\* A provisioning that fails does not leave half a workspace that would refuse
\* every later run: a workspace without a claim is being created, was created
\* by a run that was killed, could not read it or was not able to take it
\* back, or has work of somebody else in it.
NothingHalfMade ==
    \/ ~Exists \/ claims # <<>> \/ leaked
    \/ \E r \in Runs : at[r] \in Creating
    \/ dirt # {} \/ ~(branch \subseteq main)

\* What a run claims contains the base it selected and is what was checked:
\* clean for an ordinary run that found it, and for a recovery that did, the
\* very files that were recorded with it, on the very head, unless somebody
\* committed between the two looks of the claim.
ClaimedAsChecked ==
    [][\A r \in Runs : at[r] = "files" /\ at'[r] = "row" =>
          /\ view[r].base \subseteq branch
          /\ ~view[r].created =>
                IF Resumes(r)
                THEN /\ dirt = view[r].resumes.dirt
                     /\ view[r].resumes.head \subseteq branch
                     /\ branch = view[r].resumes.head \/ r \in slipped
                ELSE dirt = {}]_vars

\* The disposition takes no worktree away from a run that shows a claim,
\* unless the claim was written between its last check and the removal, and
\* deletes no branch whose commits are not on the remote main: a branch that
\* was created again behind its check goes only if main has it.
ReapedIsOver ==
    [][/\ reaper.at = "remove" /\ reaper'.at = "branch" => ~shown \/ raced
       /\ reaper.at = "delete" /\ Exists /\ branch' = None =>
             branch \subseteq IF branch = reaper.head THEN remote ELSE main]_vars

(***************************************************************************)
(* The inductive invariant behind NothingLost, ClaimedAsChecked and        *)
(* ReapedIsOver.                                                           *)
(***************************************************************************)
\* A run that is provisioning or at work has the lock, so there is one.
Resting == {"idle", "done", "dead", "unknown"}
OneAtWork == \A r \in Runs : at[r] \notin Resting => lock = r

\* What a run knows agrees with how far it has got.
CheckInv(r) ==
    /\ view[r].base \subseteq main
    /\ at[r] \in {"refresh", "merge"} => ~Resumes(r)
    /\ ~view[r].created /\ Resumes(r) /\ at[r] \in {"snapshot","claim","files"}
          => view[r].head = view[r].resumes.head
    /\ at[r] \in {"claim", "files"} /\ ~view[r].created =>
          view[r].dirt = IF Resumes(r) THEN view[r].resumes.dirt ELSE {}

\* The head that a claim has read only grows, by what slips in behind it.
HeadInv(r) ==
    at[r] = "files" /\ listed =>
        /\ view[r].base \subseteq view[r].head
        /\ view[r].head \subseteq branch
        /\ branch = view[r].head \/ r \in slipped

\* What is restored or removed by force was clean when it was looked at.
CleanInv(r) ==
    /\ at[r] = "add" => ~listed
    /\ at[r] \in {"merge", "abort", "scrap"} =>
          dirt \cap Changes \subseteq exposed

\* What the disposition has checked still holds, or was raced.
ReaperInv ==
    /\ reaper.at = "remove" /\ shown => raced
    /\ reaper.at = "delete" => reaper.head \subseteq remote

WorkspaceInv ==
    /\ TypeOK
    /\ remote \subseteq main
    /\ listed => Exists
    /\ ~listed => dirt = {}
    /\ OneAtWork
    /\ NothingLost
    /\ \A r \in Runs : CheckInv(r) /\ HeadInv(r) /\ CleanInv(r)
    /\ ReaperInv
=============================================================================
