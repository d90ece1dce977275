-------------------------- MODULE WorkspacesProofs --------------------------
(***************************************************************************)
(* Proofs about Workspaces: type correctness, that no written work is ever *)
(* lost, that a claim is what was checked, and that the disposition takes  *)
(* only what is over, for any number of runs and changes.                  *)
(***************************************************************************)
EXTENDS Workspaces, TLAPS

\* The steps of provisioning, grouped as Next lists them.
Provisions(r) ==
    \/ Start(r) \/ Validate(r) \/ PrimaryRefused(r) \/ Look(r)
    \/ Reattach(r) \/ ReattachFails(r) \/ Create(r) \/ CreateFails(r)
    \/ Scrap(r) \/ ScrapBranch(r) \/ Inspect(r) \/ Refresh(r)
    \/ Merge(r) \/ MergeConflicts(r) \/ Abort(r) \/ MergeFails(r)
    \/ Snapshot(r) \/ SnapshotUnreadable(r)

Claiming(r) ==
    \/ ClaimHead(r) \/ Claim(r) \/ ClaimRow(r) \/ ClaimRecord(r) \/ Launch(r)
    \/ ProvisionFails(r) \/ Undo(r) \/ UndoBranch(r) \/ CompensationFails(r)
    \/ Release(r) \/ Report(r) \/ Integrate(r) \/ End(r) \/ Capture(r) \/ Kill(r)

Others ==
    \/ Edit \/ Commit
    \/ Approve \/ Revalidate \/ Remove \/ RevalidateBranch \/ DeleteBranch
    \/ ReaperDies
    \/ MainAdvances \/ Push \/ Clean

LEMMA NextGroups ==
    Next <=> (\E r \in Runs : Provisions(r) \/ Claiming(r)) \/ Others
BY DEF Next, Provisions, Claiming, Others

-----------------------------------------------------------------------------
(* Types *)

\* The steps leave the values in their types; a place reached is a place.
LEMMA GoesType ==
    ASSUME at \in [Runs -> Places], NEW r \in Runs, NEW p \in Places, Goes(r, p)
    PROVE  at' \in [Runs -> Places]
BY DEF Goes

LEMMA ClaimOfRun == ASSUME TypeOK, NEW c \in Range(claims) PROVE c \in Claims
BY DEF TypeOK, Range

LEMMA NoViewType == NoView \in Views
BY DEF NoView, Views, Commits, Dirt

\* A worktree is listed on a branch, which makes HEAD a commit.
TypeInv == TypeOK /\ (listed => Exists)

LEMMA ProvisionTypes ==
    ASSUME TypeInv, NEW r \in Runs, Provisions(r)
    PROVE  TypeInv'
<1> USE DEF TypeOK, TypeInv, Exists
<1>1. CASE Start(r)
  <2>1. PICK i \in {None} \cup Recoveries :
            view' = [view EXCEPT ![r].base = main, ![r].resumes = i]
    BY <1>1 DEF Start
  <2>2. [view[r] EXCEPT !.base = main, !.resumes = i] \in Views
    BY view[r] \in Views DEF Views
  <2>3. view' \in [Runs -> Views] BY <2>1, <2>2
  <2>3a. at' \in [Runs -> Places] BY <1>1, GoesType DEF Start, Places
  <2>4. QED BY <1>1, <2>3, <2>3a DEF Start, git, records
<1>2. CASE Validate(r) \/ PrimaryRefused(r) \/ ReattachFails(r) \/ MergeFails(r)
           \/ SnapshotUnreadable(r)
  <2>1. at' \in [Runs -> Places]
    BY <1>2, GoesType DEF Validate, PrimaryRefused, ReattachFails, MergeFails,
       SnapshotUnreadable, Places
  <2>2. leaked' \in BOOLEAN
    BY <1>2 DEF Validate, PrimaryRefused, ReattachFails, MergeFails,
       SnapshotUnreadable, Views
  <2>3. QED
    BY <1>2, <2>1, <2>2 DEF Validate, PrimaryRefused, ReattachFails, MergeFails,
       SnapshotUnreadable, git, records
<1>3. CASE Look(r)
  <2>1. at' \in [Runs -> Places] BY <1>3 DEF Look, Goes, Places
  <2>2. QED BY <1>3, <2>1 DEF Look, git, records
<1>4. CASE Reattach(r)
  BY <1>4 DEF Reattach, Goes, Places, records
<1>5. CASE Create(r)
  <2>1. view[r].base \in Commits BY DEF Views
  <2>2. [view[r] EXCEPT !.created = TRUE, !.head = view[r].base] \in Views
    BY <2>1, view[r] \in Views DEF Views
  <2>3. view' \in [Runs -> Views] BY <1>5, <2>2 DEF Create
  <2>4. branch' # None
    BY <1>5, <2>1, WorkspaceAssumption DEF Create, Commits
  <2>5. QED BY <1>5, <2>1, <2>3, <2>4 DEF Create, Goes, Places, records
<1>6. CASE CreateFails(r)
  <2>1. view[r].base \in Commits /\ view[r].base # None
    BY WorkspaceAssumption DEF Views, Commits
  <2>2. QED BY <1>6, <2>1 DEF CreateFails, Goes, Places, records
<1>7. CASE Scrap(r)
  <2>1. dirt' \in Dirt BY <1>7 DEF Scrap, Dirt
  <2>2. QED BY <1>7, <2>1 DEF Scrap, Goes, Places, records
<1>8. CASE ScrapBranch(r)
  BY <1>8 DEF ScrapBranch, Goes, Places, records
<1>9. CASE Inspect(r)
  <2>1. at' \in [Runs -> Places] BY <1>9 DEF Inspect, Goes, Places
  <2>2. view' \in [Runs -> Views]
    <3>1. CASE Adoptable(r)
      <4>1. branch \in Commits BY <3>1 DEF Adoptable
      <4>2. [view[r] EXCEPT !.head = branch] \in Views
        BY <4>1, view[r] \in Views DEF Views
      <4>3. QED BY <1>9, <3>1, <4>2 DEF Inspect
    <3>2. CASE ~Adoptable(r)
      BY <1>9, <3>2 DEF Inspect
    <3>3. QED BY <3>1, <3>2
  <2>3. QED BY <1>9, <2>1, <2>2 DEF Inspect, git, records
<1>10. CASE Refresh(r)
  <2>1. at' \in [Runs -> Places] BY <1>10 DEF Refresh, Goes, Places
  <2>2. QED BY <1>10, <2>1 DEF Refresh, git, records
<1>11. CASE Merge(r)
  <2>1. branch \cup view[r].base \in Commits
    BY <1>11 DEF Merge, Views, Commits
  <2>2. branch \cup view[r].base # None
    BY <2>1, WorkspaceAssumption DEF Commits
  <2>3. view' \in [Runs -> Views] BY <1>11, <2>1, ZenonT(40) DEF Merge, Views
  <2>4. QED BY <1>11, <2>1, <2>2, <2>3 DEF Merge, Goes, Places, records
<1>12. CASE MergeConflicts(r) \/ Abort(r)
  <2>1. dirt' \in Dirt BY <1>12 DEF MergeConflicts, Abort, Dirt
  <2>2. QED BY <1>12, <2>1 DEF MergeConflicts, Abort, Goes, Places, records
<1>13. CASE Snapshot(r)
  <2>1. at' \in [Runs -> Places] BY <1>13 DEF Snapshot, Goes, Places
  <2>2. view' = view \/ view' = [view EXCEPT ![r].dirt = dirt]
    BY <1>13 DEF Snapshot
  <2>2a. view' \in [Runs -> Views] BY <2>2, SMTT(30) DEF Views
  <2>3. QED BY <1>13, <2>1, <2>2a DEF Snapshot, git, records
<1>14. QED
  BY <1>1, <1>2, <1>3, <1>4, <1>5, <1>6, <1>7, <1>8, <1>9, <1>10, <1>11, <1>12,
     <1>13 DEF Provisions

LEMMA ClaimingTypes ==
    ASSUME TypeInv, NEW r \in Runs, Claiming(r)
    PROVE  TypeInv'
<1> USE DEF TypeOK, TypeInv, Exists
<1>1. CASE ClaimHead(r) \/ Claim(r) \/ ProvisionFails(r) \/ CompensationFails(r)
  <2>1. at' \in [Runs -> Places]
    BY <1>1
       DEF ClaimHead, Claim, ProvisionFails, CompensationFails, Unwinds, Goes,
           Places
  <2>2. leaked' \in BOOLEAN
    BY <1>1 DEF ClaimHead, Claim, ProvisionFails, CompensationFails
  <2>3. QED
    BY <1>1, <2>1, <2>2
       DEF ClaimHead, Claim, ProvisionFails, CompensationFails, git, records
<1>2. CASE ClaimRow(r)
  BY <1>2 DEF ClaimRow, Goes, Places, git, records
<1>3. CASE ClaimRecord(r)
  <2>1. [run |-> r, base |-> view[r].base] \in Claims BY DEF Claims, Views
  <2>2. claims' \in Seq(Claims) BY <1>3, <2>1 DEF ClaimRecord
  <2>3. QED BY <1>3, <2>2 DEF ClaimRecord, Goes, Places, git
<1>4. CASE Launch(r)
  BY <1>4 DEF Launch, Goes, Places, git
<1>5. CASE Undo(r)
  <2>1. at' \in [Runs -> Places] BY <1>5 DEF Undo, Goes, Places
  <2>2. listed' \in BOOLEAN /\ (listed' => listed) BY <1>5 DEF Undo
  <2>3. QED BY <1>5, <2>1, <2>2 DEF Undo, records
<1>6. CASE UndoBranch(r)
  <2>1. branch' \in {None} \cup Commits BY <1>6 DEF UndoBranch
  <2>2. listed => branch' # None BY <1>6 DEF UndoBranch
  <2>3. at' \in [Runs -> Places] BY <1>6, GoesType DEF UndoBranch, CompensationFails, Places
  <2>4. QED BY <1>6, <2>1, <2>2, <2>3 DEF UndoBranch, CompensationFails, records
<1>7. CASE Release(r) \/ End(r) \/ Kill(r)
  <2>1. at' \in [Runs -> Places] BY <1>7 DEF Release, End, Kill, Goes, Places
  <2>2. view' \in [Runs -> Views] BY <1>7, NoViewType DEF Release, End, Kill
  <2>3. leaked' \in BOOLEAN BY <1>7 DEF Release, End, Kill
  <2>4. lock' \in {None} \cup Runs /\ shown' \in BOOLEAN
    BY <1>7 DEF Release, End, Kill
  <2>5. UNCHANGED <<git, records, reaper, raced>>
    BY <1>7 DEF Release, End, Kill
  <2>6. QED BY <2>1, <2>2, <2>3, <2>4, <2>5 DEF git, records
<1>8. CASE Report(r)
  BY <1>8 DEF Report, git
<1>9. CASE Integrate(r)
  <2>1. main' \in Commits BY <1>9 DEF Integrate, Commits
  <2>2. QED BY <1>9, <2>1 DEF Integrate, records
<1>10. CASE Capture(r)
  <2>1. intents' \subseteq Recoveries
    <3>1. CASE listed
      <4>1. branch \in Commits BY <3>1
      <4>2. \A c \in Range(claims) :
               [run |-> r, base |-> c.base, head |-> branch, dirt |-> dirt]
                  \in Recoveries
        BY <4>1, ClaimOfRun DEF Claims, Recoveries
      <4>3. QED BY <1>10, <3>1, <4>2 DEF Capture
    <3>2. CASE ~listed
      BY <1>10, <3>2 DEF Capture
    <3>3. QED BY <3>1, <3>2
  <2>2. QED BY <1>10, <2>1 DEF Capture, Goes, Places, git
<1>11. QED
  BY <1>1, <1>2, <1>3, <1>4, <1>5, <1>6, <1>7, <1>8, <1>9, <1>10 DEF Claiming

ReaperType == [at : {"idle", "revalidate", "remove", "branch", "delete"},
               head : Commits, owner : {None} \cup Runs]

LEMMA StopsType == ASSUME ReaperStops PROVE reaper' \in ReaperType
<1>1. {} \in Commits BY DEF Commits
<1>2. QED BY <1>1 DEF ReaperStops, ReaperType

LEMMA GoesToType ==
    ASSUME reaper \in ReaperType, 
           NEW p \in {"remove", "branch", "delete"}, ReaperGoes(p)
    PROVE  reaper' \in ReaperType
BY DEF ReaperGoes, ReaperType

LEMMA OtherTypes ==
    ASSUME TypeInv, Others
    PROVE  TypeInv'
<1> USE DEF TypeOK, TypeInv, Exists
<1>1. CASE Edit
  <2>1. dirt' \in Dirt /\ made' \in Commits /\ exposed' \in Commits
    BY <1>1 DEF Edit, Fresh, Dirt, Commits
  <2>2. QED BY <1>1, <2>1 DEF Edit, records
<1>2. CASE Commit
  <2>1. branch' \in Commits BY <1>2 DEF Commit, Commits
  <2>2. branch' # None BY <2>1, WorkspaceAssumption DEF Commits
  <2>3. dirt' \in Dirt /\ slipped' \subseteq Runs BY <1>2 DEF Commit, Dirt
  <2>4. QED BY <1>2, <2>1, <2>2, <2>3 DEF Commit, records
<1>3. CASE Approve
  <2>1. PICK o \in Runs :
            Reapable(o) /\ reaper' = [at |-> "revalidate", head |-> branch,
                                      owner |-> o]
    BY <1>3 DEF Approve
  <2>2. branch \in Commits BY <2>1 DEF Reapable
  <2>3. QED BY <1>3, <2>1, <2>2 DEF Approve, git, records
<1>4. CASE Revalidate \/ RevalidateBranch \/ ReaperDies
  <2>1. ReaperStops \/ ReaperGoes("remove") \/ ReaperGoes("delete")
    BY <1>4 DEF Revalidate, RevalidateBranch, ReaperDies
  <2>1a. reaper' \in ReaperType
    BY <2>1, StopsType, GoesToType DEF ReaperType
  <2>2. QED
    BY <1>4, <2>1a DEF Revalidate, RevalidateBranch, ReaperDies, ReaperType,
       git, records
<1>5. CASE Remove \/ DeleteBranch
  <2>1. reaper' \in ReaperType
    BY <1>5, StopsType, GoesToType DEF Remove, DeleteBranch, ReaperType
  <2>2. branch' \in {None} \cup Commits /\ listed' \in BOOLEAN
    BY <1>5 DEF Remove, DeleteBranch
  <2>3. listed' => branch' # None BY <1>5 DEF Remove, DeleteBranch
  <2>4. QED
    BY <1>5, <2>1, <2>2, <2>3 DEF Remove, DeleteBranch, ReaperType, records
<1>6. CASE MainAdvances
  <2>1. main' \in Commits /\ made' \in Commits
    BY <1>6 DEF MainAdvances, Fresh, Commits
  <2>2. QED BY <1>6, <2>1 DEF MainAdvances, records, git
<1>7. CASE Push \/ Clean
  <2>1. remote' \in Commits /\ lock' \in {None} \cup Runs /\ shown' \in BOOLEAN
    BY <1>7 DEF Push, Clean, git
  <2>2. listed' = listed /\ branch' = branch /\ UNCHANGED <<main, dirt, made, exposed, slipped>>
    BY <1>7 DEF Push, Clean, git
  <2>3. UNCHANGED <<claims, reports, intents, at, view, reaper, leaked, raced>>
    BY <1>7 DEF Push, Clean, records
  <2>4. QED BY <2>1, <2>2, <2>3
<1>8. QED
  BY <1>1, <1>2, <1>3, <1>4, <1>5, <1>6, <1>7 DEF Others

LEMMA TypeStep == TypeInv /\ [Next]_vars => TypeInv'
<1> SUFFICES ASSUME TypeInv, [Next]_vars PROVE TypeInv'
  OBVIOUS
<1>1. CASE Next
  BY <1>1, NextGroups, ProvisionTypes, ClaimingTypes, OtherTypes
<1>2. CASE UNCHANGED vars
  BY <1>2 DEF TypeInv, TypeOK, Exists, vars, git, records
<1>3. QED BY <1>1, <1>2

LEMMA TypeInit == Init => TypeInv
<1> SUFFICES ASSUME Init PROVE TypeInv
  OBVIOUS
<1>1. {} \in Commits /\ {} \in Dirt BY DEF Commits, Dirt
<1>2. view \in [Runs -> Views] BY NoViewType DEF Init
<1>3. at \in [Runs -> Places] BY DEF Init, Places
<1>4. claims \in Seq(Claims) BY DEF Init
<1>5. QED BY <1>1, <1>2, <1>3, <1>4 DEF Init, TypeInv, TypeOK, Exists

\* The variables always have values of their types, and a listed worktree has
\* a branch.
THEOREM TypeCorrect == Spec => []TypeOK
<1>1. TypeInv => TypeOK BY DEF TypeInv
<1>2. QED BY <1>1, TypeInit, TypeStep, PTL DEF Spec
-----------------------------------------------------------------------------
(* One run at work *)

\* A run touches its own place and view.
LEMMA OwnStep ==
    ASSUME TypeInv, NEW r \in Runs, Provisions(r) \/ Claiming(r),
           NEW q \in Runs, q # r
    PROVE  at'[q] = at[q] /\ view'[q] = view[q]
<1> USE DEF TypeInv, TypeOK, Goes
<1>1. CASE Provisions(r)
  BY <1>1
     DEF Provisions, Start, Validate, PrimaryRefused, Look, Reattach,
         ReattachFails, Create, CreateFails, Scrap, ScrapBranch, Inspect,
         Refresh, Merge, MergeConflicts, Abort, MergeFails, Snapshot,
         SnapshotUnreadable
<1>2. CASE Claiming(r)
  BY <1>2
    DEF Claiming, ClaimHead, Claim, ClaimRow, ClaimRecord, Launch, ProvisionFails,
        Unwinds, Undo, UndoBranch, CompensationFails, Release, Report, Integrate,
        End, Capture, Kill
<1>3. QED BY <1>1, <1>2

LEMMA OneAtWorkRun ==
    ASSUME TypeInv, OneAtWork, NEW r \in Runs, Provisions(r) \/ Claiming(r)
    PROVE  OneAtWork'
<1> USE DEF TypeInv, TypeOK, Goes
<1>1. ASSUME NEW q \in Runs, q # r PROVE at'[q] = at[q]
  BY <1>1, OwnStep
<1>2. CASE Start(r)
  <2>1. \A q \in Runs : at[q] \in Resting
    BY <1>2, WorkspaceAssumption DEF Start, OneAtWork
  <2>2. QED BY <1>1, <1>2, <2>1 DEF Start, OneAtWork
<1>3. CASE Release(r) \/ End(r)
  <2>1. at[r] \notin Resting /\ at'[r] \in Resting
    BY <1>3 DEF Release, End, Resting
  <2>2. \A q \in Runs : q # r => at[q] \in Resting
    BY <2>1, WorkspaceAssumption DEF OneAtWork
  <2>3. QED BY <1>1, <2>1, <2>2 DEF OneAtWork
<1>4. CASE lock' = lock /\ (at'[r] \in Resting \/ at[r] \notin Resting)
  BY <1>1, <1>4 DEF OneAtWork
<1>5. CASE Capture(r)
  BY <1>4, <1>5 DEF Capture, Resting
<1>6. CASE Provisions(r) /\ ~Start(r)
  BY <1>4, <1>6
     DEF Provisions, Validate, PrimaryRefused, Look, Reattach,
         ReattachFails, Create, CreateFails, Scrap, ScrapBranch, Inspect,
         Refresh, Merge, MergeConflicts, Abort, MergeFails, Snapshot,
         SnapshotUnreadable, Resting
<1>7. CASE Claiming(r) /\ ~Release(r) /\ ~End(r) /\ ~Capture(r)
  BY <1>4, <1>7
    DEF Claiming, ClaimHead, Claim, ClaimRow, ClaimRecord, Launch, ProvisionFails,
        Undo, UndoBranch, CompensationFails, Report, Integrate, Kill, Resting
<1>8. QED BY <1>2, <1>3, <1>5, <1>6, <1>7

LEMMA OneAtWorkOthers ==
    ASSUME TypeInv, OneAtWork, Others
    PROVE  OneAtWork' /\ UNCHANGED <<at, view>>
<1>1. UNCHANGED <<at, view>>
  BY DEF Others, Edit, Commit, Approve, Revalidate, Remove, RevalidateBranch,
     DeleteBranch, ReaperDies, MainAdvances, Push, Clean
<1>2. CASE Clean
  <2>1. \A q \in Runs : at[q] \in Resting
    BY <1>2 DEF Clean, OneAtWork, Resting
  <2>2. QED BY <1>1, <2>1 DEF OneAtWork
<1>3. CASE ~Clean
  <2>1. lock' = lock
    BY <1>3 DEF Others, Edit, Commit, Approve, Revalidate, Remove,
       RevalidateBranch, DeleteBranch, ReaperDies, MainAdvances, Push
  <2>2. QED BY <1>1, <2>1 DEF OneAtWork
<1>4. QED BY <1>2, <1>3

\* While a run is at work, the steps of the others leave the workspace alone.
LEMMA RestLeavesGit ==
    ASSUME TypeInv, OneAtWork, NEW r \in Runs, Provisions(r) \/ Claiming(r),
           NEW q \in Runs, q # r, at[q] \notin Resting
    PROVE  UNCHANGED git
<1>1. at[r] \in Resting BY DEF OneAtWork
<1>2. QED
  BY <1>1
     DEF Resting, Provisions, Start, Validate, PrimaryRefused, Look, Reattach,
         ReattachFails, Create, CreateFails, Scrap, ScrapBranch, Inspect,
         Refresh, Merge, MergeConflicts, Abort, MergeFails, Snapshot,
         SnapshotUnreadable, Claiming, ClaimHead, Claim, ClaimRow, ClaimRecord,
         Launch, ProvisionFails, Undo, UndoBranch, CompensationFails, Release,
         Report, Integrate, End, Capture, Kill

-----------------------------------------------------------------------------
(* What is restored or removed by force was clean *)

CleanAll ==
    /\ ~listed => dirt = {}
    /\ \A r \in Runs : CleanInv(r)

\* The places at which CleanInv requires something.
Risky == {"add", "merge", "abort", "scrap"}

\* The files only become fewer, or those that come are exposed.
LEMMA CleanFrame ==
    ASSUME NEW q \in Runs, CleanInv(q),
           at'[q] = at[q] \/ at'[q] \notin Risky,
           listed' => listed \/ at'[q] # "add",
           dirt' \cap Changes \subseteq dirt \cap Changes, exposed' = exposed
    PROVE  CleanInv(q)'
BY DEF CleanInv, Risky

LEMMA CleanRun ==
    ASSUME TypeInv, OneAtWork, CleanAll, NEW r \in Runs,
           Provisions(r) \/ Claiming(r)
    PROVE  CleanAll'
<1> USE DEF TypeInv, TypeOK, Goes
<1>1. ASSUME NEW q \in Runs, q # r
      PROVE  CleanInv(q)'
  <2>1. at'[q] = at[q] BY <1>1, OwnStep
  <2>2. CASE at[q] \in Resting BY <2>1, <2>2 DEF Resting, CleanInv
  <2>3. CASE at[q] \notin Resting
    <3>1. UNCHANGED git BY <1>1, <2>3, RestLeavesGit
    <3>2. QED BY <2>1, <3>1, CleanFrame DEF CleanAll, git
  <2>4. QED BY <2>2, <2>3
<1>2. CleanInv(r) /\ (~listed => dirt = {}) BY DEF CleanAll
<1>3. SUFFICES (~listed' => dirt' = {}) /\ CleanInv(r)'
  BY <1>1 DEF CleanAll
<1>4. CASE Look(r)
  BY <1>2, <1>4 DEF Look, CleanInv, git
<1>5. CASE Refresh(r)
  BY <1>2, <1>5 DEF Refresh, CleanInv, git
<1>6. CASE MergeConflicts(r)
  <2>1. dirt' \cap Changes = dirt \cap Changes
    BY <1>6, WorkspaceAssumption DEF MergeConflicts
  <2>2. QED BY <1>2, <1>6, <2>1 DEF MergeConflicts, CleanInv
<1>7. CASE CreateFails(r)
  <2>1. ~listed /\ dirt = {} BY <1>2, <1>7 DEF CreateFails, CleanInv
  <2>2. dirt' = {} /\ at'[r] = "scrap" BY <1>7, <2>1 DEF CreateFails
  <2>3. QED BY <2>2 DEF CleanInv
<1>8. CASE Reattach(r) \/ Create(r)
  <2>1. listed' /\ at'[r] \notin Risky
    BY <1>8 DEF Reattach, Create, Risky
  <2>2. QED BY <2>1 DEF CleanInv, Risky
<1>9. CASE Scrap(r) \/ Abort(r) \/ Undo(r)
  <2>1. /\ dirt' \subseteq dirt /\ at'[r] \notin Risky
        /\ ~listed' => dirt' = {}
    BY <1>2, <1>9 DEF Scrap, Abort, Undo, Risky
  <2>2. QED BY <2>1 DEF CleanInv, Risky
<1>10. CASE UNCHANGED <<listed, dirt>> /\ (at'[r] = at[r] \/ at'[r] \notin Risky)
            /\ UNCHANGED exposed
  BY <1>2, <1>10, CleanFrame
<1>11. CASE Provisions(r) /\ ~(Look(r) \/ Refresh(r) \/ MergeConflicts(r)
            \/ CreateFails(r) \/ Reattach(r) \/ Create(r) \/ Scrap(r) \/ Abort(r))
  BY <1>10, <1>11
     DEF Provisions, Start, Validate, PrimaryRefused, ReattachFails, ScrapBranch,
         Inspect, Merge, MergeFails, Snapshot, SnapshotUnreadable, Risky, git
<1>12. CASE Claiming(r) /\ ~Undo(r)
  BY <1>10, <1>12
     DEF Claiming, ClaimHead, Claim, ClaimRow, ClaimRecord, Launch,
         ProvisionFails, Unwinds, UndoBranch, CompensationFails, Release, Report,
         Integrate, End, Capture, Kill, Risky, git
<1>13. QED
  BY <1>4, <1>5, <1>6, <1>7, <1>8, <1>9, <1>11, <1>12

LEMMA CleanOthers ==
    ASSUME TypeInv, OneAtWork, CleanAll, Others
    PROVE  CleanAll'
<1>1. at' = at BY OneAtWorkOthers
<1>2. CASE Edit
  <2>1. PICK c \in Fresh :
            /\ dirt' = dirt \cup {c}
            /\ exposed' = IF Exposing THEN exposed \cup {c} ELSE exposed
    BY <1>2 DEF Edit
  <2>2. listed /\ listed' BY <1>2 DEF Edit
  <2>3. ASSUME NEW q \in Runs PROVE CleanInv(q)'
    <3>1. CleanInv(q) BY DEF CleanAll
    <3>2. CASE at[q] \in {"merge", "abort", "scrap"}
      <4>1. Exposing BY <3>2 DEF Exposing
      <4>2. QED BY <1>1, <2>1, <3>1, <3>2, <4>1 DEF CleanInv
    <3>3. CASE at[q] \notin {"merge", "abort", "scrap"}
      BY <1>1, <2>2, <3>1, <3>3 DEF CleanInv
    <3>4. QED BY <3>2, <3>3
  <2>4. QED BY <2>2, <2>3 DEF CleanAll
<1>3. CASE ~Edit
  <2>1. /\ dirt' \subseteq dirt /\ exposed' = exposed
        /\ listed' => listed
    BY <1>3
       DEF Others, Commit, Approve, Revalidate, Remove, RevalidateBranch,
           DeleteBranch, ReaperDies, MainAdvances, Push, Clean, git, CleanAll
  <2>2. ASSUME NEW q \in Runs PROVE CleanInv(q)'
    BY <1>1, <2>1, CleanFrame DEF CleanAll
  <2>3. ~listed' => dirt' = {}
    BY <1>3
       DEF Others, Commit, Approve, Revalidate, Remove, RevalidateBranch,
           DeleteBranch, ReaperDies, MainAdvances, Push, Clean, git, CleanAll
  <2>4. QED BY <2>2, <2>3 DEF CleanAll
<1>4. QED BY <1>2, <1>3

-----------------------------------------------------------------------------
(* Git: nothing written is lost, and the remote main follows the local one *)

Bases == \A r \in Runs : view[r].base \subseteq main
GitInv == remote \subseteq main /\ NothingLost

\* A branch that is taken away is on main, or one that is made is.
LEMMA BranchOnMain ==
    ASSUME GitInv, UNCHANGED <<main, remote, dirt, made, exposed>>,
           \/ branch' = branch
           \/ ~Exists
           \/ branch' = None /\ branch \subseteq main
    PROVE  GitInv'
BY DEF GitInv, NothingLost, Exists

\* Nothing else of Git becomes smaller.
LEMMA GitGrows ==
    ASSUME GitInv, Exists => Exists' /\ branch \subseteq branch',
           remote' \subseteq main', main \subseteq main', dirt \subseteq dirt',
           exposed \subseteq exposed',
           made' \subseteq made \cup dirt' \cup main'
    PROVE  GitInv'
BY DEF GitInv, NothingLost, Exists

LEMMA GitProvisions ==
    ASSUME TypeInv, GitInv, Bases, NEW r \in Runs, CleanInv(r), Provisions(r)
    PROVE  GitInv'
<1>1. CASE UNCHANGED git
  BY <1>1 DEF git, GitInv, NothingLost, Exists
<1>2. CASE Reattach(r) \/ Create(r) \/ CreateFails(r)
  BY <1>2, BranchOnMain DEF Reattach, Create, CreateFails
<1>3. CASE Scrap(r) \/ Abort(r)
  <2>1. made \subseteq Changes BY DEF TypeInv, TypeOK, Commits
  <2>2. made \cap dirt \subseteq exposed
    BY <1>3, <2>1 DEF Scrap, Abort, CleanInv
  <2>3. UNCHANGED <<main, remote, branch, made, exposed>>
    BY <1>3 DEF Scrap, Abort
  <2>4. QED BY <2>2, <2>3 DEF GitInv, NothingLost, Exists
<1>4. CASE ScrapBranch(r)
  <2>1. branch' = branch \/ (branch' = None /\ branch \subseteq main)
    BY <1>4 DEF ScrapBranch, Bases
  <2>2. QED BY <1>4, <2>1, BranchOnMain DEF ScrapBranch
<1>5. CASE Merge(r)
  <2>1. Exists' BY <1>5, ProvisionTypes DEF Merge, TypeInv, Provisions
  <2>2. QED BY <1>5, <2>1, GitGrows DEF Merge, GitInv
<1>6. CASE MergeConflicts(r)
  BY <1>6, GitGrows DEF MergeConflicts, GitInv, Exists
<1>7. QED
  BY <1>1, <1>2, <1>3, <1>4, <1>5, <1>6
     DEF Provisions, Start, Validate, PrimaryRefused, Look, ReattachFails,
         Inspect, Refresh, MergeFails, Snapshot, SnapshotUnreadable

LEMMA GitClaiming ==
    ASSUME TypeInv, GitInv, NEW r \in Runs, Claiming(r)
    PROVE  GitInv'
<1>1. CASE UNCHANGED <<main, remote, branch, dirt, made, exposed>>
  BY <1>1 DEF GitInv, NothingLost, Exists
<1>2. CASE UndoBranch(r)
  <2>1. branch' = branch \/ (branch' = None /\ branch \subseteq main)
    BY <1>2 DEF UndoBranch
  <2>2. QED BY <1>2, <2>1, BranchOnMain DEF UndoBranch
<1>3. CASE Integrate(r)
  BY <1>3, GitGrows DEF Integrate, GitInv, Exists
<1>4. QED
  BY <1>1, <1>2, <1>3
     DEF Claiming, ClaimHead, Claim, ClaimRow, ClaimRecord, Launch, ProvisionFails, Undo,
         CompensationFails, Release, Report, End, Capture, Kill, git

LEMMA GitOthers ==
    ASSUME TypeInv, GitInv, Others
    PROVE  GitInv'
<1>1. CASE UNCHANGED <<main, remote, branch, dirt, made, exposed>>
  BY <1>1 DEF GitInv, NothingLost, Exists
<1>2. CASE Edit \/ MainAdvances
  BY <1>2, GitGrows DEF Edit, MainAdvances, GitInv, Exists
<1>3. CASE Commit
  <2>1. made \subseteq Changes BY DEF TypeInv, TypeOK, Commits
  <2>2. Exists /\ Exists' BY <1>3, OtherTypes DEF Commit, TypeInv, Others
  <2>3. QED BY <1>3, <2>1, <2>2 DEF Commit, GitInv, NothingLost, Exists
<1>4. CASE DeleteBranch
  <2>1. branch' = branch \/ (branch' = None /\ branch \subseteq main)
    BY <1>4 DEF DeleteBranch
  <2>2. QED BY <1>4, <2>1, BranchOnMain DEF DeleteBranch
<1>5. CASE Push
  BY <1>5 DEF Push, GitInv, NothingLost, Exists
<1>6. QED
  BY <1>1, <1>2, <1>3, <1>4, <1>5
     DEF Others, Approve, Revalidate, Remove, RevalidateBranch, ReaperDies,
         Clean, git

-----------------------------------------------------------------------------
(* What a run has checked *)

\* A run that does not step, while main only grows, knows what it knew.
LEMMA CheckFrame ==
    ASSUME NEW q \in Runs, CheckInv(q), view'[q] = view[q], at'[q] = at[q],
           main \subseteq main'
    PROVE  CheckInv(q)'
BY DEF CheckInv, Resumes

LEMMA MainGrows ==
    ASSUME TypeInv,
           \/ \E r \in Runs : Provisions(r) \/ Claiming(r)
           \/ Others
    PROVE  main \subseteq main'
<1>1. ASSUME NEW r \in Runs, Provisions(r) PROVE main \subseteq main'
  BY <1>1
     DEF git, Provisions, Start, Validate, PrimaryRefused, Look, Reattach,
         ReattachFails, Create, CreateFails, Scrap, ScrapBranch, Inspect,
         Refresh, Merge, MergeConflicts, Abort, MergeFails, Snapshot,
         SnapshotUnreadable
<1>2. ASSUME NEW r \in Runs, Claiming(r) PROVE main \subseteq main'
  BY <1>2
     DEF git, Claiming, ClaimHead, Claim, ClaimRow, ClaimRecord, Launch, ProvisionFails,
         Undo, UndoBranch, CompensationFails, Release, Report, Integrate, End, Capture, Kill
<1>3. CASE Others
  BY <1>3
     DEF git, Others, Edit, Commit, Approve, Revalidate, Remove,
         RevalidateBranch, DeleteBranch, ReaperDies, MainAdvances, Push, Clean
<1>4. QED BY <1>1, <1>2, <1>3

\* A run that forgets everything, or is at a place where nothing is required
\* but that its base is on main.
LEMMA CheckElsewhere ==
    ASSUME NEW r \in Runs,
           at'[r] \notin {"refresh", "merge", "snapshot", "claim", "files"},
           view'[r].base \subseteq main'
    PROVE  CheckInv(r)'
BY DEF CheckInv

LEMMA CheckProvisions ==
    ASSUME TypeInv, NEW r \in Runs, CheckInv(r), Provisions(r),
           main \subseteq main'
    PROVE  CheckInv(r)'
<1> USE DEF TypeInv, TypeOK, Goes
<1>1. CASE Start(r) \/ Validate(r) \/ PrimaryRefused(r) \/ Look(r)
           \/ Reattach(r) \/ ReattachFails(r) \/ CreateFails(r) \/ Scrap(r)
           \/ ScrapBranch(r) \/ MergeConflicts(r) \/ Abort(r) \/ MergeFails(r)
           \/ SnapshotUnreadable(r)
  <2>1. view'[r].base \subseteq main'
    <3>1. CASE Start(r)
      BY <3>1 DEF Start, git, Views
    <3>2. CASE ~Start(r)
      BY <1>1, <3>2
         DEF CheckInv, Validate, PrimaryRefused, Look, Reattach, ReattachFails,
             CreateFails, Scrap, ScrapBranch, MergeConflicts, Abort, MergeFails,
             SnapshotUnreadable
    <3>3. QED BY <3>1, <3>2
  <2>2. at'[r] \notin {"refresh", "merge", "snapshot", "claim", "files"}
    BY <1>1
       DEF Start, Validate, PrimaryRefused, Look, Reattach, ReattachFails,
           CreateFails, Scrap, ScrapBranch, MergeConflicts, Abort, MergeFails,
           SnapshotUnreadable
  <2>3. QED BY <2>1, <2>2, CheckElsewhere
<1>2. CASE Create(r)
  <2>1. /\ view'[r].created /\ view'[r].base = view[r].base
        /\ at'[r] = "snapshot"
    BY <1>2 DEF Create, Views
  <2>2. QED BY <2>1 DEF CheckInv
<1>3. CASE Inspect(r)
  <2>1. CASE ~Adoptable(r)
    BY <1>3, <2>1, CheckElsewhere DEF Inspect, CheckInv
  <2>2. CASE Adoptable(r)
    <3>1. /\ view'[r].base = view[r].base /\ view'[r].head = branch
          /\ view'[r].resumes = view[r].resumes
          /\ at'[r] = IF view[r].base \subseteq branch
                      THEN "snapshot" ELSE "refresh"
      BY <1>3, <2>2 DEF Inspect, Views
    <3>2. QED BY <2>2, <3>1 DEF CheckInv, Adoptable, Resumes
  <2>3. QED BY <2>1, <2>2
<1>4. CASE Refresh(r)
  <2>1. view' = view /\ at[r] = "refresh" /\ at'[r] \in {"merge", "release"}
    BY <1>4 DEF Refresh
  <2>2. QED BY <2>1 DEF CheckInv, Resumes
<1>5. CASE Merge(r)
  <2>1. /\ view'[r].base = view[r].base
        /\ view'[r].resumes = view[r].resumes
        /\ at[r] = "merge" /\ at'[r] = "snapshot"
    BY <1>5 DEF Merge, Views
  <2>2. QED BY <2>1 DEF CheckInv, Resumes
<1>6. CASE Snapshot(r)
  <2>1. CASE at'[r] = "release"
    <3>1. view'[r].base = view[r].base BY <1>6 DEF Snapshot, Views
    <3>2. QED BY <2>1, <3>1, CheckElsewhere DEF CheckInv
  <2>2. CASE at'[r] # "release"
    <3>1. /\ view'[r].base = view[r].base /\ view'[r].head = view[r].head
          /\ view'[r].resumes = view[r].resumes /\ view'[r].dirt = dirt
          /\ view'[r].created = view[r].created
          /\ at[r] = "snapshot" /\ at'[r] = "claim"
          /\ \/ view[r].created
             \/ dirt = IF Resumes(r) THEN view[r].resumes.dirt ELSE {}
      BY <1>6, <2>2 DEF Snapshot, Views
    <3>2. QED BY <3>1 DEF CheckInv, Resumes
  <2>3. QED BY <2>1, <2>2
<1>7. QED BY <1>1, <1>2, <1>3, <1>4, <1>5, <1>6 DEF Provisions

LEMMA CheckClaiming ==
    ASSUME TypeInv, NEW r \in Runs, CheckInv(r), Claiming(r),
           main \subseteq main'
    PROVE  CheckInv(r)'
<1> USE DEF TypeInv, TypeOK, Goes
<1>1. CASE Report(r) \/ Integrate(r)
  BY <1>1, CheckFrame DEF Report, Integrate
<1>1a. CASE ClaimHead(r)
  BY <1>1a DEF ClaimHead, Unwinds, CheckInv, Resumes
<1>2. CASE ~(Report(r) \/ Integrate(r) \/ ClaimHead(r))
  <2>1. at'[r] \notin {"refresh", "merge", "snapshot", "claim", "files"}
    BY <1>2
       DEF Claiming, ClaimHead, Claim, ClaimRow, ClaimRecord, Launch, ProvisionFails,
           Unwinds, Undo, UndoBranch, CompensationFails, Release, End, Capture, Kill
  <2>2. view'[r] = view[r] \/ view'[r] = NoView
    BY <1>2
       DEF Claiming, ClaimHead, Claim, ClaimRow, ClaimRecord, Launch, ProvisionFails,
           Undo, UndoBranch, CompensationFails, Release, End, Capture, Kill
  <2>3. view'[r].base \subseteq main' BY <2>2 DEF NoView, CheckInv
  <2>4. QED BY <2>1, <2>3, CheckElsewhere
<1>3. QED BY <1>1, <1>1a, <1>2

\* The head that a claim has read.
LEMMA HeadRun ==
    ASSUME TypeInv, OneAtWork, NEW r \in Runs, Provisions(r) \/ Claiming(r),
           NEW q \in Runs, HeadInv(q)
    PROVE  HeadInv(q)'
<1> USE DEF TypeInv, TypeOK, Goes
<1>1. CASE q # r
  <2>1. at'[q] = at[q] /\ view'[q] = view[q] BY <1>1, OwnStep
  <2>2. CASE at[q] = "files"
    <3>1. UNCHANGED git BY <1>1, <2>2, RestLeavesGit DEF Resting
    <3>2. QED BY <2>1, <3>1 DEF HeadInv, git
  <2>3. QED BY <2>1, <2>2 DEF HeadInv
<1>2. CASE q = r
  <2>1. CASE ClaimHead(r) /\ at'[r] = "files"
    <3>1. /\ branch = view[r].head /\ view[r].base \subseteq branch
          /\ UNCHANGED <<git, view>>
      BY <2>1 DEF ClaimHead, Unwinds
    <3>2. QED BY <1>2, <3>1 DEF HeadInv, git
  <2>2. CASE at'[r] # "files"
    BY <1>2, <2>2 DEF HeadInv
  <2>3. CASE Provisions(r)
    <3>1. at'[r] # "files"
      BY <2>3
         DEF Provisions, Start, Validate, PrimaryRefused, Look, Reattach,
             ReattachFails, Create, CreateFails, Scrap, ScrapBranch, Inspect,
             Refresh, Merge, MergeConflicts, Abort, MergeFails, Snapshot,
             SnapshotUnreadable
    <3>2. QED BY <2>2, <3>1
  <2>4. CASE Claiming(r) /\ ~ClaimHead(r)
    <3>1. at'[r] # "files"
      BY <2>4
         DEF Claiming, Claim, ClaimRow, ClaimRecord, Launch, ProvisionFails,
             Unwinds, Undo, UndoBranch, CompensationFails, Release, Report,
             Integrate, End, Capture, Kill
    <3>2. QED BY <2>2, <3>1
  <2>5. QED BY <2>1, <2>2, <2>3, <2>4
<1>3. QED BY <1>1, <1>2

LEMMA HeadOthers ==
    ASSUME TypeInv, OneAtWork, Others, NEW q \in Runs, HeadInv(q)
    PROVE  HeadInv(q)'
<1>1. UNCHANGED <<at, view>> BY OneAtWorkOthers
<1>2. CASE Commit
  <2>1. /\ branch \subseteq branch' /\ listed' = listed
        /\ at[q] = "files" => q \in slipped'
    BY <1>2 DEF Commit
  <2>2. QED BY <1>1, <2>1 DEF HeadInv
<1>3. CASE ~Commit
  <2>1. /\ slipped' = slipped
        /\ listed' => listed /\ branch' = branch
    BY <1>3
       DEF Others, Edit, Approve, Revalidate, Remove, RevalidateBranch,
           DeleteBranch, ReaperDies, MainAdvances, Push, Clean, git
  <2>2. QED BY <1>1, <2>1 DEF HeadInv
<1>4. QED BY <1>2, <1>3
-----------------------------------------------------------------------------
(* What the disposition has checked *)

\* Only a claim is shown anew, and only a push moves the remote main, forward.
LEMMA ReaperRuns ==
    ASSUME TypeInv, ReaperInv, NEW r \in Runs, Provisions(r) \/ Claiming(r)
    PROVE  ReaperInv'
<1>1. CASE ClaimRow(r)
  BY <1>1 DEF ClaimRow, ReaperInv, git
<1>2. CASE ~ClaimRow(r)
  <2>1. /\ UNCHANGED <<reaper, remote, raced>>
        /\ shown' => shown
    <3>1. CASE Provisions(r)
      BY <3>1
         DEF Provisions, Start, Validate, PrimaryRefused, Look, Reattach,
             ReattachFails, Create, CreateFails, Scrap, ScrapBranch, Inspect,
             Refresh, Merge, MergeConflicts, Abort, MergeFails, Snapshot,
             SnapshotUnreadable, git
    <3>2. CASE Claiming(r)
      BY <1>2, <3>2
        DEF Claiming, ClaimHead, Claim, ClaimRecord, Launch, ProvisionFails, Undo,
            UndoBranch, CompensationFails, Release, Report, Integrate, End, Capture,
            Kill, git
    <3>3. QED BY <3>1, <3>2
  <2>2. QED BY <2>1 DEF ReaperInv
<1>3. QED BY <1>1, <1>2

\* A sole owner that is over does not show a claim, and nobody else does.
LEMMA NotShown ==
    ASSUME NEW o, SoleOwner(o)
    PROVE  ~shown
BY DEF SoleOwner, Claimants

LEMMA ReaperOthers ==
    ASSUME TypeInv, GitInv, ReaperInv, Others
    PROVE  ReaperInv'
<1> USE DEF TypeInv, TypeOK
<1>1. CASE Revalidate
  <2>1. CASE reaper'.at = "remove"
    <3>1. Reapable(reaper.owner)
      BY <1>1, <2>1 DEF Revalidate, ReaperStops
    <3>2. ~shown BY <3>1, NotShown DEF Reapable
    <3>3. QED BY <1>1, <2>1, <3>2 DEF Revalidate, ReaperInv
  <2>2. CASE reaper'.at = "idle"
    BY <2>2 DEF ReaperInv
  <2>3. QED BY <1>1, <2>1, <2>2 DEF Revalidate, ReaperGoes, ReaperStops
<1>2. CASE RevalidateBranch
  <2>1. CASE branch = reaper.head /\ MergedIntoBoth /\ ReaperGoes("delete")
    <3>1. reaper'.at = "delete" /\ reaper'.head = reaper.head
      BY <2>1 DEF ReaperGoes
    <3>2. remote' = remote BY <1>2 DEF RevalidateBranch, git
    <3>3. QED BY <2>1, <3>1, <3>2 DEF ReaperInv, MergedIntoBoth
  <2>2. CASE ReaperStops
    BY <2>2 DEF ReaperStops, ReaperInv
  <2>3. QED BY <1>2, <2>1, <2>2 DEF RevalidateBranch
<1>3. CASE Approve \/ Remove \/ DeleteBranch \/ ReaperDies
  <2>1. reaper'.at \in {"idle", "revalidate", "branch"}
    BY <1>3 DEF Approve, Remove, DeleteBranch, ReaperDies, ReaperGoes,
       ReaperStops
  <2>2. QED BY <2>1 DEF ReaperInv
<1>4. CASE Edit \/ Commit \/ MainAdvances \/ Push \/ Clean
  <2>1. UNCHANGED <<reaper, raced>> /\ (shown' => shown)
    BY <1>4 DEF Edit, Commit, MainAdvances, Push, Clean
  <2>2. remote \subseteq remote'
    BY <1>4 DEF Edit, Commit, MainAdvances, Push, Clean, git, GitInv
  <2>3. QED BY <2>1, <2>2 DEF ReaperInv
<1>5. QED BY <1>1, <1>2, <1>3, <1>4 DEF Others

-----------------------------------------------------------------------------
(* The inductive invariant *)

SafeInv ==
    /\ TypeInv /\ OneAtWork /\ GitInv /\ CleanAll
    /\ \A r \in Runs : CheckInv(r) /\ HeadInv(r)
    /\ ReaperInv

LEMMA SafeInit == Init => SafeInv
<1> SUFFICES ASSUME Init PROVE SafeInv
  OBVIOUS
<1>1. GitInv BY DEF Init, GitInv, NothingLost
<1>2. \A r \in Runs : at[r] = "idle" /\ view[r] = NoView BY DEF Init
<1>3. ASSUME NEW r \in Runs PROVE CheckInv(r) /\ HeadInv(r) /\ CleanInv(r)
  BY <1>2 DEF CheckInv, HeadInv, CleanInv, NoView
<1>4. OneAtWork BY <1>2 DEF OneAtWork, Resting
<1>5. ReaperInv BY DEF Init, ReaperInv
<1>6. CleanAll BY <1>3 DEF Init, CleanAll
<1>7. QED BY <1>1, <1>3, <1>4, <1>5, <1>6, TypeInit DEF SafeInv

LEMMA SafeRun ==
    ASSUME SafeInv, NEW r \in Runs, Provisions(r) \/ Claiming(r)
    PROVE  SafeInv'
<1> USE DEF SafeInv
<1>1. TypeInv' BY ProvisionTypes, ClaimingTypes
<1>2. Bases /\ CleanInv(r) BY DEF Bases, CheckInv, CleanAll
<1>3. GitInv' BY <1>2, GitProvisions, GitClaiming
<1>4. main \subseteq main' BY MainGrows
<1>5. ASSUME NEW q \in Runs PROVE CheckInv(q)'
  <2>1. CASE q = r BY <2>1, <1>4, CheckProvisions, CheckClaiming
  <2>2. CASE q # r
    <3>1. at'[q] = at[q] /\ view'[q] = view[q] BY <2>2, OwnStep
    <3>2. QED BY <3>1, <1>4, CheckFrame
  <2>3. QED BY <2>1, <2>2
<1>6. OneAtWork' /\ CleanAll' BY OneAtWorkRun, CleanRun
<1>7. ASSUME NEW q \in Runs PROVE HeadInv(q)' BY HeadRun
<1>8. ReaperInv' BY ReaperRuns
<1>9. QED BY <1>1, <1>3, <1>5, <1>6, <1>7, <1>8

LEMMA SafeOthers ==
    ASSUME SafeInv, Others
    PROVE  SafeInv'
<1> USE DEF SafeInv
<1>1. OneAtWork' /\ UNCHANGED <<at, view>> BY OneAtWorkOthers
<1>2. ASSUME NEW q \in Runs PROVE CheckInv(q)' /\ HeadInv(q)'
  BY <1>1, MainGrows, CheckFrame, HeadOthers
<1>3. QED BY <1>1, <1>2, OtherTypes, GitOthers, CleanOthers, ReaperOthers

LEMMA SafeStep == SafeInv /\ [Next]_vars => SafeInv'
<1> SUFFICES ASSUME SafeInv, [Next]_vars PROVE SafeInv'
  OBVIOUS
<1>1. CASE Next BY <1>1, NextGroups, SafeRun, SafeOthers
<1>2. CASE UNCHANGED vars
  <2>1. TypeInv' BY <1>2, TypeStep DEF SafeInv
  <2>2. GitInv' BY <1>2 DEF SafeInv, GitInv, NothingLost, Exists, vars, git
  <2>3. ASSUME NEW q \in Runs PROVE CheckInv(q)' /\ HeadInv(q)' /\ CleanInv(q)'
    BY <1>2, CheckFrame DEF SafeInv, CleanAll, HeadInv, CleanInv, vars, git
  <2>4. ReaperInv' /\ OneAtWork'
    BY <1>2 DEF SafeInv, ReaperInv, OneAtWork, vars, git
  <2>5. CleanAll' BY <1>2, <2>3 DEF SafeInv, CleanAll, vars, git
  <2>6. QED BY <2>1, <2>2, <2>3, <2>4, <2>5 DEF SafeInv
<1>3. QED BY <1>1, <1>2

\* Nothing that was written into the workspace of a task is lost, but what is
\* written while a refresh merges or aborts a merge, or a failed creation is
\* taken back.
THEOREM WorkIsKept == Spec => []NothingLost
<1>1. SafeInv => NothingLost BY DEF SafeInv, GitInv
<1>2. QED BY <1>1, SafeInit, SafeStep, PTL DEF Spec

\* The invariant the run can check implies and is implied by the proved one.
LEMMA SafeIsWorkspaceInv == SafeInv <=> WorkspaceInv
BY DEF SafeInv, WorkspaceInv, TypeInv, GitInv, CleanAll

-----------------------------------------------------------------------------
(* The claim *)

\* One run's claim, as one step.
ClaimStep(r) ==
    at[r] = "files" /\ at'[r] = "row" =>
        /\ view[r].base \subseteq branch
        /\ ~view[r].created =>
              IF Resumes(r)
              THEN /\ dirt = view[r].resumes.dirt
                   /\ view[r].resumes.head \subseteq branch
                   /\ branch = view[r].resumes.head \/ r \in slipped
              ELSE dirt = {}

\* Only the claim itself takes a run from the check to the lock row.
LEMMA OnlyClaim ==
    ASSUME TypeInv, NEW r \in Runs, Provisions(r) \/ Claiming(r),
           at[r] = "files", at'[r] = "row"
    PROVE  Claim(r) /\ SameFiles(r)
<1> USE DEF TypeInv, TypeOK, Goes
<1>1. CASE Provisions(r)
  BY <1>1
     DEF Provisions, Start, Validate, PrimaryRefused, Look, Reattach,
         ReattachFails, Create, CreateFails, Scrap, ScrapBranch, Inspect,
         Refresh, Merge, MergeConflicts, Abort, MergeFails, Snapshot,
         SnapshotUnreadable
<1>2. CASE Claiming(r)
  BY <1>2
    DEF Claiming, ClaimHead, Claim, ClaimRow, ClaimRecord, Launch, ProvisionFails,
        Unwinds, Undo, UndoBranch, CompensationFails, Release, Report, Integrate,
        End, Capture, Kill
<1>3. QED BY <1>1, <1>2

LEMMA ClaimSteps ==
    ASSUME SafeInv, [Next]_vars, NEW r \in Runs
    PROVE  ClaimStep(r)
<1> SUFFICES ASSUME at[r] = "files", at'[r] = "row" PROVE ClaimStep(r)
  BY DEF ClaimStep
<1>1. CASE Provisions(r) \/ Claiming(r)
  <2>1. SameFiles(r) BY <1>1, OnlyClaim DEF SafeInv
  <2>2. CheckInv(r) /\ HeadInv(r) BY DEF SafeInv
  <2>3. QED BY <2>1, <2>2 DEF ClaimStep, SameFiles, CheckInv, HeadInv
<1>2. CASE \E q \in Runs : q # r /\ (Provisions(q) \/ Claiming(q))
  BY <1>2, OwnStep DEF SafeInv
<1>3. CASE Others \/ UNCHANGED vars
  <2>1. at' = at
    BY <1>3
       DEF Others, Edit, Commit, Approve, Revalidate, Remove, RevalidateBranch,
           DeleteBranch, ReaperDies, MainAdvances, Push, Clean, vars
  <2>2. QED BY <2>1
<1>4. QED BY <1>1, <1>2, <1>3, NextGroups

\* What a run claims is what was checked, and contains its base.
THEOREM ClaimIsChecked == Spec => ClaimedAsChecked
<1>1. SafeInv /\ [Next]_vars =>
          [\A r \in Runs : at[r] = "files" /\ at'[r] = "row" =>
              /\ view[r].base \subseteq branch
              /\ ~view[r].created =>
                    IF Resumes(r)
                    THEN /\ dirt = view[r].resumes.dirt
                         /\ view[r].resumes.head \subseteq branch
                         /\ branch = view[r].resumes.head \/ r \in slipped
                    ELSE dirt = {}]_vars
  BY ClaimSteps DEF ClaimStep
<1>2. QED BY <1>1, SafeInit, SafeStep, PTL DEF Spec, ClaimedAsChecked

-----------------------------------------------------------------------------
(* The disposition *)

\* A branch that goes away is on main.
LEMMA GoneIsOnMain ==
    ASSUME SafeInv, [Next]_vars, Exists, branch' = None
    PROVE  branch \subseteq main
<1> USE DEF SafeInv, Exists
<1>1. ASSUME NEW r \in Runs, Provisions(r) PROVE branch \subseteq main
  <2>1. CASE ScrapBranch(r) BY <2>1 DEF ScrapBranch, CheckInv
  <2>2. CASE Merge(r)
    BY <2>2, ProvisionTypes DEF Merge, TypeInv, Provisions
  <2>3. QED
    BY <1>1, <2>1, <2>2
       DEF Provisions, Start, Validate, PrimaryRefused, Look, Reattach,
           ReattachFails, Create, CreateFails, Scrap, Inspect, Refresh,
           MergeConflicts, Abort, MergeFails, Snapshot, SnapshotUnreadable, git
<1>2. ASSUME NEW r \in Runs, Claiming(r) PROVE branch \subseteq main
  BY <1>2
     DEF Claiming, ClaimHead, Claim, ClaimRow, ClaimRecord, Launch, ProvisionFails, Undo,
         UndoBranch, CompensationFails, Release, Report, Integrate, End, Capture, Kill, git
<1>3. CASE Others
  <2>1. CASE Commit BY <2>1, OtherTypes DEF Commit, TypeInv, Others
  <2>2. QED
    BY <1>3, <2>1
       DEF Others, Edit, Approve, Revalidate, Remove, RevalidateBranch,
           DeleteBranch, ReaperDies, MainAdvances, Push, Clean, git
<1>4. QED BY <1>1, <1>2, <1>3, NextGroups DEF vars, git

\* The disposition takes no claimed worktree and no branch of unpushed work,
\* unless the one was claimed, or the other created again, behind its check.
THEOREM ReapedWasOver == Spec => ReapedIsOver
<1>1. SafeInv /\ [Next]_vars =>
          [/\ reaper.at = "remove" /\ reaper'.at = "branch" => ~shown \/ raced
           /\ reaper.at = "delete" /\ Exists /\ branch' = None =>
                 branch \subseteq IF branch = reaper.head
                                  THEN remote ELSE main]_vars
  <2> SUFFICES ASSUME SafeInv, [Next]_vars
               PROVE  /\ reaper.at = "remove" /\ reaper'.at = "branch" =>
                             ~shown \/ raced
                      /\ reaper.at = "delete" /\ Exists /\ branch' = None =>
                             branch \subseteq IF branch = reaper.head
                                              THEN remote ELSE main
    OBVIOUS
  <2>1. ASSUME reaper.at = "remove", reaper'.at = "branch"
        PROVE  ~shown \/ raced
    BY <2>1 DEF SafeInv, ReaperInv
  <2>2. ASSUME reaper.at = "delete", Exists, branch' = None
        PROVE  branch \subseteq IF branch = reaper.head THEN remote ELSE main
    BY <2>2, GoneIsOnMain DEF SafeInv, ReaperInv
  <2>3. QED BY <2>1, <2>2
<1>2. QED BY <1>1, SafeInit, SafeStep, PTL DEF Spec, ReapedIsOver

-----------------------------------------------------------------------------
(* Half a workspace *)

\* As long as there is no claim, what is in the workspace and not on main was
\* written there and stays off main, and the disposition has nothing to do.
Unclaimed ==
    /\ main \subseteq made /\ dirt \subseteq made /\ dirt \cap main = {}
    /\ Exists => branch \subseteq made
    /\ ~listed => dirt = {}
    /\ reaper.at = "idle"

\* A run then creates a workspace or finds none that it may use.
Creates(r) ==
    /\ at[r] \notin {"reattach", "refresh", "merge", "abort", "bind", "working"}
    /\ at[r] = "add" => ~Exists
    /\ at[r] \in {"snapshot", "claim", "files", "row", "journal", "undo"} =>
          view[r].created /\ listed
    /\ at[r] \in {"scrapBranch", "undoBranch"} => ~listed
    /\ at[r] \in {"scrap", "scrapBranch"} /\ Exists =>
          branch = view[r].base \/ ~(branch \subseteq main)

HalfInv ==
    claims = <<>> => Unclaimed /\ (\A r \in Runs : Creates(r)) /\ NothingHalfMade

\* A step that leaves Git alone, and at which no creation ends.
LEMMA HalfKept ==
    ASSUME TypeInv, Unclaimed, NothingHalfMade, NEW r \in Runs,
           UNCHANGED git, UNCHANGED <<claims, reaper, leaked>>,
           \A q \in Runs : q # r => at'[q] = at[q],
           at[r] \notin Creating \/ at'[r] \in Creating
    PROVE  Unclaimed' /\ NothingHalfMade'
BY DEF Unclaimed, NothingHalfMade, Exists, git

LEMMA HalfProvisions ==
    ASSUME TypeInv, Bases, Unclaimed, NothingHalfMade, NEW r \in Runs, Creates(r),
           claims = <<>>, Provisions(r)
    PROVE  Unclaimed' /\ NothingHalfMade' /\ Creates(r)'
<1> USE DEF TypeInv, TypeOK, Goes
<1>0. /\ \A q \in Runs : q # r => at'[q] = at[q]
      /\ UNCHANGED <<claims, reaper>>
  BY OwnStep
     DEF Provisions, Start, Validate, PrimaryRefused, Look, Reattach,
         ReattachFails, Create, CreateFails, Scrap, ScrapBranch, Inspect,
         Refresh, Merge, MergeConflicts, Abort, MergeFails, Snapshot,
         SnapshotUnreadable, records
<1>1. CASE Start(r) \/ Validate(r) \/ PrimaryRefused(r) \/ Look(r) \/ Inspect(r)
  <2>1. at'[r] \in {"validate", "look", "release", "inspect", "add"}
    BY <1>1 DEF Start, Validate, PrimaryRefused, Look, Inspect, Adoptable, Owned
  <2>2. at'[r] = "add" => ~Exists'
    BY <1>1 DEF Start, Validate, PrimaryRefused, Look, Inspect, Adoptable, Owned,
       Exists, git
  <2>3. UNCHANGED git /\ leaked' = leaked /\ at[r] \notin Creating
    BY <1>1 DEF Start, Validate, PrimaryRefused, Look, Inspect, Creating
  <2>4. Unclaimed' /\ NothingHalfMade'
    BY <1>0, <2>3, HalfKept
  <2>5. QED BY <2>1, <2>2, <2>4 DEF Creates
<1>2. CASE Reattach(r) \/ ReattachFails(r) \/ Refresh(r) \/ Merge(r)
           \/ MergeConflicts(r) \/ Abort(r) \/ MergeFails(r)
  BY <1>2 DEF Creates, Reattach, ReattachFails, Refresh, Merge, MergeConflicts,
     Abort, MergeFails
<1>3. CASE Create(r)
  <2>1. /\ branch' = view[r].base /\ listed' /\ at'[r] = "snapshot"
        /\ UNCHANGED <<main, dirt, made>> /\ view'[r].created
    BY <1>3 DEF Create, Views
  <2>2. Unclaimed' BY <1>0, <2>1 DEF Unclaimed, Bases
  <2>3. NothingHalfMade' /\ Creates(r)'
    BY <2>1 DEF NothingHalfMade, Creates, Creating
  <2>4. QED BY <2>2, <2>3
<1>4. CASE CreateFails(r)
  <2>1. /\ at[r] = "add" /\ at'[r] = "scrap"
        /\ UNCHANGED <<main, dirt, made, view>>
        /\ branch' = view[r].base \/ UNCHANGED <<branch, listed>>
    BY <1>4 DEF CreateFails
  <2>2. branch = None /\ ~listed BY <2>1 DEF Creates, Exists
  <2>3. Unclaimed' BY <1>0, <2>1, <2>2 DEF Unclaimed, Bases, Exists
  <2>4. NothingHalfMade' /\ Creates(r)'
    BY <2>1, <2>2 DEF NothingHalfMade, Creates, Creating, Exists
  <2>5. QED BY <2>3, <2>4
<1>5. CASE Scrap(r)
  <2>1. /\ at[r] = "scrap" /\ at'[r] = "scrapBranch" /\ ~listed' /\ dirt' = {}
        /\ UNCHANGED <<main, branch, made, view>>
    BY <1>5 DEF Scrap
  <2>2. Unclaimed' BY <1>0, <2>1 DEF Unclaimed, Exists
  <2>3. NothingHalfMade' /\ Creates(r)'
    BY <2>1 DEF NothingHalfMade, Creates, Creating, Exists
  <2>4. QED BY <2>2, <2>3
<1>6. CASE ScrapBranch(r)
  <2>1. /\ at[r] = "scrapBranch" /\ at'[r] = "release"
        /\ UNCHANGED <<main, listed, dirt, made>>
        /\ branch' = IF branch = view[r].base /\ ~listed THEN None ELSE branch
    BY <1>6 DEF ScrapBranch
  <2>2. Unclaimed' BY <1>0, <2>1 DEF Unclaimed, Exists
  <2>3. ~Exists' \/ ~(branch' \subseteq main')
    BY <2>1 DEF Creates, Exists
  <2>4. QED BY <2>1, <2>2, <2>3 DEF NothingHalfMade, Creates
<1>7. CASE Snapshot(r)
  <2>1. view[r].created /\ listed BY <1>7 DEF Snapshot, Creates
  <2>2. /\ at'[r] = "claim" /\ view' = [view EXCEPT ![r].dirt = dirt]
        /\ UNCHANGED git /\ leaked' = leaked
    BY <1>7, <2>1 DEF Snapshot
  <2>3. view'[r].created BY <2>1, <2>2 DEF Views
  <2>4. Unclaimed' /\ NothingHalfMade' BY <1>0, <2>2, HalfKept DEF Creating
  <2>5. QED BY <2>1, <2>2, <2>3, <2>4 DEF Creates, git
<1>8. CASE SnapshotUnreadable(r)
  <2>1. leaked' /\ at'[r] = "release" /\ UNCHANGED git
    BY <1>8 DEF SnapshotUnreadable, Creates
  <2>2. QED BY <1>0, <2>1 DEF Unclaimed, NothingHalfMade, Creates, Exists, git
<1>9. QED
  BY <1>1, <1>2, <1>3, <1>4, <1>5, <1>6, <1>7, <1>8 DEF Provisions

LEMMA HalfClaiming ==
    ASSUME TypeInv, Unclaimed, NothingHalfMade, NEW r \in Runs, Creates(r),
           claims = <<>>, claims' = <<>>, Claiming(r)
    PROVE  Unclaimed' /\ NothingHalfMade' /\ Creates(r)'
<1> USE DEF TypeInv, TypeOK, Goes
<1>0. /\ \A q \in Runs : q # r => at'[q] = at[q]
      /\ reaper' = reaper
  BY OwnStep
     DEF Claiming, ClaimHead, Claim, ClaimRow, ClaimRecord, Launch, ProvisionFails, Undo,
         UndoBranch, CompensationFails, Release, Report, Integrate, End, Capture, Kill
<1>1. CASE ClaimHead(r) \/ Claim(r) \/ ClaimRow(r) \/ ProvisionFails(r)
  <2>1. at[r] \in {"claim", "files", "row", "journal"}
    BY <1>1 DEF ClaimHead, Claim, ClaimRow, ProvisionFails, Creates
  <2>2. view[r].created /\ listed BY <2>1 DEF Creates
  <2>3. at'[r] \in {"files", "row", "journal", "undo"}
    BY <1>1, <2>2 DEF ClaimHead, Claim, ClaimRow, ProvisionFails, Unwinds
  <2>4. UNCHANGED <<git, view, leaked>>
    BY <1>1 DEF ClaimHead, Claim, ClaimRow, ProvisionFails
  <2>5. Unclaimed' /\ NothingHalfMade'
    BY <1>0, <2>3, <2>4, HalfKept DEF Creating
  <2>6. QED BY <2>2, <2>3, <2>4, <2>5 DEF Creates, git
<1>2. CASE Launch(r) \/ Report(r) \/ Integrate(r) \/ End(r)
  BY <1>2 DEF Creates, Launch, Report, Integrate, End
<1>3. CASE ClaimRecord(r)
  <2>1. claims' # <<>> BY <1>3 DEF ClaimRecord
  <2>2. QED BY <2>1
<1>4. CASE Undo(r)
  <2>1. /\ at[r] = "undo" /\ listed /\ UNCHANGED <<main, branch, dirt, made, view>>
    BY <1>4 DEF Undo, Creates
  <2>2. CASE dirt = {}
    <3>1. ~listed' /\ at'[r] = "undoBranch" BY <1>4, <2>1, <2>2 DEF Undo
    <3>2. QED
      BY <1>0, <2>1, <2>2, <3>1
         DEF Unclaimed, NothingHalfMade, Creates, Creating, Exists
  <2>3. CASE dirt # {}
    <3>1. listed' = listed /\ at'[r] = "release" BY <1>4, <2>1, <2>3 DEF Undo
    <3>2. QED
      BY <1>0, <2>1, <2>3, <3>1 DEF Unclaimed, NothingHalfMade, Creates, Exists
  <2>4. QED BY <2>2, <2>3
<1>5. CASE UndoBranch(r)
  <2>1. /\ at'[r] = "release" /\ ~listed /\ UNCHANGED <<main, listed, dirt, made>>
        /\ branch' = IF Exists /\ branch \subseteq main THEN None ELSE branch
    BY <1>5 DEF UndoBranch, CompensationFails, Creates
  <2>2. ~Exists' \/ ~(branch' \subseteq main') BY <2>1 DEF Exists
  <2>3. Unclaimed' BY <1>0, <2>1 DEF Unclaimed, Exists
  <2>4. QED BY <2>1, <2>2, <2>3 DEF NothingHalfMade, Creates
<1>6. CASE Release(r) \/ Capture(r)
  <2>1. at'[r] = "done" /\ at[r] \notin Creating /\ UNCHANGED <<git, leaked>>
    BY <1>6 DEF Release, Capture, Creating
  <2>2. QED BY <1>0, <2>1, HalfKept DEF Creates
<1>7. CASE Kill(r)
  <2>1. /\ at'[r] = "dead" /\ UNCHANGED git
        /\ leaked' = (leaked \/ (at[r] \in Creating /\ Exists))
    BY <1>7 DEF Kill
  <2>2. Unclaimed' BY <1>0, <2>1 DEF Unclaimed, Exists, git
  <2>3. NothingHalfMade'
    <3>1. CASE at[r] \in Creating /\ Exists
      BY <2>1, <3>1 DEF NothingHalfMade
    <3>2. CASE ~(at[r] \in Creating /\ Exists)
      BY <1>0, <2>1, <3>2 DEF NothingHalfMade, Exists, git
    <3>3. QED BY <3>1, <3>2
  <2>4. QED BY <2>1, <2>2, <2>3 DEF Creates
<1>8. CASE CompensationFails(r)
  <2>1. /\ at'[r] = "release" /\ UNCHANGED git
        /\ leaked' = (leaked \/ Exists)
    BY <1>8 DEF CompensationFails
  <2>2. Unclaimed' BY <1>0, <2>1 DEF Unclaimed, Exists, git
  <2>3. NothingHalfMade' BY <2>1 DEF NothingHalfMade, Exists, git
  <2>4. QED BY <2>1, <2>2, <2>3 DEF Creates
<1>9. QED
  BY <1>1, <1>2, <1>3, <1>4, <1>5, <1>6, <1>7, <1>8 DEF Claiming

LEMMA HalfRun ==
    ASSUME SafeInv, HalfInv, NEW r \in Runs, Provisions(r) \/ Claiming(r)
    PROVE  HalfInv'
<1>1. TypeInv /\ OneAtWork /\ Bases BY DEF SafeInv, CheckInv, Bases
<1>3. SUFFICES ASSUME claims' = <<>>
               PROVE  Unclaimed' /\ (\A q \in Runs : Creates(q)') /\ NothingHalfMade'
  BY DEF HalfInv
<1>4. claims = <<>>
  <2>1. CASE ClaimRecord(r)
    BY <1>1, <1>3, <2>1 DEF ClaimRecord, TypeInv, TypeOK
  <2>2. CASE ~ClaimRecord(r)
    BY <1>3, <2>2
      DEF Provisions, Start, Validate, PrimaryRefused, Look, Reattach, ReattachFails,
          Create, CreateFails, Scrap, ScrapBranch, Inspect, Refresh, Merge,
          MergeConflicts, Abort, MergeFails, Snapshot, SnapshotUnreadable, records,
          Claiming, ClaimHead, Claim, ClaimRow, Launch, ProvisionFails, Undo,
          UndoBranch, CompensationFails, Release, Report, Integrate, End, Capture,
          Kill
  <2>3. QED BY <2>1, <2>2
<1>5. Unclaimed /\ (\A q \in Runs : Creates(q)) /\ NothingHalfMade
  BY <1>4 DEF HalfInv
<1>6. Unclaimed' /\ NothingHalfMade' /\ Creates(r)'
  BY <1>1, <1>3, <1>4, <1>5, HalfProvisions, HalfClaiming
<1>7. ASSUME NEW q \in Runs, q # r PROVE Creates(q)'
  <2>1. at[r] \notin Resting => at[q] \in Resting
    BY <1>1, <1>7 DEF OneAtWork
  <2>2. at[r] \in Resting => UNCHANGED git
    BY DEF Resting, Provisions, Start, Validate, PrimaryRefused, Look, Reattach,
           ReattachFails, Create, CreateFails, Scrap, ScrapBranch, Inspect, Refresh,
           Merge, MergeConflicts, Abort, MergeFails, Snapshot, SnapshotUnreadable,
           Claiming, ClaimHead, Claim, ClaimRow, ClaimRecord, Launch, ProvisionFails,
           Undo, UndoBranch, CompensationFails, Release, Report, Integrate, End,
           Capture, Kill
  <2>3. at'[q] = at[q] /\ view'[q] = view[q] BY <1>1, <1>7, OwnStep
  <2>4. CASE at[q] \in Resting BY <2>3, <2>4 DEF Creates, Resting
  <2>5. CASE at[r] \in Resting
    BY <1>5, <2>2, <2>3, <2>5 DEF Creates, Exists, git
  <2>6. QED BY <2>1, <2>4, <2>5
<1>8. QED BY <1>6, <1>7

LEMMA HalfOthers ==
    ASSUME SafeInv, HalfInv, Others
    PROVE  HalfInv'
<1> USE DEF SafeInv, TypeInv, TypeOK
<1>1. UNCHANGED <<at, view, claims>>
  BY DEF Others, Edit, Commit, Approve, Revalidate, Remove, RevalidateBranch,
     DeleteBranch, ReaperDies, MainAdvances, Push, Clean, records
<1>3. SUFFICES ASSUME claims = <<>>
               PROVE  Unclaimed' /\ (\A q \in Runs : Creates(q)') /\ NothingHalfMade'
  BY <1>1 DEF HalfInv
<1>4. Unclaimed /\ (\A q \in Runs : Creates(q)) /\ NothingHalfMade
  BY <1>3 DEF HalfInv
<1>5. CASE Edit
  <2>1. PICK c \in Fresh : dirt' = dirt \cup {c} /\ made' = made \cup {c}
    BY <1>5 DEF Edit
  <2>2. UNCHANGED <<main, branch, listed, reaper, leaked>> /\ listed
    BY <1>5 DEF Edit
  <2>3. Unclaimed' BY <1>4, <2>1, <2>2 DEF Unclaimed, Fresh, Exists
  <2>4. NothingHalfMade' BY <2>1 DEF NothingHalfMade
  <2>5. \A q \in Runs : Creates(q)' BY <1>1, <1>4, <2>2 DEF Creates, Exists
  <2>6. QED BY <2>3, <2>4, <2>5
<1>6. CASE Commit
  <2>1. dirt \subseteq Changes BY <1>4 DEF Unclaimed, Commits
  <2>2. /\ branch' = branch \cup dirt /\ dirt' = {} /\ dirt # {} /\ listed
        /\ UNCHANGED <<main, made, listed, reaper>>
    BY <1>6, <2>1 DEF Commit
  <2>3. Exists BY <2>2 DEF TypeInv
  <2>4. ~(branch' \subseteq main') BY <1>4, <2>2 DEF Unclaimed
  <2>5. Unclaimed' BY <1>4, <2>2, <2>3 DEF Unclaimed
  <2>6. NothingHalfMade' BY <2>4 DEF NothingHalfMade
  <2>7. ASSUME NEW q \in Runs PROVE Creates(q)'
    <3>1. Creates(q) BY <1>4
    <3>2. QED BY <1>1, <2>2, <2>3, <2>4, <3>1 DEF Creates
  <2>8. QED BY <2>5, <2>6, <2>7
<1>7. CASE MainAdvances
  <2>1. PICK c \in Fresh : main' = main \cup {c} /\ made' = made \cup {c}
    BY <1>7 DEF MainAdvances
  <2>2. UNCHANGED <<branch, listed, dirt, reaper, leaked>>
    BY <1>7 DEF MainAdvances
  <2>3. Unclaimed' BY <1>4, <2>1, <2>2 DEF Unclaimed, Fresh, Exists
  <2>4. Exists /\ ~(branch \subseteq main) => ~(branch' \subseteq main')
    BY <1>4, <2>1, <2>2 DEF Unclaimed, Fresh
  <2>5. NothingHalfMade'
    BY <1>1, <1>4, <2>2, <2>4 DEF NothingHalfMade, Exists
  <2>6. ASSUME NEW q \in Runs PROVE Creates(q)'
    <3>1. Creates(q) BY <1>4
    <3>2. QED BY <1>1, <2>2, <2>4, <3>1 DEF Creates, Exists
  <2>7. QED BY <2>3, <2>5, <2>6
<1>8. CASE Approve \/ Revalidate \/ Remove \/ RevalidateBranch \/ DeleteBranch
           \/ ReaperDies
  <2>1. \A o : ~SoleOwner(o)
    <3>1. Claimants = IF shown THEN {lock} ELSE {}
      BY <1>3 DEF Claimants, Range
    <3>2. QED BY <3>1 DEF SoleOwner
  <2>2. reaper.at = "idle" BY <1>4 DEF Unclaimed
  <2>3. QED
    BY <1>8, <2>1, <2>2
       DEF Approve, Reapable, Revalidate, Remove, RevalidateBranch, DeleteBranch,
           ReaperDies
<1>9. CASE Push \/ Clean
  <2>1. UNCHANGED <<main, branch, listed, dirt, made, reaper, leaked>>
    BY <1>9 DEF Push, Clean, git
  <2>2. QED
    BY <1>1, <1>4, <2>1 DEF Unclaimed, NothingHalfMade, Creates, Exists
<1>10. QED BY <1>5, <1>6, <1>7, <1>8, <1>9 DEF Others

LEMMA HalfStep == SafeInv /\ HalfInv /\ [Next]_vars => HalfInv'
<1> SUFFICES ASSUME SafeInv, HalfInv, [Next]_vars PROVE HalfInv'
  OBVIOUS
<1>1. CASE Next BY <1>1, NextGroups, HalfRun, HalfOthers
<1>2. CASE UNCHANGED vars
  BY <1>2 DEF HalfInv, Unclaimed, Creates, NothingHalfMade, Exists,
     vars, git, records
<1>3. QED BY <1>1, <1>2

LEMMA HalfInit == Init => HalfInv
<1> SUFFICES ASSUME Init PROVE HalfInv
  OBVIOUS
<1>1. \A r \in Runs : at[r] = "idle" BY DEF Init
<1>3. Unclaimed /\ NothingHalfMade BY DEF Init, Unclaimed, NothingHalfMade, Exists
<1>4. \A r \in Runs : Creates(r) BY <1>1 DEF Creates
<1>5. QED BY <1>3, <1>4 DEF HalfInv

\* A provisioning that fails leaves no half of a workspace behind, unless its run
\* was killed, could not read what it had made or not take it back, or somebody
\* else wrote in it.
THEOREM NoneHalfMade == Spec => []NothingHalfMade
<1>1. HalfInv => NothingHalfMade BY DEF HalfInv, NothingHalfMade
<1>2. QED BY <1>1, SafeInit, SafeStep, HalfInit, HalfStep, PTL DEF Spec
=============================================================================
