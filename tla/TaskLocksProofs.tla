-------------------------- MODULE TaskLocksProofs --------------------------
(***************************************************************************)
(* Proofs about TaskLocks: type correctness, that no run at work loses its *)
(* lock, and that what was published on the row is kept, for every number  *)
(* of runs, commands and recovery processes.                               *)
(***************************************************************************)
EXTENDS TaskLocks, TLAPS

-----------------------------------------------------------------------------
(* Types *)

\* Merging a row into metadata yields a row (preserve_runtime_lock_fields).
LEMMA PreserveType ==
    ASSUME NEW m \in Rows, NEW current \in Rows
    PROVE  Preserve(m, current) \in Rows
BY DEF Preserve, PreservedOutcome, PreservedScope, Rows, Outcomes

\* Every row names a handle, and the empty values have their types.
LEMMA EmptyTypes ==
    /\ BoundsAssumption => EmptyRow \in Rows /\ NoHandle \in Handles
    /\ NoView \in Views
    /\ \A m \in Rows : HandleOf(m) \in Handles
BY DEF BoundsAssumption, EmptyRow, Rows, NoHandle, Handles, NoView, Views,
       HandleOf, Outcomes, Results

\* The control point of a process moves within the set of its kind.
PCs == SupervisorPCs \cup HelperPCs \cup CleanerPCs

PCsOf(a) == IF a \in Runs THEN SupervisorPCs
            ELSE IF a \in Helpers THEN HelperPCs ELSE CleanerPCs

PCType ==
    /\ pc \in [Actors -> PCs]
    /\ \A r \in Runs : pc[r] \in SupervisorPCs
    /\ \A h \in Helpers : pc[h] \in HelperPCs
    /\ \A c \in Cleaners : pc[c] \in CleanerPCs

\* A recovery process at work examines some run.
Targets == \A c \in Cleaners : pc[c] # "idle" => handle[c].run \in Runs

LEMMA GotoType ==
    ASSUME PCType, NEW a \in Actors, NEW to \in PCsOf(a), Goto(a, to)
    PROVE  PCType'
BY ActorsAssumption DEF PCType, PCs, PCsOf, Goto, Actors, ActorsAssumption

\* Ending a command, or going on with it, keeps handles and views typed.
LEMMA FinishType ==
    ASSUME TypeOK, NEW a \in Actors, NEW to \in PCsOf(a), Finish(a, to),
           pc[a] # "idle"
    PROVE  /\ PCType'
           /\ handle' \in [Actors -> Handles]
           /\ view' \in [Actors -> Views]
           /\ Targets'
<1>1. PCType' BY GotoType DEF TypeOK, PCType, PCs, Finish
<1>2. Targets'
  BY DEF Finish, Forget, Goto, TypeOK, Targets, Actors
<1>3. QED BY <1>1, <1>2, EmptyTypes, BoundsAssumption DEF Finish, Forget, TypeOK

\* The types the shared steps touch.
LockType ==
    /\ dir \in BOOLEAN
    /\ row \in Rows
    /\ counter \in 0..MaxToken
    /\ acquired \in 0..MaxToken
    /\ mutex \in Actors \cup {NoOne}
    /\ PCType
    /\ handle \in [Actors -> Handles]
    /\ md \in [Actors -> Rows]
    /\ view \in [Actors -> Views]
    /\ Targets

RunType ==
    /\ worker \in [Runs -> {"none", "alive", "gone"}]
    /\ stage \in [Runs -> {"worker", "runtime"}]
    /\ result \in [Runs -> Results]
    /\ authorized \in [Runs -> 0..MaxScope]
    /\ misjudged \in SUBSET Runs

LEMMA TypeSplit == TypeOK <=> LockType /\ RunType
BY DEF TypeOK, LockType, RunType, PCType, PCs, Targets

LEMMA TypeSplitNext == TypeOK' <=> LockType' /\ RunType'
BY DEF TypeOK, LockType, RunType, PCType, PCs, Targets

LEMMA UpdateReadType ==
    ASSUME TypeOK, NEW a \in Actors, NEW m \in Rows,
           NEW to \in PCsOf(a), NEW fail \in PCsOf(a),
           UpdateRead(a, m, to, fail), pc[a] # "idle"
    PROVE  LockType'
<1>1. PCType' /\ handle' \in [Actors -> Handles] /\ view' \in [Actors -> Views]
     /\ Targets'
  BY FinishType DEF UpdateRead
<1>2. md' \in [Actors -> Rows]
  BY PreserveType, EmptyTypes, BoundsAssumption DEF UpdateRead, TypeOK
<1>3. QED
  BY <1>1, <1>2 DEF UpdateRead, TypeOK, LockType, lockVars

LEMMA WriteRowType ==
    ASSUME TypeOK, NEW a \in Actors, NEW to \in PCsOf(a), WriteRow(a, to), pc[a] # "idle"
    PROVE  LockType'
<1>1. PCType' /\ handle' \in [Actors -> Handles] /\ view' \in [Actors -> Views]
     /\ Targets'
  BY FinishType DEF WriteRow
<1>2. row' \in Rows /\ md' \in [Actors -> Rows]
  BY PreserveType, EmptyTypes, BoundsAssumption DEF WriteRow, TypeOK
<1>3. QED
  BY <1>1, <1>2 DEF WriteRow, TypeOK, LockType

LEMMA WriteRaisesType ==
    ASSUME TypeOK, NEW a \in Actors, NEW fail \in PCsOf(a), WriteRaises(a, fail), pc[a] # "idle"
    PROVE  LockType'
<1>1. PCType' /\ handle' \in [Actors -> Handles] /\ view' \in [Actors -> Views]
     /\ Targets'
  BY FinishType DEF WriteRaises
<1>2. md' \in [Actors -> Rows]
  BY EmptyTypes, BoundsAssumption DEF WriteRaises, TypeOK
<1>3. QED
  BY <1>1, <1>2 DEF WriteRaises, TypeOK, LockType, lockVars

LEMMA UpdateWriteType ==
    ASSUME TypeOK, NEW a \in Actors, NEW to \in PCsOf(a), NEW fail \in PCsOf(a),
           UpdateWrite(a, to, fail), pc[a] # "idle"
    PROVE  LockType'
BY WriteRowType, WriteRaisesType DEF UpdateWrite

LEMMA ReleaseReadType ==
    ASSUME TypeOK, NEW a \in Actors,
           NEW to \in PCsOf(a), NEW gone \in PCsOf(a), NEW fail \in PCsOf(a),
           ReleaseRead(a, to, gone, fail), pc[a] # "idle"
    PROVE  LockType'
<1>1. PCType' /\ handle' \in [Actors -> Handles] /\ view' \in [Actors -> Views]
     /\ Targets'
  BY FinishType DEF ReleaseRead
<1>2. QED
  BY <1>1 DEF ReleaseRead, TypeOK, LockType, lockVars

LEMMA ReleaseRemoveType ==
    ASSUME TypeOK, NEW a \in Actors, NEW to \in PCsOf(a), NEW fail \in PCsOf(a),
           ReleaseRemove(a, to, fail), pc[a] # "idle"
    PROVE  LockType'
<1>1. PCType' /\ handle' \in [Actors -> Handles] /\ view' \in [Actors -> Views]
     /\ Targets'
  BY FinishType DEF ReleaseRemove
<1>2. QED
  BY <1>1, EmptyTypes, BoundsAssumption DEF ReleaseRemove, TypeOK, LockType

\* The control points a supervisor, a helper and a cleaner may go to.
LEMMA PCMembers ==
    /\ Runs \subseteq Actors /\ Helpers \subseteq Actors /\ Cleaners \subseteq Actors
    /\ \A r \in Runs : PCsOf(r) = SupervisorPCs
    /\ \A h \in Helpers : PCsOf(h) = HelperPCs
    /\ \A c \in Cleaners : PCsOf(c) = CleanerPCs
BY ActorsAssumption DEF ActorsAssumption, Actors, PCsOf

\* What the supervisor writes about its run is a row.
LEMMA SupervisorMetadataType ==
    ASSUME TypeOK, NEW r \in Runs, NEW o \in Outcomes
    PROVE  /\ SupervisorMetadata(r, o) \in Rows
           /\ [SupervisorMetadata(r, o) EXCEPT !.wpid = TRUE] \in Rows
<1>1. handle[r].token \in 0..MaxToken BY PCMembers DEF TypeOK, Handles
<1>2. 0 \in 0..MaxScope BY BoundsAssumption DEF BoundsAssumption
<1>3. QED BY <1>1, <1>2 DEF SupervisorMetadata, Rows

\* A supervisor or a helper does not change what recovery examines ...
LEMMA RunTargets ==
    ASSUME TypeOK, NEW a \in Runs \cup Helpers, NEW to \in PCs, Goto(a, to),
           \A c \in Cleaners : handle'[c] = handle[c]
    PROVE  Targets'
BY ActorsAssumption DEF TypeOK, Targets, Goto, ActorsAssumption, Actors

\* ... and recovery goes on with the run it has started with.
LEMMA CleanerTargets ==
    ASSUME TypeOK, NEW c \in Cleaners, NEW to \in PCs, Goto(c, to), pc[c] # "idle",
           handle' \in [Actors -> Handles],
           \A d \in Cleaners : handle'[d].run = handle[d].run
    PROVE  Targets'
BY DEF TypeOK, Targets, Goto, Actors

-----------------------------------------------------------------------------
(* Each step keeps the types. *)

LEMMA AcquireType ==
    ASSUME TypeOK, NEW r \in Runs, AcquireStep(r)
    PROVE  TypeOK'
<1>. USE PCMembers, BoundsAssumption DEF SupervisorPCs
<1>1. CASE Acquire(r)
  <2>1. PCType' BY <1>1, GotoType DEF TypeOK, PCType, PCs, Acquire
  <2>2. \A c \in Cleaners : handle'[c] = handle[c]
    BY <1>1, ActorsAssumption DEF Acquire, TypeOK, ActorsAssumption
  <2>3. Targets' BY <1>1, <2>2, RunTargets DEF Acquire, PCs
  <2>4. counter' \in 0..MaxToken
    BY <1>1 DEF Acquire, TypeOK, BoundsAssumption
  <2>5. row' \in Rows
    BY <1>1, <2>4, EmptyTypes DEF Acquire, Rows
  <2>6. handle' \in [Actors -> Handles]
    BY <1>1, <2>4 DEF Acquire, TypeOK, Handles
  <2>7. QED
    BY <1>1, <2>1, <2>3, <2>4, <2>5, <2>6, TypeSplitNext
       DEF Acquire, TypeOK, LockType, RunType, runVars
<1>2. CASE AcquireFails(r) \/ AcquireTorn(r)
  <2>1. PCType' /\ Targets'
    BY <1>2, GotoType, RunTargets
       DEF TypeOK, PCType, PCs, AcquireFails, AcquireTorn, Goto
  <2>2. counter' \in 0..MaxToken
    BY <1>2 DEF AcquireFails, AcquireTorn, TypeOK, CounterAfterFailedWrite,
                BoundsAssumption
  <2>3. QED
    BY <1>2, <2>1, <2>2, TypeSplitNext
       DEF AcquireFails, AcquireTorn, TypeOK, LockType, RunType, runVars
<1>3. QED BY <1>1, <1>2 DEF AcquireStep

LEMMA SupervisorType ==
    ASSUME TypeOK, NEW r \in Runs, SupervisorStep(r)
    PROVE  TypeOK'
<1>. USE PCMembers, BoundsAssumption DEF SupervisorPCs
<1>1. CASE RecordWitness(r) \/ WitnessFails(r)
  <2>1. PCType' /\ Targets'
    BY <1>1, GotoType, RunTargets DEF TypeOK, PCType, PCs, RecordWitness, WitnessFails
  <2>2. QED
    BY <1>1, <2>1, TypeSplitNext
       DEF RecordWitness, WitnessFails, TypeOK, LockType, RunType, runVars,
           lockVars, Handles
<1>2. CASE GiveBackRead(r) \/ ReleaseStatus(r)
  <2>1. LockType'
    BY <1>2, ReleaseReadType DEF GiveBackRead, ReleaseStatus
  <2>2. QED
    BY <1>2, <2>1, TypeSplitNext, TypeSplit
       DEF GiveBackRead, ReleaseStatus, RunType, runVars
<1>3. CASE GiveBackRemove(r) \/ Release(r)
  <2>1. LockType'
    BY <1>3, ReleaseRemoveType DEF GiveBackRemove, Release
  <2>2. QED
    BY <1>3, <2>1, TypeSplitNext, TypeSplit
       DEF GiveBackRemove, Release, RunType, runVars
<1>4. CASE LaunchWorker(r)
  <2>1. LockType'
    BY <1>4, UpdateReadType, SupervisorMetadataType DEF LaunchWorker, Outcomes
  <2>2. QED
    BY <1>4, <2>1, TypeSplitNext, TypeSplit DEF LaunchWorker, RunType, runVars
<1>5. CASE PublishWorker(r)
  <2>1. LockType'
    BY <1>5, WriteRowType, WriteRaisesType DEF PublishWorker
  <2>2. QED
    BY <1>5, <2>1, TypeSplitNext, TypeSplit DEF PublishWorker, RunType
<1>6. CASE EnterRuntimeStages(r)
  BY <1>6, TypeSplitNext, TypeSplit
     DEF EnterRuntimeStages, LockType, RunType, lockVars, PCType, Targets
<1>7. ASSUME NEW o \in Outcomes, RecordResult(r, o) PROVE TypeOK'
  <2>1. PCType' /\ Targets'
    BY <1>7, GotoType, RunTargets DEF TypeOK, PCType, PCs, RecordResult
  <2>2. QED
    BY <1>7, <2>1, TypeSplitNext, TypeSplit
       DEF RecordResult, LockType, RunType, lockVars, Results
<1>8. CASE RunBodyRaises(r) \/ RetainLock(r)
  <2>1. PCType' /\ Targets'
    BY <1>8, GotoType, RunTargets DEF TypeOK, PCType, PCs, RunBodyRaises, RetainLock
  <2>2. QED
    BY <1>8, <2>1, TypeSplitNext, TypeSplit
       DEF RunBodyRaises, RetainLock, LockType, RunType, lockVars, runVars
<1>9. CASE SettleRead(r)
  <2>1. SettledOutcome(r) \in Outcomes
    BY DEF TypeOK, SettledOutcome, Results, Outcomes
  <2>2. LockType'
    BY <1>9, <2>1, UpdateReadType, SupervisorMetadataType
       DEF SettleRead, AfterFailedSettle
  <2>3. QED
    BY <1>9, <2>2, TypeSplitNext, TypeSplit DEF SettleRead, RunType, runVars
<1>10. CASE SettleWrite(r)
  <2>1. LockType'
    BY <1>10, UpdateWriteType DEF SettleWrite, AfterFailedSettle
  <2>2. QED
    BY <1>10, <2>1, TypeSplitNext, TypeSplit DEF SettleWrite, RunType, runVars
<1>11. QED
  BY <1>1, <1>2, <1>3, <1>4, <1>5, <1>6, <1>7, <1>8, <1>9, <1>10
     DEF SupervisorStep

LEMMA HelperType ==
    ASSUME TypeOK, NEW h \in Helpers, HelperStart(h) \/ HelperStep(h)
    PROVE  TypeOK'
<1>. USE PCMembers, BoundsAssumption DEF HelperPCs
<1>1. ASSUME NEW r \in Runs, RefreshSnapshot(h, r) \/ WidenSnapshot(h, r)
      PROVE  TypeOK'
  <2>1. PCType'
    BY <1>1, GotoType DEF TypeOK, PCType, PCs, RefreshSnapshot, WidenSnapshot
  <2>2. \A c \in Cleaners : handle'[c] = handle[c]
    BY <1>1, ActorsAssumption
       DEF RefreshSnapshot, WidenSnapshot, TypeOK, ActorsAssumption
  <2>3. Targets'
    BY <1>1, <2>2, RunTargets DEF RefreshSnapshot, WidenSnapshot, PCs
  <2>4. handle' \in [Actors -> Handles]
    BY <1>1, EmptyTypes DEF TypeOK, RefreshSnapshot, WidenSnapshot
  <2>5. authorized[r] < MaxScope => [row EXCEPT !.scope = authorized[r] + 1] \in Rows
    <3>1. SUFFICES ASSUME authorized[r] < MaxScope
                   PROVE  [row EXCEPT !.scope = authorized[r] + 1] \in Rows
      OBVIOUS
    <3>2. authorized[r] + 1 \in 0..MaxScope
      BY <3>1 DEF TypeOK, BoundsAssumption
    <3>3. QED BY <3>2 DEF TypeOK, Rows
  <2>6. md' \in [Actors -> Rows]
    BY <1>1, <2>5 DEF TypeOK, RefreshSnapshot, WidenSnapshot
  <2>7. QED
    BY <1>1, <2>1, <2>3, <2>4, <2>6, TypeSplitNext, TypeSplit
       DEF RefreshSnapshot, WidenSnapshot, LockType, RunType, lockVars, runVars
<1>2. CASE RefreshRead(h) \/ WidenRead(h)
  <2>1. md[h] \in Rows BY DEF TypeOK
  <2>2. LockType'
    BY <1>2, <2>1, UpdateReadType DEF RefreshRead, WidenRead
  <2>3. QED
    BY <1>2, <2>2, TypeSplitNext, TypeSplit
       DEF RefreshRead, WidenRead, RunType, runVars
<1>3. CASE RefreshWrite(h)
  <2>1. LockType' BY <1>3, UpdateWriteType DEF RefreshWrite
  <2>2. QED
    BY <1>3, <2>1, TypeSplitNext, TypeSplit DEF RefreshWrite, RunType, runVars
<1>4. CASE WidenWrite(h)
  <2>1. LockType' BY <1>4, WriteRowType, WriteRaisesType DEF WidenWrite
  <2>2. md[h].scope \in 0..MaxScope BY DEF TypeOK, Rows
  <2>3. QED
    BY <1>4, <2>1, <2>2, TypeSplitNext, TypeSplit DEF WidenWrite, RunType
<1>5. QED BY <1>1, <1>2, <1>3, <1>4 DEF HelperStart, HelperStep

LEMMA CleanerType ==
    ASSUME TypeOK, NEW c \in Cleaners, CleanerStart(c) \/ CleanerStep(c)
    PROVE  TypeOK'
<1>. USE PCMembers, BoundsAssumption DEF CleanerPCs
<1>1. ASSUME NEW r \in Runs, CollectPending(c, r) PROVE TypeOK'
  <2>1. PCType' /\ Targets'
    BY <1>1, GotoType
       DEF TypeOK, PCType, PCs, CollectPending, Goto, Targets, Actors
  <2>2. handle' \in [Actors -> Handles]
    BY <1>1 DEF TypeOK, CollectPending, Handles, BoundsAssumption
  <2>3. [NoView EXCEPT !.pending = result[r]] \in Views
    BY EmptyTypes DEF TypeOK, Views
  <2>4. view' \in [Actors -> Views]
    BY <1>1, <2>3 DEF TypeOK, CollectPending
  <2>5. QED
    BY <1>1, <2>1, <2>2, <2>4, TypeSplitNext, TypeSplit
       DEF CollectPending, LockType, RunType, lockVars, runVars
<1>2. CASE CollectRecords(c)
  <2>1. PCType' /\ Targets'
    BY <1>2, GotoType, CleanerTargets DEF TypeOK, PCType, PCs, CollectRecords
  <2>2. view' \in [Actors -> Views]
    <3>1. view[c] \in Views /\ result[handle[c].run] \in Results
      BY <1>2 DEF TypeOK, CollectRecords
    <3>2. PICK v : /\ v = [[view[c] EXCEPT !.result = result[handle[c].run]]
                              EXCEPT !.runtime = stage[handle[c].run] = "runtime"]
                   /\ view' = [view EXCEPT ![c] = v]
      BY <1>2, <3>1 DEF CollectRecords, TypeOK
    <3>3. v \in Views BY <3>1, <3>2 DEF Views
    <3>4. QED BY <3>2, <3>3 DEF TypeOK
  <2>3. QED
    BY <1>2, <2>1, <2>2, TypeSplitNext, TypeSplit
       DEF CollectRecords, LockType, RunType, lockVars, runVars
<1>3. CASE CollectLock(c)
  <2>1. PCType' /\ handle' \in [Actors -> Handles] /\ view' \in [Actors -> Views]
       /\ Targets'
    BY <1>3, FinishType DEF CollectLock
  <2>2. misjudged' \in SUBSET Runs
    BY <1>3 DEF CollectLock, TypeOK
  <2>3. QED
    BY <1>3, <2>1, <2>2, TypeSplitNext, TypeSplit
       DEF CollectLock, LockType, RunType, lockVars, runVars
<1>4. CASE StaleStatus(c)
  <2>1. CASE dir /\ row.run = handle[c].run
    <3>1. PICK to \in {"republish", "releasing"} : Goto(c, to)
      BY <1>4, <2>1 DEF StaleStatus
    <3>2. PCType' BY <3>1, GotoType DEF TypeOK, PCType, PCs
    <3>3. handle' \in [Actors -> Handles]
      BY <1>4, <2>1, EmptyTypes DEF TypeOK, StaleStatus
    <3>4. \A d \in Cleaners : handle'[d].run = handle[d].run
      BY <1>4, <2>1 DEF TypeOK, StaleStatus, HandleOf
    <3>5. Targets'
      BY <1>4, <3>1, <3>3, <3>4, CleanerTargets DEF StaleStatus, PCs
    <3>6. \A o \in TERMINAL_LOCK_OUTCOMES : [row EXCEPT !.outcome = o] \in Rows
      BY DEF TypeOK, Rows, Outcomes
    <3>7. md' \in [Actors -> Rows]
      BY <1>4, <2>1, <3>6 DEF TypeOK, StaleStatus
    <3>8. QED
      BY <1>4, <2>1, <3>2, <3>3, <3>5, <3>7, TypeSplitNext, TypeSplit
         DEF StaleStatus, LockType, RunType, lockVars, runVars
  <2>2. CASE ~(dir /\ row.run = handle[c].run)
    <3>1. PCType' /\ handle' \in [Actors -> Handles] /\ view' \in [Actors -> Views]
          /\ Targets'
      BY <1>4, <2>2, FinishType DEF StaleStatus
    <3>2. QED
      BY <1>4, <2>2, <3>1, TypeSplitNext, TypeSplit
         DEF StaleStatus, LockType, RunType, lockVars, runVars
  <2>3. QED BY <2>1, <2>2
<1>5. CASE RepublishRead(c)
  <2>1. md[c] \in Rows BY DEF TypeOK
  <2>2. LockType' BY <1>5, <2>1, UpdateReadType DEF RepublishRead
  <2>3. QED
    BY <1>5, <2>2, TypeSplitNext, TypeSplit DEF RepublishRead, RunType, runVars
<1>6. CASE RepublishWrite(c)
  <2>1. LockType' BY <1>6, UpdateWriteType DEF RepublishWrite
  <2>2. QED
    BY <1>6, <2>1, TypeSplitNext, TypeSplit DEF RepublishWrite, RunType, runVars
<1>7. CASE StaleReleaseStatus(c)
  <2>1. LockType' BY <1>7, ReleaseReadType DEF StaleReleaseStatus
  <2>2. QED
    BY <1>7, <2>1, TypeSplitNext, TypeSplit
       DEF StaleReleaseStatus, RunType, runVars
<1>8. CASE StaleRelease(c)
  <2>1. LockType' BY <1>8, ReleaseRemoveType DEF StaleRelease
  <2>2. QED
    BY <1>8, <2>1, TypeSplitNext, TypeSplit DEF StaleRelease, RunType, runVars
<1>9. CASE RefuseLatched(c)
  <2>1. PCType' /\ handle' \in [Actors -> Handles] /\ view' \in [Actors -> Views]
        /\ Targets'
    BY <1>9, FinishType DEF RefuseLatched
  <2>2. QED
    BY <1>9, <2>1, TypeSplitNext, TypeSplit
       DEF RefuseLatched, LockType, RunType, lockVars, runVars
<1>10. CASE FencedRecovery(c)
  <2>1. Goto(c, "republish") /\ handle[c].run \in Runs
    BY <1>10 DEF FencedRecovery, TypeOK
  <2>2. PCType' BY <2>1, GotoType DEF TypeOK, PCType, PCs
  <2>3. [run |-> handle[c].run, token |-> acquired] \in Handles
    BY <2>1 DEF TypeOK, Handles
  <2>4. handle' \in [Actors -> Handles]
    BY <1>10, <2>3 DEF TypeOK, FencedRecovery
  <2>5. \A d \in Cleaners : handle'[d].run = handle[d].run
    BY <1>10 DEF TypeOK, FencedRecovery
  <2>6. Targets' BY <1>10, <2>1, <2>4, <2>5, CleanerTargets DEF FencedRecovery, PCs
  <2>7. \A t \in 0..MaxToken, o \in Outcomes :
           [row EXCEPT !.token = t, !.outcome = o] \in Rows
    BY DEF TypeOK, Rows
  <2>8. result[handle[c].run] \in Outcomes
    BY <1>10, <2>1 DEF TypeOK, Results, FencedRecovery
  <2>9. md' \in [Actors -> Rows]
    BY <1>10, <2>7, <2>8 DEF TypeOK, FencedRecovery
  <2>10. QED
    BY <1>10, <2>2, <2>4, <2>6, <2>9, TypeSplitNext, TypeSplit
       DEF FencedRecovery, LockType, RunType, lockVars, runVars
<1>11. QED
  BY <1>1, <1>2, <1>3, <1>4, <1>5, <1>6, <1>7, <1>8, <1>9, <1>10
     DEF CleanerStart, CleanerStep

LEMMA DeathType ==
    ASSUME TypeOK, Death
    PROVE  TypeOK'
<1>. USE PCMembers, BoundsAssumption
<1>1. ASSUME NEW r \in Runs, SupervisorDies(r) PROVE TypeOK'
  <2>1. PCType'
    BY <1>1, GotoType DEF TypeOK, PCType, PCs, SupervisorDies, SupervisorPCs
  <2>2. Targets'
    BY <1>1, RunTargets DEF SupervisorDies, PCs, SupervisorPCs
  <2>3. md' \in [Actors -> Rows] BY <1>1, EmptyTypes DEF TypeOK, SupervisorDies
  <2>4. QED
    BY <1>1, <2>1, <2>2, <2>3, TypeSplitNext, TypeSplit
       DEF SupervisorDies, FreedMutex, LockType, RunType, lockVars, runVars
<1>2. ASSUME NEW a \in Helpers \cup Cleaners, CommandDies(a) PROVE TypeOK'
  <2>1. "idle" \in PCsOf(a) BY DEF HelperPCs, CleanerPCs
  <2>2. PCType' /\ handle' \in [Actors -> Handles] /\ view' \in [Actors -> Views]
        /\ Targets'
    BY <1>2, <2>1, FinishType DEF CommandDies
  <2>3. md' \in [Actors -> Rows] BY <1>2, EmptyTypes DEF TypeOK, CommandDies
  <2>4. QED
    BY <1>2, <2>2, <2>3, TypeSplitNext, TypeSplit
       DEF CommandDies, FreedMutex, LockType, RunType, lockVars, runVars
<1>3. ASSUME NEW a \in Actors, DiesInRemove(a) PROVE TypeOK'
  <2>1. (IF a \in Runs THEN "dead" ELSE "idle") \in PCsOf(a)
    BY DEF PCsOf, SupervisorPCs, HelperPCs, CleanerPCs
  <2>2. PCType' /\ handle' \in [Actors -> Handles] /\ view' \in [Actors -> Views]
        /\ Targets'
    BY <1>3, <2>1, FinishType DEF DiesInRemove
  <2>3. QED
    BY <1>3, <2>2, EmptyTypes, TypeSplitNext, TypeSplit
       DEF DiesInRemove, LockType, RunType, runVars
<1>4. QED BY <1>1, <1>2, <1>3 DEF Death

LEMMA TypeInit == Init => TypeOK
<1>1. SUFFICES ASSUME Init PROVE TypeOK OBVIOUS
<1>2. counter \in 0..MaxToken /\ acquired \in 0..MaxToken /\ 0 \in 0..MaxScope
  BY <1>1, BoundsAssumption DEF Init, BoundsAssumption
<1>3. QED
  BY <1>1, <1>2, EmptyTypes, BoundsAssumption
     DEF Init, TypeOK, SupervisorPCs, HelperPCs, CleanerPCs, Actors, Results

LEMMA TypeStep == TypeOK /\ [Next]_vars => TypeOK'
<1>1. SUFFICES ASSUME TypeOK, [Next]_vars PROVE TypeOK' OBVIOUS
<1>2. CASE UNCHANGED vars
  BY <1>1, <1>2 DEF vars, TypeOK
<1>3. CASE Death BY <1>1, <1>3, DeathType
<1>4. ASSUME NEW r \in Runs, WorkerExits(r) PROVE TypeOK'
  BY <1>1, <1>4, TypeSplitNext, TypeSplit
     DEF WorkerExits, LockType, RunType, lockVars, PCType, Targets
<1>5. QED
  BY <1>1, <1>2, <1>3, <1>4, AcquireType, SupervisorType, HelperType, CleanerType
     DEF Next

\* Every variable keeps its type in every reachable state, whatever the
\* number of processes and the bounds.
THEOREM TypeCorrect == Spec => []TypeOK
BY TypeInit, TypeStep, PTL DEF Spec

-----------------------------------------------------------------------------
(* A run at work keeps its lock *)

\* What no step of anyone undoes.
Mono ==
    /\ counter <= counter'
    /\ misjudged \subseteq misjudged'
    /\ \A r \in Runs :
         /\ handle[r].token # 0 => handle'[r] = handle[r]
         /\ Over(r) => Over(r)'
         /\ result[r] # "none" => result'[r] # "none"

\* Only process a moves.
OnlyMoves(a) ==
    /\ \A b \in Actors \ {a} : /\ pc'[b] = pc[b]
                               /\ handle'[b] = handle[b]
                               /\ md'[b] = md[b]
                               /\ view'[b] = view[b]
    /\ \A r \in Runs \ {a} : result'[r] = result[r]

\* A process that does not move keeps its part of the invariant.
LEMMA OthersKeep ==
    ASSUME LockInv, TypeOK', Mono, NEW a \in Actors, OnlyMoves(a)
    PROVE  /\ \A r \in Runs \ {a} : RunInv(r)'
           /\ \A b \in (Helpers \cup Cleaners) \ {a} : CommandInv(b)'
           /\ \A h \in Helpers \ {a} : HelperInv(h)'
           /\ \A c \in Cleaners \ {a} : CleanerInv(c)'
           /\ \A b \in Actors \ {a} : WriterInv(b)'
<1>. USE PCMembers
<1>1. ASSUME NEW r \in Runs \ {a} PROVE RunInv(r)'
  <2>1. handle[r].token \in Int /\ counter \in Int /\ counter' \in Int
    BY DEF LockInv, TypeOK, Handles
  <2>2. QED BY <2>1 DEF LockInv, RunInv, Mono, OnlyMoves, Over
<1>2. ASSUME NEW b \in (Helpers \cup Cleaners) \ {a} PROVE CommandInv(b)'
  BY <1>2 DEF LockInv, CommandInv, Mono, OnlyMoves
<1>3. ASSUME NEW h \in Helpers \ {a} PROVE HelperInv(h)'
  BY <1>3 DEF LockInv, HelperInv, OnlyMoves
<1>4. ASSUME NEW c \in Cleaners \ {a} PROVE CleanerInv(c)'
  BY <1>4 DEF LockInv, CleanerInv, Mono, OnlyMoves, TypeOK
<1>5. ASSUME NEW b \in Actors \ {a} PROVE WriterInv(b)'
  BY <1>5 DEF LockInv, WriterInv, OnlyMoves
<1>6. QED BY <1>1, <1>2, <1>3, <1>4, <1>5

\* Rows and tokens: a step that mints no token and puts no row in place.
LEMMA TokensKeep ==
    ASSUME LockInv, TypeOK', Mono, \A r \in Runs : handle'[r] = handle[r]
    PROVE  /\ FencingTokensUnique'
           /\ dir' = dir /\ row' = row => RowInv'
           /\ row' = EmptyRow => RowInv'
BY DEF LockInv, FencingTokensUnique, RowInv, EmptyRow, TypeOK, Rows

\* Two processes hold the same token only for the same run.
LEMMA SameToken ==
    ASSUME LockInv, NEW a \in Actors, NEW r \in Runs,
           handle[a].token # 0, handle[a].token = handle[r].token
    PROVE  handle[a].run = r
<1>1. CASE a \in Runs
  BY <1>1 DEF LockInv, FencingTokensUnique, RunInv
<1>2. CASE a \in Helpers \cup Cleaners
  BY <1>2 DEF LockInv, FencingTokensUnique, CommandInv
<1>3. QED BY <1>1, <1>2 DEF Actors

\* The generation a process has validated is the one on the row, or the row
\* carries no generation at all.
LEMMA MatchingRow ==
    ASSUME LockInv, NEW a \in Actors, handle[a].token # 0,
           TokenMatches(handle[a], row), row.token # 0
    PROVE  row.run = handle[a].run /\ row.run \in Runs
<1>1. row.run \in Runs /\ row.token = handle[row.run].token
  BY DEF LockInv, RowInv, TypeOK, Rows
<1>2. QED BY <1>1, SameToken DEF TokenMatches

\* LockHeldAtWork survives whatever leaves the rows of runs at work alone.
LEMMA HeldKeeps ==
    ASSUME LockInv, Mono,
           \A r \in Runs : AtWork(r)' => AtWork(r) /\ handle'[r] = handle[r],
           \A r \in Runs \ misjudged :
              AtWork(r) /\ AtWork(r)' => \/ dir' = dir /\ row' = row
                                         \/ /\ dir' /\ row'.run = row.run
                                            /\ row'.token = row.token
    PROVE  LockHeldAtWork'
BY DEF LockInv, LockHeldAtWork, Mono

\* The parts of the invariant that belong to one process each.
LocalInv ==
    /\ \A r \in Runs : RunInv(r)
    /\ \A a \in Helpers \cup Cleaners : CommandInv(a)
    /\ \A h \in Helpers : HelperInv(h)
    /\ \A c \in Cleaners : CleanerInv(c)
    /\ \A a \in Actors : WriterInv(a)

\* A process that goes on keeps its handle; one that ends forgets it.
GoesOn(a) ==
    /\ OnlyMoves(a)
    /\ handle'[a] = IF pc'[a] = "idle" THEN NoHandle ELSE handle[a]
    /\ view'[a] = IF pc'[a] = "idle" THEN NoView ELSE view[a]
    /\ counter' = counter

\* A supervisor in the middle of its run takes a step.
LEMMA RunGoesOn ==
    ASSUME LockInv, TypeOK', NEW r \in Runs, GoesOn(r), WriterInv(r)',
           misjudged' = misjudged,
           pc[r] \notin {"idle", "done", "dead"}, pc'[r] # "idle",
           Over(r) => Over(r)',
           result'[r] = result[r] \/ (result'[r] # "none" /\ Over(r)')
    PROVE  Mono /\ LocalInv' /\ (\A s \in Runs : handle'[s] = handle[s])
<1>. USE PCMembers
<1>1. handle[r].token # 0 /\ handle'[r] = handle[r]
  BY DEF LockInv, RunInv, GoesOn
<1>2. counter <= counter' BY DEF LockInv, TypeOK, GoesOn
<1>3. Mono BY <1>1, <1>2 DEF Mono, OnlyMoves, GoesOn, Over
<1>4. RunInv(r)' BY <1>1 DEF LockInv, RunInv, GoesOn
<1>5. r \notin Helpers \cup Cleaners
  BY ActorsAssumption DEF ActorsAssumption
<1>6. LocalInv' BY <1>3, <1>4, <1>5, OthersKeep DEF LocalInv, GoesOn
<1>7. QED BY <1>1, <1>3, <1>6 DEF GoesOn, OnlyMoves

\* A heartbeat, claim or widening takes a step after its snapshot.
LEMMA HelperGoesOn ==
    ASSUME LockInv, TypeOK', NEW h \in Helpers, GoesOn(h), WriterInv(h)',
           misjudged' = misjudged, pc[h] # "idle"
    PROVE  Mono /\ LocalInv' /\ (\A s \in Runs : handle'[s] = handle[s])
<1>. USE PCMembers
<1>1. h \notin Runs \cup Cleaners BY ActorsAssumption DEF ActorsAssumption
<1>2. handle[h].token # 0 BY DEF LockInv, HelperInv
<1>3. counter <= counter' BY DEF LockInv, TypeOK, GoesOn
<1>4. Mono BY <1>1, <1>3 DEF Mono, OnlyMoves, GoesOn, Over
<1>5. HelperInv(h)' /\ CommandInv(h)'
  BY <1>1, <1>2, <1>4 DEF LockInv, HelperInv, CommandInv, GoesOn, NoHandle, Mono
<1>6. LocalInv' BY <1>1, <1>4, <1>5, OthersKeep DEF LocalInv, GoesOn
<1>7. QED BY <1>1, <1>4, <1>6 DEF GoesOn, OnlyMoves

\* Recovery takes a step; a new verdict has to be justified.
LEMMA CleanerGoesOn ==
    ASSUME LockInv, TypeOK', NEW c \in Cleaners, GoesOn(c), WriterInv(c)',
           misjudged \subseteq misjudged', pc[c] # "idle",
           pc'[c] \in {"republish", "rep", "releasing", "rel"}
             => pc[c] \in {"republish", "rep", "releasing", "rel"},
           pc'[c] = "stale"
             => Over(handle[c].run) \/ handle[c].run \in misjudged'
    PROVE  Mono /\ LocalInv' /\ (\A s \in Runs : handle'[s] = handle[s])
<1>. USE PCMembers
<1>1. c \notin Runs \cup Helpers BY ActorsAssumption DEF ActorsAssumption
<1>2. counter <= counter' BY DEF LockInv, TypeOK, GoesOn
<1>3. Mono BY <1>1, <1>2 DEF Mono, OnlyMoves, GoesOn, Over
<1>4. CommandInv(c)' BY <1>1, <1>3 DEF LockInv, CommandInv, GoesOn, NoHandle, Mono
<1>5. handle[c].run \in Runs BY DEF LockInv, TypeOK
<1>6. CleanerInv(c)'
  BY <1>1, <1>3, <1>5 DEF LockInv, CleanerInv, GoesOn, NoView, Mono
<1>7. LocalInv' BY <1>1, <1>3, <1>4, <1>6, OthersKeep DEF LocalInv, GoesOn
<1>8. QED BY <1>1, <1>3, <1>7 DEF GoesOn, OnlyMoves

\* Ending or continuing a command is a step of GoesOn.
LEMMA FinishGoesOn ==
    ASSUME TypeOK, NEW a \in Actors, NEW to, Finish(a, to), to # "idle" \/ a \notin Runs,
           UNCHANGED <<counter, result>>,
           \A b \in Actors \ {a} : md'[b] = md[b]
    PROVE  GoesOn(a) /\ pc'[a] = to
BY DEF Finish, Forget, Goto, GoesOn, OnlyMoves, TypeOK

\* So is a move of the control point alone, of a process that stays at work.
LEMMA GotoGoesOn ==
    ASSUME TypeOK, NEW a \in Actors, NEW to, Goto(a, to), to # "idle",
           UNCHANGED <<counter, handle, view>>,
           \A b \in Actors \ {a} : md'[b] = md[b],
           \A r \in Runs \ {a} : result'[r] = result[r]
    PROVE  GoesOn(a) /\ pc'[a] = to
BY DEF Goto, GoesOn, OnlyMoves, TypeOK

\* The metadata a writer leaves the first half of an update with.
LEMMA UpdateReadWriter ==
    ASSUME LockInv, NEW a \in Actors, NEW m \in Rows, NEW to, NEW fail,
           UpdateRead(a, m, to, fail), HandleOf(m) = handle[a],
           handle[a].token # 0, fail \notin Writing
    PROVE  WriterInv(a)' /\ pc'[a] \in {to, fail} /\ pc' = [pc EXCEPT ![a] = pc'[a]]
<1>1. pc \in [Actors -> PCs] /\ md \in [Actors -> Rows] /\ handle \in [Actors -> Handles]
  BY DEF LockInv, TypeOK, PCs
<1>2. CASE dir /\ OwnerMatches(handle[a], row)
  <2>1. pc'[a] = to /\ md'[a] = Preserve(m, row)
    BY <1>1, <1>2 DEF UpdateRead, Finish, Goto
  <2>2. HandleOf(Preserve(m, row)) = handle[a]
    BY DEF HandleOf, Preserve
  <2>3. handle'[a] = handle[a] \/ pc'[a] = "idle"
    BY <1>1, <1>2, <2>1 DEF UpdateRead, Finish, Forget
  <2>4. QED
    BY <1>1, <1>2, <2>1, <2>2, <2>3
       DEF WriterInv, Writing, UpdateRead, Finish, Goto
<1>3. CASE ~(dir /\ OwnerMatches(handle[a], row))
  BY <1>1, <1>3 DEF UpdateRead, Finish, Goto, WriterInv
<1>4. QED BY <1>2, <1>3

-----------------------------------------------------------------------------
(* What a step does to the row *)

\* A step that leaves the row alone and sets no one to work.
LEMMA RowKept ==
    ASSUME LockInv, TypeOK', Mono, LocalInv', dir' = dir, row' = row,
           \A r \in Runs : handle'[r] = handle[r],
           \A r \in Runs : AtWork(r)' => AtWork(r)
    PROVE  LockInv'
<1>1. RowInv' /\ FencingTokensUnique' BY TokensKeep
<1>2. LockHeldAtWork' BY HeldKeeps
<1>3. QED BY <1>1, <1>2 DEF LockInv, LocalInv

\* The second half of an update writes the generation it has validated.
LEMMA RowWritten ==
    ASSUME LockInv, TypeOK', Mono, LocalInv', NEW a \in Actors, NEW to,
           WriteRow(a, to), pc[a] \in Writing, handle[a].token # 0,
           \A r \in Runs : handle'[r] = handle[r],
           \A r \in Runs : AtWork(r)' => AtWork(r)
    PROVE  LockInv'
<1>1. HandleOf(md[a]) = handle[a] BY DEF LockInv, WriterInv
<1>2. row'.run = handle[a].run /\ row'.token = handle[a].token /\ dir' = dir /\ dir
  BY <1>1 DEF WriteRow, Preserve, HandleOf
<1>3. handle[a].run \in Runs /\ handle[a].token = handle[handle[a].run].token
  BY DEF LockInv, RunInv, CommandInv, Actors
<1>4. row.token # 0 => row.run = row'.run /\ row.token = row'.token
  BY <1>2, MatchingRow DEF WriteRow, TokenMatches
<1>5. RowInv'
  BY <1>2, <1>3, ActorsAssumption DEF RowInv, ActorsAssumption, Actors
<1>6. \A r \in Runs \ misjudged : AtWork(r) => row.token # 0
  BY DEF LockInv, LockHeldAtWork, RowInv, Actors, ActorsAssumption, AtWork, RunInv
<1>7. LockHeldAtWork' BY <1>2, <1>4, <1>6, HeldKeeps
<1>8. FencingTokensUnique' BY TokensKeep
<1>9. QED BY <1>5, <1>7, <1>8 DEF LockInv, LocalInv

\* A removal, complete or cut short, of a generation whose run is not at work
\* or was misjudged.
LEMMA RowRemoved ==
    ASSUME LockInv, TypeOK', Mono, LocalInv', NEW a \in Actors,
           row' = EmptyRow, TokenMatches(handle[a], row), handle[a].token # 0,
           handle[a].run \in misjudged \/ ~AtWork(handle[a].run),
           \A r \in Runs : handle'[r] = handle[r],
           \A r \in Runs : AtWork(r)' => AtWork(r)
    PROVE  LockInv'
<1>1. RowInv' /\ FencingTokensUnique' BY TokensKeep
<1>2. ASSUME NEW r \in Runs \ misjudged, AtWork(r) PROVE FALSE
  <2>1. row.run = r /\ row.token = handle[r].token /\ handle[r].token # 0
    BY <1>2 DEF LockInv, LockHeldAtWork, RunInv, AtWork
  <2>2. handle[a].run = r BY <2>1, MatchingRow
  <2>3. QED BY <1>2, <2>2
<1>3. LockHeldAtWork' BY <1>2, HeldKeeps
<1>4. QED BY <1>1, <1>3 DEF LockInv, LocalInv

-----------------------------------------------------------------------------
(* Each step keeps the invariant *)

\* Acquire puts a fresh generation on an empty row.
LEMMA AcquireInv ==
    ASSUME LockInv, TypeOK', NEW r \in Runs, Acquire(r)
    PROVE  LockInv'
<1>. USE PCMembers
<1>1. /\ handle[r] = NoHandle /\ counter \in Nat /\ counter' = counter + 1
      /\ handle' = [handle EXCEPT ![r] = [run |-> r, token |-> counter + 1]]
      /\ pc[r] = "idle" /\ pc' = [pc EXCEPT ![r] = "granted"]
      /\ handle'[r] = [run |-> r, token |-> counter + 1] /\ pc'[r] = "granted"
      /\ row'.run = r /\ row'.token = counter + 1 /\ dir'
  BY BoundsAssumption
     DEF LockInv, RunInv, Acquire, TypeOK, Goto, EmptyRow, BoundsAssumption
<1>2. OnlyMoves(r) BY <1>1 DEF Acquire, OnlyMoves, runVars, LockInv, TypeOK
<1>3. Mono
  BY <1>1, <1>2 DEF Mono, Acquire, Over, NoHandle, runVars, OnlyMoves
<1>4. RunInv(r)' /\ WriterInv(r)'
  BY <1>1 DEF RunInv, WriterInv, Writing, LockInv, Acquire, runVars, Over
<1>5. LocalInv'
  BY <1>2, <1>3, <1>4, OthersKeep, ActorsAssumption
     DEF LocalInv, ActorsAssumption
<1>6. \A s \in Runs \ {r} : handle'[s] = handle[s] /\ handle[s].token <= counter
                            /\ handle[s].token \in Int
  BY <1>2 DEF OnlyMoves, LockInv, RunInv, TypeOK, Handles
<1>7. FencingTokensUnique'
  BY <1>1, <1>6 DEF FencingTokensUnique, LockInv
<1>8. RowInv'
  BY <1>1, ActorsAssumption DEF RowInv, ActorsAssumption, Actors
<1>9. LockHeldAtWork'
  <2>1. \A s \in Runs \ misjudged : ~AtWork(s)
    BY DEF Acquire, LockInv, LockHeldAtWork
  <2>2. \A s \in Runs \ {r} : AtWork(s)' => AtWork(s)
    BY <1>2 DEF OnlyMoves, AtWork
  <2>3. misjudged' = misjudged BY DEF Acquire
  <2>4. QED BY <1>1, <2>1, <2>2, <2>3 DEF LockHeldAtWork
<1>10. QED BY <1>5, <1>7, <1>8, <1>9 DEF LockInv, LocalInv

\* An acquire that fails, or dies, leaves an empty row and no handle.
LEMMA AcquireFailsInv ==
    ASSUME LockInv, TypeOK', ~TornTokenWrites, NEW r \in Runs,
           AcquireFails(r) \/ AcquireTorn(r)
    PROVE  LockInv'
<1>. USE PCMembers
<1>1. counter \in Nat /\ counter' \in Nat /\ counter <= counter'
  BY BoundsAssumption
     DEF AcquireFails, AcquireTorn, CounterAfterFailedWrite, LockInv, TypeOK,
         BoundsAssumption
<1>2. PICK to \in {"done", "dead"} : Goto(r, to)
  BY DEF AcquireFails, AcquireTorn
<1>3. pc' = [pc EXCEPT ![r] = to] /\ pc'[r] = to /\ pc[r] = "idle"
  BY <1>2 DEF AcquireFails, AcquireTorn, Goto, LockInv, TypeOK
<1>4. UNCHANGED <<row, handle, md, view, result, misjudged>>
  BY DEF AcquireFails, AcquireTorn, runVars
<1>5. OnlyMoves(r) BY <1>3, <1>4 DEF OnlyMoves, LockInv, TypeOK
<1>6. Mono BY <1>1, <1>3, <1>4 DEF Mono, Over, LockInv, TypeOK
<1>7. RunInv(r)' /\ WriterInv(r)'
  BY <1>1, <1>3, <1>4 DEF RunInv, WriterInv, Writing, LockInv, Over, NoHandle
<1>8. LocalInv'
  BY <1>5, <1>6, <1>7, OthersKeep, ActorsAssumption
     DEF LocalInv, ActorsAssumption
<1>9. row = EmptyRow BY DEF LockInv, RowInv, AcquireFails, AcquireTorn
<1>10. RowInv' /\ FencingTokensUnique' BY <1>4, <1>6, <1>9, TokensKeep
<1>11. LockHeldAtWork'
  <2>1. \A s \in Runs \ misjudged : ~AtWork(s)
    BY DEF AcquireFails, AcquireTorn, LockInv, LockHeldAtWork
  <2>2. \A s \in Runs : AtWork(s)' => AtWork(s)
    BY <1>3, <1>5 DEF OnlyMoves, AtWork
  <2>3. QED BY <1>4, <2>1, <2>2 DEF LockHeldAtWork
<1>12. QED BY <1>8, <1>10, <1>11 DEF LockInv, LocalInv

\* Every step of a supervisor that holds the lock.
LEMMA SupervisorInv ==
    ASSUME LockInv, TypeOK', NEW r \in Runs, SupervisorStep(r)
    PROVE  LockInv'
<1>. USE PCMembers
<1>1. TypeOK /\ r \in Actors /\ r \notin Helpers \cup Cleaners
  BY ActorsAssumption DEF LockInv, ActorsAssumption
<1>2. ASSUME GoesOn(r), WriterInv(r)', misjudged' = misjudged,
             pc[r] \notin {"idle", "done", "dead"}, pc'[r] # "idle",
             Over(r) => Over(r)', AtWork(r)' => AtWork(r),
             result'[r] = result[r] \/ (result'[r] # "none" /\ Over(r)')
      PROVE  /\ Mono /\ LocalInv'
             /\ \A s \in Runs : handle'[s] = handle[s]
             /\ \A s \in Runs : AtWork(s)' => AtWork(s)
  BY <1>2, RunGoesOn DEF GoesOn, OnlyMoves, AtWork
<1>3. pc[r] \notin {"idle", "done", "dead"} => handle[r].token # 0 /\ handle[r].run = r
  BY DEF LockInv, RunInv
<1>4. CASE RecordWitness(r) \/ WitnessFails(r)
  <2>1. PICK to \in {"held", "giveback"} : Goto(r, to)
    BY <1>4 DEF RecordWitness, WitnessFails
  <2>2. GoesOn(r) /\ pc'[r] = to /\ pc[r] = "granted"
    BY <1>1, <1>4, <2>1, GotoGoesOn DEF RecordWitness, WitnessFails, runVars, lockVars
  <2>3. UNCHANGED <<dir, row, misjudged, result>>
    BY <1>4 DEF RecordWitness, WitnessFails, runVars, lockVars
  <2>4. QED
    BY <1>2, <2>2, <2>3, RowKept DEF Over, AtWork, WriterInv, Writing
<1>5. CASE GiveBackRead(r) \/ ReleaseStatus(r)
  <2>1. PICK to \in {"givenback", "rel", "done", "retained"} : Finish(r, to)
    BY <1>5 DEF GiveBackRead, ReleaseStatus, ReleaseRead
  <2>2. UNCHANGED <<dir, row, counter, md, misjudged, result>>
    BY <1>5 DEF GiveBackRead, ReleaseStatus, ReleaseRead, runVars, lockVars
  <2>3. GoesOn(r) /\ pc'[r] = to /\ pc[r] \in {"giveback", "releasing"}
    BY <1>1, <1>5, <2>1, <2>2, FinishGoesOn DEF GiveBackRead, ReleaseStatus
  <2>4. QED
    BY <1>2, <2>2, <2>3, RowKept DEF Over, AtWork, WriterInv, Writing
<1>6. CASE GiveBackRemove(r) \/ Release(r)
  <2>1. PICK to \in {"done", "retained"} : Finish(r, to)
    BY <1>6 DEF GiveBackRemove, Release, ReleaseRemove
  <2>2. UNCHANGED <<counter, md, misjudged, result>>
    BY <1>6 DEF GiveBackRemove, Release, ReleaseRemove, runVars
  <2>3. GoesOn(r) /\ pc'[r] = to /\ pc[r] \in {"givenback", "rel"}
    BY <1>1, <1>6, <2>1, <2>2, FinishGoesOn DEF GiveBackRemove, Release
  <2>4. /\ Mono /\ LocalInv'
        /\ \A s \in Runs : handle'[s] = handle[s]
        /\ \A s \in Runs : AtWork(s)' => AtWork(s)
    BY <1>2, <2>2, <2>3 DEF Over, AtWork, WriterInv, Writing
  <2>5. CASE TokenMatches(handle[r], row)
    BY <1>3, <1>6, <2>3, <2>4, <2>5, RowRemoved
       DEF GiveBackRemove, Release, ReleaseRemove, AtWork
  <2>6. CASE ~TokenMatches(handle[r], row)
    BY <1>6, <2>4, <2>6, RowKept DEF GiveBackRemove, Release, ReleaseRemove
  <2>7. QED BY <2>5, <2>6
<1>7. ASSUME NEW m \in Rows, NEW to \in SupervisorPCs, NEW fail \in SupervisorPCs,
             UpdateRead(r, m, to, fail), HandleOf(m) = handle[r],
             UNCHANGED <<runVars, misjudged>>,
             \/ pc[r] = "held" /\ to = "pub" /\ fail = "settling"
             \/ /\ pc[r] = "settling" /\ to = "set"
                /\ fail \in {"retained", "releasing"}
      PROVE  LockInv'
  <2>1. WriterInv(r)' /\ pc'[r] \in {to, fail}
    BY <1>3, <1>7, UpdateReadWriter DEF Writing
  <2>2. PICK p \in {to, fail} : Finish(r, p)
    BY <1>7 DEF UpdateRead
  <2>3. UNCHANGED <<dir, row, counter, misjudged, result>>
        /\ \A b \in Actors \ {r} : md'[b] = md[b]
    BY <1>1, <1>7 DEF UpdateRead, runVars, lockVars, TypeOK
  <2>4. GoesOn(r) /\ pc'[r] = p
    BY <1>1, <1>7, <2>2, <2>3, FinishGoesOn
  <2>5. QED
    BY <1>2, <1>7, <2>1, <2>3, <2>4, RowKept DEF Over, AtWork
<1>8. CASE LaunchWorker(r)
  <2>1. DEFINE m == [SupervisorMetadata(r, "unknown") EXCEPT !.wpid = TRUE]
  <2>2. m \in Rows BY <1>1, SupervisorMetadataType DEF Outcomes
  <2>3. HandleOf(m) = handle[r]
    BY <1>1, <1>3, <1>8
       DEF LaunchWorker, HandleOf, SupervisorMetadata, TypeOK, Handles
  <2>4. QED BY <1>7, <1>8, <2>2, <2>3 DEF LaunchWorker, SupervisorPCs
<1>9. CASE SettleRead(r)
  <2>1. SettledOutcome(r) \in Outcomes
    BY <1>1 DEF TypeOK, SettledOutcome, Results, Outcomes
  <2>2. SupervisorMetadata(r, SettledOutcome(r)) \in Rows
    BY <1>1, <2>1, SupervisorMetadataType
  <2>3. HandleOf(SupervisorMetadata(r, SettledOutcome(r))) = handle[r]
    BY <1>1, <1>3, <1>9
       DEF SettleRead, HandleOf, SupervisorMetadata, TypeOK, Handles
  <2>4. QED
    BY <1>7, <1>9, <2>2, <2>3 DEF SettleRead, SupervisorPCs, AfterFailedSettle
<1>10. ASSUME NEW to \in SupervisorPCs, WriteRow(r, to) \/ WriteRaises(r, to),
              UNCHANGED <<result, misjudged>>,
              \/ pc[r] = "pub" /\ to \in {"running", "settling"}
              \/ pc[r] = "set" /\ to \in {"releasing", "retained"}
       PROVE  LockInv'
  <2>1. UNCHANGED counter /\ \A b \in Actors \ {r} : md'[b] = md[b]
    BY <1>1, <1>10 DEF WriteRow, WriteRaises, lockVars, TypeOK
  <2>2. GoesOn(r) /\ pc'[r] = to
    BY <1>1, <1>10, <2>1, FinishGoesOn DEF WriteRow, WriteRaises
  <2>3. /\ Mono /\ LocalInv'
        /\ \A s \in Runs : handle'[s] = handle[s]
        /\ \A s \in Runs : AtWork(s)' => AtWork(s)
    BY <1>2, <1>10, <2>2 DEF Over, AtWork, WriterInv, Writing
  <2>4. CASE WriteRow(r, to)
    BY <1>3, <1>10, <2>3, <2>4, RowWritten DEF Writing
  <2>5. CASE WriteRaises(r, to)
    BY <2>3, <2>5, RowKept DEF WriteRaises, lockVars
  <2>6. QED BY <1>10, <2>4, <2>5
<1>11. CASE PublishWorker(r)
  BY <1>10, <1>11 DEF PublishWorker, SupervisorPCs
<1>12. CASE SettleWrite(r)
  BY <1>10, <1>12
     DEF SettleWrite, UpdateWrite, AfterFailedSettle, SupervisorPCs, runVars
<1>13. CASE EnterRuntimeStages(r)
  <2>1. pc[r] = "running" /\ UNCHANGED <<dir, row, counter, pc, handle, md, result,
                                        view, misjudged>>
    BY <1>13 DEF EnterRuntimeStages, lockVars
  <2>2. GoesOn(r) /\ WriterInv(r)'
    BY <2>1 DEF GoesOn, OnlyMoves, WriterInv, Writing
  <2>3. (Over(r) => Over(r)') /\ (AtWork(r)' => AtWork(r))
    BY <2>1 DEF Over, AtWork
  <2>4. QED BY <1>2, <2>1, <2>2, <2>3, RowKept
<1>14. ASSUME NEW o \in Outcomes, RecordResult(r, o) PROVE LockInv'
  <2>1. /\ result' = [result EXCEPT ![r] = o] /\ result'[r] = o /\ o # "none"
        /\ pc[r] = "running" /\ Goto(r, "settling")
        /\ UNCHANGED <<dir, row, counter, handle, md, view, misjudged>>
    BY <1>1, <1>14 DEF RecordResult, TypeOK, Outcomes, TERMINAL_LOCK_OUTCOMES, lockVars
  <2>2. GoesOn(r) /\ pc'[r] = "settling"
    BY <1>1, <2>1, GotoGoesOn DEF TypeOK
  <2>3. QED
    BY <1>2, <2>1, <2>2, RowKept DEF Over, AtWork, WriterInv, Writing
<1>15. CASE RunBodyRaises(r) \/ RetainLock(r)
  <2>1. PICK to \in {"settling", "retained"} : Goto(r, to)
    BY <1>15 DEF RunBodyRaises, RetainLock
  <2>2. UNCHANGED <<dir, row, counter, handle, md, view, misjudged, result>>
    BY <1>15 DEF RunBodyRaises, RetainLock, runVars, lockVars
  <2>3. GoesOn(r) /\ pc'[r] = to /\ pc[r] \in {"held", "running", "settling"}
    BY <1>1, <1>15, <2>1, <2>2, GotoGoesOn DEF RunBodyRaises, RetainLock
  <2>4. to = "settling" => pc[r] \in {"held", "running"}
    BY <1>1, <1>15, <2>3 DEF RunBodyRaises, RetainLock, Goto, TypeOK
  <2>5. QED
    BY <1>2, <2>2, <2>3, <2>4, RowKept DEF Over, AtWork, WriterInv, Writing
<1>16. QED
  BY <1>4, <1>5, <1>6, <1>8, <1>9, <1>11, <1>12, <1>13, <1>14, <1>15
     DEF SupervisorStep

\* Every step of a heartbeat, claim or widening.
LEMMA HelperInvKept ==
    ASSUME LockInv, TypeOK', NEW h \in Helpers, HelperStart(h) \/ HelperStep(h)
    PROVE  LockInv'
<1>. USE PCMembers
<1>1. TypeOK /\ h \in Actors /\ h \notin Runs \cup Cleaners
  BY ActorsAssumption DEF LockInv, ActorsAssumption
<1>2. ASSUME NEW r \in Runs, RefreshSnapshot(h, r) \/ WidenSnapshot(h, r)
      PROVE  LockInv'
  <2>1. /\ dir /\ row.run = r /\ pc[h] = "idle"
        /\ handle' = [handle EXCEPT ![h] = HandleOf(row)]
        /\ UNCHANGED <<dir, row, counter, result, view, misjudged>>
    <3>1. CASE RefreshSnapshot(h, r)
      BY <3>1 DEF RefreshSnapshot, lockVars, runVars
    <3>2. CASE WidenSnapshot(h, r)
      BY <3>2 DEF WidenSnapshot, OwnerMatches, LockInv, RunInv, lockVars, runVars
    <3>3. QED BY <1>2, <3>1, <3>2
  <2>2. PICK to \in {"refresh", "widen"} : Goto(h, to)
    BY <1>2 DEF RefreshSnapshot, WidenSnapshot
  <2>3. pc' = [pc EXCEPT ![h] = to] /\ pc'[h] = to /\ handle'[h] = HandleOf(row)
    BY <1>1, <2>1, <2>2 DEF Goto, TypeOK
  <2>4. HandleOf(md'[h]) = HandleOf(row)
    BY <1>1, <1>2 DEF RefreshSnapshot, WidenSnapshot, HandleOf, TypeOK, Rows
  <2>5. OnlyMoves(h)
    BY <1>1, <1>2, <2>1, <2>3 DEF OnlyMoves, TypeOK, RefreshSnapshot, WidenSnapshot
  <2>6. \A s \in Runs : handle'[s] = handle[s] /\ pc'[s] = pc[s]
    BY <1>1, <2>5 DEF OnlyMoves
  <2>7. counter <= counter' BY <1>1, <2>1 DEF TypeOK
  <2>8. Mono BY <2>1, <2>6, <2>7 DEF Mono, Over
  <2>9. row.token # 0 /\ row.token = handle[r].token
    BY <2>1, ActorsAssumption DEF LockInv, RowInv, ActorsAssumption, Actors
  <2>10. HelperInv(h)' /\ CommandInv(h)' /\ WriterInv(h)'
    BY <2>1, <2>3, <2>4, <2>6, <2>9
       DEF HelperInv, CommandInv, WriterInv, HandleOf
  <2>11. LocalInv' BY <1>1, <2>5, <2>8, <2>10, OthersKeep DEF LocalInv
  <2>12. QED BY <2>1, <2>6, <2>8, <2>11, RowKept DEF AtWork
<1>3. ASSUME GoesOn(h), WriterInv(h)', misjudged' = misjudged, pc[h] # "idle"
      PROVE  /\ Mono /\ LocalInv'
             /\ \A s \in Runs : handle'[s] = handle[s]
             /\ \A s \in Runs : AtWork(s)' => AtWork(s)
  BY <1>1, <1>3, HelperGoesOn DEF GoesOn, OnlyMoves, AtWork
<1>4. ASSUME NEW to \in {"ref", "wid"}, UpdateRead(h, md[h], to, "idle"),
             pc[h] \in {"refresh", "widen"}, UNCHANGED <<runVars, misjudged>>
      PROVE  LockInv'
  <2>1. md[h] \in Rows /\ HandleOf(md[h]) = handle[h] /\ handle[h].token # 0
    BY <1>1, <1>4 DEF TypeOK, LockInv, WriterInv, Writing, HelperInv
  <2>2. WriterInv(h)' BY <1>1, <1>4, <2>1, UpdateReadWriter DEF Writing
  <2>3. PICK p \in {to, "idle"} : Finish(h, p)
    BY <1>4 DEF UpdateRead
  <2>4. UNCHANGED <<dir, row, counter, result>>
        /\ \A b \in Actors \ {h} : md'[b] = md[b]
    BY <1>1, <1>4 DEF UpdateRead, runVars, lockVars, TypeOK
  <2>5. GoesOn(h) BY <1>1, <2>3, <2>4, FinishGoesOn
  <2>6. QED BY <1>3, <1>4, <2>2, <2>4, <2>5, RowKept
<1>5. ASSUME WriteRow(h, "idle") \/ WriteRaises(h, "idle"),
             pc[h] \in {"ref", "wid"}, UNCHANGED <<result, misjudged>>
      PROVE  LockInv'
  <2>1. UNCHANGED counter /\ \A b \in Actors \ {h} : md'[b] = md[b]
    BY <1>1, <1>5 DEF WriteRow, WriteRaises, lockVars, TypeOK
  <2>2. GoesOn(h) /\ pc'[h] = "idle"
    BY <1>1, <1>5, <2>1, FinishGoesOn DEF WriteRow, WriteRaises
  <2>3. handle[h].token # 0 BY <1>5 DEF LockInv, HelperInv
  <2>4. /\ Mono /\ LocalInv'
        /\ \A s \in Runs : handle'[s] = handle[s]
        /\ \A s \in Runs : AtWork(s)' => AtWork(s)
    BY <1>3, <1>5, <2>2 DEF WriterInv, Writing
  <2>5. CASE WriteRow(h, "idle")
    BY <1>1, <1>5, <2>3, <2>4, <2>5, RowWritten DEF Writing
  <2>6. CASE WriteRaises(h, "idle")
    BY <2>4, <2>6, RowKept DEF WriteRaises, lockVars
  <2>7. QED BY <1>5, <2>5, <2>6
<1>6. CASE RefreshRead(h) BY <1>4, <1>6 DEF RefreshRead
<1>7. CASE WidenRead(h) BY <1>4, <1>7 DEF WidenRead
<1>8. CASE RefreshWrite(h)
  BY <1>5, <1>8 DEF RefreshWrite, UpdateWrite, runVars
<1>9. CASE WidenWrite(h) BY <1>5, <1>9 DEF WidenWrite
<1>10. QED
  BY <1>2, <1>6, <1>7, <1>8, <1>9 DEF HelperStart, HelperStep

\* A recovery verdict names a run that is over, or is recorded as misjudged.
LEMMA VerdictJustified ==
    ASSUME LockInv, NEW c \in Cleaners, CollectLock(c),
           dir, row.run = handle[c].run, RunProvenFinished(c, handle[c].run, row)
    PROVE  Over(handle[c].run) \/ handle[c].run \in misjudged'
<1>1. SupervisorGone(handle[c].run) => Over(handle[c].run)
  BY DEF SupervisorGone, Over
<1>2. CASE view[c].result # "none"
  BY <1>2 DEF LockInv, CleanerInv, CollectLock, RunInv, TypeOK
<1>3. CASE view[c].result = "none" /\ MissingWorkerVerdict(c, handle[c].run, row)
  BY <1>3 DEF CollectLock
<1>4. CASE view[c].result = "none" /\ ~MissingWorkerVerdict(c, handle[c].run, row)
  BY <1>1, <1>4
     DEF MissingWorkerVerdict, RunProvenFinished, ProcessMissing
<1>5. QED BY <1>2, <1>3, <1>4

\* Every step of stale-lock recovery.
LEMMA CleanerInvKept ==
    ASSUME LockInv, TypeOK', NEW c \in Cleaners, CleanerStart(c) \/ CleanerStep(c)
    PROVE  LockInv'
<1>. USE PCMembers
<1>1. TypeOK /\ c \in Actors /\ c \notin Runs \cup Helpers
  BY ActorsAssumption DEF LockInv, ActorsAssumption
<1>2. ASSUME OnlyMoves(c), UNCHANGED <<dir, row, counter, misjudged, result>>,
             CommandInv(c)', CleanerInv(c)', WriterInv(c)'
      PROVE  LockInv'
  <2>1. \A s \in Runs : handle'[s] = handle[s] /\ pc'[s] = pc[s]
    BY <1>1, <1>2 DEF OnlyMoves
  <2>2. counter <= counter' BY <1>1, <1>2 DEF TypeOK
  <2>3. Mono BY <1>2, <2>1, <2>2 DEF Mono, Over
  <2>4. LocalInv' BY <1>1, <1>2, <2>3, OthersKeep DEF LocalInv
  <2>5. QED BY <1>2, <2>1, <2>3, <2>4, RowKept DEF AtWork
<1>3. ASSUME NEW r \in Runs, CollectPending(c, r) PROVE LockInv'
  <2>1. /\ pc' = [pc EXCEPT ![c] = "pending"] /\ pc'[c] = "pending"
        /\ handle' = [handle EXCEPT ![c] = [run |-> r, token |-> 0]]
        /\ handle'[c].token = 0 /\ view'[c].result = "none"
        /\ UNCHANGED <<dir, row, counter, md, result, misjudged>>
    BY <1>1, <1>3
       DEF CollectPending, Goto, TypeOK, NoView, lockVars, runVars
  <2>2. OnlyMoves(c) BY <1>1, <1>3, <2>1 DEF OnlyMoves, CollectPending, TypeOK
  <2>3. CommandInv(c)' /\ CleanerInv(c)' /\ WriterInv(c)'
    BY <2>1 DEF CommandInv, CleanerInv, WriterInv, Writing
  <2>4. QED BY <1>2, <2>1, <2>2, <2>3
<1>4. CASE CollectRecords(c)
  <2>1. /\ pc' = [pc EXCEPT ![c] = "records"] /\ pc'[c] = "records"
        /\ UNCHANGED <<dir, row, counter, md, handle, result, misjudged>>
    BY <1>1, <1>4 DEF CollectRecords, Goto, TypeOK, lockVars, runVars
  <2>2. view'[c].result = result[handle[c].run]
    BY <1>1, <1>4 DEF CollectRecords, TypeOK, Views
  <2>3. OnlyMoves(c) BY <1>1, <1>4, <2>1 DEF OnlyMoves, CollectRecords, TypeOK
  <2>4. CommandInv(c)' /\ CleanerInv(c)' /\ WriterInv(c)'
    BY <2>1, <2>2 DEF CommandInv, CleanerInv, WriterInv, Writing, LockInv
  <2>5. QED BY <1>2, <2>1, <2>3, <2>4
<1>5. ASSUME GoesOn(c), WriterInv(c)', misjudged \subseteq misjudged', pc[c] # "idle",
             pc'[c] \in {"republish", "rep", "releasing", "rel"}
               => pc[c] \in {"republish", "rep", "releasing", "rel"},
             pc'[c] = "stale"
               => Over(handle[c].run) \/ handle[c].run \in misjudged'
      PROVE  /\ Mono /\ LocalInv'
             /\ \A s \in Runs : handle'[s] = handle[s]
             /\ \A s \in Runs : AtWork(s)' => AtWork(s)
  BY <1>1, <1>5, CleanerGoesOn DEF GoesOn, OnlyMoves, AtWork
<1>6. CASE CollectLock(c)
  <2>1. PICK to \in {"stale", "idle"} :
          /\ Finish(c, to)
          /\ to = "stale" => /\ dir /\ row.run = handle[c].run
                              /\ RunProvenFinished(c, handle[c].run, row)
    BY <1>6 DEF CollectLock
  <2>2. UNCHANGED <<dir, row, counter, md, result>> /\ pc[c] = "records"
        /\ misjudged \subseteq misjudged'
    BY <1>6 DEF CollectLock, lockVars, runVars
  <2>3. GoesOn(c) /\ pc'[c] = to BY <1>1, <2>1, <2>2, FinishGoesOn
  <2>4. to = "stale" => Over(handle[c].run) \/ handle[c].run \in misjudged'
    BY <1>6, <2>1, VerdictJustified
  <2>5. WriterInv(c)' BY <2>3 DEF WriterInv, Writing
  <2>6. QED BY <1>5, <2>2, <2>3, <2>4, <2>5, RowKept
<1>7. CASE StaleStatus(c) /\ dir /\ row.run = handle[c].run
  <2>1. PICK to \in {"republish", "releasing"} :
          Goto(c, to) /\ (to = "republish" => HandleOf(md'[c]) = HandleOf(row))
    BY <1>1, <1>7 DEF StaleStatus, HandleOf, TypeOK, Rows
  <2>2. /\ pc' = [pc EXCEPT ![c] = to] /\ pc'[c] = to /\ pc[c] = "stale"
        /\ handle' = [handle EXCEPT ![c] = HandleOf(row)]
        /\ handle'[c] = HandleOf(row)
        /\ UNCHANGED <<dir, row, counter, view, result, misjudged>>
    BY <1>1, <1>7, <2>1 DEF StaleStatus, Goto, TypeOK, lockVars, runVars
  <2>3. OnlyMoves(c) BY <1>1, <1>7, <2>2 DEF OnlyMoves, StaleStatus, TypeOK
  <2>4. /\ handle[c].run \in Runs /\ row.token # 0
        /\ row.token = handle[handle[c].run].token
    BY <1>1, <1>7, <2>2, ActorsAssumption
       DEF TypeOK, LockInv, RowInv, ActorsAssumption, Actors
  <2>5. handle'[handle[c].run] = handle[handle[c].run]
        /\ pc'[handle[c].run] = pc[handle[c].run]
    BY <1>1, <2>3, <2>4 DEF OnlyMoves
  <2>6. CommandInv(c)'
    BY <1>7, <2>2, <2>4, <2>5 DEF CommandInv, HandleOf
  <2>7. CleanerInv(c)'
    BY <1>7, <2>2, <2>4, <2>5 DEF CleanerInv, LockInv, HandleOf, Over
  <2>8. WriterInv(c)' BY <2>1, <2>2 DEF WriterInv, Writing
  <2>9. QED BY <1>2, <2>2, <2>3, <2>6, <2>7, <2>8
<1>8. CASE StaleStatus(c) /\ ~(dir /\ row.run = handle[c].run)
  <2>1. Finish(c, "idle") /\ UNCHANGED <<dir, row, counter, md, result, misjudged>>
        /\ pc[c] = "stale"
    BY <1>8 DEF StaleStatus, lockVars, runVars
  <2>2. GoesOn(c) /\ pc'[c] = "idle" BY <1>1, <2>1, FinishGoesOn
  <2>3. QED BY <1>5, <2>1, <2>2, RowKept DEF WriterInv, Writing
<1>9. CASE RepublishRead(c)
  <2>1. md[c] \in Rows /\ HandleOf(md[c]) = handle[c] /\ handle[c].token # 0
    BY <1>1, <1>9 DEF RepublishRead, TypeOK, LockInv, WriterInv, Writing, CleanerInv
  <2>2. WriterInv(c)'
    BY <1>1, <1>9, <2>1, UpdateReadWriter DEF RepublishRead, Writing
  <2>3. PICK p \in {"rep", "idle"} : Finish(c, p)
    BY <1>9 DEF RepublishRead, UpdateRead
  <2>4. UNCHANGED <<dir, row, counter, result, misjudged>> /\ pc[c] = "republish"
        /\ \A b \in Actors \ {c} : md'[b] = md[b]
    BY <1>1, <1>9 DEF RepublishRead, UpdateRead, runVars, lockVars, TypeOK
  <2>5. GoesOn(c) /\ pc'[c] = p BY <1>1, <2>3, <2>4, FinishGoesOn
  <2>6. QED BY <1>5, <2>2, <2>4, <2>5, RowKept
<1>10. CASE RepublishWrite(c)
  <2>1. PICK to \in {"releasing", "idle"} : WriteRow(c, to) \/ WriteRaises(c, to)
    BY <1>10 DEF RepublishWrite, UpdateWrite
  <2>2. UNCHANGED <<counter, result, misjudged>> /\ pc[c] = "rep"
        /\ \A b \in Actors \ {c} : md'[b] = md[b]
    BY <1>1, <1>10, <2>1
       DEF RepublishWrite, WriteRow, WriteRaises, runVars, lockVars, TypeOK
  <2>3. GoesOn(c) /\ pc'[c] = to
    BY <1>1, <2>1, <2>2, FinishGoesOn DEF WriteRow, WriteRaises
  <2>4. /\ Mono /\ LocalInv'
        /\ \A s \in Runs : handle'[s] = handle[s]
        /\ \A s \in Runs : AtWork(s)' => AtWork(s)
    BY <1>5, <2>2, <2>3 DEF WriterInv, Writing
  <2>5. CASE WriteRow(c, to)
    BY <1>1, <2>2, <2>4, <2>5, RowWritten DEF LockInv, CleanerInv, Writing
  <2>6. CASE WriteRaises(c, to)
    BY <2>4, <2>6, RowKept DEF WriteRaises, lockVars
  <2>7. QED BY <2>1, <2>5, <2>6
<1>11. CASE StaleReleaseStatus(c)
  <2>1. PICK to \in {"rel", "idle"} : Finish(c, to)
    BY <1>11 DEF StaleReleaseStatus, ReleaseRead
  <2>2. UNCHANGED <<dir, row, counter, md, misjudged, result>> /\ pc[c] = "releasing"
    BY <1>11 DEF StaleReleaseStatus, ReleaseRead, runVars, lockVars
  <2>3. GoesOn(c) /\ pc'[c] = to BY <1>1, <2>1, <2>2, FinishGoesOn
  <2>4. QED BY <1>5, <2>2, <2>3, RowKept DEF WriterInv, Writing
<1>12. CASE StaleRelease(c)
  <2>1. Finish(c, "idle") /\ UNCHANGED <<counter, md, misjudged, result>>
        /\ pc[c] = "rel"
    BY <1>12 DEF StaleRelease, ReleaseRemove, runVars
  <2>2. GoesOn(c) /\ pc'[c] = "idle" BY <1>1, <2>1, FinishGoesOn
  <2>3. /\ Mono /\ LocalInv'
        /\ \A s \in Runs : handle'[s] = handle[s]
        /\ \A s \in Runs : AtWork(s)' => AtWork(s)
    BY <1>5, <2>1, <2>2 DEF WriterInv, Writing
  <2>4. CASE TokenMatches(handle[c], row)
    <3>1. handle[c].token # 0
          /\ (handle[c].run \in misjudged \/ ~AtWork(handle[c].run))
      BY <2>1 DEF LockInv, CleanerInv, Over, AtWork
    <3>2. row' = EmptyRow BY <1>12, <2>4 DEF StaleRelease, ReleaseRemove
    <3>3. QED BY <1>1, <2>3, <2>4, <3>1, <3>2, RowRemoved
  <2>5. CASE ~TokenMatches(handle[c], row)
    BY <1>12, <2>3, <2>5, RowKept DEF StaleRelease, ReleaseRemove
  <2>6. QED BY <2>4, <2>5
<1>13. CASE RefuseLatched(c)
  <2>1. Finish(c, "idle") /\ UNCHANGED <<dir, row, counter, md, result, misjudged>>
        /\ pc[c] = "stale"
    BY <1>13 DEF RefuseLatched, lockVars, runVars
  <2>2. GoesOn(c) /\ pc'[c] = "idle" BY <1>1, <2>1, FinishGoesOn
  <2>3. QED BY <1>5, <2>1, <2>2, RowKept DEF WriterInv, Writing
<1>14. CASE FencedRecovery(c)
  <2>1. PICK t \in 0..MaxToken, s \in Runs :
          t = acquired /\ s = handle[c].run /\ row.run = s /\ row.token \in {0, t}
    BY <1>1, <1>14 DEF FencedRecovery, TypeOK, OwnerMatches, TokenMatches
  <2>2. t = handle[s].token /\ t # 0
    BY <1>14, <2>1, ActorsAssumption
       DEF FencedRecovery, LockInv, RowInv, ActorsAssumption, Actors
  <2>3. /\ pc' = [pc EXCEPT ![c] = "republish"] /\ pc'[c] = "republish"
        /\ pc[c] = "stale"
        /\ handle' = [handle EXCEPT ![c] = [run |-> s, token |-> t]]
        /\ handle'[c] = [run |-> s, token |-> t]
        /\ UNCHANGED <<dir, row, counter, view, result, misjudged>>
    BY <1>1, <1>14, <2>1 DEF FencedRecovery, Goto, TypeOK, lockVars, runVars
  <2>4. OnlyMoves(c) BY <1>1, <1>14, <2>3 DEF OnlyMoves, FencedRecovery, TypeOK
  <2>5. handle'[s] = handle[s] /\ pc'[s] = pc[s]
    BY <1>1, <2>1, <2>4 DEF OnlyMoves
  <2>6. CommandInv(c)' BY <2>1, <2>2, <2>3, <2>5 DEF CommandInv
  <2>7. CleanerInv(c)'
    BY <2>1, <2>2, <2>3, <2>5 DEF CleanerInv, LockInv, Over
  <2>8. HandleOf(md'[c]) = [run |-> s, token |-> t]
    BY <1>1, <1>14, <2>1 DEF FencedRecovery, HandleOf, TypeOK, Rows
  <2>9. WriterInv(c)' BY <2>3, <2>8 DEF WriterInv, Writing
  <2>10. QED BY <1>2, <2>3, <2>4, <2>6, <2>7, <2>9
<1>15. QED
  BY <1>3, <1>4, <1>6, <1>7, <1>8, <1>9, <1>10, <1>11, <1>12, <1>13, <1>14
     DEF CleanerStart, CleanerStep

\* The death of any process, between two steps or inside a removal.
LEMMA DeathInv ==
    ASSUME LockInv, TypeOK', Death
    PROVE  LockInv'
<1>. USE PCMembers
<1>1. TypeOK /\ Helpers \cap Runs = {} /\ Cleaners \cap Runs = {} /\ Helpers \cap Cleaners = {}
  BY ActorsAssumption DEF LockInv, ActorsAssumption
<1>2. ASSUME NEW r \in Runs, SupervisorDies(r) PROVE LockInv'
  <2>1. UNCHANGED <<dir, row, counter, handle, view, misjudged, result>>
        /\ Goto(r, "dead") /\ pc[r] \notin {"idle", "done", "dead"}
        /\ \A b \in Actors \ {r} : md'[b] = md[b]
    BY <1>1, <1>2 DEF SupervisorDies, SupervisorGone, runVars, lockVars, TypeOK
  <2>2. GoesOn(r) /\ pc'[r] = "dead" BY <1>1, <2>1, GotoGoesOn
  <2>3. Mono /\ LocalInv' /\ (\A s \in Runs : handle'[s] = handle[s])
    BY <2>1, <2>2, RunGoesOn DEF WriterInv, Writing, Over
  <2>4. \A s \in Runs : AtWork(s)' => AtWork(s)
    BY <2>2 DEF GoesOn, OnlyMoves, AtWork
  <2>5. QED BY <2>1, <2>3, <2>4, RowKept
<1>3. ASSUME NEW a \in Helpers \cup Cleaners, Finish(a, "idle"), pc[a] # "idle",
             UNCHANGED <<counter, result, misjudged>>,
             \A b \in Actors \ {a} : md'[b] = md[b]
      PROVE  /\ Mono /\ LocalInv'
             /\ \A s \in Runs : handle'[s] = handle[s]
             /\ \A s \in Runs : AtWork(s)' => AtWork(s)
  <2>1. GoesOn(a) /\ pc'[a] = "idle" BY <1>1, <1>3, FinishGoesOn
  <2>2. WriterInv(a)' BY <2>1 DEF WriterInv, Writing
  <2>3. Mono /\ LocalInv' /\ (\A s \in Runs : handle'[s] = handle[s])
    BY <1>3, <2>1, <2>2, HelperGoesOn, CleanerGoesOn
  <2>4. \A s \in Runs : AtWork(s)' => AtWork(s)
    BY <1>1, <2>1 DEF GoesOn, OnlyMoves, AtWork
  <2>5. QED BY <2>3, <2>4
<1>4. ASSUME NEW a \in Helpers \cup Cleaners, CommandDies(a) PROVE LockInv'
  BY <1>1, <1>3, <1>4, RowKept DEF CommandDies, TypeOK, runVars, lockVars
<1>5. ASSUME NEW a \in Actors, DiesInRemove(a) PROVE LockInv'
  <2>1. /\ UNCHANGED <<counter, md, misjudged, result>> /\ row' = EmptyRow
        /\ pc[a] \in {"rel", "givenback"} /\ TokenMatches(handle[a], row)
    BY <1>5 DEF DiesInRemove, runVars
  <2>2. CASE a \in Runs
    <3>1. GoesOn(a) /\ pc'[a] = "dead"
      BY <1>1, <1>5, <2>1, <2>2, FinishGoesOn DEF DiesInRemove
    <3>2. Mono /\ LocalInv' /\ (\A s \in Runs : handle'[s] = handle[s])
      BY <2>1, <2>2, <3>1, RunGoesOn DEF WriterInv, Writing, Over
    <3>3. \A s \in Runs : AtWork(s)' => AtWork(s)
      BY <3>1 DEF GoesOn, OnlyMoves, AtWork
    <3>4. handle[a].token # 0 /\ handle[a].run = a /\ ~AtWork(a)
      BY <2>1, <2>2 DEF LockInv, RunInv, AtWork
    <3>5. QED BY <2>1, <3>2, <3>3, <3>4, RowRemoved
  <2>3. CASE a \in Cleaners
    <3>1. Finish(a, "idle") BY <1>1, <1>5, <2>3 DEF DiesInRemove
    <3>2. handle[a].token # 0
          /\ (handle[a].run \in misjudged \/ ~AtWork(handle[a].run))
      BY <1>1, <2>1, <2>3 DEF LockInv, CleanerInv, TypeOK, CleanerPCs, Over, AtWork
    <3>3. QED BY <1>3, <2>1, <2>3, <3>1, <3>2, RowRemoved
  <2>4. a \notin Helpers BY <1>1, <2>1 DEF TypeOK, HelperPCs
  <2>5. QED BY <2>2, <2>3, <2>4 DEF Actors
<1>6. QED BY <1>2, <1>4, <1>5, <1>1 DEF Death, Actors

-----------------------------------------------------------------------------
(* The theorems *)

LEMMA LockInit == Init => LockInv
<1>1. SUFFICES ASSUME Init PROVE LockInv OBVIOUS
<1>2. TypeOK BY <1>1, TypeInit
<1>3. \A a \in Actors : pc[a] = "idle" /\ handle[a] = NoHandle
  BY <1>1 DEF Init
<1>4. QED
  BY <1>1, <1>2, <1>3, PCMembers
     DEF Init, LockInv, RowInv, FencingTokensUnique, RunInv, CommandInv, HelperInv,
         CleanerInv, WriterInv, Writing, LockHeldAtWork, AtWork, EmptyRow, NoHandle

\* One step of anyone keeps LockInv, provided that no write of the token
\* counter is torn.
LEMMA LockStep ==
    ASSUME ~TornTokenWrites, LockInv, [Next]_vars
    PROVE  LockInv'
<1>1. TypeOK' BY TypeStep DEF LockInv
<1>2. CASE UNCHANGED <<dir, row, counter, pc, handle, md, result, view, misjudged>>
  BY <1>1, <1>2
     DEF LockInv, RowInv, FencingTokensUnique, RunInv, CommandInv, HelperInv,
         CleanerInv, WriterInv, LockHeldAtWork, AtWork, Over
<1>3. CASE UNCHANGED vars BY <1>2, <1>3 DEF vars
<1>4. ASSUME NEW r \in Runs, WorkerExits(r) PROVE LockInv'
  BY <1>2, <1>4 DEF WorkerExits, lockVars
<1>5. CASE Death BY <1>1, <1>5, DeathInv
<1>6. QED
  BY <1>1, <1>3, <1>4, <1>5, AcquireInv, AcquireFailsInv, SupervisorInv,
     HelperInvKept, CleanerInvKept
     DEF Next, AcquireStep

\* Without torn token writes, LockInv is an invariant.
LEMMA LockInvariant == ~TornTokenWrites /\ Spec => []LockInv
<1>1. CASE ~TornTokenWrites
  <2>1. Init /\ [][Next]_vars => []LockInv
    <3>1. LockInv /\ [Next]_vars => LockInv' BY <1>1, LockStep
    <3>2. QED BY <3>1, LockInit, PTL
  <2>2. QED BY <2>1 DEF Spec
<1>2. QED BY <1>1

\* No one takes the lock of a run at work: not another run's acquire, not a
\* heartbeat or claim writing from an old snapshot, not recovery, not a crash
\* anywhere (LockManager, DirectoryLockBackend, release_stale_lock). The one
\* exception is a run recovery misjudged by its exited worker.
THEOREM LockKept == ~TornTokenWrites /\ Spec => []LockHeldAtWork
<1>1. LockInv => LockHeldAtWork BY DEF LockInv
<1>2. QED BY <1>1, LockInvariant, PTL

\* No two runs are handed the same fencing token (next_fencing_token).
THEOREM TokensUnique == ~TornTokenWrites /\ Spec => []FencingTokensUnique
<1>1. LockInv => FencingTokensUnique BY DEF LockInv
<1>2. QED BY <1>1, LockInvariant, PTL

\* Mutual exclusion of the runs that recovery did not misjudge.
OneJudgedRunAtWork ==
    \A r, s \in Runs \ misjudged : AtWork(r) /\ AtWork(s) => r = s

\* What the lock is for: two supervisors, neither of them misjudged, never
\* work on the task at the same time.
THEOREM MutualExclusion == ~TornTokenWrites /\ Spec => []OneJudgedRunAtWork
<1>1. LockHeldAtWork => OneJudgedRunAtWork
  BY DEF LockHeldAtWork, OneJudgedRunAtWork
<1>2. QED BY <1>1, LockKept, PTL

-----------------------------------------------------------------------------
(* What was published on the row is kept *)

\* The row may be replaced by whoever has read it under the settlement mutex.
Replacing == {"pub", "set", "ref", "wid", "rep"}

Terminal(m) == m.outcome \in TERMINAL_LOCK_OUTCOMES

SettledRows == {m \in Rows : Terminal(m)}
WidenedRows == {m \in Rows : m.scope > 0}

\* A terminal outcome in a row or in metadata is the durable result of its run.
Honest(m) == Terminal(m) => m.run \in Runs /\ result[m.run] = m.outcome

\* The row of run r, and the row a replacement under way would put in its
\* place, are in S. The second half is what a row that was removed under an
\* update needs: the update puts it back.
Carried(r, S) ==
    /\ row.run = r => row \in S
    /\ \A a \in Actors : pc[a] \in Replacing /\ md[a].run = r => md[a] \in S

\* A process is about to remove the row of r and knows a terminal outcome of r.
KnownBy(a, r) ==
    /\ pc[a] \in {"releasing", "rel"}
    /\ \/ a \in Runs /\ a = r /\ result[r] \in TERMINAL_LOCK_OUTCOMES
       \/ /\ a \in Cleaners /\ handle[a].run = r
          /\ view[a].pending \in TERMINAL_LOCK_OUTCOMES

MutexInv(a) == pc[a] \in Replacing => mutex = a

\* What a replacement has read is not older than the row.
FreshInv(a) ==
    pc[a] \in Replacing /\ row.run = md[a].run /\ Terminal(row) => Terminal(md[a])

\* What a process knows of a result is the result, and it is about to publish it.
OutcomeInv(a) ==
    /\ Honest(md[a])
    /\ a \in Cleaners /\ view[a].pending # "none"
         => pc[a] # "idle" /\ result[handle[a].run] = view[a].pending
    /\ a \in Runs /\ pc[a] = "set" /\ result[a] \in TERMINAL_LOCK_OUTCOMES => Terminal(md[a])
    /\ pc[a] \in {"republish", "rep"} /\ view[a].pending \in TERMINAL_LOCK_OUTCOMES
         => Terminal(md[a])

KnownInv == \A a \in Actors, r \in Runs : KnownBy(a, r) => Carried(r, SettledRows)

ScopeInv ==
    \A r \in Runs :
        authorized[r] > 0 => pc[r] # "idle" /\ Carried(r, WidenedRows)

PublishInv ==
    /\ Honest(row)
    /\ \A a \in Actors : MutexInv(a) /\ FreshInv(a) /\ OutcomeInv(a)
    /\ KnownInv
    /\ ScopeInv

\* What a set of rows keeps under preserve_runtime_lock_fields, whether the row
\* or the metadata was in it.
Absorbing(S) ==
    \A m, current \in Rows : m \in S \/ current \in S => Preserve(m, current) \in S

LEMMA PublishedAbsorbs == Absorbing(SettledRows) /\ Absorbing(WidenedRows)
<1>1. ASSUME NEW m \in Rows, NEW current \in Rows
      PROVE  /\ Terminal(m) \/ Terminal(current) => Terminal(Preserve(m, current))
             /\ m.scope > 0 \/ current.scope > 0 => Preserve(m, current).scope > 0
  <2>1. Terminal(m) \/ Terminal(current) => Terminal(Preserve(m, current))
    BY DEF Terminal, Preserve, PreservedOutcome
  <2>2. m.scope > 0 \/ current.scope > 0 => Preserve(m, current).scope > 0
    BY BoundsAssumption DEF Preserve, PreservedScope, Rows, BoundsAssumption
  <2>3. QED BY <2>1, <2>2
<1>2. QED
  BY <1>1, PreserveType DEF Absorbing, SettledRows, WidenedRows

\* A run's durable result is written once.
Durable == \A r \in Runs : result[r] # "none" => result'[r] = result[r]

\* Process a moves, and no other.
Moves(a) ==
    /\ OnlyMoves(a)
    /\ Durable
    /\ a \in Runs => pc'[a] # "idle"

\* The four things a step of process a can do to the row and its mutex: leave
\* the row alone or remove it, take the mutex and read the row, replace it and
\* drop the mutex, or acquire.
Quiet(a) ==
    /\ row' \in {row, EmptyRow}
    /\ pc'[a] \notin Replacing
    /\ mutex' = mutex \/ mutex = a

ReadsRow(a, m) ==
    /\ row' = row
    /\ mutex = NoOne /\ mutex' = a
    /\ md'[a] = Preserve(m, row)
    /\ m.run = row.run

WritesRow(a) ==
    /\ pc[a] \in Replacing
    /\ pc'[a] \notin Replacing
    /\ row' = Preserve(md[a], row)
    /\ TokenMatches(handle[a], row)

Acquires(a) ==
    /\ a \in Runs
    /\ pc[a] = "idle"
    /\ pc'[a] = "granted"
    /\ row'.run = a
    /\ row'.outcome = "unknown"
    /\ mutex' = mutex

Kind(a) == Quiet(a) \/ (\E m \in Rows : ReadsRow(a, m)) \/ WritesRow(a) \/ Acquires(a)

\* Whoever holds the mutex is alone in replacing the row.
LEMMA Alone ==
    ASSUME PublishInv, NEW a \in Actors, mutex \in {a, NoOne}
    PROVE  \A b \in Actors \ {a} : pc[b] \notin Replacing
BY ActorsAssumption DEF PublishInv, MutexInv, ActorsAssumption

LEMMA MutexKept ==
    ASSUME PublishInv, NEW a \in Actors, OnlyMoves(a), Kind(a)
    PROVE  \A b \in Actors : MutexInv(b)'
<1>1. CASE Quiet(a)
  BY <1>1, Alone DEF PublishInv, MutexInv, Quiet, OnlyMoves
<1>2. ASSUME NEW m \in Rows, ReadsRow(a, m) PROVE \A b \in Actors : MutexInv(b)'
  BY <1>2, Alone DEF MutexInv, ReadsRow, OnlyMoves
<1>3. CASE WritesRow(a)
  <2>1. mutex = a BY <1>3 DEF PublishInv, MutexInv, WritesRow
  <2>2. QED BY <1>3, <2>1, Alone DEF MutexInv, WritesRow, OnlyMoves
<1>4. CASE Acquires(a)
  BY <1>4 DEF PublishInv, MutexInv, Acquires, OnlyMoves, Replacing
<1>5. QED BY <1>1, <1>2, <1>3, <1>4 DEF Kind

LEMMA FreshKept ==
    ASSUME LockInv, PublishInv, NEW a \in Actors, OnlyMoves(a), Kind(a)
    PROVE  \A b \in Actors : FreshInv(b)'
<1>0. row \in Rows /\ ~Terminal(EmptyRow)
  BY DEF LockInv, TypeOK, Terminal, EmptyRow, TERMINAL_LOCK_OUTCOMES
<1>1. CASE Quiet(a)
  BY <1>0, <1>1 DEF PublishInv, FreshInv, Quiet, OnlyMoves
<1>2. ASSUME NEW m \in Rows, ReadsRow(a, m) PROVE \A b \in Actors : FreshInv(b)'
  <2>1. \A b \in Actors \ {a} : pc'[b] \notin Replacing
    BY <1>2, Alone DEF ReadsRow, OnlyMoves
  <2>2. Terminal(row) => Terminal(Preserve(m, row))
    BY DEF Terminal, Preserve, PreservedOutcome
  <2>3. QED BY <1>2, <2>1, <2>2 DEF FreshInv, ReadsRow
<1>3. CASE WritesRow(a)
  <2>1. mutex = a BY <1>3 DEF PublishInv, MutexInv, WritesRow
  <2>2. QED BY <1>3, <2>1, Alone DEF FreshInv, WritesRow, OnlyMoves
<1>4. CASE Acquires(a)
  BY <1>4 DEF FreshInv, Acquires, Terminal, TERMINAL_LOCK_OUTCOMES
<1>5. QED BY <1>1, <1>2, <1>3, <1>4 DEF Kind

\* What is carried by the row of a run that has started stays carried.
LEMMA CarriedKept ==
    ASSUME LockInv, NEW a \in Actors, OnlyMoves(a), Kind(a),
           NEW S, Absorbing(S), NEW r \in Runs, pc[r] # "idle", Carried(r, S)
    PROVE  Carried(r, S)'
<1>0. row \in Rows /\ (\A b \in Actors : md[b] \in Rows) /\ EmptyRow.run # r
  BY ActorsAssumption DEF LockInv, TypeOK, EmptyRow, ActorsAssumption, Actors
<1>1. CASE Quiet(a)
  BY <1>0, <1>1 DEF Carried, Quiet, OnlyMoves
<1>2. ASSUME NEW m \in Rows, ReadsRow(a, m) PROVE Carried(r, S)'
  <2>1. md'[a].run = r => md'[a] \in S
    BY <1>0, <1>2 DEF ReadsRow, Carried, Absorbing, Preserve
  <2>2. QED BY <1>2, <2>1 DEF ReadsRow, Carried, OnlyMoves
<1>3. CASE WritesRow(a)
  <2>1. row'.run = r => row' \in S
    BY <1>0, <1>3 DEF WritesRow, Carried, Absorbing, Preserve
  <2>2. QED BY <1>3, <2>1 DEF WritesRow, Carried, OnlyMoves
<1>4. CASE Acquires(a)
  BY <1>4 DEF Acquires, Carried, OnlyMoves, Replacing
<1>5. QED BY <1>1, <1>2, <1>3, <1>4 DEF Kind

\* What was honest stays so, since results do not change.
HonestNext(m) == Terminal(m) => m.run \in Runs /\ result'[m.run] = m.outcome

LEMMA HonestKept ==
    ASSUME Durable, NEW m, Honest(m)
    PROVE  HonestNext(m)
BY DEF Durable, Honest, HonestNext, Terminal, TERMINAL_LOCK_OUTCOMES

\* The merge of two honest rows of one run is honest.
LEMMA MergeHonest ==
    ASSUME NEW m, NEW current, Honest(m), Honest(current),
           Terminal(current) => m.run = current.run
    PROVE  Honest(Preserve(m, current))
BY DEF Honest, Terminal, Preserve, PreservedOutcome

\* A replacement that matches a settled row is of that row's run.
LEMMA SettledMatches ==
    ASSUME LockInv, PublishInv, NEW a \in Actors, pc[a] \in Replacing,
           handle[a].token # 0, TokenMatches(handle[a], row), Terminal(row)
    PROVE  row.run \in Runs /\ md[a].run = row.run
<1>1. row.run \in Runs BY DEF PublishInv, Honest
<1>2. row.token # 0
  BY <1>1, ActorsAssumption DEF LockInv, RowInv, ActorsAssumption, Actors
<1>3. row.run = handle[a].run BY <1>2, MatchingRow
<1>4. md[a].run = handle[a].run
  <2>1. pc[a] \in Writing BY DEF Writing, Replacing
  <2>2. HandleOf(md[a]) = handle[a] BY <2>1 DEF LockInv, WriterInv
  <2>3. HandleOf(md[a]).run = md[a].run BY DEF HandleOf
  <2>4. QED BY <2>2, <2>3
<1>5. QED BY <1>1, <1>3, <1>4

LEMMA RowHonest ==
    ASSUME LockInv, PublishInv, NEW a \in Actors, Moves(a), Kind(a),
           pc[a] \in Replacing => handle[a].token # 0
    PROVE  HonestNext(row')
<1>0. ~Terminal(EmptyRow)
  BY DEF Terminal, EmptyRow, TERMINAL_LOCK_OUTCOMES
<1>1. HonestNext(row) BY HonestKept DEF PublishInv, Moves
<1>2. CASE Quiet(a) BY <1>0, <1>1, <1>2 DEF Quiet, HonestNext
<1>3. ASSUME NEW m \in Rows, ReadsRow(a, m) PROVE HonestNext(row')
  BY <1>1, <1>3 DEF ReadsRow
<1>4. CASE WritesRow(a)
  <2>1. Terminal(row) => md[a].run = row.run
    BY <1>4, SettledMatches DEF WritesRow
  <2>2. Honest(md[a]) /\ Honest(row) BY DEF PublishInv, OutcomeInv
  <2>3. Honest(Preserve(md[a], row)) BY <2>1, <2>2, MergeHonest
  <2>4. QED BY <1>4, <2>3, HonestKept DEF WritesRow, Moves
<1>5. CASE Acquires(a)
  BY <1>5 DEF Acquires, HonestNext, Terminal, TERMINAL_LOCK_OUTCOMES
<1>6. QED BY <1>2, <1>3, <1>4, <1>5 DEF Kind

\* A process that does not move keeps what it knows and what it writes.
LEMMA OthersOutcome ==
    ASSUME LockInv, PublishInv, NEW a \in Actors, Moves(a)
    PROVE  \A b \in Actors \ {a} : OutcomeInv(b)'
<1>. USE PCMembers
<1>1. SUFFICES ASSUME NEW b \in Actors \ {a} PROVE OutcomeInv(b)'
  OBVIOUS
<1>2. /\ pc'[b] = pc[b] /\ md'[b] = md[b] /\ handle'[b] = handle[b]
      /\ view'[b] = view[b] /\ (b \in Runs => result'[b] = result[b])
  BY DEF Moves, OnlyMoves
<1>3. OutcomeInv(b) BY DEF PublishInv
<1>4. Honest(md[b])'
  <2>1. HonestNext(md[b]) BY <1>3, HonestKept DEF OutcomeInv, Moves
  <2>2. QED BY <1>2, <2>1 DEF HonestNext, Honest, Terminal
<1>5. b \in Cleaners /\ view[b].pending # "none"
        => pc[b] # "idle" /\ result'[handle[b].run] = view[b].pending
  BY <1>3 DEF OutcomeInv, Moves, Durable, LockInv, TypeOK
<1>6. QED
  BY <1>2, <1>3, <1>4, <1>5 DEF OutcomeInv, Terminal

\* A run whose settled outcome is known has started.
LEMMA KnownStarted ==
    ASSUME LockInv, PublishInv, NEW a \in Actors, NEW r \in Runs, KnownBy(a, r)
    PROVE  pc[r] # "idle"
<1>. USE PCMembers
<1>1. CASE a \in Runs /\ a = r BY <1>1 DEF KnownBy
<1>2. CASE a \in Cleaners /\ handle[a].run = r
           /\ view[a].pending \in TERMINAL_LOCK_OUTCOMES
  <2>1. result[r] # "none"
    BY <1>2 DEF PublishInv, OutcomeInv, TERMINAL_LOCK_OUTCOMES
  <2>2. QED BY <2>1 DEF LockInv, RunInv, Over
<1>3. QED BY <1>1, <1>2 DEF KnownBy

\* The whole invariant after a step of process a, from what that step changes.
LEMMA PublishKept ==
    ASSUME LockInv, TypeOK', PublishInv, NEW a \in Actors, Moves(a), Kind(a),
           pc[a] \in Replacing => handle[a].token # 0,
           OutcomeInv(a)',
           \A r \in Runs : KnownBy(a, r)' => KnownBy(a, r) \/ Carried(r, SettledRows)',
           \A r \in Runs : authorized'[r] > 0 =>
              \/ authorized[r] > 0
              \/ pc'[r] # "idle" /\ Carried(r, WidenedRows)'
    PROVE  PublishInv'
<1>. USE PCMembers
<1>1. Honest(row)' BY RowHonest DEF Honest, HonestNext, Terminal
<1>2. \A b \in Actors : MutexInv(b)' BY MutexKept DEF Moves
<1>3. \A b \in Actors : FreshInv(b)' BY FreshKept DEF Moves
<1>4. \A b \in Actors : OutcomeInv(b)' BY OthersOutcome
<1>5. ASSUME NEW r \in Runs, pc[r] # "idle", NEW S, Absorbing(S), Carried(r, S)
      PROVE  Carried(r, S)'
  BY <1>5, CarriedKept DEF Moves
<1>6. ASSUME NEW b \in Actors, NEW r \in Runs, KnownBy(b, r)'
      PROVE  Carried(r, SettledRows)'
  <2>1. CASE KnownBy(b, r)
    <3>1. pc[r] # "idle" BY <2>1, KnownStarted
    <3>2. Carried(r, SettledRows) BY <2>1 DEF PublishInv, KnownInv
    <3>3. QED BY <1>5, <3>1, <3>2, PublishedAbsorbs
  <2>2. CASE b = a BY <1>6, <2>1, <2>2
  <2>3. CASE b # a
    <3>1. KnownBy(b, r) BY <1>6, <2>3 DEF KnownBy, Moves, OnlyMoves
    <3>2. QED BY <2>1, <3>1
  <2>4. QED BY <2>2, <2>3
<1>7. KnownInv' BY <1>6 DEF KnownInv
<1>8. ASSUME NEW r \in Runs, authorized'[r] > 0
      PROVE  pc'[r] # "idle" /\ Carried(r, WidenedRows)'
  <2>1. CASE authorized[r] > 0
    <3>1. pc[r] # "idle" /\ Carried(r, WidenedRows)
      BY <2>1 DEF PublishInv, ScopeInv
    <3>2. pc'[r] # "idle" BY <3>1 DEF Moves, OnlyMoves
    <3>3. QED BY <1>5, <3>1, <3>2, PublishedAbsorbs
  <2>2. QED BY <1>8, <2>1
<1>9. ScopeInv' BY <1>8 DEF ScopeInv
<1>10. QED BY <1>1, <1>2, <1>3, <1>4, <1>7, <1>9 DEF PublishInv

-----------------------------------------------------------------------------
(* The shared halves of an update and of a release *)

LEMMA EmptyHonest == ~Terminal(EmptyRow) /\ \A m : ~Terminal(m) => HonestNext(m)
BY DEF Terminal, EmptyRow, TERMINAL_LOCK_OUTCOMES, HonestNext

\* The first half of an update takes the mutex and merges, or gives up.
LEMMA UpdateReads ==
    ASSUME LockInv, PublishInv, NEW a \in Actors, NEW m \in Rows, NEW to, NEW fail,
           UpdateRead(a, m, to, fail), HandleOf(m) = handle[a], Honest(m),
           a \notin Runs \/ (to # "idle" /\ fail # "idle"), fail \notin Replacing,
           UNCHANGED runVars
    PROVE  /\ Moves(a) /\ Kind(a)
           /\ HonestNext(md'[a])
           /\ \/ pc'[a] = to /\ md'[a] = Preserve(m, row)
              \/ pc'[a] = fail
           /\ handle'[a] = IF pc'[a] = "idle" THEN NoHandle ELSE handle[a]
           /\ view'[a] = IF pc'[a] = "idle" THEN NoView ELSE view[a]
<1>1. TypeOK BY DEF LockInv
<1>2. \A b \in Actors \ {a} : md'[b] = md[b] BY <1>1 DEF UpdateRead, TypeOK
<1>3. UNCHANGED <<counter, result>> BY DEF UpdateRead, lockVars, runVars
<1>4. PICK p \in {to, fail} : Finish(a, p) BY DEF UpdateRead
<1>5. GoesOn(a) /\ pc'[a] = p BY <1>1, <1>2, <1>3, <1>4, FinishGoesOn
<1>6. Moves(a) BY <1>3, <1>4, <1>5 DEF GoesOn, Moves, Durable
<1>7. CASE dir /\ OwnerMatches(handle[a], row)
  <2>1. /\ md'[a] = Preserve(m, row) /\ mutex = NoOne /\ mutex' = a /\ row' = row
        /\ Finish(a, to)
    BY <1>1, <1>7 DEF UpdateRead, TypeOK, lockVars
  <2>2. m.run = row.run BY <1>7 DEF OwnerMatches, HandleOf
  <2>3. pc'[a] = to BY <1>1, <2>1, FinishGoesOn, <1>2, <1>3
  <2>4. Kind(a) BY <2>1, <2>2 DEF Kind, ReadsRow
  <2>5. Honest(Preserve(m, row)) BY <2>2, MergeHonest DEF PublishInv
  <2>6. HonestNext(md'[a]) BY <1>6, <2>1, <2>5, HonestKept DEF Moves
  <2>7. QED BY <1>5, <1>6, <2>1, <2>3, <2>4, <2>6 DEF GoesOn
<1>8. CASE ~(dir /\ OwnerMatches(handle[a], row))
  <2>1. md'[a] = EmptyRow /\ mutex' = mutex /\ row' = row /\ Finish(a, fail)
    BY <1>1, <1>8 DEF UpdateRead, TypeOK, lockVars
  <2>2. pc'[a] = fail BY <1>1, <2>1, FinishGoesOn, <1>2, <1>3
  <2>3. Kind(a) BY <2>1, <2>2 DEF Kind, Quiet
  <2>4. QED BY <1>5, <1>6, <2>1, <2>2, <2>3, EmptyHonest DEF GoesOn
<1>9. QED BY <1>7, <1>8

\* The second half replaces the row, or raises, and drops the mutex.
LEMMA UpdateWrites ==
    ASSUME LockInv, PublishInv, NEW a \in Actors, NEW to,
           WriteRow(a, to) \/ WriteRaises(a, to), pc[a] \in Replacing,
           a \notin Runs \/ to # "idle", to \notin Replacing, UNCHANGED result
    PROVE  /\ Moves(a) /\ Kind(a)
           /\ HonestNext(md'[a]) /\ pc'[a] = to
           /\ handle'[a] = IF to = "idle" THEN NoHandle ELSE handle[a]
           /\ view'[a] = IF to = "idle" THEN NoView ELSE view[a]
<1>1. TypeOK BY DEF LockInv
<1>2. /\ \A b \in Actors \ {a} : md'[b] = md[b]
      /\ md'[a] = EmptyRow /\ mutex = a /\ Finish(a, to)
      /\ UNCHANGED <<counter, result>>
    BY <1>1 DEF WriteRow, WriteRaises, TypeOK, lockVars
<1>3. GoesOn(a) /\ pc'[a] = to BY <1>1, <1>2, FinishGoesOn
<1>4. Moves(a) BY <1>2, <1>3 DEF GoesOn, Moves, Durable
<1>5. Kind(a)
  <2>1. CASE WriteRow(a, to) BY <1>3, <2>1 DEF WriteRow, Kind, WritesRow
  <2>2. CASE WriteRaises(a, to)
    BY <1>2, <1>3, <2>2 DEF WriteRaises, Kind, Quiet, lockVars
  <2>3. QED BY <2>1, <2>2
<1>6. QED BY <1>2, <1>3, <1>4, <1>5, EmptyHonest DEF GoesOn

\* Whoever replaces the row of r with a row that is in S makes it carried: no
\* one else is replacing it.
LEMMA WriteCarries ==
    ASSUME LockInv, PublishInv, NEW a \in Actors, NEW to, WriteRow(a, to),
           pc[a] \in Replacing, to \notin Replacing, pc'[a] = to, OnlyMoves(a),
           NEW S, Absorbing(S), md[a] \in S, NEW r \in Runs
    PROVE  r = md[a].run => Carried(r, S)'
<1>1. row' \in S
  BY DEF WriteRow, Absorbing, LockInv, TypeOK
<1>2. \A b \in Actors : pc'[b] \notin Replacing
  BY Alone DEF WriteRow, OnlyMoves
<1>3. QED BY <1>1, <1>2 DEF Carried

\* A step that leaves the row, the metadata and the mutex alone, or removes
\* the row, and neither ends nor starts a run.
LEMMA QuietSteps ==
    ASSUME LockInv, PublishInv, NEW a \in Actors, NEW to, Finish(a, to),
           a \notin Runs \/ to # "idle", to \notin Replacing,
           row' \in {row, EmptyRow}, mutex' = mutex \/ mutex = a,
           \A b \in Actors \ {a} : md'[b] = md[b], md'[a] \in {md[a], EmptyRow},
           UNCHANGED <<counter, result>>
    PROVE  /\ Moves(a) /\ Kind(a) /\ GoesOn(a)
           /\ HonestNext(md'[a]) /\ pc'[a] = to
<1>1. TypeOK BY DEF LockInv
<1>2. GoesOn(a) /\ pc'[a] = to BY <1>1, FinishGoesOn
<1>3. Moves(a) BY <1>2 DEF GoesOn, Moves, Durable
<1>4. Kind(a) BY <1>2 DEF Kind, Quiet
<1>5. HonestNext(md[a]) BY <1>3, HonestKept DEF PublishInv, OutcomeInv, Moves
<1>6. QED BY <1>2, <1>3, <1>4, <1>5, EmptyHonest

-----------------------------------------------------------------------------
(* Each step keeps what was published *)

\* What a step of a supervisor has to show.
LEMMA SupervisorPublish ==
    ASSUME LockInv, TypeOK', PublishInv, NEW r \in Runs, Moves(r), Kind(r),
           HonestNext(md'[r]), UNCHANGED authorized,
           pc'[r] = "set" /\ result'[r] \in TERMINAL_LOCK_OUTCOMES => Terminal(md'[r]),
           pc'[r] \in {"releasing", "rel"} /\ result'[r] \in TERMINAL_LOCK_OUTCOMES
             => KnownBy(r, r) \/ Carried(r, SettledRows)'
    PROVE  PublishInv'
<1>. USE PCMembers
<1>1. r \notin Helpers \cup Cleaners BY ActorsAssumption DEF ActorsAssumption
<1>2. pc[r] \in Replacing => handle[r].token # 0
  BY DEF LockInv, RunInv, Replacing
<1>3. pc'[r] \notin {"republish", "rep"} BY DEF TypeOK, SupervisorPCs
<1>4. OutcomeInv(r)'
  BY <1>1, <1>3 DEF OutcomeInv, Honest, HonestNext, Terminal
<1>5. ASSUME NEW s \in Runs, KnownBy(r, s)'
      PROVE  KnownBy(r, s) \/ Carried(s, SettledRows)'
  BY <1>1, <1>5 DEF KnownBy
<1>6. QED BY <1>2, <1>4, <1>5, PublishKept

\* A failed or torn acquire leaves an empty row.
LEMMA AcquirePublish ==
    ASSUME LockInv, TypeOK', PublishInv, NEW r \in Runs, AcquireStep(r)
    PROVE  PublishInv'
<1>. USE PCMembers
<1>1. TypeOK BY DEF LockInv
<1>2. PICK to \in {"granted", "done", "dead"} : Goto(r, to)
  BY DEF AcquireStep, Acquire, AcquireFails, AcquireTorn
<1>3. /\ pc' = [pc EXCEPT ![r] = to] /\ pc'[r] = to /\ pc[r] = "idle"
      /\ UNCHANGED <<mutex, md, result, authorized, view>>
      /\ \A b \in Actors \ {r} : handle'[b] = handle[b]
  BY <1>1, <1>2
     DEF Goto, TypeOK, AcquireStep, Acquire, AcquireFails, AcquireTorn, runVars
<1>4. Moves(r) BY <1>1, <1>3 DEF Moves, OnlyMoves, Durable, TypeOK
<1>5. Kind(r)
  <2>1. CASE Acquire(r)
    BY <1>1, <1>3, <2>1 DEF Acquire, Kind, Acquires, EmptyRow, Goto, TypeOK
  <2>2. CASE AcquireFails(r) \/ AcquireTorn(r)
    BY <1>3, <2>2 DEF AcquireFails, AcquireTorn, Kind, Quiet, Replacing
  <2>3. QED BY <2>1, <2>2 DEF AcquireStep
<1>6. HonestNext(md'[r])
  BY <1>3, <1>4, HonestKept DEF PublishInv, OutcomeInv, Moves
<1>7. QED BY <1>3, <1>4, <1>5, <1>6, SupervisorPublish

\* The supervisor's steps: only the update that settles the outcome leads to a
\* release that knows one.
LEMMA SupervisorStepPublish ==
    ASSUME LockInv, TypeOK', PublishInv, NEW r \in Runs, SupervisorStep(r)
    PROVE  PublishInv'
<1>. USE PCMembers
<1>1. TypeOK /\ (pc[r] \notin {"idle", "done", "dead"}
                   => handle[r].token # 0 /\ handle[r].run = r)
  BY DEF LockInv, RunInv
<1>2. ASSUME NEW to \in SupervisorPCs, Goto(r, to), to \notin Replacing, to # "idle",
             UNCHANGED <<row, mutex, counter, handle, md, view, authorized>>,
             result' = result
               \/ (\E o \in Outcomes : result' = [result EXCEPT ![r] = o]
                                      /\ result[r] = "none"),
             to \notin {"releasing", "rel"}
      PROVE  PublishInv'
  <2>1. \A s \in Runs \ {r} : result'[s] = result[s]
    BY <1>1, <1>2 DEF TypeOK
  <2>2. Durable BY <1>1, <1>2 DEF Durable, TypeOK
  <2>3. GoesOn(r) /\ pc'[r] = to BY <1>1, <1>2, <2>1, GotoGoesOn
  <2>4. Moves(r) BY <1>2, <2>2, <2>3 DEF Moves, GoesOn
  <2>5. Kind(r) BY <1>2, <2>3 DEF Kind, Quiet
  <2>6. HonestNext(md'[r])
    BY <1>2, <2>2, HonestKept DEF PublishInv, OutcomeInv
  <2>7. QED BY <1>2, <2>3, <2>4, <2>5, <2>6, SupervisorPublish DEF Replacing
<1>3. CASE RecordWitness(r) \/ WitnessFails(r) \/ RunBodyRaises(r) \/ RetainLock(r)
  <2>1. PICK to \in {"held", "giveback", "settling", "retained"} : Goto(r, to)
    BY <1>3 DEF RecordWitness, WitnessFails, RunBodyRaises, RetainLock
  <2>2. UNCHANGED <<row, mutex, counter, handle, md, view, authorized, result>>
    BY <1>3 DEF RecordWitness, WitnessFails, RunBodyRaises, RetainLock, runVars, lockVars
  <2>3. QED BY <1>2, <2>1, <2>2 DEF SupervisorPCs, Replacing
<1>4. ASSUME NEW o \in Outcomes, RecordResult(r, o) PROVE PublishInv'
  <2>1. result[r] = "none" BY <1>4 DEF RecordResult, LockInv, RunInv, Over
  <2>2. QED
    BY <1>2, <1>4, <2>1 DEF RecordResult, lockVars, SupervisorPCs, Replacing
<1>5. CASE EnterRuntimeStages(r)
  <2>1. /\ UNCHANGED <<row, mutex, pc, handle, md, view, authorized, result>>
        /\ pc[r] = "running"
    BY <1>5 DEF EnterRuntimeStages, lockVars
  <2>2. Moves(r) BY <2>1 DEF Moves, OnlyMoves, Durable
  <2>3. Kind(r) BY <2>1 DEF Kind, Quiet, Replacing
  <2>4. HonestNext(md'[r])
    BY <2>1, <2>2, HonestKept DEF PublishInv, OutcomeInv, Moves
  <2>5. QED BY <2>1, <2>2, <2>3, <2>4, SupervisorPublish
<1>6. ASSUME NEW to \in SupervisorPCs, Finish(r, to), to \notin Replacing, to # "idle",
             row' \in {row, EmptyRow},
             UNCHANGED <<mutex, counter, md, authorized, result>>,
             to = "rel" => pc[r] = "releasing", to # "releasing"
      PROVE  PublishInv'
  <2>1. /\ Moves(r) /\ Kind(r) /\ HonestNext(md'[r]) /\ pc'[r] = to
    BY <1>6, QuietSteps
  <2>2. pc'[r] \in {"releasing", "rel"} /\ result'[r] \in TERMINAL_LOCK_OUTCOMES
          => KnownBy(r, r)
    BY <1>6, <2>1 DEF KnownBy
  <2>3. QED BY <1>6, <2>1, <2>2, SupervisorPublish DEF Replacing
<1>7. CASE GiveBackRead(r) \/ ReleaseStatus(r)
  <2>1. PICK to \in {"givenback", "rel", "done", "retained"} :
          Finish(r, to) /\ (to = "rel" => pc[r] = "releasing")
    BY <1>7 DEF GiveBackRead, ReleaseStatus, ReleaseRead
  <2>2. UNCHANGED <<row, mutex, counter, md, authorized, result>>
    BY <1>7 DEF GiveBackRead, ReleaseStatus, ReleaseRead, runVars, lockVars
  <2>3. QED BY <1>6, <2>1, <2>2 DEF SupervisorPCs, Replacing
<1>8. CASE GiveBackRemove(r) \/ Release(r)
  <2>1. PICK to \in {"done", "retained"} : Finish(r, to)
    BY <1>8 DEF GiveBackRemove, Release, ReleaseRemove
  <2>2. UNCHANGED <<mutex, counter, md, authorized, result>>
        /\ row' \in {row, EmptyRow}
    BY <1>8 DEF GiveBackRemove, Release, ReleaseRemove, runVars
  <2>3. QED BY <1>6, <2>1, <2>2 DEF SupervisorPCs, Replacing
<1>9. CASE LaunchWorker(r)
  <2>1. PICK m \in Rows : m = [SupervisorMetadata(r, "unknown") EXCEPT !.wpid = TRUE]
    BY <1>1, SupervisorMetadataType DEF Outcomes
  <2>2. HandleOf(m) = handle[r] /\ m.outcome = "unknown"
    BY <1>1, <1>9, <2>1
       DEF LaunchWorker, HandleOf, SupervisorMetadata, TypeOK, Handles
  <2>3. Honest(m) BY <2>2 DEF Honest, Terminal, TERMINAL_LOCK_OUTCOMES
  <2>4. UpdateRead(r, m, "pub", "settling") /\ UNCHANGED runVars
    BY <1>9, <2>1 DEF LaunchWorker
  <2>5. /\ Moves(r) /\ Kind(r) /\ HonestNext(md'[r])
        /\ pc'[r] \in {"pub", "settling"}
    BY <2>2, <2>3, <2>4, UpdateReads DEF Replacing
  <2>6. QED BY <2>4, <2>5, SupervisorPublish DEF runVars
<1>10. CASE PublishWorker(r)
  <2>1. PICK to \in {"running", "settling"} : WriteRow(r, to) \/ WriteRaises(r, to)
    BY <1>10 DEF PublishWorker
  <2>2. pc[r] = "pub" /\ UNCHANGED <<result, authorized>>
    BY <1>10 DEF PublishWorker
  <2>3. Moves(r) /\ Kind(r) /\ HonestNext(md'[r]) /\ pc'[r] = to
    BY <2>1, <2>2, UpdateWrites DEF Replacing
  <2>4. QED BY <2>2, <2>3, SupervisorPublish
<1>11. CASE SettleRead(r)
  <2>1. PICK o \in Outcomes : o = SettledOutcome(r)
    BY <1>1 DEF TypeOK, SettledOutcome, Results, Outcomes
  <2>2. PICK m \in Rows : m = SupervisorMetadata(r, o)
    BY <1>1, SupervisorMetadataType
  <2>3. HandleOf(m) = handle[r] /\ m.outcome = o /\ m.run = r
    BY <1>1, <1>11, <2>2
       DEF SettleRead, HandleOf, SupervisorMetadata, TypeOK, Handles
  <2>4. Honest(m)
    BY <2>1, <2>3 DEF Honest, Terminal, TERMINAL_LOCK_OUTCOMES, SettledOutcome
  <2>5. PICK fail \in {"retained", "releasing"} : fail = AfterFailedSettle(r)
    BY DEF AfterFailedSettle
  <2>6. UpdateRead(r, m, "set", fail) /\ UNCHANGED runVars
    BY <1>11, <2>1, <2>2, <2>5 DEF SettleRead
  <2>7. /\ Moves(r) /\ Kind(r) /\ HonestNext(md'[r])
        /\ \/ pc'[r] = "set" /\ md'[r] = Preserve(m, row)
           \/ pc'[r] = fail
    BY <2>3, <2>4, <2>6, UpdateReads DEF Replacing
  <2>8. result'[r] \in TERMINAL_LOCK_OUTCOMES => Terminal(m) /\ fail = "retained"
    BY <2>1, <2>3, <2>5, <2>6
       DEF runVars, SettledOutcome, AfterFailedSettle, Terminal, TERMINAL_LOCK_OUTCOMES
  <2>9. Terminal(m) => Terminal(Preserve(m, row))
    BY DEF Terminal, Preserve, PreservedOutcome
  <2>10. QED
    BY <2>6, <2>7, <2>8, <2>9, SupervisorPublish DEF runVars
<1>12. CASE SettleWrite(r)
  <2>1. PICK fail \in {"retained", "releasing"} : fail = AfterFailedSettle(r)
    BY DEF AfterFailedSettle
  <2>2. pc[r] = "set" /\ UNCHANGED <<result, authorized>>
        /\ (WriteRow(r, "releasing") \/ WriteRaises(r, fail))
    BY <1>12, <2>1 DEF SettleWrite, UpdateWrite, runVars
  <2>3. result[r] \in TERMINAL_LOCK_OUTCOMES => Terminal(md[r]) /\ fail = "retained"
    BY <2>1, <2>2
       DEF PublishInv, OutcomeInv, SettledOutcome, AfterFailedSettle,
           TERMINAL_LOCK_OUTCOMES
  <2>4. CASE WriteRow(r, "releasing")
    <3>1. Moves(r) /\ Kind(r) /\ HonestNext(md'[r]) /\ pc'[r] = "releasing"
      BY <2>2, <2>4, UpdateWrites DEF Replacing
    <3>2. md[r].run = r
      <4>1. HandleOf(md[r]) = handle[r]
        BY <2>2 DEF LockInv, WriterInv, Writing
      <4>2. HandleOf(md[r]).run = md[r].run BY DEF HandleOf
      <4>3. QED BY <1>1, <2>2, <4>1, <4>2
    <3>3. result[r] \in TERMINAL_LOCK_OUTCOMES => md[r] \in SettledRows
      BY <1>1, <2>3 DEF TypeOK, SettledRows
    <3>4. result[r] \in TERMINAL_LOCK_OUTCOMES => Carried(r, SettledRows)'
      BY <2>2, <2>4, <3>1, <3>2, <3>3, WriteCarries, PublishedAbsorbs
         DEF Replacing, Moves
    <3>5. QED BY <2>2, <3>1, <3>4, SupervisorPublish
  <2>5. CASE WriteRaises(r, fail)
    <3>1. Moves(r) /\ Kind(r) /\ HonestNext(md'[r]) /\ pc'[r] = fail
      BY <2>2, <2>5, UpdateWrites DEF Replacing
    <3>2. QED BY <2>2, <2>3, <3>1, SupervisorPublish
  <2>6. QED BY <2>2, <2>4, <2>5
<1>13. QED
  BY <1>3, <1>4, <1>5, <1>7, <1>8, <1>9, <1>10, <1>11, <1>12 DEF SupervisorStep

\* What a step of a heartbeat, claim or widening has to show.
LEMMA HelperPublish ==
    ASSUME LockInv, TypeOK', PublishInv, NEW h \in Helpers, Moves(h), Kind(h),
           HonestNext(md'[h]), pc[h] \in Replacing => handle[h].token # 0,
           \A r \in Runs : authorized'[r] > 0 =>
              \/ authorized[r] > 0
              \/ pc'[r] # "idle" /\ Carried(r, WidenedRows)'
    PROVE  PublishInv'
<1>. USE PCMembers
<1>1. h \notin Runs \cup Cleaners BY ActorsAssumption DEF ActorsAssumption
<1>2. pc'[h] \notin {"republish", "rep"} BY DEF TypeOK, HelperPCs
<1>3. OutcomeInv(h)'
  BY <1>1, <1>2 DEF OutcomeInv, Honest, HonestNext, Terminal
<1>4. \A r \in Runs : ~KnownBy(h, r)' BY <1>1 DEF KnownBy
<1>5. QED BY <1>3, <1>4, PublishKept

\* A heartbeat or claim writes back what it has read; a widening is authorized
\* only by the update that has published it.
LEMMA HelperStepPublish ==
    ASSUME LockInv, TypeOK', PublishInv, NEW h \in Helpers,
           HelperStart(h) \/ HelperStep(h)
    PROVE  PublishInv'
<1>. USE PCMembers
<1>1. TypeOK /\ h \notin Runs \cup Cleaners
  BY ActorsAssumption DEF LockInv, ActorsAssumption
<1>2. ASSUME NEW r \in Runs, RefreshSnapshot(h, r) \/ WidenSnapshot(h, r)
      PROVE  PublishInv'
  <2>1. PICK to \in {"refresh", "widen"} : Goto(h, to)
    BY <1>2 DEF RefreshSnapshot, WidenSnapshot
  <2>2. PICK m : /\ md' = [md EXCEPT ![h] = m]
                 /\ m = row \/ m = [row EXCEPT !.scope = authorized[r] + 1]
    BY <1>2 DEF RefreshSnapshot, WidenSnapshot
  <2>3. /\ handle' = [handle EXCEPT ![h] = HandleOf(row)]
        /\ UNCHANGED <<row, mutex, view, result, authorized>> /\ pc[h] = "idle"
    BY <1>2 DEF RefreshSnapshot, WidenSnapshot, lockVars, runVars
  <2>4. pc' = [pc EXCEPT ![h] = to] /\ pc'[h] = to /\ md'[h] = m
    BY <1>1, <2>1, <2>2 DEF Goto, TypeOK
  <2>5. Moves(h)
    BY <1>1, <2>2, <2>3, <2>4 DEF Moves, OnlyMoves, Durable, TypeOK
  <2>6. Kind(h) BY <2>3, <2>4 DEF Kind, Quiet, Replacing
  <2>7. m.run = row.run /\ m.outcome = row.outcome
    BY <1>1, <2>2 DEF TypeOK, Rows
  <2>8. Honest(m) BY <2>7 DEF PublishInv, Honest, Terminal
  <2>9. HonestNext(md'[h]) BY <2>4, <2>5, <2>8, HonestKept DEF Moves
  <2>10. QED BY <2>3, <2>5, <2>6, <2>9, HelperPublish DEF Replacing
<1>3. ASSUME NEW to \in {"ref", "wid"}, UpdateRead(h, md[h], to, "idle"),
             pc[h] \in {"refresh", "widen"}, UNCHANGED <<runVars, misjudged>>
      PROVE  PublishInv'
  <2>1. PICK m \in Rows : m = md[h] BY <1>1 DEF TypeOK
  <2>2. HandleOf(m) = handle[h]
    BY <1>3, <2>1 DEF LockInv, WriterInv, Writing
  <2>3. Honest(m) BY <2>1 DEF PublishInv, OutcomeInv
  <2>4. Moves(h) /\ Kind(h) /\ HonestNext(md'[h])
    BY <1>1, <1>3, <2>1, <2>2, <2>3, UpdateReads DEF Replacing
  <2>5. QED BY <1>3, <2>4, HelperPublish DEF Replacing, runVars
<1>4. CASE RefreshRead(h) BY <1>3, <1>4 DEF RefreshRead
<1>5. CASE WidenRead(h) BY <1>3, <1>5 DEF WidenRead
<1>6. ASSUME WriteRow(h, "idle") \/ WriteRaises(h, "idle"), pc[h] \in {"ref", "wid"},
             UNCHANGED result
      PROVE  Moves(h) /\ Kind(h) /\ HonestNext(md'[h]) /\ pc'[h] = "idle"
             /\ handle[h].token # 0
  BY <1>1, <1>6, UpdateWrites DEF Replacing, LockInv, HelperInv
<1>7. CASE RefreshWrite(h)
  <2>1. UNCHANGED <<result, authorized>> BY <1>7 DEF RefreshWrite, runVars
  <2>2. Moves(h) /\ Kind(h) /\ HonestNext(md'[h]) /\ handle[h].token # 0
    BY <1>6, <1>7, <2>1 DEF RefreshWrite, UpdateWrite
  <2>3. QED BY <2>1, <2>2, HelperPublish
<1>8. CASE WidenWrite(h) /\ WriteRaises(h, "idle") /\ UNCHANGED authorized
  <2>1. Moves(h) /\ Kind(h) /\ HonestNext(md'[h]) /\ handle[h].token # 0
    BY <1>6, <1>8 DEF WidenWrite
  <2>2. QED BY <1>8, <2>1, HelperPublish
<1>9. CASE /\ WidenWrite(h) /\ WriteRow(h, "idle")
           /\ authorized' = [authorized EXCEPT ![handle[h].run] = md[h].scope]
  <2>1. pc[h] = "wid" /\ UNCHANGED result BY <1>9 DEF WidenWrite
  <2>2. Moves(h) /\ Kind(h) /\ HonestNext(md'[h]) /\ handle[h].token # 0
        /\ pc'[h] = "idle"
    BY <1>6, <1>9, <2>1
  <2>3. HandleOf(md[h]) = handle[h]
    BY <2>1 DEF LockInv, WriterInv, Writing
  <2>4. HandleOf(md[h]).run = md[h].run BY DEF HandleOf
  <2>5. PICK s \in Runs : s = handle[h].run /\ s = md[h].run
                          /\ handle[s].token # 0
    BY <2>2, <2>3, <2>4 DEF LockInv, CommandInv
  <2>6. pc[s] # "idle" BY <2>5 DEF LockInv, RunInv, NoHandle
  <2>7. pc'[s] # "idle" BY <1>1, <2>2, <2>6 DEF Moves, OnlyMoves
  <2>8. ASSUME NEW r \in Runs, authorized'[r] > 0
        PROVE  authorized[r] > 0 \/ (pc'[r] # "idle" /\ Carried(r, WidenedRows)')
    <3>1. CASE r # s BY <1>1, <1>9, <2>5, <2>8, <3>1 DEF TypeOK
    <3>2. CASE r = s
      <4>1. md[h].scope > 0 BY <1>1, <1>9, <2>5, <2>8, <3>2 DEF TypeOK
      <4>2. md[h] \in WidenedRows BY <1>1, <4>1 DEF WidenedRows, TypeOK
      <4>3. Carried(s, WidenedRows)'
        BY <1>9, <2>1, <2>2, <2>5, <4>2, WriteCarries, PublishedAbsorbs
           DEF Replacing, Moves
      <4>4. QED BY <2>7, <3>2, <4>3
    <3>3. QED BY <3>1, <3>2
  <2>9. QED BY <2>2, <2>8, HelperPublish
<1>10. CASE WidenWrite(h) BY <1>8, <1>9, <1>10 DEF WidenWrite
<1>11. QED
  BY <1>2, <1>4, <1>5, <1>7, <1>10 DEF HelperStart, HelperStep

\* What a step of recovery has to show.
LEMMA CleanerPublish ==
    ASSUME LockInv, TypeOK', PublishInv, NEW c \in Cleaners, Moves(c), Kind(c),
           HonestNext(md'[c]), UNCHANGED authorized,
           pc[c] \in Replacing => handle[c].token # 0,
           view'[c].pending # "none" =>
              pc'[c] # "idle" /\ result'[handle'[c].run] = view'[c].pending,
           pc'[c] \in {"republish", "rep"}
             /\ view'[c].pending \in TERMINAL_LOCK_OUTCOMES => Terminal(md'[c]),
           \A r \in Runs : KnownBy(c, r)' => KnownBy(c, r) \/ Carried(r, SettledRows)'
    PROVE  PublishInv'
<1>. USE PCMembers
<1>1. c \notin Runs \cup Helpers BY ActorsAssumption DEF ActorsAssumption
<1>2. OutcomeInv(c)'
  BY <1>1 DEF OutcomeInv, Honest, HonestNext, Terminal
<1>3. QED BY <1>2, PublishKept

\* A recovery process that goes on with, or drops, what it has read.
LEMMA CleanerGoesOnPublish ==
    ASSUME LockInv, TypeOK', PublishInv, NEW c \in Cleaners, Moves(c), Kind(c),
           HonestNext(md'[c]), UNCHANGED authorized, pc[c] # "idle",
           handle'[c] = IF pc'[c] = "idle" THEN NoHandle ELSE handle[c],
           view'[c] = IF pc'[c] = "idle" THEN NoView ELSE view[c],
           pc'[c] \in {"republish", "rep"}
             /\ view'[c].pending \in TERMINAL_LOCK_OUTCOMES => Terminal(md'[c]),
           pc'[c] \in {"releasing", "rel"} =>
             \/ pc[c] = "releasing"
             \/ \A r \in Runs : KnownBy(c, r)' => Carried(r, SettledRows)'
    PROVE  PublishInv'
<1>. USE PCMembers
<1>1. c \notin Runs \cup Helpers BY ActorsAssumption DEF ActorsAssumption
<1>2. pc[c] \in Replacing => handle[c].token # 0
  BY DEF LockInv, CleanerInv, TypeOK, CleanerPCs, Replacing
<1>3. view'[c].pending # "none" =>
         pc'[c] # "idle" /\ result'[handle'[c].run] = view'[c].pending
  BY DEF PublishInv, OutcomeInv, NoView, Moves, Durable, LockInv, TypeOK
<1>4. ASSUME NEW r \in Runs, KnownBy(c, r)'
      PROVE  KnownBy(c, r) \/ Carried(r, SettledRows)'
  BY <1>1, <1>4 DEF KnownBy
<1>5. QED BY <1>2, <1>3, <1>4, CleanerPublish

\* Recovery reads the pending settlement, and removes the row only with that
\* outcome on it.
LEMMA CleanerStepPublish ==
    ASSUME LockInv, TypeOK', PublishInv, NEW c \in Cleaners,
           CleanerStart(c) \/ CleanerStep(c)
    PROVE  PublishInv'
<1>. USE PCMembers
<1>1. TypeOK /\ c \notin Runs \cup Helpers
  BY ActorsAssumption DEF LockInv, ActorsAssumption
<1>2. ASSUME NEW r \in Runs, CollectPending(c, r) PROVE PublishInv'
  <2>1. /\ pc' = [pc EXCEPT ![c] = "pending"] /\ pc'[c] = "pending"
        /\ handle' = [handle EXCEPT ![c] = [run |-> r, token |-> 0]]
        /\ handle'[c].run = r /\ view'[c].pending = result[r]
        /\ UNCHANGED <<row, mutex, md, result, authorized>> /\ pc[c] = "idle"
    BY <1>1, <1>2
       DEF CollectPending, Goto, TypeOK, NoView, lockVars, runVars
  <2>2. Moves(c)
    BY <1>1, <1>2, <2>1 DEF Moves, OnlyMoves, Durable, CollectPending, TypeOK
  <2>3. Kind(c) BY <2>1 DEF Kind, Quiet, Replacing
  <2>4. HonestNext(md'[c])
    BY <2>1, <2>2, HonestKept DEF PublishInv, OutcomeInv, Moves
  <2>5. \A s \in Runs : ~KnownBy(c, s)' BY <2>1 DEF KnownBy
  <2>6. QED BY <2>1, <2>2, <2>3, <2>4, <2>5, CleanerPublish DEF Replacing
<1>3. CASE CollectRecords(c)
  <2>1. /\ pc' = [pc EXCEPT ![c] = "records"] /\ pc'[c] = "records"
        /\ UNCHANGED <<row, mutex, md, handle, result, authorized>>
        /\ pc[c] = "pending"
    BY <1>1, <1>3 DEF CollectRecords, Goto, TypeOK, lockVars, runVars
  <2>2. view'[c].pending = view[c].pending
    BY <1>1, <1>3 DEF CollectRecords, TypeOK, Views
  <2>3. Moves(c)
    BY <1>1, <1>3, <2>1 DEF Moves, OnlyMoves, Durable, CollectRecords, TypeOK
  <2>4. Kind(c) BY <2>1 DEF Kind, Quiet, Replacing
  <2>5. HonestNext(md'[c])
    BY <2>1, <2>3, HonestKept DEF PublishInv, OutcomeInv, Moves
  <2>6. view[c].pending # "none" => result[handle[c].run] = view[c].pending
    BY DEF PublishInv, OutcomeInv
  <2>7. \A s \in Runs : ~KnownBy(c, s)' BY <2>1 DEF KnownBy
  <2>8. QED
    BY <2>1, <2>2, <2>3, <2>4, <2>5, <2>6, <2>7, CleanerPublish DEF Replacing
<1>4. ASSUME NEW to, Finish(c, to), to \notin Replacing, to # "republish",
             pc[c] # "idle", row' \in {row, EmptyRow}, mutex' = mutex \/ mutex = c,
             \A b \in Actors \ {c} : md'[b] = md[b], md'[c] \in {md[c], EmptyRow},
             UNCHANGED <<counter, result, authorized>>,
             to \in {"releasing", "rel"} => pc[c] = "releasing"
      PROVE  PublishInv'
  <2>1. /\ Moves(c) /\ Kind(c) /\ GoesOn(c) /\ HonestNext(md'[c]) /\ pc'[c] = to
    BY <1>1, <1>4, QuietSteps
  <2>2. QED BY <1>4, <2>1, CleanerGoesOnPublish DEF GoesOn, Replacing
<1>5. CASE CollectLock(c)
  <2>1. PICK to \in {"stale", "idle"} : Finish(c, to)
    BY <1>5 DEF CollectLock
  <2>2. UNCHANGED <<row, counter, md, mutex, result, authorized>> /\ pc[c] = "records"
    BY <1>5 DEF CollectLock, lockVars, runVars
  <2>3. QED BY <1>4, <2>1, <2>2 DEF Replacing
<1>6. CASE StaleStatus(c) /\ ~(dir /\ row.run = handle[c].run)
  <2>1. Finish(c, "idle") /\ UNCHANGED <<row, counter, md, mutex, result, authorized>>
        /\ pc[c] = "stale"
    BY <1>6 DEF StaleStatus, lockVars, runVars
  <2>2. QED BY <1>4, <2>1 DEF Replacing
<1>7. CASE StaleStatus(c) /\ dir /\ row.run = handle[c].run
  <2>1. PICK to \in {"republish", "releasing"} :
          /\ Goto(c, to)
          /\ to = "republish" =>
               /\ view[c].pending \in TERMINAL_LOCK_OUTCOMES
               /\ md' = [md EXCEPT ![c] = [row EXCEPT !.outcome = view[c].pending]]
          /\ to = "releasing" =>
               /\ view[c].pending \in TERMINAL_LOCK_OUTCOMES
                    => row.outcome = view[c].pending
               /\ md' = md
    BY <1>7 DEF StaleStatus
  <2>2. /\ pc' = [pc EXCEPT ![c] = to] /\ pc'[c] = to /\ pc[c] = "stale"
        /\ handle' = [handle EXCEPT ![c] = HandleOf(row)]
        /\ handle'[c].run = handle[c].run /\ handle[c].run = row.run
        /\ row.run \in Runs
        /\ UNCHANGED <<row, view, mutex, result, authorized>>
    BY <1>1, <1>7, <2>1 DEF StaleStatus, Goto, TypeOK, lockVars, runVars, HandleOf
  <2>3. \A b \in Actors \ {c} : md'[b] = md[b] /\ handle'[b] = handle[b]
    BY <1>1, <2>1, <2>2 DEF TypeOK
  <2>4. Moves(c)
    BY <1>1, <2>2, <2>3 DEF Moves, OnlyMoves, Durable, TypeOK
  <2>5. Kind(c) BY <2>2 DEF Kind, Quiet, Replacing
  <2>6. view[c].pending # "none" => result[handle[c].run] = view[c].pending
    BY DEF PublishInv, OutcomeInv
  <2>7. CASE to = "republish"
    <3>1. PICK m : m = [row EXCEPT !.outcome = view[c].pending] OBVIOUS
    <3>2. m.run = row.run /\ m.outcome = view[c].pending /\ md'[c] = m
      BY <1>1, <2>1, <2>7, <3>1 DEF TypeOK, Rows
    <3>3. Terminal(m) /\ Honest(m)
      BY <2>1, <2>2, <2>6, <2>7, <3>2
         DEF Terminal, Honest, TERMINAL_LOCK_OUTCOMES
    <3>4. HonestNext(md'[c]) BY <2>4, <3>2, <3>3, HonestKept DEF Moves
    <3>5. \A s \in Runs : ~KnownBy(c, s)' BY <2>2, <2>7 DEF KnownBy
    <3>6. QED
      BY <2>2, <2>4, <2>5, <2>6, <2>7, <3>2, <3>3, <3>4, <3>5, CleanerPublish
         DEF Replacing
  <2>8. CASE to = "releasing"
    <3>1. md' = md /\ (view[c].pending \in TERMINAL_LOCK_OUTCOMES
                         => row \in SettledRows)
      BY <1>1, <2>1, <2>8 DEF TypeOK, SettledRows, Terminal
    <3>2. HonestNext(md'[c])
      BY <2>4, <3>1, HonestKept DEF PublishInv, OutcomeInv, Moves
    <3>3. ASSUME NEW s \in Runs, KnownBy(c, s)' PROVE Carried(s, SettledRows)'
      <4>1. s = row.run /\ row \in SettledRows
        BY <1>1, <2>2, <3>1, <3>3 DEF KnownBy
      <4>2. \A a \in Actors : pc[a] \in Replacing /\ md[a].run = s
                                 => md[a] \in SettledRows
        BY <1>1, <4>1 DEF PublishInv, FreshInv, SettledRows, TypeOK
      <4>3. \A a \in Actors : pc'[a] \in Replacing => pc[a] \in Replacing
        BY <2>2, <2>4, <2>8 DEF Moves, OnlyMoves, Replacing
      <4>4. QED BY <2>2, <3>1, <4>1, <4>2, <4>3 DEF Carried
    <3>4. QED
      BY <2>2, <2>4, <2>5, <2>6, <2>8, <3>2, <3>3, CleanerPublish DEF Replacing
  <2>9. QED BY <2>7, <2>8
<1>8. CASE RepublishRead(c)
  <2>1. PICK m \in Rows : m = md[c] BY <1>1 DEF TypeOK
  <2>2. HandleOf(m) = handle[c] /\ pc[c] = "republish"
    BY <1>8, <2>1 DEF RepublishRead, LockInv, WriterInv, Writing
  <2>3. Honest(m) /\ (view[c].pending \in TERMINAL_LOCK_OUTCOMES => Terminal(m))
    BY <2>1, <2>2 DEF PublishInv, OutcomeInv
  <2>4. UpdateRead(c, m, "rep", "idle") /\ UNCHANGED runVars
    BY <1>8, <2>1 DEF RepublishRead
  <2>5. /\ Moves(c) /\ Kind(c) /\ HonestNext(md'[c])
        /\ \/ pc'[c] = "rep" /\ md'[c] = Preserve(m, row)
           \/ pc'[c] = "idle"
        /\ handle'[c] = IF pc'[c] = "idle" THEN NoHandle ELSE handle[c]
        /\ view'[c] = IF pc'[c] = "idle" THEN NoView ELSE view[c]
    BY <1>1, <2>2, <2>3, <2>4, UpdateReads DEF Replacing
  <2>6. view[c].pending \in TERMINAL_LOCK_OUTCOMES => Terminal(Preserve(m, row))
    BY <2>3 DEF Terminal, Preserve, PreservedOutcome
  <2>7. QED BY <2>2, <2>4, <2>5, <2>6, CleanerGoesOnPublish DEF runVars
<1>9. CASE RepublishWrite(c)
  <2>1. pc[c] = "rep" /\ UNCHANGED <<result, authorized>>
        /\ (WriteRow(c, "releasing") \/ WriteRaises(c, "idle"))
    BY <1>9 DEF RepublishWrite, UpdateWrite, runVars
  <2>2. CASE WriteRow(c, "releasing")
    <3>1. /\ Moves(c) /\ Kind(c) /\ HonestNext(md'[c]) /\ pc'[c] = "releasing"
          /\ handle'[c] = handle[c] /\ view'[c] = view[c]
      BY <1>1, <2>1, <2>2, UpdateWrites DEF Replacing
    <3>2. md[c].run = handle[c].run
      <4>1. HandleOf(md[c]) = handle[c]
        BY <2>1 DEF LockInv, WriterInv, Writing
      <4>2. HandleOf(md[c]).run = md[c].run BY DEF HandleOf
      <4>3. QED BY <4>1, <4>2
    <3>3. view[c].pending \in TERMINAL_LOCK_OUTCOMES => md[c] \in SettledRows
      BY <1>1, <2>1 DEF PublishInv, OutcomeInv, TypeOK, SettledRows
    <3>4. ASSUME NEW s \in Runs, KnownBy(c, s)' PROVE Carried(s, SettledRows)'
      <4>1. s = md[c].run /\ view[c].pending \in TERMINAL_LOCK_OUTCOMES
        BY <1>1, <3>1, <3>2, <3>4 DEF KnownBy
      <4>2. QED
        BY <2>1, <2>2, <3>1, <3>3, <4>1, WriteCarries, PublishedAbsorbs
           DEF Replacing, Moves
    <3>5. QED BY <2>1, <3>1, <3>4, CleanerGoesOnPublish
  <2>3. CASE WriteRaises(c, "idle")
    <3>1. /\ Moves(c) /\ Kind(c) /\ HonestNext(md'[c]) /\ pc'[c] = "idle"
          /\ handle'[c] = NoHandle /\ view'[c] = NoView
      BY <1>1, <2>1, <2>3, UpdateWrites DEF Replacing
    <3>2. QED BY <2>1, <3>1, CleanerGoesOnPublish
  <2>4. QED BY <2>1, <2>2, <2>3
<1>10. CASE StaleReleaseStatus(c)
  <2>1. PICK to \in {"rel", "idle"} : Finish(c, to)
    BY <1>10 DEF StaleReleaseStatus, ReleaseRead
  <2>2. UNCHANGED <<row, counter, md, mutex, result, authorized>>
        /\ pc[c] = "releasing"
    BY <1>10 DEF StaleReleaseStatus, ReleaseRead, runVars, lockVars
  <2>3. QED BY <1>4, <2>1, <2>2 DEF Replacing
<1>11. CASE StaleRelease(c)
  <2>1. Finish(c, "idle") /\ UNCHANGED <<counter, md, mutex, result, authorized>>
        /\ pc[c] = "rel" /\ row' \in {row, EmptyRow}
    BY <1>11 DEF StaleRelease, ReleaseRemove, runVars
  <2>2. QED BY <1>4, <2>1 DEF Replacing
<1>12. CASE RefuseLatched(c)
  <2>1. Finish(c, "idle") /\ UNCHANGED <<row, counter, md, mutex, result, authorized>>
        /\ pc[c] = "stale"
    BY <1>12 DEF RefuseLatched, lockVars, runVars
  <2>2. QED BY <1>4, <2>1 DEF Replacing
<1>13. CASE FencedRecovery(c)
  <2>1. PICK m : m = [row EXCEPT !.token = acquired, !.outcome = result[handle[c].run]]
    OBVIOUS
  <2>2. /\ pc' = [pc EXCEPT ![c] = "republish"] /\ pc'[c] = "republish"
        /\ pc[c] = "stale"
        /\ handle'[c].run = handle[c].run /\ handle[c].run = row.run
        /\ \A b \in Actors \ {c} : md'[b] = md[b] /\ handle'[b] = handle[b]
        /\ md'[c] = m
        /\ UNCHANGED <<row, view, mutex, result, authorized>>
    BY <1>1, <1>13, <2>1
       DEF FencedRecovery, Goto, TypeOK, lockVars, runVars, OwnerMatches
  <2>3. handle[c].run \in Runs BY <1>1, <2>2 DEF TypeOK
  <2>4. Moves(c)
    BY <1>1, <2>2 DEF Moves, OnlyMoves, Durable, TypeOK
  <2>5. Kind(c) BY <2>2 DEF Kind, Quiet, Replacing
  <2>6. m.run = row.run /\ m.outcome = result[handle[c].run]
    BY <1>1, <2>1 DEF TypeOK, Rows
  <2>7. Honest(m)
    BY <2>2, <2>3, <2>6 DEF Honest, Terminal
  <2>8. HonestNext(md'[c]) BY <2>2, <2>4, <2>7, HonestKept DEF Moves
  <2>9. view[c].pending # "none" => result[handle[c].run] = view[c].pending
    BY DEF PublishInv, OutcomeInv
  <2>10. view[c].pending \in TERMINAL_LOCK_OUTCOMES => Terminal(m)
    BY <2>6, <2>9 DEF Terminal, TERMINAL_LOCK_OUTCOMES
  <2>11. \A s \in Runs : ~KnownBy(c, s)' BY <2>2 DEF KnownBy
  <2>12. QED
    BY <2>2, <2>4, <2>5, <2>8, <2>9, <2>10, <2>11, CleanerPublish DEF Replacing
<1>14. QED
  BY <1>2, <1>3, <1>5, <1>6, <1>7, <1>8, <1>9, <1>10, <1>11, <1>12, <1>13
     DEF CleanerStart, CleanerStep

\* A process that dies drops the mutex and what it was about to write.
LEMMA DeathPublish ==
    ASSUME LockInv, TypeOK', PublishInv, Death
    PROVE  PublishInv'
<1>. USE PCMembers
<1>1. TypeOK /\ Helpers \cap Runs = {} /\ Cleaners \cap Runs = {}
  BY ActorsAssumption DEF LockInv, ActorsAssumption
<1>2. ASSUME NEW r \in Runs, Finish(r, "dead"), row' \in {row, EmptyRow},
             mutex' = mutex \/ mutex = r,
             \A b \in Actors \ {r} : md'[b] = md[b], md'[r] \in {md[r], EmptyRow},
             UNCHANGED <<counter, result, authorized>>
      PROVE  PublishInv'
  <2>1. Moves(r) /\ Kind(r) /\ HonestNext(md'[r]) /\ pc'[r] = "dead"
    BY <1>2, QuietSteps DEF Replacing
  <2>2. QED BY <1>2, <2>1, SupervisorPublish
<1>3. ASSUME NEW a \in Helpers \cup Cleaners, Finish(a, "idle"), pc[a] # "idle",
             row' \in {row, EmptyRow}, mutex' = mutex \/ mutex = a,
             \A b \in Actors \ {a} : md'[b] = md[b], md'[a] \in {md[a], EmptyRow},
             UNCHANGED <<counter, result, authorized>>
      PROVE  PublishInv'
  <2>1. Moves(a) /\ Kind(a) /\ GoesOn(a) /\ HonestNext(md'[a]) /\ pc'[a] = "idle"
    BY <1>1, <1>3, QuietSteps DEF Replacing
  <2>2. CASE a \in Helpers
    <3>1. handle[a].token # 0 BY <1>3, <2>2 DEF LockInv, HelperInv
    <3>2. QED BY <1>3, <2>1, <2>2, <3>1, HelperPublish
  <2>3. CASE a \in Cleaners
    BY <1>3, <2>1, <2>3, CleanerGoesOnPublish DEF GoesOn
  <2>4. QED BY <2>2, <2>3
<1>4. ASSUME NEW r \in Runs, SupervisorDies(r) PROVE PublishInv'
  <2>1. handle' = handle /\ view' = view /\ Goto(r, "dead")
    BY <1>4 DEF SupervisorDies
  <2>2. Finish(r, "dead") BY <1>1, <2>1 DEF Finish, Forget, TypeOK
  <2>3. QED
    BY <1>1, <1>2, <1>4, <2>2
       DEF SupervisorDies, FreedMutex, TypeOK, lockVars, runVars
<1>5. ASSUME NEW a \in Helpers \cup Cleaners, CommandDies(a) PROVE PublishInv'
  BY <1>1, <1>3, <1>5 DEF CommandDies, FreedMutex, TypeOK, lockVars, runVars
<1>6. ASSUME NEW a \in Actors, DiesInRemove(a) PROVE PublishInv'
  <2>1. UNCHANGED <<counter, md, mutex, result, authorized>> /\ row' = EmptyRow
        /\ pc[a] \in {"rel", "givenback"}
    BY <1>6 DEF DiesInRemove, runVars
  <2>2. CASE a \in Runs BY <1>2, <1>6, <2>1, <2>2 DEF DiesInRemove
  <2>3. CASE a \notin Runs BY <1>3, <1>6, <2>1, <2>3 DEF DiesInRemove, Actors
  <2>4. QED BY <2>2, <2>3
<1>7. QED BY <1>4, <1>5, <1>6 DEF Death

LEMMA PublishInit == Init => PublishInv
BY PCMembers, BoundsAssumption, EmptyHonest
   DEF Init, PublishInv, Honest, MutexInv, FreshInv, OutcomeInv, KnownInv, KnownBy,
       ScopeInv, Replacing, NoView

\* One step of anyone keeps what was published.
LEMMA PublishStep ==
    ASSUME LockInv, PublishInv, [Next]_vars
    PROVE  PublishInv'
<1>1. TypeOK' BY TypeStep DEF LockInv
<1>2. CASE UNCHANGED <<row, mutex, pc, handle, md, view, result, authorized>>
  BY <1>2
     DEF PublishInv, Honest, MutexInv, FreshInv, OutcomeInv, KnownInv, KnownBy,
         ScopeInv, Carried
<1>3. CASE UNCHANGED vars BY <1>2, <1>3 DEF vars
<1>4. ASSUME NEW r \in Runs, WorkerExits(r) PROVE PublishInv'
  BY <1>2, <1>4 DEF WorkerExits, lockVars
<1>5. CASE Death BY <1>1, <1>5, DeathPublish
<1>6. QED
  BY <1>1, <1>3, <1>4, <1>5, AcquirePublish, SupervisorStepPublish,
     HelperStepPublish, CleanerStepPublish
     DEF Next

LEMMA PublishInvariant == ~TornTokenWrites /\ Spec => [](LockInv /\ PublishInv)
<1>1. CASE ~TornTokenWrites
  <2>1. Init /\ [][Next]_vars => [](LockInv /\ PublishInv)
    <3>1. (LockInv /\ PublishInv) /\ [Next]_vars => (LockInv /\ PublishInv)'
      BY <1>1, LockStep, PublishStep
    <3>2. Init => LockInv /\ PublishInv BY LockInit, PublishInit
    <3>3. QED BY <3>1, <3>2, PTL
  <2>2. QED BY <2>1 DEF Spec
<1>2. QED BY <1>1

\* The row changes only by an acquire, by a removal and by the second half of
\* an update.
LEMMA RowChanges ==
    ASSUME LockInv, [Next]_vars
    PROVE  \/ row' = row \/ row' = EmptyRow \/ row = EmptyRow
           \/ \E a \in Actors, to \in PCs : WriteRow(a, to) /\ pc[a] \in Replacing
<1>. USE PCMembers
<1>1. CASE UNCHANGED vars BY <1>1 DEF vars
<1>2. ASSUME NEW r \in Runs, AcquireStep(r) \/ WorkerExits(r)
      PROVE  row' = row \/ row = EmptyRow
  BY <1>2 DEF AcquireStep, Acquire, AcquireFails, AcquireTorn, WorkerExits, LockInv,
              RowInv, lockVars
<1>3. ASSUME NEW r \in Runs, SupervisorStep(r)
      PROVE  \/ row' = row \/ row' = EmptyRow
             \/ \E to \in PCs : WriteRow(r, to) /\ pc[r] \in Replacing
  <2>1. CASE PublishWorker(r)
    BY <2>1 DEF PublishWorker, WriteRaises, lockVars, Replacing, PCs, SupervisorPCs
  <2>2. CASE SettleWrite(r)
    BY <2>2 DEF SettleWrite, UpdateWrite, WriteRaises, lockVars, Replacing, PCs,
                SupervisorPCs
  <2>3. CASE GiveBackRemove(r) \/ Release(r)
    BY <2>3 DEF GiveBackRemove, Release, ReleaseRemove
  <2>4. CASE \/ RecordWitness(r) \/ WitnessFails(r) \/ GiveBackRead(r)
             \/ LaunchWorker(r) \/ EnterRuntimeStages(r)
             \/ (\E o \in Outcomes : RecordResult(r, o)) \/ RunBodyRaises(r)
             \/ RetainLock(r) \/ SettleRead(r) \/ ReleaseStatus(r)
    BY <2>4 DEF RecordWitness, WitnessFails, GiveBackRead, LaunchWorker,
                EnterRuntimeStages, RecordResult, RunBodyRaises, RetainLock,
                SettleRead, ReleaseStatus, UpdateRead, ReleaseRead, lockVars
  <2>5. QED BY <1>3, <2>1, <2>2, <2>3, <2>4 DEF SupervisorStep
<1>4. ASSUME NEW h \in Helpers, HelperStart(h) \/ HelperStep(h)
      PROVE  row' = row \/ \E to \in PCs : WriteRow(h, to) /\ pc[h] \in Replacing
  BY <1>4 DEF HelperStart, HelperStep, RefreshSnapshot, WidenSnapshot, RefreshRead,
              WidenRead, RefreshWrite, WidenWrite, UpdateRead, UpdateWrite,
              WriteRaises, lockVars, Replacing, PCs, HelperPCs
<1>5. ASSUME NEW c \in Cleaners, CleanerStart(c) \/ CleanerStep(c)
      PROVE  \/ row' = row \/ row' = EmptyRow
             \/ \E to \in PCs : WriteRow(c, to) /\ pc[c] \in Replacing
  BY <1>5
    DEF CleanerStart, CleanerStep, CollectPending, CollectRecords, CollectLock,
        StaleStatus, RefuseLatched, FencedRecovery, RepublishRead, RepublishWrite,
        StaleReleaseStatus, StaleRelease, UpdateRead, UpdateWrite, WriteRaises,
        ReleaseRead, ReleaseRemove, lockVars, Replacing, PCs, CleanerPCs
<1>6. CASE Death
  BY <1>6 DEF Death, SupervisorDies, CommandDies, DiesInRemove, lockVars
<1>7. QED BY <1>1, <1>2, <1>3, <1>4, <1>5, <1>6 DEF Next

\* A terminal outcome is final for its generation.
LEMMA OutcomeFinal ==
    ASSUME LockInv, PublishInv, [Next]_vars,
           row.token # 0, row'.token = row.token, Terminal(row)
    PROVE  row'.outcome = row.outcome
<1>1. EmptyRow.token = 0 BY DEF EmptyRow
<1>2. ASSUME NEW a \in Actors, NEW to \in PCs, WriteRow(a, to), pc[a] \in Replacing
      PROVE  row'.outcome = row.outcome
  <2>1. TokenMatches(handle[a], row) /\ row' = Preserve(md[a], row)
    BY <1>2 DEF WriteRow
  <2>2. handle[a].token # 0 BY <2>1 DEF TokenMatches
  <2>3. md[a].run = row.run BY <1>2, <2>1, <2>2, SettledMatches
  <2>4. Honest(md[a]) /\ Honest(row) BY DEF PublishInv, OutcomeInv
  <2>5. QED
    BY <2>1, <2>3, <2>4 DEF Honest, Terminal, Preserve, PreservedOutcome
<1>3. QED BY <1>1, <1>2, RowChanges

\* What was published on the row is not lost while the row lives, whoever
\* writes from an older snapshot (heartbeat, claim, widening), settles, removes
\* or dies in between: an authorized widening stays on the row
\* (preserve_runtime_lock_fields), a terminal outcome is final
\* (preserve_settled_lock_outcome), and a row is removed with the outcome known
\* of its run (release_settled, _republish_settled_outcome).
THEOREM PublicationKept == ~TornTokenWrites /\ Spec => PublishedIsKept
<1>1. PublishInv => \A r \in Runs : row.run = r /\ authorized[r] > 0 => row.scope > 0
  BY DEF PublishInv, ScopeInv, Carried, WidenedRows
<1>2. LockInv /\ PublishInv => ReleasedRowCarriesOutcome
  <2>1. SUFFICES ASSUME LockInv, PublishInv PROVE ReleasedRowCarriesOutcome
    OBVIOUS
  <2>2. ASSUME NEW r \in Runs, pc[r] = "rel", result[r] \in TERMINAL_LOCK_OUTCOMES,
               row.run = r
        PROVE  row.outcome = result[r]
    <3>1. KnownBy(r, r) BY <2>2 DEF KnownBy
    <3>2. Terminal(row)
      BY <2>1, <2>2, <3>1, PCMembers DEF PublishInv, KnownInv, Carried, SettledRows
    <3>3. QED BY <2>1, <2>2, <3>2 DEF PublishInv, Honest
  <2>3. ASSUME NEW c \in Cleaners, pc[c] = "rel",
               view[c].pending \in TERMINAL_LOCK_OUTCOMES, row.run = handle[c].run
        PROVE  row.outcome = view[c].pending
    <3>1. handle[c].run \in Runs BY <2>1, <2>3 DEF LockInv, TypeOK
    <3>2. result[handle[c].run] = view[c].pending
      BY <2>1, <2>3, PCMembers DEF PublishInv, OutcomeInv, TERMINAL_LOCK_OUTCOMES
    <3>3. KnownBy(c, handle[c].run) BY <2>3, <3>1 DEF KnownBy
    <3>4. Terminal(row)
      BY <2>1, <2>3, <3>1, <3>3, PCMembers
         DEF PublishInv, KnownInv, Carried, SettledRows
    <3>5. QED BY <2>1, <2>3, <3>2, <3>4 DEF PublishInv, Honest
  <2>4. QED BY <2>2, <2>3 DEF ReleasedRowCarriesOutcome
<1>3. (LockInv /\ PublishInv) /\ [Next]_vars
        => [row.token # 0 /\ row'.token = row.token
              /\ row.outcome \in TERMINAL_LOCK_OUTCOMES
            => row'.outcome = row.outcome]_vars
  BY OutcomeFinal DEF Terminal
<1>4. CASE ~TornTokenWrites
  <2>1. Spec => [](LockInv /\ PublishInv) BY <1>4, PublishInvariant
  <2>2. Spec => [][Next]_vars BY PTL DEF Spec
  <2>3. QED BY <1>1, <1>2, <1>3, <2>1, <2>2, PTL DEF PublishedIsKept
<1>5. QED BY <1>4

=============================================================================
