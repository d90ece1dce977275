------------------------ MODULE TaskSettlementProofs ------------------------
(***************************************************************************)
(* Proofs about TaskSettlement: type correctness, that a launched run       *)
(* keeps its lock until its result is durable, that a completed result      *)
(* follows an integration and a confirmed completion, that a released task  *)
(* is settled, and that cleanup strands none, for any number of runs,       *)
(* continuations and cleaners.                                              *)
(***************************************************************************)
EXTENDS TaskSettlement, TLAPS

\* What the invariant says of one run.
RunFacts(r) ==
    /\ OwnerInv(r)
    /\ RecordInv(r)
    /\ CloseInv(r)
    /\ "completed" \in journal[r] => {"integration", "provenance"} \subseteq journal[r]
    /\ pc[r] \in {"released", "post_settling"} /\ "integration" \in journal[r]
         => Durable(r) /\ Closed(r)

\* The state of one run and its claim on the lock stay as they are.
Untouched(q) ==
    /\ pc'[q] = pc[q]
    /\ alive'[q] = alive[q]
    /\ journal'[q] = journal[q]
    /\ class'[q] = class[q]
    /\ attempts'[q] = attempts[q]
    /\ worker'[q] = worker[q]
    /\ q \in misjudged' <=> q \in misjudged
    /\ holder = q => holder' = q

\* A run's facts survive whatever leaves the run alone.
LEMMA UntouchedKeepsFacts ==
    ASSUME NEW q \in Runs, RunFacts(q), Untouched(q)
    PROVE  RunFacts(q)'
BY DEF RunFacts, Untouched, OwnerInv, RecordInv, CloseInv, Durable, Closed

\* The invariant is the facts of every run, and no more.
LEMMA InvariantByRuns ==
    SettlementInv <=> /\ TypeOK
                      /\ \A r \in Runs : RunFacts(r)
                      /\ \A c \in Cleaners : CleanerInv(c)
<1>1. ASSUME SettlementInv PROVE \A r \in Runs : RunFacts(r)
  BY <1>1 DEF SettlementInv, RunFacts, CompletedIsCommitted, ReleasedIsSettled,
              Closed
<1>2. ASSUME \A r \in Runs : RunFacts(r)
      PROVE  LaunchedKeepsLock /\ CompletedIsCommitted /\ ReleasedIsSettled
  BY <1>2 DEF RunFacts, OwnerInv, Owning, LaunchedKeepsLock, CompletedIsCommitted,
              ReleasedIsSettled, Closed
<1>3. QED BY <1>1, <1>2 DEF SettlementInv, RunFacts

-----------------------------------------------------------------------------
(* Types *)

LEMMA AppendType ==
    ASSUME TypeOK, NEW r \in Runs, NEW rec \in Records, Append(r, rec)
    PROVE  /\ journal' \in [Runs -> SUBSET Records]
           /\ latched' \in [Runs -> BOOLEAN]
<1>1. journal' \in [Runs -> SUBSET Records] BY DEF TypeOK, Append
<1>2. latched' \in [Runs -> BOOLEAN] BY Zenon DEF TypeOK, Append
<1>3. QED BY <1>1, <1>2

LEMMA DurableClassType == \A r \in Runs : DurableClass(r) \in Classes
<1>1. ASSUME NEW r \in Runs PROVE DurableClass(r) \in Classes
  <2>1. CASE Durable(r)
    <3>1. \E k \in Classes : k \in journal[r] BY <2>1 DEF Durable
    <3>2. (CHOOSE k \in Classes : k \in journal[r]) \in Classes BY <3>1
    <3>3. QED BY <2>1, <3>2 DEF DurableClass
  <2>2. CASE ~Durable(r) BY <2>2 DEF DurableClass, Classes
  <2>3. QED BY <2>1, <2>2
<1>2. QED BY <1>1

LEMMA RunStepType ==
    ASSUME SettlementAssumption, TypeOK, NEW r \in Runs, RecordInv(r), RunStep(r)
    PROVE  TypeOK'
<1>1. CASE Select(r) \/ Acquire(r) \/ PreLaunchFails(r) \/ Launch(r)
           \/ WorkerExits(r) \/ ReleaseAborted(r) \/ ReleaseSettled(r)
  BY <1>1 DEF TypeOK, RunPCs, Select, Acquire, PreLaunchFails, Launch, WorkerExits,
       ReleaseAborted, ReleaseSettled, Goto, recordVars, cleanerVars
<1>2. CASE BeginActivation(r) \/ RecordAborted(r) \/ CommitProvenance(r)
           \/ RecordSettled(r) \/ RecordReleased(r) \/ RecordPost(r) \/ RunRaises(r)
  <2>1. PICK rec \in Records : Append(r, rec)
    BY <1>2 DEF Records, BeginActivation, RecordAborted, CommitProvenance,
         RecordSettled, RecordReleased, RecordPost, RunRaises
  <2>2. QED
    BY <1>2, <2>1, AppendType DEF TypeOK, RunPCs, BeginActivation, RecordAborted,
       CommitProvenance, RecordSettled, RecordReleased, RecordPost, RunRaises, Goto,
       cleanerVars
<1>3. CASE Integrate(r) \/ EnterRuntimeStages(r)
  BY <1>3, AppendType
    DEF TypeOK, Records, Integrate, EnterRuntimeStages, runVars, cleanerVars
<1>4. CASE RecordResult(r)
  BY <1>4, AppendType DEF TypeOK, Records, Classes, RunPCs, RecordResult, Goto,
     cleanerVars
<1>5. CASE RecordAttempt(r)
  <2>1. "attempted" \in Records BY DEF Records
  <2>2. attempts' \in [Runs -> 0..MaxAttempts]
    <3>1. attempts[r] \in Nat /\ attempts[r] < MaxAttempts /\ MaxAttempts \in Nat
      BY <1>5 DEF TypeOK, RecordAttempt, RecordInv, AtWork, At, SettlementAssumption
    <3>2. attempts[r] + 1 \in 0..MaxAttempts BY <3>1
    <3>3. QED BY <1>5, <3>2 DEF TypeOK, RecordAttempt
  <2>3. QED
    BY <1>5, <2>1, <2>2, AppendType, ZenonT(40)
      DEF TypeOK, RunPCs, RecordAttempt, Goto, cleanerVars
<1>6. CASE Activate(r)
  BY <1>6 DEF TypeOK, RunPCs, Statuses, Activate, ActivateTask, Adapter, Goto,
     recordVars, cleanerVars
<1>7. CASE \E k \in Classes : Classify(r, k)
  BY <1>7 DEF TypeOK, RunPCs, Classify, Goto, recordVars, cleanerVars
<1>8. CASE CompleteSource(r)
  BY <1>8 DEF TypeOK, RunPCs, Statuses, Classes, CompleteSource, Adapter,
     ClassAfterCompletion, Goto, recordVars, cleanerVars
<1>9. CASE SettleSource(r) \/ SettleAfterRelease(r)
  BY <1>9 DEF TypeOK, RunPCs, Statuses, SettleSource, SettleAfterRelease, Adapter,
     Settled, Goto, recordVars, cleanerVars
<1>10. QED BY <1>1, <1>2, <1>3, <1>4, <1>5, <1>6, <1>7, <1>8, <1>9 DEF RunStep

LEMMA OtherStepType ==
    ASSUME TypeOK, \A c \in Cleaners : CleanerInv(c),
           \/ \E r \in Runs : SupervisorGoes(r)
           \/ \E c \in Cleaners : CleanerStep(c) \/ CleanerDies(c)
    PROVE  TypeOK'
<1>1. CASE \E r \in Runs : SupervisorGoes(r)
  BY <1>1 DEF TypeOK, SupervisorGoes, recordVars, cleanerVars
<1>2. ASSUME NEW c \in Cleaners, CleanerStep(c) \/ CleanerDies(c) PROVE TypeOK'
  <2>1. \A label \in CleanerPCs : To(c, label) =>
           /\ step' \in [Cleaners -> CleanerPCs]
           /\ view' \in [Cleaners -> [run : Runs \cup {NoOne}, latched : BOOLEAN,
                                      class : Classes]]
    BY DEF TypeOK, To, NothingSeen, Classes
  <2>2. GiveUp \in CleanerPCs BY DEF GiveUp, CleanerPCs
  <2>3. CASE Collect(c)
    <3>1. holder \in Runs BY <2>3 DEF TypeOK, Collect
    <3>2. latched[holder] \in BOOLEAN /\ DurableClass(holder) \in Classes
      BY <3>1, DurableClassType DEF TypeOK
    <3>3. QED BY <2>3, <3>1, <3>2 DEF TypeOK, Collect, CleanerPCs, runVars, recordVars
  <2>4. CASE Inspect(c) \/ Claim(c) \/ CleanerDies(c)
    <3>1. PICK label \in CleanerPCs : To(c, label)
      BY <2>2, <2>4 DEF Inspect, Claim, CleanerDies, CleanerPCs
    <3>2. QED
      BY <2>1, <2>4, <3>1 DEF TypeOK, Inspect, Claim, CleanerDies, runVars, recordVars
  <2>5. CASE SettleStale(c) \/ ReleaseStale(c) \/ ResetReleased(c)
    <3>1. PICK label \in CleanerPCs : To(c, label)
      BY <2>5 DEF SettleStale, ReleaseStale, ResetReleased, CleanerPCs
    <3>2. status' \in Statuses /\ holder' \in Runs \cup {NoOne}
      BY <2>5 DEF TypeOK, SettleStale, ReleaseStale, ResetReleased, Adapter, Settled,
           Statuses
    <3>3. QED
      BY <2>1, <2>5, <3>1, <3>2 DEF TypeOK, SettleStale, ReleaseStale, ResetReleased,
         runVars, recordVars
  <2>6. CASE RecordStale(c) \/ Close(c)
    <3>1. PICK label \in CleanerPCs : To(c, label)
      BY <2>2, <2>6 DEF RecordStale, Close, CleanerPCs
    <3>2. journal' \in [Runs -> SUBSET Records] /\ latched' \in [Runs -> BOOLEAN]
      <4>1. view[c].run \in Runs
        BY <2>6 DEF RecordStale, Close, CleanerInv
      <4>2. UNCHANGED recordVars \/ \E rec \in Records : Append(view[c].run, rec)
        BY <2>6 DEF RecordStale, Close, Records
      <4>3. QED BY <4>1, <4>2, AppendType DEF TypeOK, recordVars
    <3>3. QED
      BY <2>1, <2>6, <3>1, <3>2 DEF TypeOK, RecordStale, Close, runVars
  <2>7. QED BY <1>2, <2>3, <2>4, <2>5, <2>6 DEF CleanerStep
<1>3. QED BY <1>1, <1>2

-----------------------------------------------------------------------------
(* Steps of a run and the facts of the runs *)

\* A step of one run leaves every other run and its lock alone.
LEMMA RunStepLocal ==
    ASSUME TypeOK, NEW r \in Runs, NEW q \in Runs \ {r},
           RunStep(r) \/ SupervisorGoes(r)
    PROVE  Untouched(q)
<1>1. UNCHANGED journal \/ \E rec \in Records : Append(r, rec)
  BY DEF RunStep, SupervisorGoes, Select, Acquire, BeginActivation, PreLaunchFails,
         Activate, ReleaseAborted, RecordAborted, Launch, WorkerExits,
         EnterRuntimeStages, Integrate, Classify, RunRaises, CompleteSource,
         CommitProvenance, SettleSource, RecordSettled, RecordAttempt, RecordResult,
         ReleaseSettled, RecordReleased, SettleAfterRelease, RecordPost, recordVars,
         Records, Classes, TypeOK
<1>2. journal'[q] = journal[q] BY <1>1 DEF Append, TypeOK
<1>3. /\ pc'[q] = pc[q] /\ alive'[q] = alive[q]
      /\ class'[q] = class[q] /\ attempts'[q] = attempts[q]
      /\ worker'[q] = worker[q] /\ misjudged' = misjudged
  BY DEF RunStep, SupervisorGoes, Select, Acquire, BeginActivation, PreLaunchFails,
         Activate, ReleaseAborted, RecordAborted, Launch, WorkerExits,
         EnterRuntimeStages, Integrate, Classify, RunRaises, CompleteSource,
         CommitProvenance, SettleSource, RecordSettled, RecordAttempt, RecordResult,
         ReleaseSettled, RecordReleased, SettleAfterRelease, RecordPost, Goto,
         runVars, cleanerVars, TypeOK
<1>4. holder = q => holder' = q
  BY SettlementAssumption
    DEF RunStep, SupervisorGoes, Select, Acquire, BeginActivation, PreLaunchFails,
        Activate, ReleaseAborted, RecordAborted, Launch, WorkerExits,
        EnterRuntimeStages, Integrate, Classify, RunRaises, CompleteSource,
        CommitProvenance, SettleSource, RecordSettled, RecordAttempt, RecordResult,
        ReleaseSettled, RecordReleased, SettleAfterRelease, RecordPost,
        SettlementAssumption
<1>5. QED BY <1>2, <1>3, <1>4 DEF Untouched

\* The facts of the run that takes the step, before its launch ...
LEMMA PreLaunchKeepsFacts ==
    ASSUME SettlementAssumption, TypeOK, NEW r \in Runs, RunFacts(r),
           \/ Select(r) \/ Acquire(r) \/ BeginActivation(r) \/ PreLaunchFails(r)
           \/ Activate(r) \/ ReleaseAborted(r) \/ RecordAborted(r) \/ Launch(r)
           \/ WorkerExits(r)
    PROVE  RunFacts(r)'
<1> USE DEF RunFacts, OwnerInv, RecordInv, CloseInv, Durable, Closed, BeforeLaunch,
            AtWork, Owning, At, Goto, TypeOK, cleanerVars
<1>1. CASE Select(r) BY <1>1 DEF Select, recordVars
<1>2. CASE Acquire(r) BY <1>2 DEF Acquire, recordVars
<1>3. CASE BeginActivation(r) BY <1>3 DEF BeginActivation, Append, Classes
<1>4. CASE PreLaunchFails(r) BY <1>4 DEF PreLaunchFails, recordVars
<1>5. CASE Activate(r) BY <1>5 DEF Activate, recordVars
<1>6. CASE ReleaseAborted(r) BY <1>6 DEF ReleaseAborted, recordVars
<1>7. CASE RecordAborted(r) 
  <2>1. journal'[r] = journal[r] \cup {"released"}
    BY <1>7 DEF RecordAborted, Append
  <2>2. pc'[r] \in {"post_settling", "ended"} BY <1>7 DEF RecordAborted
  <2>3. UNCHANGED <<holder, alive, worker, class, attempts, misjudged>>
    BY <1>7 DEF RecordAborted
  <2>4. pc[r] = "aborted" BY <1>7 DEF RecordAborted
  <2>5. QED BY <2>1, <2>2, <2>3, <2>4 DEF Classes
<1>8. CASE Launch(r) BY <1>8 DEF Launch, recordVars
<1>9. CASE WorkerExits(r) BY <1>9 DEF WorkerExits, recordVars
<1>10. QED BY <1>1, <1>2, <1>3, <1>4, <1>5, <1>6, <1>7, <1>8, <1>9

\* ... and after it.
LEMMA LaunchedKeepsFacts ==
    ASSUME SettlementAssumption, TypeOK, NEW r \in Runs, RunFacts(r),
           \/ EnterRuntimeStages(r) \/ Integrate(r)
           \/ (\E k \in Classes : Classify(r, k)) \/ RunRaises(r)
           \/ CompleteSource(r) \/ CommitProvenance(r) \/ SettleSource(r)
           \/ RecordSettled(r) \/ RecordAttempt(r) \/ RecordResult(r)
           \/ ReleaseSettled(r) \/ RecordReleased(r) \/ SettleAfterRelease(r)
           \/ RecordPost(r) \/ SupervisorGoes(r)
    PROVE  RunFacts(r)'
<1> USE DEF RunFacts, OwnerInv, RecordInv, CloseInv, Durable, Closed, BeforeLaunch,
            AtWork, Owning, At, Goto, TypeOK, cleanerVars
<1>1. CASE Integrate(r) BY <1>1 DEF Integrate, Append, Classes, runVars
<1>2. CASE \E k \in Classes : Classify(r, k) BY <1>2 DEF Classify, recordVars
<1>3. CASE RunRaises(r) \/ EnterRuntimeStages(r)
  BY <1>3 DEF RunRaises, EnterRuntimeStages, Append, Classes, runVars
<1>4. CASE CompleteSource(r)
  BY <1>4 DEF CompleteSource, ClassAfterCompletion, recordVars
<1>5. CASE CommitProvenance(r) BY <1>5 DEF CommitProvenance, Append, Classes
<1>6. CASE SettleSource(r) BY <1>6 DEF SettleSource, recordVars
<1>7. CASE RecordSettled(r) BY <1>7 DEF RecordSettled, Append, Classes
<1>8. CASE RecordAttempt(r)
  <2>1. /\ attempts[r] \in Nat /\ MaxAttempts \in Nat
        /\ attempts[r] < MaxAttempts
    BY <1>8 DEF RecordAttempt, SettlementAssumption
  <2>2. attempts'[r] = attempts[r] + 1 BY <1>8 DEF RecordAttempt
  <2>3. \/ attempts'[r] < MaxAttempts /\ pc'[r] = "settling"
        \/ attempts'[r] = MaxAttempts /\ pc'[r] = "recording"
    <3>1. AttemptsLeft(r) <=> attempts'[r] < MaxAttempts
      BY <2>2 DEF AttemptsLeft
    <3>2. attempts'[r] < MaxAttempts \/ attempts'[r] = MaxAttempts
      BY <2>1, <2>2
    <3>3. pc'[r] = IF AttemptsLeft(r) THEN "settling" ELSE "recording"
      BY <1>8 DEF RecordAttempt
    <3>4. QED BY <3>1, <3>2, <3>3
  <2>4. journal'[r] = journal[r] \cup {"attempted"}
    BY <1>8 DEF RecordAttempt, Append
  <2>5. UNCHANGED <<holder, alive, worker, class, misjudged>>
    BY <1>8 DEF RecordAttempt
  <2>6. pc[r] = "unsettled" BY <1>8 DEF RecordAttempt
  <2>7. QED BY <2>1, <2>3, <2>4, <2>5, <2>6 DEF Classes
<1>9. CASE RecordResult(r) BY <1>9 DEF RecordResult, Append, Classes
<1>10. CASE ReleaseSettled(r) BY <1>10 DEF ReleaseSettled, MayRelease, recordVars
<1>11. CASE RecordReleased(r) BY <1>11 DEF RecordReleased, Append, Classes
<1>12. CASE SettleAfterRelease(r) BY <1>12 DEF SettleAfterRelease, recordVars
<1>13. CASE RecordPost(r) BY <1>13 DEF RecordPost, Append, Classes
<1>14. CASE SupervisorGoes(r) BY <1>14 DEF SupervisorGoes, recordVars
<1>15. QED
  BY <1>1, <1>2, <1>3, <1>4, <1>5, <1>6, <1>7, <1>8, <1>9, <1>10, <1>11, <1>12,
     <1>13, <1>14

-----------------------------------------------------------------------------
(* Steps of a cleaner and the facts of the runs *)

\* A cleaner writes no result and takes the lock of no run but one that is
\* over, which owns nothing any more, or that it has misjudged.
LEMMA CleanerKeepsFacts ==
    ASSUME SettlementAssumption, TypeOK, NEW c \in Cleaners, CleanerInv(c),
           NEW q \in Runs, RunFacts(q), CleanerStep(c) \/ CleanerDies(c)
    PROVE  RunFacts(q)'
<1>1. /\ pc'[q] = pc[q] /\ alive'[q] = alive[q]
      /\ class'[q] = class[q] /\ attempts'[q] = attempts[q]
      /\ worker'[q] = worker[q]
      /\ q \in misjudged => q \in misjudged'
      /\ q \in misjudged' => q \in misjudged \/ worker[q] # "none"
  BY DEF CleanerStep, CleanerDies, Collect, Inspect, Claim, SettleStale, RecordStale,
     Close, ReleaseStale, ResetReleased, To, MissingWorkerVerdict, SupervisorDecides,
     runVars
<1>2. \/ UNCHANGED journal
      \/ \E rec \in {"settled", "attempted", "released"} :
            view[c].run \in Runs /\ Append(view[c].run, rec)
  BY DEF CleanerStep, CleanerDies, Collect, Inspect, Claim, SettleStale, RecordStale,
     Close, ReleaseStale, ResetReleased, recordVars, CleanerInv
<1>3. /\ journal[q] \subseteq journal'[q]
      /\ \A rec \in journal'[q] :
            rec \in journal[q] \cup {"settled", "attempted", "released"}
  BY <1>2 DEF Append, TypeOK
<1>4. holder' = holder \/ (view[c].run = holder /\ Judged(view[c].run))
  BY DEF CleanerStep, CleanerDies, Collect, Inspect, Claim, SettleStale, RecordStale,
     Close, ReleaseStale, ResetReleased, CleanerInv
<1>5. OwnerInv(q)'
  BY <1>1, <1>3, <1>4
     DEF RunFacts, OwnerInv, Judged, Over, Durable, Classes, Owning, BeforeLaunch, AtWork
<1>6. RecordInv(q)' BY <1>1, <1>3 DEF RunFacts, RecordInv
<1>7. Closed(q) => Closed(q)' BY <1>1, <1>3 DEF Closed
<1>8. Durable(q)' <=> Durable(q) BY <1>3 DEF Durable, Classes
<1>9. QED BY <1>1, <1>3, <1>5, <1>6, <1>7, <1>8 DEF RunFacts, CloseInv, Classes

\* What a cleaner has found out about a run stays true.
LEMMA JudgedIsStable ==
    ASSUME TypeOK, NEW q \in Runs, Judged(q),
           \/ \E r \in Runs : RunStep(r) \/ SupervisorGoes(r)
           \/ \E c \in Cleaners : CleanerInv(c) /\ (CleanerStep(c) \/ CleanerDies(c))
    PROVE  Judged(q)'
<1>1. CASE \E r \in Runs : RunStep(r) \/ SupervisorGoes(r)
  <2>1. PICK r \in Runs : RunStep(r) \/ SupervisorGoes(r) BY <1>1
  <2>2. UNCHANGED journal \/ \E rec \in Records : Append(r, rec)
    BY <2>1
      DEF RunStep, SupervisorGoes, Select, Acquire, BeginActivation, PreLaunchFails,
          Activate, ReleaseAborted, RecordAborted, Launch, WorkerExits,
          EnterRuntimeStages, Integrate, Classify, RunRaises, CompleteSource,
          CommitProvenance, SettleSource, RecordSettled, RecordAttempt, RecordResult,
          ReleaseSettled, RecordReleased, SettleAfterRelease, RecordPost, recordVars,
          Records, Classes, TypeOK
  <2>3. misjudged' = misjudged /\ (~alive[q] => ~alive'[q])
    BY <2>1
      DEF RunStep, SupervisorGoes, Select, Acquire, BeginActivation, PreLaunchFails,
          Activate, ReleaseAborted, RecordAborted, Launch, WorkerExits,
          EnterRuntimeStages, Integrate, Classify, RunRaises, CompleteSource,
          CommitProvenance, SettleSource, RecordSettled, RecordAttempt, RecordResult,
          ReleaseSettled, RecordReleased, SettleAfterRelease, RecordPost, runVars,
          cleanerVars, TypeOK
  <2>4. QED BY <2>2, <2>3 DEF Judged, Over, Durable, Append, TypeOK
<1>2. CASE \E c \in Cleaners : CleanerInv(c) /\ (CleanerStep(c) \/ CleanerDies(c))
  <2>1. PICK c \in Cleaners : CleanerInv(c) /\ (CleanerStep(c) \/ CleanerDies(c))
    BY <1>2
  <2>2. alive' = alive /\ misjudged \subseteq misjudged'
    BY <2>1 DEF CleanerStep, CleanerDies, Collect, Inspect, Claim, SettleStale,
       RecordStale, Close, ReleaseStale, ResetReleased, runVars
  <2>3. \/ UNCHANGED journal
        \/ \E rec : view[c].run \in Runs /\ Append(view[c].run, rec)
    BY <2>1 DEF CleanerStep, CleanerDies, Collect, Inspect, Claim, SettleStale,
       RecordStale, Close, ReleaseStale, ResetReleased, recordVars, CleanerInv
  <2>4. QED BY <2>2, <2>3 DEF Judged, Over, Durable, Append, TypeOK
<1>3. QED BY <1>1, <1>2

-----------------------------------------------------------------------------
(* The invariant and what follows from it *)

LEMMA InitInvariant ==
    ASSUME SettlementAssumption, Init PROVE SettlementInv
<1>1. TypeOK
  BY DEF Init, TypeOK, Statuses, RunPCs, Records, Classes, CleanerPCs, NothingSeen,
     SettlementAssumption
<1>2. \A r \in Runs : RunFacts(r)
  <2>1. 0 < MaxAttempts BY DEF SettlementAssumption
  <2>2. QED
    BY <2>1 DEF Init, RunFacts, OwnerInv, RecordInv, CloseInv, Durable, Owning, AtWork
<1>3. \A c \in Cleaners : CleanerInv(c) BY DEF Init, CleanerInv
<1>4. QED BY <1>1, <1>2, <1>3, InvariantByRuns

LEMMA StepInvariant ==
    ASSUME SettlementAssumption, SettlementInv, [Next]_vars PROVE SettlementInv'
<1>1. TypeOK /\ (\A r \in Runs : RunFacts(r)) /\ (\A c \in Cleaners : CleanerInv(c))
  BY InvariantByRuns
<1>2. CASE UNCHANGED vars
  BY <1>2 DEF vars, runVars, recordVars, cleanerVars, SettlementInv, TypeOK, OwnerInv,
     RecordInv, CloseInv, CleanerInv, Closed, Durable, Judged, Over, LaunchedKeepsLock,
     CompletedIsCommitted, ReleasedIsSettled
<1>3. CASE Next
  <2>1. TypeOK'
    BY <1>1, <1>3, RunStepType, OtherStepType DEF Next, RunFacts
  <2>2. ASSUME NEW q \in Runs PROVE RunFacts(q)'
    <3>1. CASE \E r \in Runs : RunStep(r) \/ SupervisorGoes(r)
      <4>1. PICK r \in Runs : RunStep(r) \/ SupervisorGoes(r) BY <3>1
      <4>2. CASE q = r
        BY <1>1, <4>1, <4>2, PreLaunchKeepsFacts, LaunchedKeepsFacts DEF RunStep
      <4>3. CASE q # r
        BY <1>1, <4>1, <4>3, RunStepLocal, UntouchedKeepsFacts
      <4>4. QED BY <4>2, <4>3
    <3>2. CASE \E c \in Cleaners : CleanerStep(c) \/ CleanerDies(c)
      BY <1>1, <3>2, CleanerKeepsFacts
    <3>3. QED BY <1>3, <3>1, <3>2 DEF Next
  <2>3. ASSUME NEW c \in Cleaners PROVE CleanerInv(c)'
    <3>1. \A q \in Runs : Judged(q) => Judged(q)'
      BY <1>1, <1>3, JudgedIsStable DEF Next
    <3>2. step'[c] # "idle" =>
             \/ step[c] # "idle" /\ view'[c] = view[c]
             \/ CleanerInv(c)'
      <4>1. CASE \E r \in Runs : RunStep(r) \/ SupervisorGoes(r)
        BY <4>1
          DEF RunStep, SupervisorGoes, Select, Acquire, BeginActivation,
              PreLaunchFails, Activate, ReleaseAborted, RecordAborted, Launch,
              WorkerExits, EnterRuntimeStages, Integrate, Classify, RunRaises,
              CompleteSource, CommitProvenance, SettleSource, RecordSettled,
              RecordAttempt, RecordResult, ReleaseSettled, RecordReleased,
              SettleAfterRelease, RecordPost, cleanerVars
      <4>2. ASSUME NEW d \in Cleaners, CleanerStep(d) \/ CleanerDies(d), d # c
            PROVE  step'[c] = step[c] /\ view'[c] = view[c]
        BY <4>2 DEF CleanerStep, CleanerDies, Collect, Inspect, Claim, SettleStale,
           RecordStale, Close, ReleaseStale, ResetReleased, To, SettlementInv, TypeOK
      <4>3. CASE Collect(c)
        <5>1. PICK v \in Runs : v = holder /\ view'[c].run = v
          BY <4>3 DEF Collect, SettlementInv, TypeOK
        <5>2. UNCHANGED <<alive, journal>> BY <4>3 DEF Collect, runVars, recordVars
        <5>3. Over(v) \/ MissingWorkerVerdict(v)
          BY <4>3, <5>1 DEF Collect, Finished, Over, MissingWorkerVerdict
        <5>4. MissingWorkerVerdict(v) => v \in misjudged'
          <6>1. misjudged' = misjudged \cup {r \in {v} : MissingWorkerVerdict(r)}
            BY <4>3, <5>1, Zenon DEF Collect
          <6>2. QED BY <6>1, Zenon
        <5>5. Judged(v)' BY <5>2, <5>3, <5>4 DEF Judged, Over, Durable
        <5>6. QED BY <5>1, <5>5, Zenon DEF CleanerInv
      <4>4. ASSUME CleanerStep(c) \/ CleanerDies(c), ~Collect(c)
            PROVE  step[c] # "idle" /\ (step'[c] # "idle" => view'[c] = view[c])
        BY <4>4 DEF CleanerStep, CleanerDies, Inspect, Claim, SettleStale,
           RecordStale, Close, ReleaseStale, ResetReleased, To, SettlementInv, TypeOK
      <4>5. QED BY <1>3, <4>1, <4>2, <4>3, <4>4 DEF Next
    <3>3. QED BY <1>1, <3>1, <3>2 DEF CleanerInv
  <2>4. (LaunchedKeepsLock /\ CompletedIsCommitted /\ ReleasedIsSettled)'
    BY <2>2 DEF RunFacts, OwnerInv, Owning, LaunchedKeepsLock, CompletedIsCommitted,
                ReleasedIsSettled, Closed
  <2>5. QED BY <2>1, <2>2, <2>3, <2>4 DEF SettlementInv, RunFacts
<1>4. QED BY <1>2, <1>3

LEMMA Invariant == Spec => []SettlementInv
<1>1. Init => SettlementInv BY SettlementAssumption, InitInvariant
<1>2. SettlementInv /\ [Next]_vars => SettlementInv'
  BY SettlementAssumption, StepInvariant
<1>3. QED BY <1>1, <1>2, PTL DEF Spec

\* Every reachable state is type correct.
THEOREM TypeCorrect == Spec => []TypeOK
<1>1. SettlementInv => TypeOK BY DEF SettlementInv
<1>2. QED BY <1>1, Invariant, PTL

\* A launched run that recovery did not misjudge keeps the lock until its result
\* is durable: neither a cleaner nor another run takes it (clean_stale_locks,
\* run_proven_finished).
THEOREM LockKept == Spec => []LaunchedKeepsLock
<1>1. SettlementInv => LaunchedKeepsLock BY DEF SettlementInv
<1>2. QED BY <1>1, Invariant, PTL

\* A completed result follows an integration and the confirmed completion of
\* the task (TaskSourceCompleter.complete and run_task).
THEOREM CompletedCommitted == Spec => []CompletedIsCommitted
<1>1. SettlementInv => CompletedIsCommitted BY DEF SettlementInv
<1>2. QED BY <1>1, Invariant, PTL

\* A supervisor releases with a durable result and a task settled, completed
\* or refused by every attempt (settle_outcome_and_release).
THEOREM ReleasedSettled == Spec => []ReleasedIsSettled
<1>1. SettlementInv => ReleasedIsSettled BY DEF SettlementInv
<1>2. QED BY <1>1, Invariant, PTL
-----------------------------------------------------------------------------
(* What cleanup knows when it lets go of a lock *)

\* Control points at which a run does not hold the lock: it has not acquired it
\* yet, or has given it back, and a run acquires it once.
WithoutLock == {"idle", "selected", "aborted", "released", "post_settling",
                "post_settled", "post_unsettled", "ended"}

\* The settlement or the completion of the task is on record.
OnRecord(r) == journal[r] \cap {"settled", "provenance"} # {}

\* A run loses the lock for good, and owes nothing before it may have
\* activated the task; what is on record or confirmed while it holds the lock
\* is true of the task, and so is the absence of a latch.
DebtInv(r) ==
    /\ pc[r] \in WithoutLock \/ "released" \in journal[r] => holder # r
    /\ pc[r] \in {"idle", "selected", "locked"}
         => ~activated[r] /\ "released" \notin journal[r]
    /\ alive[r] /\ pc[r] \in BeforeLaunch => ~OnRecord(r)
    /\ alive[r] /\ pc[r] = "staged" => latched[r]
    /\ holder = r /\ (OnRecord(r) \/ pc[r] \in {"confirmed", "settled"}
                        \/ (activated[r] /\ ~latched[r]))
         => status # "active"

\* What a cleaner has seen or confirmed stays true as long as the lock of the
\* run it examines is where it found it.
KnowledgeInv(c) ==
    /\ step[c] \in {"settled", "closing"} /\ holder = view[c].run => status # "active"
    /\ /\ step[c] = "releasing" \/ (step[c] = "collected" /\ ~view[c].latched)
       /\ holder = view[c].run
       /\ activated[holder]
       => status # "active"
    /\ step[c] = "forcing" => Forced

\* The run to which an active task is owed: it may have activated the task, its
\* settlement is neither on record nor confirmed, and it still holds the lock
\* or has its last settlement before it or behind it, refused.
Owes(r) ==
    /\ activated[r]
    /\ ~OnRecord(r)
    /\ pc[r] \notin {"confirmed", "settled"}
    /\ \A c \in Cleaners : step[c] = "settled" => view[c].run # r
    /\ \/ holder = r
       \/ pc[r] \in {"aborted", "post_settling", "post_unsettled"}
       \/ pc[r] = "released" /\ postponed[r]
       \/ pc[r] = "ended" /\ latched[r]

\* An active task has such a run; a run whose attempts are spent has put its
\* settlement off.
OwedInv ==
    /\ status = "active" => \E r \in Runs : Owes(r)
    /\ \A r \in Runs : attempts[r] = MaxAttempts => postponed[r]
\* What the argument reads of one run, but for the task's status.
Apart(q) ==
    /\ pc'[q] = pc[q]
    /\ alive'[q] = alive[q]
    /\ journal'[q] = journal[q]
    /\ latched'[q] = latched[q]
    /\ activated'[q] = activated[q]
    /\ attempts'[q] = attempts[q]
    /\ postponed'[q] = postponed[q]
    /\ holder' = q <=> holder = q

LEMMA AppendSays ==
    ASSUME TypeOK, NEW r \in Runs, NEW rec \in Records, Append(r, rec)
    PROVE  /\ journal'[r] = journal[r] \cup {rec}
           /\ latched'[r] <=> (rec \in Latches \/ (latched[r] /\ rec \notin Unlatches))
           /\ \A q \in Runs \ {r} : journal'[q] = journal[q] /\ latched'[q] = latched[q]
<1>1. /\ journal'[r] = journal[r] \cup {rec}
      /\ \A q \in Runs \ {r} : journal'[q] = journal[q]
  BY DEF TypeOK, Append
<1>2. latched'[r] = (rec \in Latches \/ (latched[r] /\ rec \notin Unlatches))
  BY Zenon DEF TypeOK, Append
<1>3. \A q \in Runs \ {r} : latched'[q] = latched[q]
  BY Zenon DEF TypeOK, Append
<1>4. QED BY <1>1, <1>2, <1>3

LEMMA RunStepApart ==
    ASSUME SettlementAssumption, TypeOK, NEW r \in Runs, NEW q \in Runs \ {r},
           RunStep(r) \/ SupervisorGoes(r)
    PROVE  Apart(q)
<1>1. UNCHANGED recordVars \/ \E rec \in Records : Append(r, rec)
  BY DEF RunStep, SupervisorGoes, Select, Acquire, BeginActivation, PreLaunchFails,
         Activate, ReleaseAborted, RecordAborted, Launch, WorkerExits,
         EnterRuntimeStages, Integrate, Classify, RunRaises, CompleteSource,
         CommitProvenance, SettleSource, RecordSettled, RecordAttempt, RecordResult,
         ReleaseSettled, RecordReleased, SettleAfterRelease, RecordPost, recordVars,
         Records, Classes, TypeOK
<1>2. journal'[q] = journal[q] /\ latched'[q] = latched[q]
  BY <1>1, AppendSays DEF recordVars
<1>3. /\ pc'[q] = pc[q] /\ alive'[q] = alive[q] /\ activated'[q] = activated[q]
      /\ attempts'[q] = attempts[q] /\ postponed'[q] = postponed[q]
  BY DEF RunStep, SupervisorGoes, Select, Acquire, BeginActivation, PreLaunchFails,
         Activate, ReleaseAborted, RecordAborted, Launch, WorkerExits,
         EnterRuntimeStages, Integrate, Classify, RunRaises, CompleteSource,
         CommitProvenance, SettleSource, RecordSettled, RecordAttempt, RecordResult,
         ReleaseSettled, RecordReleased, SettleAfterRelease, RecordPost, Goto,
         runVars, TypeOK
<1>4. holder' = q <=> holder = q
  BY DEF RunStep, SupervisorGoes, Select, Acquire, BeginActivation, PreLaunchFails,
         Activate, ReleaseAborted, RecordAborted, Launch, WorkerExits,
         EnterRuntimeStages, Integrate, Classify, RunRaises, CompleteSource,
         CommitProvenance, SettleSource, RecordSettled, RecordAttempt, RecordResult,
         ReleaseSettled, RecordReleased, SettleAfterRelease, RecordPost,
         SettlementAssumption
<1>5. QED BY <1>2, <1>3, <1>4 DEF Apart

\* Only the holder of the lock, alive and about to activate it, moves the task
\* to in-progress.
LEMMA OnlyHolderActivates ==
    ASSUME SettlementAssumption, TypeOK, \A r \in Runs : OwnerInv(r), Next,
           status # "active", status' = "active"
    PROVE  \E r \in Runs : Activate(r) /\ At(r, "staged") /\ holder = r
<1>1. PICK r \in Runs : Activate(r)
  <2>1. ASSUME NEW c \in Cleaners, CleanerStep(c) \/ CleanerDies(c) PROVE FALSE
    BY <2>1 DEF CleanerStep, CleanerDies, Collect, Inspect, Claim, SettleStale,
       RecordStale, Close, ReleaseStale, ResetReleased, Adapter, Settled
  <2>2. ASSUME NEW r \in Runs, RunStep(r) \/ SupervisorGoes(r) PROVE Activate(r)
    BY <2>2
      DEF RunStep, SupervisorGoes, Select, Acquire, BeginActivation, PreLaunchFails,
          ReleaseAborted, RecordAborted, Launch, WorkerExits, EnterRuntimeStages,
          Integrate, Classify, RunRaises, CompleteSource, CommitProvenance,
          SettleSource, RecordSettled, RecordAttempt, RecordResult, ReleaseSettled,
          RecordReleased, SettleAfterRelease, RecordPost, Adapter, Settled, runVars
  <2>3. QED BY <2>1, <2>2 DEF Next
<1>2. At(r, "staged") BY <1>1 DEF Activate
<1>3. holder = r BY <1>2 DEF OwnerInv, Owning, BeforeLaunch, At
<1>4. QED BY <1>1, <1>2, <1>3

LEMMA ApartKeepsDebt ==
    ASSUME NEW q \in Runs, DebtInv(q), Apart(q),
           holder = q /\ status' = "active" => status = "active"
    PROVE  DebtInv(q)'
BY DEF DebtInv, Apart, OnRecord

\* The debt of the run that takes the step ...
LEMMA OwnStepKeepsDebt ==
    ASSUME SettlementAssumption, TypeOK, NEW r \in Runs, RunFacts(r), DebtInv(r),
           RunStep(r) \/ SupervisorGoes(r)
    PROVE  DebtInv(r)'
<1> USE DEF DebtInv, WithoutLock, OnRecord, At, Goto, TypeOK
<1>1. CASE Select(r) BY <1>1 DEF Select, recordVars, BeforeLaunch
<1>2. CASE Acquire(r) BY <1>2 DEF Acquire, recordVars, BeforeLaunch
<1>3. CASE BeginActivation(r)
  <2>1. journal'[r] = journal[r] \cup {"activation"} /\ latched'[r]
    BY <1>3, AppendSays DEF BeginActivation, Latches, Records
  <2>2. QED BY <1>3, <2>1 DEF BeginActivation, BeforeLaunch
<1>4. CASE PreLaunchFails(r) BY <1>4 DEF PreLaunchFails, recordVars, BeforeLaunch
<1>5. CASE Activate(r)
  <2>1. alive[r] /\ pc[r] = "staged" /\ latched[r] /\ ~OnRecord(r)
    BY <1>5 DEF Activate, BeforeLaunch
  <2>2. UNCHANGED <<holder, recordVars, alive>> /\ pc'[r] \in {"activated", "aborting"}
    BY <1>5 DEF Activate
  <2>3. QED BY <2>1, <2>2 DEF recordVars
<1>6. CASE ReleaseAborted(r)
  BY <1>6 DEF ReleaseAborted, recordVars, BeforeLaunch, SettlementAssumption
<1>7. CASE RecordAborted(r)
  <2>1. journal'[r] = journal[r] \cup {"released"}
    BY <1>7, AppendSays DEF RecordAborted, Records
  <2>2. holder' # r /\ pc'[r] \in {"post_settling", "ended"}
    BY <1>7 DEF RecordAborted
  <2>3. QED BY <2>1, <2>2 DEF BeforeLaunch
<1>8. CASE Launch(r) BY <1>8 DEF Launch, recordVars, BeforeLaunch
<1>9. CASE Integrate(r)
  <2>1. journal'[r] = journal[r] \cup {"integration"} /\ (latched'[r] <=> latched[r])
    BY <1>9, AppendSays DEF Integrate, Latches, Unlatches, Records
  <2>2. QED BY <1>9, <2>1 DEF Integrate, BeforeLaunch, runVars
<1>10. CASE \E k \in Classes : Classify(r, k)
  BY <1>10 DEF Classify, recordVars, BeforeLaunch
<1>11. CASE RunRaises(r) \/ EnterRuntimeStages(r)
  <2>1. journal'[r] = journal[r] \cup {"stage"} /\ (latched'[r] <=> latched[r])
    BY <1>11, AppendSays
       DEF RunRaises, EnterRuntimeStages, Latches, Unlatches, Records
  <2>2. QED BY <1>11, <2>1 DEF RunRaises, EnterRuntimeStages, BeforeLaunch, runVars
<1>12. CASE CompleteSource(r)
  BY <1>12 DEF CompleteSource, Adapter, recordVars, BeforeLaunch
<1>13. CASE CommitProvenance(r)
  <2>1. journal'[r] = journal[r] \cup {"provenance"}
    BY <1>13, AppendSays DEF CommitProvenance, Records
  <2>2. QED BY <1>13, <2>1 DEF CommitProvenance, BeforeLaunch
<1>14. CASE SettleSource(r)
  BY <1>14 DEF SettleSource, Adapter, Settled, recordVars, BeforeLaunch
<1>15. CASE RecordSettled(r)
  <2>1. journal'[r] = journal[r] \cup {"settled"}
    BY <1>15, AppendSays DEF RecordSettled, Records
  <2>2. QED BY <1>15, <2>1 DEF RecordSettled, BeforeLaunch
<1>16. CASE RecordAttempt(r)
  <2>1. journal'[r] = journal[r] \cup {"attempted"} /\ latched'[r]
    BY <1>16, AppendSays DEF RecordAttempt, Latches, Records
  <2>2. pc'[r] \in {"settling", "recording"}
    BY <1>16 DEF RecordAttempt
  <2>3. QED BY <1>16, <2>1, <2>2 DEF RecordAttempt, BeforeLaunch
<1>17. CASE RecordResult(r)
  <2>1. class[r] \in Classes BY DEF TypeOK
  <2>2. journal'[r] = journal[r] \cup {class[r]} /\ (latched'[r] <=> latched[r])
    BY <1>17, <2>1, AppendSays DEF RecordResult, Classes, Latches, Unlatches, Records
  <2>3. QED BY <1>17, <2>1, <2>2 DEF RecordResult, Classes, BeforeLaunch
<1>18. CASE ReleaseSettled(r)
  BY <1>18 DEF ReleaseSettled, recordVars, BeforeLaunch, SettlementAssumption
<1>19. CASE RecordReleased(r)
  <2>1. journal'[r] = journal[r] \cup {"released"}
    BY <1>19, AppendSays DEF RecordReleased, Records
  <2>2. QED BY <1>19, <2>1 DEF RecordReleased, BeforeLaunch
<1>20. CASE SettleAfterRelease(r)
  BY <1>20 DEF SettleAfterRelease, recordVars, BeforeLaunch
<1>21. CASE RecordPost(r)
  <2>1. \E rec \in {"settled", "attempted"} : journal'[r] = journal[r] \cup {rec}
    BY <1>21, AppendSays DEF RecordPost, Records
  <2>2. QED BY <1>21, <2>1 DEF RecordPost, BeforeLaunch
<1>22. CASE SupervisorGoes(r) \/ WorkerExits(r)
  BY <1>22 DEF SupervisorGoes, WorkerExits, recordVars
<1>23. QED
  BY <1>1, <1>2, <1>3, <1>4, <1>5, <1>6, <1>7, <1>8, <1>9, <1>10, <1>11, <1>12,
     <1>13, <1>14, <1>15, <1>16, <1>17, <1>18, <1>19, <1>20, <1>21, <1>22 DEF RunStep


\* A cleaner's step writes a record of the run it examines or frees its lock.
CleanerEffect(c, q) ==
    \/ UNCHANGED <<journal, latched, holder>>
    \/ UNCHANGED <<journal, latched>> /\ holder = q /\ holder' = NoOne
    \/ /\ UNCHANGED <<status, holder>>
       /\ Append(q, "attempted") \/ (step[c] = "settled" /\ Append(q, "settled"))
    \/ Durable(q) /\ holder = q /\ holder' = NoOne /\ Append(q, "released")

LEMMA CleanerHasEffect ==
    ASSUME NEW c \in Cleaners, CleanerStep(c) \/ CleanerDies(c)
    PROVE  /\ UNCHANGED <<pc, alive, activated, attempts, postponed>>
           /\ status' = "active" => status = "active"
           /\ UNCHANGED <<journal, latched, holder>>
                \/ (step[c] # "idle" /\ CleanerEffect(c, view[c].run))
<1>1. CASE Collect(c) \/ Inspect(c) \/ Claim(c) \/ SettleStale(c) \/ ResetReleased(c)
           \/ CleanerDies(c)
  BY <1>1 DEF Collect, Inspect, Claim, SettleStale, ResetReleased, CleanerDies,
       Adapter, Settled, recordVars, runVars
<1>2. CASE RecordStale(c)
  BY <1>2 DEF RecordStale, CleanerEffect, runVars
<1>3. CASE Close(c) \/ ReleaseStale(c)
  BY <1>3 DEF Close, ReleaseStale, CleanerEffect, runVars, recordVars
<1>4. QED BY <1>1, <1>2, <1>3 DEF CleanerStep

\* ... and the debts of the runs when a cleaner does.
LEMMA CleanerKeepsDebt ==
    ASSUME SettlementAssumption, TypeOK, NEW c \in Cleaners, CleanerInv(c),
           KnowledgeInv(c), NEW q \in Runs, RunFacts(q), DebtInv(q),
           CleanerStep(c) \/ CleanerDies(c)
    PROVE  DebtInv(q)'
<1>1. /\ UNCHANGED <<pc, alive, activated, attempts, postponed>>
      /\ status' = "active" => status = "active"
  BY CleanerHasEffect
<1>2. CASE UNCHANGED <<journal, latched, holder>>
  BY <1>1, <1>2, ApartKeepsDebt DEF Apart
<1>3. ASSUME step[c] # "idle", CleanerEffect(c, view[c].run) PROVE DebtInv(q)'
  <2>1. view[c].run \in Runs /\ Judged(view[c].run) /\ NoOne \notin Runs
    BY <1>3 DEF CleanerInv, SettlementAssumption
  <2>2. CASE q # view[c].run
    <3>1. UNCHANGED <<journal, latched>>
          \/ \E rec \in Records : Append(view[c].run, rec)
      BY <1>3 DEF CleanerEffect, Records
    <3>2. journal'[q] = journal[q] /\ latched'[q] = latched[q]
      BY <2>1, <2>2, <3>1, AppendSays
    <3>3. holder' = q <=> holder = q
      BY <1>3, <2>1, <2>2 DEF CleanerEffect
    <3>4. QED BY <1>1, <3>2, <3>3, ApartKeepsDebt DEF Apart
  <2>3. CASE q = view[c].run
    <3>1. alive[q] => pc[q] \notin BeforeLaunch
      BY <2>1, <2>3 DEF Judged, Over, RunFacts, OwnerInv
    <3>2. CASE UNCHANGED <<journal, latched>> /\ holder' = NoOne
      BY <1>1, <2>1, <3>2 DEF DebtInv, OnRecord
    <3>3. CASE UNCHANGED <<status, holder>> /\ Append(q, "attempted")
      <4>1. journal'[q] = journal[q] \cup {"attempted"} /\ latched'[q]
        BY <3>3, AppendSays DEF Records, Latches
      <4>2. QED BY <1>1, <3>1, <3>3, <4>1 DEF DebtInv, OnRecord
    <3>4. CASE UNCHANGED <<status, holder>> /\ step[c] = "settled"
               /\ Append(q, "settled")
      <4>1. journal'[q] = journal[q] \cup {"settled"}
        BY <3>4, AppendSays DEF Records
      <4>2. holder = q => status # "active"
        BY <2>3, <3>4 DEF KnowledgeInv
      <4>3. pc[q] \in {"staged"} => ~alive[q] BY <3>1 DEF BeforeLaunch
      <4>4. QED BY <1>1, <3>1, <3>4, <4>1, <4>2, <4>3 DEF DebtInv, OnRecord
    <3>5. CASE Durable(q) /\ holder' = NoOne /\ Append(q, "released")
      <4>1. journal'[q] = journal[q] \cup {"released"}
        BY <3>5, AppendSays DEF Records
      <4>2. pc[q] \notin BeforeLaunch BY <3>5 DEF RunFacts, OwnerInv
      <4>3. QED BY <1>1, <2>1, <3>5, <4>1, <4>2 DEF DebtInv, BeforeLaunch
    <3>6. CASE UNCHANGED <<journal, latched, holder>>
      BY <1>2, <3>6
    <3>7. QED BY <1>3, <2>3, <3>2, <3>3, <3>4, <3>5, <3>6 DEF CleanerEffect
  <2>4. QED BY <2>2, <2>3
<1>4. QED BY <1>2, <1>3, CleanerHasEffect

\* A run that cleanup acts on neither takes the lock nor activates its task.
LEMMA JudgedIsQuiet ==
    ASSUME SettlementAssumption, TypeOK, \A q \in Runs : RunFacts(q),
           NEW r \in Runs, RunStep(r) \/ SupervisorGoes(r),
           NEW v \in Runs, Judged(v)
    PROVE  /\ holder' = v => holder = v
           /\ activated'[v] => activated[v]
           /\ holder = v /\ status' = "active" => status = "active"
<1>1. alive[v] => pc[v] \notin BeforeLaunch
  BY DEF Judged, Over, RunFacts, OwnerInv
<1>2. CASE r = v
  BY <1>1, <1>2
    DEF BeforeLaunch, RunStep, SupervisorGoes, Select, Acquire, BeginActivation,
        PreLaunchFails, Activate, ReleaseAborted, RecordAborted, Launch, WorkerExits,
        EnterRuntimeStages, Integrate, Classify, RunRaises, CompleteSource,
        CommitProvenance, SettleSource, RecordSettled, RecordAttempt, RecordResult,
        ReleaseSettled, RecordReleased, SettleAfterRelease, RecordPost, Adapter,
        Settled, At, runVars, SettlementAssumption
<1>3. CASE r # v
  <2>1. Apart(v) BY <1>3, RunStepApart
  <2>2. ASSUME holder = v, status' = "active", status # "active" PROVE FALSE
    <3>1. PICK a \in Runs : At(a, "staged") /\ holder = a
      BY <2>2, OnlyHolderActivates DEF Next, RunFacts
    <3>2. QED BY <1>1, <2>2, <3>1 DEF At, BeforeLaunch
  <2>3. QED BY <2>1, <2>2 DEF Apart
<1>4. QED BY <1>2, <1>3

LEMMA RunStepKeepsViews ==
    ASSUME NEW r \in Runs, RunStep(r) \/ SupervisorGoes(r)
    PROVE  UNCHANGED cleanerVars
BY DEF RunStep, SupervisorGoes, Select, Acquire, BeginActivation, PreLaunchFails,
       Activate, ReleaseAborted, RecordAborted, Launch, WorkerExits,
       EnterRuntimeStages, Integrate, Classify, RunRaises, CompleteSource,
       CommitProvenance, SettleSource, RecordSettled, RecordAttempt, RecordResult,
       ReleaseSettled, RecordReleased, SettleAfterRelease, RecordPost, cleanerVars

\* A cleaner knows what it knew when a run takes a step ...
LEMMA RunStepKeepsKnowledge ==
    ASSUME SettlementAssumption, TypeOK, \A q \in Runs : RunFacts(q),
           NEW r \in Runs, RunStep(r) \/ SupervisorGoes(r),
           NEW c \in Cleaners, CleanerInv(c), KnowledgeInv(c)
    PROVE  KnowledgeInv(c)'
<1>1. UNCHANGED <<step, view>> BY RunStepKeepsViews DEF cleanerVars
<1>2. CASE step[c] = "idle"
  BY <1>1, <1>2 DEF KnowledgeInv
<1>3. CASE step[c] # "idle"
  <2>1. /\ holder' = view[c].run => holder = view[c].run
        /\ activated'[view[c].run] => activated[view[c].run]
        /\ holder = view[c].run /\ status' = "active" => status = "active"
    BY <1>3, JudgedIsQuiet DEF CleanerInv
  <2>2. QED BY <1>1, <2>1 DEF KnowledgeInv
<1>4. QED BY <1>2, <1>3

\* ... and learns nothing wrong from a step of its own.
LEMMA CleanerStepKeepsKnowledge ==
    ASSUME SettlementAssumption, TypeOK, \A q \in Runs : DebtInv(q),
           NEW d \in Cleaners, CleanerInv(d), CleanerStep(d) \/ CleanerDies(d),
           NEW c \in Cleaners, CleanerInv(c), KnowledgeInv(c)
    PROVE  KnowledgeInv(c)'
<1>1. /\ UNCHANGED activated
      /\ status' = "active" => status = "active"
  BY CleanerHasEffect
<1>2. holder' = holder \/ holder' = NoOne
  BY CleanerHasEffect DEF CleanerEffect
<1>3. CASE d # c
  <2>1. step'[c] = step[c] /\ view'[c] = view[c]
    BY <1>3 DEF CleanerStep, CleanerDies, Collect, Inspect, Claim, SettleStale,
       RecordStale, Close, ReleaseStale, ResetReleased, To, TypeOK
  <2>2. step[c] # "idle" => view[c].run # NoOne
    BY DEF CleanerInv, SettlementAssumption
  <2>3. QED BY <1>1, <1>2, <2>1, <2>2 DEF KnowledgeInv
<1>4. CASE d = c
  <2> USE DEF TypeOK
  <2>1. CASE Collect(c)
    <3>1. holder \in Runs BY <2>1 DEF Collect
    <3>2. /\ step'[c] = "collected" /\ holder' = holder /\ status' = status
          /\ view'[c].run = holder /\ (view'[c].latched <=> latched[holder])
      BY <2>1 DEF Collect
    <3>3. activated[holder] /\ ~latched[holder] => status # "active"
      BY <3>1 DEF DebtInv
    <3>4. QED BY <1>1, <3>1, <3>2, <3>3 DEF KnowledgeInv
  <2>2. CASE Inspect(c)
    <3>1. /\ UNCHANGED <<holder, status>>
          /\ view'[c] = view[c]
          /\ \/ step'[c] = "claiming"
             \/ step'[c] = "releasing" /\ (status # "active" \/ ~view[c].latched)
      BY <2>2 DEF Inspect, To
    <3>2. QED BY <1>1, <2>2, <3>1 DEF KnowledgeInv, Inspect
  <2>3. CASE Claim(c)
    <3>1. /\ UNCHANGED <<holder, status>>
          /\ \/ step'[c] = "settling"
             \/ step'[c] = GiveUp
             \/ /\ step'[c] = "closing"
                /\ view'[c] = view[c]
                /\ holder = view[c].run /\ "settled" \in journal[holder]
      BY <2>3 DEF Claim, To
    <3>2. step'[c] = "closing" => view[c].run \in Runs
      BY <2>3 DEF CleanerInv, Claim
    <3>3. holder \in Runs /\ "settled" \in journal[holder] => status # "active"
      BY DEF DebtInv, OnRecord
    <3>4. QED BY <3>1, <3>2, <3>3 DEF KnowledgeInv, GiveUp
  <2>4. CASE SettleStale(c)
    <3>1. step'[c] \in {"settled", "unsettled"}
      BY <2>4 DEF SettleStale, To
    <3>2. step'[c] = "settled" => status' # "active"
      BY <2>4 DEF SettleStale, To, Adapter, Settled
    <3>3. QED BY <3>1, <3>2 DEF KnowledgeInv
  <2>5. CASE RecordStale(c)
    <3>1. /\ UNCHANGED <<holder, status>>
          /\ \/ step'[c] = GiveUp
             \/ step[c] = "settled" /\ step'[c] = "closing" /\ view'[c] = view[c]
      BY <2>5 DEF RecordStale, To
    <3>2. QED BY <3>1 DEF KnowledgeInv, GiveUp
  <2>6. CASE Close(c) \/ ReleaseStale(c) \/ ResetReleased(c) \/ CleanerDies(c)
    <3>1. step'[c] \in {"idle", "resetting", GiveUp}
      BY <2>6 DEF Close, ReleaseStale, ResetReleased, CleanerDies, To
    <3>2. QED BY <3>1 DEF KnowledgeInv, GiveUp
  <2>7. QED BY <1>4, <2>1, <2>2, <2>3, <2>4, <2>5, <2>6 DEF CleanerStep
<1>5. QED BY <1>3, <1>4

-----------------------------------------------------------------------------
(* An active task is owed to somebody, without --force *)

\* The run that activates the task owes it from then on.
LEMMA ActivationOwes ==
    ASSUME SettlementAssumption, TypeOK, NEW r \in Runs, RunFacts(r), DebtInv(r),
           \A c \in Cleaners : CleanerInv(c), Activate(r)
    PROVE  Owes(r)'
<1>1. alive[r] /\ pc[r] = "staged" BY DEF Activate, At
<1>2. holder = r /\ ~Durable(r) /\ ~OnRecord(r)
  BY <1>1 DEF RunFacts, OwnerInv, Owning, DebtInv, BeforeLaunch
<1>3. /\ UNCHANGED <<holder, journal, step, view>>
      /\ pc'[r] \in {"activated", "aborting"} /\ activated'[r]
  BY DEF Activate, Goto, recordVars, cleanerVars, TypeOK
<1>4. \A c \in Cleaners : step[c] = "settled" => view[c].run # r
  BY <1>1, <1>2 DEF CleanerInv, Judged, Over, RunFacts, OwnerInv, BeforeLaunch
<1>5. QED BY <1>2, <1>3, <1>4 DEF Owes, OnRecord

\* A run that owes the task owes it until it is not active any more.
LEMMA OwnStepKeepsOwing ==
    ASSUME SettlementAssumption, TypeOK, NEW r \in Runs, RunFacts(r), DebtInv(r),
           \A c \in Cleaners : CleanerInv(c), OwedInv, Owes(r),
           RunStep(r) \/ SupervisorGoes(r), status' = "active"
    PROVE  Owes(r)'
<1>a. UNCHANGED <<step, view>> BY RunStepKeepsViews DEF cleanerVars
<1> USE <1>a DEF Owes, WithoutLock, OnRecord, At, Goto, TypeOK
<1>1. CASE Select(r) \/ Acquire(r) \/ BeginActivation(r)
  BY <1>1 DEF Select, Acquire, BeginActivation, DebtInv
<1>2. CASE PreLaunchFails(r) BY <1>2 DEF PreLaunchFails, recordVars
<1>3. CASE Activate(r) BY <1>3, ActivationOwes
<1>4. CASE ReleaseAborted(r) BY <1>4 DEF ReleaseAborted, recordVars
<1>5. CASE RecordAborted(r)
  <2>1. journal'[r] = journal[r] \cup {"released"}
    BY <1>5, AppendSays DEF RecordAborted, Records
  <2>2. pc'[r] = "post_settling" BY <1>5 DEF RecordAborted, OwesRequeue
  <2>3. QED BY <1>5, <2>1, <2>2 DEF RecordAborted
<1>6. CASE Launch(r) BY <1>6 DEF Launch, recordVars
<1>7. CASE Integrate(r)
  <2>1. journal'[r] = journal[r] \cup {"integration"}
    BY <1>7, AppendSays DEF Integrate, Records
  <2>2. holder = r BY <1>7 DEF Integrate
  <2>3. QED BY <1>7, <2>1, <2>2 DEF Integrate, runVars
<1>8. CASE \E k \in Classes : Classify(r, k) BY <1>8 DEF Classify, recordVars
<1>9. CASE RunRaises(r) \/ EnterRuntimeStages(r)
  <2>1. journal'[r] = journal[r] \cup {"stage"}
    BY <1>9, AppendSays DEF RunRaises, EnterRuntimeStages, Records
  <2>2. holder = r BY <1>9 DEF RunRaises, EnterRuntimeStages
  <2>3. QED BY <1>9, <2>1, <2>2 DEF RunRaises, EnterRuntimeStages, runVars
<1>10. CASE CompleteSource(r) BY <1>10 DEF CompleteSource, Adapter, recordVars
<1>11. CASE CommitProvenance(r) \/ RecordSettled(r)
  BY <1>11 DEF CommitProvenance, RecordSettled
<1>12. CASE SettleSource(r) BY <1>12 DEF SettleSource, Adapter, Settled, recordVars
<1>13. CASE RecordAttempt(r)
  <2>1. journal'[r] = journal[r] \cup {"attempted"}
    BY <1>13, AppendSays DEF RecordAttempt, Records
  <2>2. holder = r /\ pc'[r] \in {"settling", "recording"}
    BY <1>13 DEF RecordAttempt
  <2>3. QED BY <1>13, <2>1, <2>2 DEF RecordAttempt
<1>14. CASE RecordResult(r)
  <2>1. class[r] \in Classes BY DEF TypeOK
  <2>2. journal'[r] = journal[r] \cup {class[r]}
    BY <1>14, <2>1, AppendSays DEF RecordResult, Classes, Records
  <2>3. QED BY <1>14, <2>1, <2>2 DEF RecordResult, Classes
<1>15. CASE ReleaseSettled(r)
  <2>1. pc[r] = "releasing" /\ holder = r BY <1>15 DEF ReleaseSettled
  <2>2. Durable(r) => postponed[r]
    BY <2>1 DEF RunFacts, CloseInv, Closed, OwedInv
  <2>3. \/ Durable(r) /\ pc'[r] = "released"
        \/ pc'[r] = "raised" /\ holder' = holder
    BY <1>15 DEF ReleaseSettled, MayRelease
  <2>4. QED BY <1>15, <2>1, <2>2, <2>3 DEF ReleaseSettled, recordVars
<1>16. CASE RecordReleased(r)
  <2>1. journal'[r] = journal[r] \cup {"released"}
    BY <1>16, AppendSays DEF RecordReleased, Records
  <2>2. postponed[r] BY <1>16 DEF RecordReleased, DebtInv
  <2>3. pc'[r] = "post_settling" BY <1>16, <2>2 DEF RecordReleased
  <2>4. QED BY <1>16, <2>1, <2>3 DEF RecordReleased
<1>17. CASE SettleAfterRelease(r)
  <2>1. pc'[r] = "post_unsettled"
    BY <1>17 DEF SettleAfterRelease, Adapter, Settled
  <2>2. QED BY <1>17, <2>1 DEF SettleAfterRelease, recordVars
<1>18. CASE RecordPost(r)
  <2>1. pc[r] = "post_unsettled" BY <1>18 DEF RecordPost, DebtInv
  <2>2. journal'[r] = journal[r] \cup {"attempted"} /\ latched'[r]
    BY <1>18, <2>1, AppendSays DEF RecordPost, Latches, Records
  <2>3. QED BY <1>18, <2>2 DEF RecordPost
<1>19. CASE SupervisorGoes(r) \/ WorkerExits(r)
  BY <1>19 DEF SupervisorGoes, WorkerExits, recordVars
<1>20. QED
  BY <1>1, <1>2, <1>3, <1>4, <1>5, <1>6, <1>7, <1>8, <1>9, <1>10, <1>11, <1>12,
     <1>13, <1>14, <1>15, <1>16, <1>17, <1>18, <1>19 DEF RunStep

\* No step of a cleaner relieves it while the task is active.
LEMMA CleanerKeepsOwing ==
    ASSUME SettlementAssumption, ~Forced, TypeOK, NEW q \in Runs, Owes(q),
           NEW c \in Cleaners, CleanerInv(c), KnowledgeInv(c),
           CleanerStep(c) \/ CleanerDies(c), status' = "active"
    PROVE  Owes(q)'
<1>1. /\ UNCHANGED <<pc, alive, activated, attempts, postponed>>
      /\ status = "active"
  BY CleanerHasEffect
<1>2. \A d \in Cleaners :
          step'[d] = "settled" => step[d] = "settled" /\ view'[d] = view[d]
  BY DEF CleanerStep, CleanerDies, Collect, Inspect, Claim, SettleStale, RecordStale,
     Close, ReleaseStale, ResetReleased, To, GiveUp, Adapter, Settled, TypeOK
<1>3. holder = q => holder' = q
  <2>1. ASSUME holder' # holder, holder = q PROVE FALSE
    <3>1. /\ Close(c) \/ ReleaseStale(c)
          /\ step[c] \in {"closing", "releasing", "forcing"} /\ holder = view[c].run
      BY <2>1 DEF CleanerStep, CleanerDies, Collect, Inspect, Claim, SettleStale,
         RecordStale, Close, ReleaseStale, ResetReleased
    <3>2. step[c] # "forcing" BY DEF KnowledgeInv
    <3>3. status # "active"
      BY <2>1, <3>1, <3>2 DEF KnowledgeInv, Owes
    <3>4. QED BY <1>1, <3>3
  <2>2. QED BY <2>1
<1>4. ~OnRecord(q)' /\ (latched[q] => latched'[q] \/ holder = q)
  <2>1. CASE UNCHANGED <<journal, latched, holder>>
    BY <2>1 DEF Owes, OnRecord
  <2>2. ASSUME step[c] # "idle", CleanerEffect(c, view[c].run)
        PROVE  ~OnRecord(q)' /\ (latched[q] => latched'[q] \/ holder = q)
    <3>1. view[c].run \in Runs BY <2>2 DEF CleanerInv
    <3>2. CASE q # view[c].run
      <4>1. UNCHANGED <<journal, latched>>
            \/ \E rec \in Records : Append(view[c].run, rec)
        BY <2>2 DEF CleanerEffect, Records
      <4>2. journal'[q] = journal[q] /\ latched'[q] = latched[q]
        BY <3>1, <3>2, <4>1, AppendSays
      <4>3. QED BY <4>2 DEF Owes, OnRecord
    <3>3. CASE q = view[c].run
      <4>1. step[c] # "settled" BY <3>3 DEF Owes
      <4>2. \/ UNCHANGED <<journal, latched>>
            \/ Append(q, "attempted")
            \/ Append(q, "released") /\ holder = q
        BY <2>2, <3>3, <4>1 DEF CleanerEffect
      <4>3. \/ UNCHANGED <<journal, latched>>
            \/ journal'[q] = journal[q] \cup {"attempted"} /\ latched'[q]
            \/ journal'[q] = journal[q] \cup {"released"} /\ holder = q
        BY <4>2, AppendSays DEF Records, Latches
      <4>4. QED BY <4>3 DEF Owes, OnRecord
    <3>4. QED BY <3>2, <3>3
  <2>3. QED BY <2>1, <2>2, CleanerHasEffect
<1>5. QED BY <1>1, <1>2, <1>3, <1>4 DEF Owes

LEMMA StepKeepsOwed ==
    ASSUME SettlementAssumption, ~Forced, TypeOK,
           \A r \in Runs : RunFacts(r) /\ DebtInv(r),
           \A c \in Cleaners : CleanerInv(c) /\ KnowledgeInv(c),
           OwedInv, Next
    PROVE  OwedInv'
<1>1. ASSUME status' = "active" PROVE \E r \in Runs : Owes(r)'
  <2>1. CASE status # "active"
    <3>1. PICK r \in Runs : Activate(r)
      BY <1>1, <2>1, OnlyHolderActivates DEF RunFacts
    <3>2. QED BY <3>1, ActivationOwes
  <2>2. CASE status = "active"
    <3>1. PICK q \in Runs : Owes(q) BY <2>2 DEF OwedInv
    <3>2. ASSUME NEW r \in Runs, RunStep(r) \/ SupervisorGoes(r) PROVE Owes(q)'
      <4>1. CASE r = q BY <1>1, <3>1, <3>2, <4>1, OwnStepKeepsOwing
      <4>2. CASE r # q
        <5>1. Apart(q) BY <3>2, <4>2, RunStepApart
        <5>2. UNCHANGED <<step, view>>
          BY <3>2, RunStepKeepsViews DEF cleanerVars
        <5>3. QED BY <3>1, <5>1, <5>2 DEF Owes, OnRecord, Apart
      <4>3. QED BY <4>1, <4>2
    <3>3. ASSUME NEW c \in Cleaners, CleanerStep(c) \/ CleanerDies(c) PROVE Owes(q)'
      BY <1>1, <3>1, <3>3, CleanerKeepsOwing
    <3>4. QED BY <3>2, <3>3 DEF Next
  <2>3. QED BY <2>1, <2>2
<1>2. ASSUME NEW q \in Runs, attempts'[q] = MaxAttempts PROVE postponed'[q]
  <2>1. ASSUME NEW r \in Runs, RunStep(r) \/ SupervisorGoes(r) PROVE postponed'[q]
    <3>1. CASE r # q
      <4>1. Apart(q) BY <2>1, <3>1, RunStepApart
      <4>2. QED BY <1>2, <4>1 DEF Apart, OwedInv
    <3>2. CASE RecordAttempt(q)
      <4>1. attempts'[q] = attempts[q] + 1 BY <3>2 DEF RecordAttempt, TypeOK
      <4>2. ~AttemptsLeft(q)
        <5>1. attempts[q] \in Nat /\ MaxAttempts \in Nat
          BY DEF TypeOK, SettlementAssumption
        <5>2. QED BY <1>2, <4>1, <5>1 DEF AttemptsLeft
      <4>3. QED BY <3>2, <4>2 DEF RecordAttempt, TypeOK
    <3>3. CASE r = q /\ ~RecordAttempt(q)
      <4>1. attempts' = attempts /\ postponed' = postponed
        BY <2>1, <3>3
          DEF RunStep, SupervisorGoes, Select, Acquire, BeginActivation,
              PreLaunchFails, Activate, ReleaseAborted, RecordAborted, Launch,
              WorkerExits, EnterRuntimeStages, Integrate, Classify, RunRaises,
              CompleteSource, CommitProvenance, SettleSource, RecordSettled,
              RecordResult, ReleaseSettled, RecordReleased, SettleAfterRelease,
              RecordPost, runVars
      <4>2. QED BY <1>2, <4>1 DEF OwedInv
    <3>4. QED BY <2>1, <3>1, <3>2, <3>3
  <2>2. ASSUME NEW c \in Cleaners, CleanerStep(c) \/ CleanerDies(c) PROVE postponed'[q]
    <3>1. attempts' = attempts /\ postponed' = postponed BY <2>2, CleanerHasEffect
    <3>2. QED BY <1>2, <3>1 DEF OwedInv
  <2>3. QED BY <2>1, <2>2 DEF Next
<1>3. QED BY <1>1, <1>2 DEF OwedInv

-----------------------------------------------------------------------------
(* The second invariant and what follows from it *)

StrandInv ==
    /\ SettlementInv
    /\ \A r \in Runs : DebtInv(r)
    /\ \A c \in Cleaners : KnowledgeInv(c)
    /\ Forced \/ OwedInv

LEMMA InitStrand ==
    ASSUME SettlementAssumption, Init PROVE StrandInv
<1>1. \A r \in Runs : DebtInv(r)
  BY DEF Init, DebtInv, OnRecord, BeforeLaunch, SettlementAssumption
<1>2. \A c \in Cleaners : KnowledgeInv(c) BY DEF Init, KnowledgeInv
<1>3. OwedInv
  <2>1. MaxAttempts # 0 BY DEF SettlementAssumption
  <2>2. QED BY <2>1 DEF Init, OwedInv
<1>4. QED BY <1>1, <1>2, <1>3, InitInvariant DEF StrandInv

LEMMA StutterStrand ==
    ASSUME StrandInv, SettlementInv', UNCHANGED vars PROVE StrandInv'
<1> USE DEF vars, runVars, recordVars, cleanerVars
<1>1. \A r \in Runs : DebtInv(r)'
  BY DEF StrandInv, DebtInv, OnRecord
<1>2. \A c \in Cleaners : KnowledgeInv(c)'
  BY DEF StrandInv, KnowledgeInv
<1>3. OwedInv => OwedInv'
  BY DEF OwedInv, Owes, OnRecord
<1>4. QED BY <1>1, <1>2, <1>3 DEF StrandInv

LEMMA StepStrand ==
    ASSUME SettlementAssumption, StrandInv, [Next]_vars PROVE StrandInv'
<1>1. SettlementInv' BY StepInvariant DEF StrandInv
<1>2. CASE UNCHANGED vars BY <1>1, <1>2, StutterStrand
<1>3. CASE Next
  <2>1. /\ TypeOK
        /\ \A r \in Runs : RunFacts(r) /\ DebtInv(r)
        /\ \A c \in Cleaners : CleanerInv(c) /\ KnowledgeInv(c)
    BY InvariantByRuns DEF StrandInv
  <2>2. ASSUME NEW q \in Runs PROVE DebtInv(q)'
    <3>1. ASSUME NEW r \in Runs, RunStep(r) \/ SupervisorGoes(r) PROVE DebtInv(q)'
      <4>1. CASE r = q BY <2>1, <3>1, <4>1, OwnStepKeepsDebt
      <4>2. CASE r # q
        <5>1. Apart(q) BY <2>1, <3>1, <4>2, RunStepApart
        <5>2. ASSUME holder = q, status' = "active" PROVE status = "active"
          <6>1. CASE status # "active"
            <7>1. PICK a \in Runs : Activate(a) /\ At(a, "staged") /\ holder = a
              BY <1>3, <2>1, <5>2, <6>1, OnlyHolderActivates DEF RunFacts
            <7>2. pc'[q] # pc[q]
              BY <2>1, <5>2, <7>1 DEF Activate, Goto, At, TypeOK
            <7>3. QED BY <5>1, <7>2 DEF Apart
          <6>2. QED BY <6>1
        <5>3. QED BY <2>1, <5>1, <5>2, ApartKeepsDebt
      <4>3. QED BY <4>1, <4>2
    <3>2. ASSUME NEW c \in Cleaners, CleanerStep(c) \/ CleanerDies(c) PROVE DebtInv(q)'
      BY <2>1, <3>2, CleanerKeepsDebt
    <3>3. QED BY <1>3, <3>1, <3>2 DEF Next
  <2>3. ASSUME NEW c \in Cleaners PROVE KnowledgeInv(c)'
    BY <1>3, <2>1, RunStepKeepsKnowledge, CleanerStepKeepsKnowledge DEF Next
  <2>4. ~Forced => OwedInv'
    BY <1>3, <2>1, StepKeepsOwed DEF StrandInv
  <2>5. QED BY <1>1, <2>2, <2>3, <2>4 DEF StrandInv
<1>4. QED BY <1>2, <1>3

LEMMA StrandInvariant == Spec => []StrandInv
<1>1. Init => StrandInv BY SettlementAssumption, InitStrand
<1>2. StrandInv /\ [Next]_vars => StrandInv'
  BY SettlementAssumption, StepStrand
<1>3. QED BY <1>1, <1>2, PTL DEF Spec

\* A cleaner that lets go of a lock without --force lets go of a task that is
\* not in-progress, whatever the other runs and cleaners do between what it
\* reads and what it releases (clean_stale_locks, recover_and_release).
THEOREM NeverStrands == Spec => RecoveryNeverStrands
<1>1. ASSUME StrandInv, NEW c \in Cleaners, NEW r \in Runs,
             CleanerStep(c), step[c] # "forcing", activated[r],
             holder = r, holder' # r
      PROVE  status # "active"
  <2>1. step[c] \in {"closing", "releasing"} /\ holder = view[c].run
    BY <1>1 DEF CleanerStep, Collect, Inspect, Claim, SettleStale, RecordStale,
       Close, ReleaseStale, ResetReleased
  <2>2. QED BY <1>1, <2>1 DEF StrandInv, KnowledgeInv
<1>2. StrandInv /\ [Next]_vars =>
        [\A c \in Cleaners, r \in Runs :
            CleanerStep(c) /\ step[c] # "forcing" /\ activated[r]
              /\ holder = r /\ holder' # r
            => status # "active"]_vars
  BY <1>1
<1>3. QED BY <1>2, StrandInvariant, PTL DEF Spec, RecoveryNeverStrands

\* Without --force an in-progress task without a lock belongs to a run that
\* has its settlement still before it, died there, or saw it refused
\* (settle_after_release).
THEOREM StrandedOwned == Spec /\ ~Forced => []StrandedHasOwner
<1>1. StrandInv /\ ~Forced => StrandedHasOwner
  <2>1. ASSUME OwedInv, holder = NoOne, status = "active" PROVE StrandedHasOwner
    <3>1. PICK q \in Runs : Owes(q) BY <2>1 DEF OwedInv
    <3>2. holder # q BY <2>1, SettlementAssumption DEF SettlementAssumption
    <3>3. QED BY <3>1, <3>2 DEF Owes, StrandedHasOwner
  <2>2. QED BY <2>1 DEF StrandInv, StrandedHasOwner
<1>2. CASE Forced BY <1>2
<1>3. CASE ~Forced
  <2>1. StrandInv => StrandedHasOwner BY <1>1, <1>3
  <2>2. QED BY <2>1, StrandInvariant, PTL
<1>4. QED BY <1>2, <1>3
=============================================================================
