------------------------ MODULE AutopilotStopProofs ------------------------
(***************************************************************************)
(* Theorems about the processes of an autopilot (AutopilotStop): one       *)
(* supervisor dispatches at a time; a stop signals its own processes only, *)
(* leaves no supervisor frozen, has settled what it drained when it        *)
(* succeeds, and, when it goes on alone, leaves nothing of its run.        *)
(***************************************************************************)
EXTENDS AutopilotStop, TLAPS

-----------------------------------------------------------------------------
(* Processes *)

LEMMA AliveProcs ==
    /\ \A s \in Supervisors : Alive(Sup(s)) <=> Running(s)
    /\ \A k \in Children : Alive(Child(k)) <=> Live(k)
    /\ \A k \in Children : Alive(Worker(k)) <=> worker[k] \in {"gated", "working"}
BY DEF Alive, Sup, Child, Worker, Live

\* What lives has its pid and its birth.
LEMMA AliveIsThere ==
    ASSUME NEW p, Alive(p)
    PROVE  BirthMatches(p) /\ PidExists(p)
BY DEF BirthMatches, PidExists

LEMMA ProcNames ==
    /\ \A j, k \in Children : Worker(j) = Worker(k) => j = k
    /\ \A j, k \in Children : Child(j) = Child(k) => j = k
    /\ \A j, k \in Children : Worker(j) # Child(k)
    /\ \A k \in Children : Worker(k) \in Procs /\ Child(k) \in Procs
BY DEF Worker, Child, Procs

-----------------------------------------------------------------------------
(* Types *)

SupRecords == [pc : SupStates, kid : Children \cup {NoOne}, frozen : BOOLEAN, term : BOOLEAN]
StopRecords == [pc : StopStates, target : Supervisors \cup {NoOne},
                pass : {1, 2}, seen : SUBSET Children,
                roots : SUBSET Procs, fds : SUBSET Procs,
                kin : SUBSET Children, wrong : BOOLEAN,
                owned : SUBSET Children, quiesced : BOOLEAN]

SupType ==
    /\ sup \in [Supervisors -> SupRecords]
    /\ \A s \in Supervisors : sup[s].pc \in {"launched", "waiting"} => sup[s].kid \in Children

ProcType ==
    /\ starter \in [Supervisors -> {"none", "verifying", "cleaning", "done"}]
    /\ child \in [Children -> {"none", "live", "dead"}]
    /\ worker \in [Children -> {"none", "gated", "working", "dead"}]
    /\ strangers \subseteq Procs
    /\ hit \in BOOLEAN

RecordType ==
    /\ singleton \in Supervisors \cup {NoOne}
    /\ started \subseteq Supervisors
    /\ childRec \in [Supervisors -> Seq(Children)]
    /\ announced \subseteq Children
    /\ lock \in [Children -> {"free", "held", "identified", "released"}]
    /\ result \in [Children -> {"none", "reported", "unknown", "final", "terminated"}]

StopType == stop \in [Stoppers -> StopRecords]

TypeInv == SupType /\ ProcType /\ RecordType /\ StopType

LEMMA RecordedType ==
    ASSUME RecordType, NEW s \in Supervisors
    PROVE  Recorded(s) \subseteq Children
BY DEF RecordType, Recorded

LEMMA TypeInvOK == TypeInv => TypeOK
<1> SUFFICES ASSUME TypeInv PROVE TypeOK
  OBVIOUS
<1>1. \A s \in Supervisors : Recorded(s) \subseteq Children
  BY RecordedType DEF TypeInv
<1>2. \A s \in Supervisors : sup[s].pc \in {"launched", "waiting"} => sup[s].kid # NoOne
  BY AutopilotAssumption DEF TypeInv, SupType, AutopilotAssumption
<1>3. QED
  BY <1>1, <1>2 DEF TypeOK, TypeInv, SupType, ProcType, RecordType, StopType,
     SupRecords, StopRecords

LEMMA TypeInit == Init => TypeInv
<1> SUFFICES ASSUME Init PROVE TypeInv
  OBVIOUS
<1>1. SupType
  BY DEF Init, SupType, SupRecords, SupStates, NotBorn
<1>2. ProcType
  BY DEF Init, ProcType
<1>3. RecordType
  BY DEF Init, RecordType
<1>4. StopType
  BY DEF Init, StopType, StopRecords, StopStates, Idle
<1>5. QED BY <1>1, <1>2, <1>3, <1>4 DEF TypeInv

\* The steps that move a supervisor or the one who starts it.
SupAction(s) ==
    StartDetached(s) \/ StarterStep(s) \/ SupervisorStep(s) \/ SupervisorKilled(s)

LEMMA TypeSup ==
    ASSUME TypeInv, NEW s \in Supervisors, SupAction(s)
    PROVE  TypeInv'
<1> USE DEF TypeInv, Step, Gone, NotBorn, MaySup, Undisturbed, Starter
<1>1. CASE BootRefused(s) \/ BootAcquires(s) \/ Enable(s)
  <2>1. SupType'
    <3>1. CASE BootRefused(s) BY <3>1 DEF SupType, SupRecords, SupStates, BootRefused
    <3>2. CASE BootAcquires(s) BY <3>2 DEF SupType, SupRecords, SupStates, BootAcquires
    <3>3. CASE Enable(s) BY <3>3 DEF SupType, SupRecords, SupStates, Enable
    <3>4. QED BY <1>1, <3>1, <3>2, <3>3
  <2>2. ProcType' /\ RecordType' /\ StopType'
    BY <1>1 DEF ProcType, RecordType, StopType, BootRefused, BootAcquires, Enable, records
  <2>3. QED BY <2>1, <2>2
<1>2. ASSUME NEW k \in Children, LaunchChild(s, k) PROVE TypeInv'
  <2>1. SupType'
    <3>1. [sup[s] EXCEPT !.pc = "launched", !.kid = k] \in SupRecords
      BY DEF SupType, SupRecords, SupStates
    <3>2. QED BY <1>2, <3>1 DEF SupType, LaunchChild
  <2>2. ProcType' /\ RecordType' /\ StopType'
    BY <1>2 DEF ProcType, RecordType, StopType, LaunchChild, records
  <2>3. QED BY <2>1, <2>2
<1>3. CASE RecordChild(s)
  <2>1. SupType'
    BY <1>3 DEF SupType, SupRecords, SupStates, RecordChild
  <2>2. ProcType' /\ StopType'
    BY <1>3 DEF ProcType, StopType, RecordChild
  <2>3. sup[s].kid \in Children
    BY <1>3 DEF SupType, RecordChild
  <2>4. childRec' \in [Supervisors -> Seq(Children)]
    BY <1>3, <2>3 DEF RecordType, RecordChild
  <2>5. QED BY <1>3, <2>1, <2>2, <2>4 DEF RecordType, RecordChild
<1>4. CASE CollectChild(s) \/ LoopEnds(s)
  <2>1. SupType'
    BY <1>4 DEF SupType, SupRecords, SupStates, CollectChild, LoopEnds
  <2>2. ProcType' /\ RecordType' /\ StopType'
    BY <1>4 DEF ProcType, RecordType, StopType, CollectChild, LoopEnds, records
  <2>3. QED BY <2>1, <2>2
<1>5. CASE TermDelivered(s)
  <2>1. SupType'
    <3>1. PICK c \in {"gone", "unwinding"} :
            sup' = [sup EXCEPT ![s].pc = c, ![s].kid = NoOne]
      BY <1>5 DEF TermDelivered
    <3>2. [sup[s] EXCEPT !.pc = c, !.kid = NoOne] \in SupRecords
      BY DEF SupType, SupRecords, SupStates
    <3>3. QED BY <3>1, <3>2 DEF SupType
  <2>2. ProcType' /\ RecordType' /\ StopType'
    BY <1>5 DEF ProcType, RecordType, StopType, TermDelivered, records
  <2>3. QED BY <2>1, <2>2
<1>6. CASE ReleaseSingleton(s) \/ SupervisorKilled(s) \/ StartDetached(s) \/ CandidateKilled(s)
  <2>1. SupType'
    <3>1. CASE Gone(s) BY <3>1 DEF SupType, SupRecords, SupStates
    <3>2. CASE StartDetached(s) BY <3>2 DEF SupType, SupRecords, SupStates, StartDetached
    <3>3. QED
      BY <1>6, <3>1, <3>2 DEF ReleaseSingleton, SupervisorKilled, CandidateKilled
  <2>2. ProcType' /\ RecordType' /\ StopType'
    BY <1>6 DEF ProcType, RecordType, StopType, ReleaseSingleton, SupervisorKilled,
       StartDetached, CandidateKilled, records
  <2>3. QED BY <2>1, <2>2
<1>7. CASE StartVerified(s) \/ StartUnverified(s) \/ CandidateCleaned(s)
  <2>1. SupType'
    <3>1. CASE sup' = sup BY <3>1 DEF SupType
    <3>2. CASE sup' = [sup EXCEPT ![s] = [NotBorn EXCEPT !.pc = "gone"]]
      BY <3>2 DEF SupType, SupRecords, SupStates
    <3>3. CASE sup' = [sup EXCEPT ![s].term = TRUE]
      BY <3>3 DEF SupType, SupRecords, SupStates
    <3>4. QED
      BY <1>7, <3>1, <3>2, <3>3 DEF StartVerified, StartUnverified, CandidateCleaned
  <2>2. ProcType' /\ RecordType' /\ StopType'
    BY <1>7 DEF ProcType, RecordType, StopType, StartVerified, StartUnverified,
       CandidateCleaned, records
  <2>3. QED BY <2>1, <2>2
<1>8. QED
  BY <1>1, <1>2, <1>3, <1>4, <1>5, <1>6, <1>7
     DEF SupAction, StarterStep, SupervisorStep

\* The steps of a child and of its worker.
ChildAction(k) == ChildStep(k) \/ ChildKilled(k)

LEMMA TypeChild ==
    ASSUME TypeInv, NEW k \in Children, ChildAction(k)
    PROVE  TypeInv'
<1> USE DEF TypeInv, Lock
<1>1. SupType' /\ StopType'
  BY DEF ChildAction, ChildStep, SupType, StopType, Announce, StartGuard, PublishWorker,
     OpenGate, GuardSeesEof, WorkerReports, WorkerEnds, RecordResult, ReleaseTask,
     ChildExits, ChildKilled, procs
<1>2. ProcType'
  <2>1. CASE Announce(k) \/ PublishWorker(k) \/ WorkerReports(k) \/ RecordResult(k)
               \/ ReleaseTask(k)
    BY <2>1 DEF ProcType, procs, Announce, PublishWorker, WorkerReports, RecordResult,
       ReleaseTask
  <2>2. CASE StartGuard(k) \/ OpenGate(k) \/ GuardSeesEof(k) \/ WorkerEnds(k)
    BY <2>2 DEF ProcType, StartGuard, OpenGate, GuardSeesEof, WorkerEnds
  <2>3. CASE ChildExits(k) \/ ChildKilled(k)
    BY <2>3 DEF ProcType, ChildExits, ChildKilled
  <2>4. QED BY <2>1, <2>2, <2>3 DEF ChildAction, ChildStep
<1>3. RecordType'
  <2>1. CASE Announce(k) \/ ChildExits(k)
    BY <2>1 DEF RecordType, Announce, ChildExits
  <2>2. CASE StartGuard(k) \/ PublishWorker(k) \/ ReleaseTask(k)
    BY <2>2 DEF RecordType, StartGuard, PublishWorker, ReleaseTask
  <2>3. CASE WorkerReports(k) \/ RecordResult(k)
    BY <2>3 DEF RecordType, WorkerReports, RecordResult
  <2>4. CASE OpenGate(k) \/ GuardSeesEof(k) \/ WorkerEnds(k) \/ ChildKilled(k)
    BY <2>4 DEF RecordType, records, OpenGate, GuardSeesEof, WorkerEnds, ChildKilled
  <2>5. QED BY <2>1, <2>2, <2>3, <2>4 DEF ChildAction, ChildStep
<1>4. QED BY <1>1, <1>2, <1>3

\* The steps of a stop.
StopAction(o) == StopStep(o) \/ StopKilled(o)

\* A stop writes its own state, and of a supervisor only whether it is frozen
\* or signalled.
LEMMA StopSupType ==
    ASSUME SupType, NEW o \in Stoppers, StopAction(o)
    PROVE  SupType'
<1> USE DEF SupType, SupRecords
<1>0. ASSUME NEW f \in BOOLEAN, sup' = [sup EXCEPT ![Target(o)].frozen = f]
      PROVE  SupType'
  <2>1. CASE Target(o) \notin Supervisors BY <1>0, <2>1
  <2>2. CASE Target(o) \in Supervisors
    <3>1. [sup[Target(o)] EXCEPT !.frozen = f] \in SupRecords
      BY <2>2
    <3>2. QED BY <1>0, <2>2, <3>1
  <2>3. QED BY <2>1, <2>2
<1>1. CASE sup' = sup BY <1>1
<1>2. CASE Blocked(o)
  <2>1. PICK f \in BOOLEAN : sup' = sup \/ sup' = [sup EXCEPT ![Target(o)].frozen = f]
    BY <1>2 DEF Blocked
  <2>2. QED BY <1>0, <1>1, <2>1
<1>3. CASE Quiesce(o)
  <2>1. PICK f \in BOOLEAN : sup' = [sup EXCEPT ![Target(o)].frozen = f]
    BY <1>3 DEF Quiesce, Running
  <2>2. QED BY <1>0, <2>1
<1>4. CASE EndSupervisor(o)
  <2>1. CASE Target(o) \notin Supervisors BY <1>4, <2>1 DEF EndSupervisor
  <2>2. CASE Target(o) \in Supervisors
    <3>1. PICK t \in BOOLEAN, f \in BOOLEAN :
            sup' = [sup EXCEPT ![Target(o)].term = t, ![Target(o)].frozen = f]
      BY <1>4, <2>2 DEF EndSupervisor, Running
    <3>2. QED BY <2>2, <3>1
  <2>3. QED BY <2>1, <2>2
<1>5. QED
  BY <1>1, <1>2, <1>3, <1>4
     DEF StopAction, StopStep, StopLooks, OpenSupervisor, CollectRoots, TakeSnapshot,
         OpenCandidates, SignalWorkers, SignalChildren, Drained, SupervisorGone,
         RecordTerminated, ReleaseDrained, StopSucceeds, GivesUp, RecoverStale,
         StopKilled, procs

LEMMA StopProcType ==
    ASSUME ProcType, NEW o \in Stoppers, StopAction(o), ~stop[o].wrong
    PROVE  ProcType'
<1> USE DEF ProcType
<1>1. CASE UNCHANGED <<starter, child, worker, strangers, hit>> BY <1>1
<1>2. CASE SignalWorkers(o) BY <1>2 DEF SignalWorkers
<1>3. CASE SignalChildren(o) BY <1>3 DEF SignalChildren
<1>4. QED
  BY <1>1, <1>2, <1>3
     DEF StopAction, StopStep, StopLooks, OpenSupervisor, CollectRoots, TakeSnapshot,
         OpenCandidates, Quiesce, Drained, EndSupervisor, SupervisorGone,
         RecordTerminated, ReleaseDrained, StopSucceeds, GivesUp, RecoverStale,
         StopKilled, procs

LEMMA StopRecordType ==
    ASSUME RecordType, NEW o \in Stoppers, StopAction(o)
    PROVE  RecordType'
<1> USE DEF RecordType
<1>1. CASE UNCHANGED records BY <1>1 DEF records
<1>2. ASSUME NEW k \in Children, RecordTerminated(o, k) \/ ReleaseDrained(o, k)
      PROVE  RecordType'
  BY <1>2 DEF RecordTerminated, ReleaseDrained, Lock
<1>3. CASE RecoverStale(o) BY <1>3 DEF RecoverStale
<1>4. QED
  BY <1>1, <1>2, <1>3
     DEF StopAction, StopStep, StopLooks, OpenSupervisor, CollectRoots, TakeSnapshot,
         OpenCandidates, Quiesce, SignalWorkers, SignalChildren, Drained, EndSupervisor,
         SupervisorGone, StopSucceeds, GivesUp, StopKilled

LEMMA SnapshotType ==
    ASSUME StopType, NEW o \in Stoppers
    PROVE  Snapshot(o) \in SUBSET Procs
BY ProcNames DEF StopType, StopRecords, Snapshot

LEMMA RootsType ==
    ASSUME RecordType, NEW s \in Supervisors
    PROVE  RootsOf(s) \in SUBSET Procs
BY RecordedType, ProcNames DEF RootsOf, LastChild, Identified

LEMMA TargetIsSupervisor ==
    ASSUME StopType, NEW o \in Stoppers, Target(o) # NoOne
    PROVE  Target(o) \in Supervisors
BY DEF StopType, StopRecords, Target

LEMMA StopTypeOne ==
    ASSUME StopType, NEW o \in Stoppers, NEW r \in StopRecords,
           stop' = [stop EXCEPT ![o] = r]
    PROVE  StopType'
BY DEF StopType

LEMMA StopStopType ==
    ASSUME TypeInv, NEW o \in Stoppers, StopAction(o), Looking(o) => Target(o) # NoOne
    PROVE  StopType'
<1> USE DEF TypeInv, StopType
<1>0. stop[o] \in StopRecords /\ NoOne \in Supervisors \cup {NoOne}
  OBVIOUS
<1>a. \A c \in StopStates : [Idle EXCEPT !.pc = c] \in StopRecords
  BY DEF StopRecords, Idle
<1>b. "blocked" \in StopStates /\ "recovered" \in StopStates /\ "killed" \in StopStates
  BY DEF StopStates
<1>1. CASE stop' = stop BY <1>1
<1>2. ASSUME NEW c \in StopStates, Goto(o, c) PROVE StopType'
  BY <1>2 DEF Goto, StopRecords
<1>3. CASE Blocked(o) BY <1>3, <1>a, <1>b DEF Blocked
<1>4. CASE StopLooks(o)
  <2>1. PICK c \in StopStates : stop' = [stop EXCEPT ![o].target = singleton, ![o].pc = c]
    <3>1. (IF ~PidExists(Sup(singleton)) THEN "recovering"
           ELSE IF singleton \in started THEN "found" ELSE "blocked") \in StopStates
      BY DEF StopStates
    <3>2. QED BY <1>4, <3>1 DEF StopLooks
  <2>2. [stop[o] EXCEPT !.target = singleton, !.pc = c] \in StopRecords
    BY <1>0 DEF RecordType, StopRecords
  <2>3. QED BY <2>1, <2>2
<1>5. CASE CollectRoots(o)
  <2>1. CASE Blocked(o) BY <1>3, <2>1
  <2>2. CASE ~Blocked(o)
    <3>1. Target(o) \in Supervisors BY <1>5, TargetIsSupervisor DEF CollectRoots
    <3>2. RootsOf(Target(o)) \in SUBSET Procs /\ Recorded(Target(o)) \in SUBSET Children
      BY <3>1, RootsType, RecordedType
    <3>3. QED BY <1>5, <2>2, <3>2 DEF CollectRoots, StopRecords, StopStates
  <2>3. QED BY <2>1, <2>2
<1>6. CASE TakeSnapshot(o)
  <2>1. Snapshot(o) \in SUBSET Procs BY SnapshotType
  <2>2. PICK c \in StopStates, w \in SUBSET Children, n \in SUBSET Children :
          stop' = [stop EXCEPT ![o].fds = Snapshot(o), ![o].roots = {}, ![o].owned = w,
                               ![o].kin = n, ![o].pc = c]
    <3>1. stop[o].owned \cup {k \in Children : Worker(k) \in stop[o].roots \cap Snapshot(o)}
            \in SUBSET Children
      BY <1>0 DEF StopRecords
    <3>2. {k \in Children : Worker(k) \in Snapshot(o) /\ Live(k)} \in SUBSET Children
      OBVIOUS
    <3>3. (IF Snapshot(o) # {} THEN "opening"
           ELSE IF stop[o].pass = 1 THEN "rescanning" ELSE "ending") \in StopStates
      BY DEF StopStates
    <3>4. QED BY <1>6, <3>1, <3>2, <3>3 DEF TakeSnapshot
  <2>3. [stop[o] EXCEPT !.fds = Snapshot(o), !.roots = {}, !.owned = w, !.kin = n,
                        !.pc = c] \in StopRecords
    BY <1>0, <2>1 DEF StopRecords
  <2>4. QED BY <2>2, <2>3
<1>7. CASE OpenCandidates(o)
  <2>1. CASE Blocked(o) BY <1>3, <2>1
  <2>2. CASE ~Blocked(o)
    <3>1. PICK c \in StopStates, b \in BOOLEAN :
            stop' = [stop EXCEPT ![o].wrong = b, ![o].kin = {}, ![o].pc = c]
      <4>1. (IF stop[o].pass = 1 THEN "quiescing" ELSE "signalling") \in StopStates
        BY DEF StopStates
      <4>2. QED BY <1>7, <2>2, <4>1 DEF OpenCandidates
    <3>2. [stop[o] EXCEPT !.wrong = b, !.kin = {}, !.pc = c] \in StopRecords
      BY <1>0 DEF StopRecords
    <3>3. QED BY <3>1, <3>2
  <2>3. QED BY <2>1, <2>2
<1>8. CASE Quiesce(o)
  <2>1. PICK c \in StopStates : stop' = [stop EXCEPT ![o].pc = c, ![o].quiesced = TRUE]
    <3>1. (IF stop[o].pc = "quiescing" /\ stop[o].fds # {}
           THEN "signalling" ELSE "rescanning") \in StopStates
      BY DEF StopStates
    <3>2. QED BY <1>8, <3>1 DEF Quiesce
  <2>2. [stop[o] EXCEPT !.pc = c, !.quiesced = TRUE] \in StopRecords
    BY <1>0 DEF StopRecords
  <2>3. QED BY <2>1, <2>2
<1>9. CASE Drained(o)
  <2>1. PICK c \in StopStates : stop' = [stop EXCEPT ![o].fds = {}, ![o].pc = c]
    <3>1. (IF stop[o].pass = 1 THEN "rescanning" ELSE "ending") \in StopStates
      BY DEF StopStates
    <3>2. QED BY <1>9, <3>1 DEF Drained
  <2>2. [stop[o] EXCEPT !.fds = {}, !.pc = c] \in StopRecords
    BY <1>0 DEF StopRecords
  <2>3. QED BY <2>1, <2>2
<1>10. CASE RecoverStale(o) BY <1>10, <1>a, <1>b DEF RecoverStale
<1>11. CASE StopKilled(o)
  <2>1. [Idle EXCEPT !.pc = "killed", !.quiesced = TRUE, !.target = Target(o)] \in StopRecords
    BY <1>0, <1>b DEF StopRecords, Idle, Target
  <2>2. QED BY <1>11, <1>a, <1>b, <2>1 DEF StopKilled
<1>12. QED
  <2>1. \A c \in {"opened", "blocked", "leaves", "draining", "waiting", "reconciling",
                  "stopped"} : c \in StopStates
    BY DEF StopStates
  <2>2. QED
    BY <1>1, <1>2, <1>3, <1>4, <1>5, <1>6, <1>7, <1>8, <1>9, <1>10, <1>11, <2>1
       DEF StopAction, StopStep, OpenSupervisor, SignalWorkers, SignalChildren,
           EndSupervisor, SupervisorGone, RecordTerminated, ReleaseDrained, StopSucceeds,
           GivesUp, procs

-----------------------------------------------------------------------------
(* The inductive invariant *)

\* A supervisor past its boot holds the singleton lock.
SingletonInv(s) == sup[s].pc \notin {"off", "booting", "gone"} => singleton = s

Last(s) == childRec[s][Len(childRec[s])]

\* A supervisor with a started record has been launched, and a recorded child
\* was. While a recorded child lives, it is the last one and the supervisor
\* waits for it or is gone.
RecordInv(s) ==
    /\ s \in started => sup[s].pc # "off"
    /\ sup[s].pc \in {"launched", "waiting"} => child[sup[s].kid] # "none"
    /\ sup[s].pc = "waiting" => sup[s].kid = Last(s)
    /\ \A k \in Recorded(s) :
         /\ child[k] # "none"
         /\ Live(k) => k = Last(s) /\ sup[s].pc \in {"waiting", "gone"}

\* The worker and the task lock of a run.
WorkerInv(k) ==
    /\ lock[k] = "free" <=> worker[k] = "none"
    /\ worker[k] = "gated" => lock[k] \in {"held", "identified"}
    /\ worker[k] = "working" => lock[k] = "identified"
    /\ result[k] \in {"final", "unknown", "terminated"} => worker[k] = "dead"
    /\ lock[k] = "released" => result[k] # "none"

EndPCs == {"waiting", "reconciling", "stopped"}
ActivePCs == {"found", "opened", "rooted", "opening", "quiescing", "signalling", "leaves",
              "draining", "rescanning", "ending"} \cup EndPCs
FreezingPCs == {"signalling", "leaves", "draining", "rescanning", "rooted", "opening",
                "ending", "killed"}

\* What a stop is about, and that it has frozen its supervisor between its two
\* looks only.
StopInv(o) ==
    /\ stop[o].pc = "idle" => stop[o] = Idle
    /\ stop[o].pc \in ActivePCs => Target(o) \in Supervisors /\ sup[Target(o)].pc # "off"
    /\ stop[o].pc = "recovering" => Target(o) \in Supervisors
    /\ stop[o].pc = "quiescing" => stop[o].pass = 1
    /\ stop[o].quiesced =>
         /\ stop[o].pc \in FreezingPCs \cup EndPCs
         /\ stop[o].pc \in {"rooted", "opening"} => stop[o].pass = 2
    /\ ~stop[o].wrong

\* A worker a stop answers for was published, and is drained before the stop
\* gets to its records.
OwnedInv(o) ==
    /\ \A k \in Children : Worker(k) \in stop[o].roots => lock[k] \in {"identified", "released"}
    /\ \A k \in stop[o].owned :
         /\ lock[k] \in {"identified", "released"}
         /\ \/ worker[k] = "dead"
            \/ /\ Worker(k) \in stop[o].fds
               /\ stop[o].pc \in {"opening", "quiescing", "signalling", "leaves", "draining"}
         /\ stop[o].pc = "stopped" => lock[k] = "released"

\* The children a stop has seen are dead by its second look, and what workers
\* they left are found by it.
SeenDead(o) == stop[o].pc \in {"draining", "rescanning", "ending"} \cup EndPCs
                 \/ stop[o].pass = 2

SeenChild(o, k) ==
    /\ ~SeenDead(o)
    /\ stop[o].pc = "rooted" => Child(k) \in stop[o].roots
    /\ stop[o].pc \in {"opening", "quiescing", "signalling", "leaves"}
         => Child(k) \in stop[o].fds

SeenWorker(o, k) ==
    /\ stop[o].pc \notin {"ending"} \cup EndPCs
    /\ stop[o].pass = 2 =>
         /\ stop[o].pc = "rooted" => Worker(k) \in stop[o].roots
         /\ stop[o].pc \in {"opening", "signalling", "leaves", "draining"}
              => Worker(k) \in stop[o].fds

SeenInv(o) ==
    stop[o].pc \in ActivePCs =>
      \A k \in stop[o].seen :
        /\ child[k] # "none"
        /\ Live(k) => SeenChild(o, k)
        /\ worker[k] = "working" => SeenWorker(o, k)

IInv ==
    /\ TypeInv
    /\ \A s \in Supervisors : SingletonInv(s) /\ RecordInv(s)
    /\ \A k \in Children : WorkerInv(k)
    /\ \A o \in Stoppers : StopInv(o) /\ OwnedInv(o) /\ SeenInv(o)
    /\ NotLeftFrozen
    /\ ~hit

-----------------------------------------------------------------------------
(* What no step takes back *)

\* A process that was born stays born, one that is over stays over; a lock
\* goes forward only, and a result on record stays.
ChildProgress(k) ==
    /\ child[k] # "none" => child'[k] # "none"
    /\ child'[k] = "live" => child[k] \in {"none", "live"}
    /\ worker[k] = "dead" => worker'[k] = "dead"
    /\ worker'[k] = "working" => worker[k] = "working" \/ (worker[k] = "gated" /\ Live(k))
    /\ lock[k] \in {"identified", "released"} => lock'[k] \in {"identified", "released"}
    /\ lock[k] = "released" => lock'[k] = "released"

Progress ==
    /\ \A k \in Children : ChildProgress(k)
    /\ \A s \in Supervisors : sup[s].pc # "off" => sup'[s].pc # "off"

LEMMA ProgressSup ==
    ASSUME TypeInv, NEW s \in Supervisors, SupAction(s)
    PROVE  Progress
<1> USE DEF TypeInv
<1>1. UNCHANGED <<worker, lock, result>>
  BY DEF SupAction, StarterStep, SupervisorStep, StartDetached, StartVerified,
     StartUnverified, CandidateKilled, CandidateCleaned, BootRefused, BootAcquires, Enable,
     LaunchChild, RecordChild, CollectChild, LoopEnds, TermDelivered, ReleaseSingleton,
     SupervisorKilled, records
<1>2. \A k \in Children : ChildProgress(k)
  <2>1. CASE child' = child BY <1>1, <2>1 DEF ChildProgress, ProcType
  <2>2. ASSUME NEW j \in Children, LaunchChild(s, j) PROVE \A k \in Children : ChildProgress(k)
    BY <1>1, <2>2 DEF ChildProgress, LaunchChild, ProcType
  <2>3. CASE TermDelivered(s)
    BY <1>1, <2>3 DEF ChildProgress, TermDelivered, ProcType
  <2>4. QED
    BY <2>1, <2>2, <2>3 DEF SupAction, StarterStep, SupervisorStep, StartDetached,
       StartVerified, StartUnverified, CandidateKilled, CandidateCleaned, BootRefused,
       BootAcquires, Enable, RecordChild, CollectChild, LoopEnds, ReleaseSingleton,
       SupervisorKilled
<1>3. \A t \in Supervisors : sup[t].pc # "off" => sup'[t].pc # "off"
  <2> USE DEF SupType, SupRecords, NotBorn, Step, Gone
  <2>1. CASE BootRefused(s) \/ BootAcquires(s) \/ LoopEnds(s) \/ RecordChild(s)
    BY <2>1 DEF BootRefused, BootAcquires, LoopEnds, RecordChild
  <2>2. CASE Enable(s) BY <2>2 DEF Enable
  <2>3. CASE \E k \in Children : LaunchChild(s, k) BY <2>3 DEF LaunchChild
  <2>4. CASE CollectChild(s) BY <2>4 DEF CollectChild
  <2>5. CASE TermDelivered(s) BY <2>5 DEF TermDelivered
  <2>6. CASE ReleaseSingleton(s) \/ SupervisorKilled(s) \/ CandidateKilled(s) \/ StartDetached(s)
    BY <2>6 DEF ReleaseSingleton, SupervisorKilled, CandidateKilled, StartDetached
  <2>7. CASE StartVerified(s) \/ StartUnverified(s) \/ CandidateCleaned(s)
    BY <2>7 DEF StartVerified, StartUnverified, CandidateCleaned
  <2>8. QED
    BY <2>1, <2>2, <2>3, <2>4, <2>5, <2>6, <2>7 DEF SupAction, StarterStep, SupervisorStep
<1>4. QED BY <1>2, <1>3 DEF Progress

LEMMA ProgressChild ==
    ASSUME TypeInv, NEW k \in Children, WorkerInv(k), ChildAction(k)
    PROVE  Progress
<1> USE DEF TypeInv, Lock
<1>1. sup' = sup /\ \A j \in Children : j # k => /\ child'[j] = child[j]
                                                 /\ worker'[j] = worker[j]
                                                 /\ lock'[j] = lock[j]
  BY DEF ChildAction, ChildStep, ProcType, RecordType, procs, records, Announce,
     StartGuard, PublishWorker, OpenGate, GuardSeesEof, WorkerReports, WorkerEnds,
     RecordResult, ReleaseTask, ChildExits, ChildKilled
<1>2. ChildProgress(k)
  <2> USE DEF ChildProgress, Live, ProcType, RecordType
  <2>1. CASE Announce(k) \/ WorkerReports(k) \/ RecordResult(k)
    BY <2>1 DEF Announce, WorkerReports, RecordResult, procs
  <2>2. CASE StartGuard(k) BY <2>2 DEF StartGuard, WorkerInv
  <2>3. CASE PublishWorker(k) \/ ReleaseTask(k)
    BY <2>3 DEF PublishWorker, ReleaseTask, procs
  <2>4. CASE OpenGate(k) \/ GuardSeesEof(k) \/ WorkerEnds(k)
    BY <2>4 DEF OpenGate, GuardSeesEof, WorkerEnds, records
  <2>5. CASE ChildExits(k) \/ ChildKilled(k)
    BY <2>5 DEF ChildExits, ChildKilled, records
  <2>6. QED BY <2>1, <2>2, <2>3, <2>4, <2>5 DEF ChildAction, ChildStep
<1>3. \A j \in Children : j # k => ChildProgress(j)
  BY <1>1 DEF ChildProgress
<1>4. QED BY <1>1, <1>2, <1>3 DEF Progress

LEMMA ProgressStop ==
    ASSUME TypeInv, NEW o \in Stoppers, StopAction(o)
    PROVE  Progress
<1> USE DEF TypeInv
<1>1. \A k \in Children : ChildProgress(k)
  <2> USE DEF ChildProgress, Live, ProcType, RecordType
  <2>1. CASE UNCHANGED <<child, worker, lock>> BY <2>1
  <2>2. CASE SignalWorkers(o) BY <2>2 DEF SignalWorkers, records
  <2>3. CASE SignalChildren(o) BY <2>3 DEF SignalChildren, records
  <2>4. ASSUME NEW j \in Children, ReleaseDrained(o, j)
        PROVE  \A k \in Children : ChildProgress(k)
    BY <2>4 DEF ReleaseDrained, Lock, procs
  <2>5. QED
    BY <2>1, <2>2, <2>3, <2>4
       DEF StopAction, StopStep, StopLooks, OpenSupervisor, CollectRoots, TakeSnapshot,
           OpenCandidates, Quiesce, Drained, EndSupervisor, SupervisorGone,
           RecordTerminated, StopSucceeds, GivesUp, RecoverStale, StopKilled, procs, records
<1>2. \A s \in Supervisors : sup'[s].pc = sup[s].pc
  <2> USE DEF SupType, SupRecords
  <2>1. CASE sup' = sup BY <2>1
  <2>2. CASE Blocked(o) BY <2>2 DEF Blocked
  <2>3. CASE Quiesce(o) BY <2>3 DEF Quiesce
  <2>4. CASE EndSupervisor(o) BY <2>4 DEF EndSupervisor
  <2>5. QED
    BY <2>1, <2>2, <2>3, <2>4
       DEF StopAction, StopStep, StopLooks, OpenSupervisor, CollectRoots, TakeSnapshot,
           OpenCandidates, SignalWorkers, SignalChildren, Drained, SupervisorGone,
           RecordTerminated, ReleaseDrained, StopSucceeds, GivesUp, RecoverStale,
           StopKilled, procs
<1>3. QED BY <1>1, <1>2 DEF Progress

-----------------------------------------------------------------------------
(* Supervisors: the singleton lock and the records of children *)

\* What a step of a child, of a stop or of the system leaves alone.
SupKept ==
    /\ \A s \in Supervisors : sup'[s].pc = sup[s].pc /\ sup'[s].kid = sup[s].kid
    /\ UNCHANGED <<started, childRec>>
    /\ \A k \in Children : child'[k] = "live" => Live(k)

LEMMA SupKeptChild ==
    ASSUME TypeInv, NEW k \in Children, ChildAction(k)
    PROVE  SupKept /\ singleton' = singleton
<1>1. CASE child' = child
  BY <1>1 DEF SupKept, Live, ChildAction, ChildStep, procs, records, Announce,
     StartGuard, PublishWorker, OpenGate, GuardSeesEof, WorkerReports, WorkerEnds,
     RecordResult, ReleaseTask, ChildExits, ChildKilled
<1>2. CASE ChildExits(k) \/ ChildKilled(k)
  BY <1>2 DEF SupKept, Live, records, ChildExits, ChildKilled, TypeInv, ProcType
<1>3. QED
  BY <1>1, <1>2 DEF ChildAction, ChildStep, procs, Announce, StartGuard, PublishWorker,
     OpenGate, GuardSeesEof, WorkerReports, WorkerEnds, RecordResult, ReleaseTask

LEMMA SupKeptStop ==
    ASSUME TypeInv, NEW o \in Stoppers, StopAction(o)
    PROVE  SupKept
<1> USE DEF TypeInv
<1>1. UNCHANGED <<started, childRec>>
  BY DEF StopAction, StopStep, StopLooks, OpenSupervisor, CollectRoots, TakeSnapshot,
     OpenCandidates, Quiesce, SignalWorkers, SignalChildren, Drained, EndSupervisor,
     SupervisorGone, RecordTerminated, ReleaseDrained, StopSucceeds, GivesUp,
     RecoverStale, StopKilled, records
<1>2. \A k \in Children : child'[k] = "live" => Live(k)
  <2>1. CASE child' = child BY <2>1 DEF Live
  <2>2. CASE SignalChildren(o) BY <2>2 DEF SignalChildren, Live, ProcType
  <2>3. QED
    BY <2>1, <2>2
       DEF StopAction, StopStep, StopLooks, OpenSupervisor, CollectRoots, TakeSnapshot,
           OpenCandidates, Quiesce, SignalWorkers, Drained, EndSupervisor, SupervisorGone,
           RecordTerminated, ReleaseDrained, StopSucceeds, GivesUp, RecoverStale,
           StopKilled, procs
<1>3. \A s \in Supervisors : sup'[s].pc = sup[s].pc /\ sup'[s].kid = sup[s].kid
  <2> USE DEF SupType, SupRecords
  <2>1. CASE sup' = sup BY <2>1
  <2>2. CASE Blocked(o) BY <2>2 DEF Blocked
  <2>3. CASE Quiesce(o) BY <2>3 DEF Quiesce
  <2>4. CASE EndSupervisor(o) BY <2>4 DEF EndSupervisor
  <2>5. QED
    BY <2>1, <2>2, <2>3, <2>4
       DEF StopAction, StopStep, StopLooks, OpenSupervisor, CollectRoots, TakeSnapshot,
           OpenCandidates, SignalWorkers, SignalChildren, Drained, SupervisorGone,
           RecordTerminated, ReleaseDrained, StopSucceeds, GivesUp, RecoverStale,
           StopKilled, procs
<1>4. QED BY <1>1, <1>2, <1>3 DEF SupKept

LEMMA RecordKept ==
    ASSUME TypeInv, Progress, SupKept, NEW s \in Supervisors, RecordInv(s)
    PROVE  RecordInv(s)'
<1>1. Recorded(s)' = Recorded(s) /\ Last(s)' = Last(s)
  BY DEF Recorded, Last, SupKept
<1>2. Recorded(s) \subseteq Children
  BY RecordedType DEF TypeInv
<1>3. sup[s].pc \in {"launched", "waiting"} => sup[s].kid \in Children
  BY DEF TypeInv, SupType
<1>4. QED
  BY <1>1, <1>2, <1>3 DEF RecordInv, SupKept, Progress, ChildProgress, Live

\* A stop takes the singleton lock from a supervisor that is gone only.
LEMMA SingletonStop ==
    ASSUME TypeInv, NEW o \in Stoppers, StopAction(o),
           \A s \in Supervisors : SingletonInv(s),
           NEW s \in Supervisors
    PROVE  SingletonInv(s)'
<1>1. sup'[s].pc = sup[s].pc BY SupKeptStop DEF SupKept
<1>2. CASE singleton' = singleton BY <1>1, <1>2 DEF SingletonInv
<1>3. CASE RecoverStale(o) /\ singleton' # singleton
  <2>1. ~PidExists(Sup(singleton)) BY <1>3 DEF RecoverStale
  <2>2. singleton = s => ~Running(s) BY <2>1, AliveProcs, AliveIsThere
  <2>3. QED BY <1>1, <2>2 DEF SingletonInv, Running
<1>4. QED
  BY <1>2, <1>3
     DEF StopAction, StopStep, StopLooks, OpenSupervisor, CollectRoots, TakeSnapshot,
         OpenCandidates, Quiesce, SignalWorkers, SignalChildren, Drained, EndSupervisor,
         SupervisorGone, RecordTerminated, ReleaseDrained, StopSucceeds, GivesUp,
         RecoverStale, StopKilled, records

\* The lock is taken when nobody has it, and given back by its holder or, once
\* that has ended, by the one who started it.
LEMMA SingletonSup ==
    ASSUME TypeInv, NEW s \in Supervisors, SupAction(s),
           \A t \in Supervisors : SingletonInv(t)
    PROVE  \A t \in Supervisors : SingletonInv(t)'
<1> USE AutopilotAssumption
    DEF TypeInv, SupType, SupRecords, RecordType, SingletonInv, NotBorn, Step, Gone,
        Running, MaySup, Undisturbed, AutopilotAssumption
<1>1. CASE BootRefused(s) \/ SupervisorKilled(s) \/ CandidateKilled(s)
  <2>1. Gone(s) /\ singleton' = singleton
    BY <1>1 DEF BootRefused, SupervisorKilled, CandidateKilled, records
  <2>2. QED BY <2>1
<1>2. CASE BootAcquires(s) BY <1>2 DEF BootAcquires
<1>3. CASE Enable(s) BY <1>3 DEF Enable
<1>4. ASSUME NEW k \in Children, LaunchChild(s, k) PROVE \A t \in Supervisors : SingletonInv(t)'
  BY <1>4 DEF LaunchChild, records
<1>5. CASE RecordChild(s) \/ LoopEnds(s) BY <1>5 DEF RecordChild, LoopEnds, records
<1>6. CASE CollectChild(s) BY <1>6 DEF CollectChild, records
<1>7. CASE TermDelivered(s) BY <1>7 DEF TermDelivered, records
<1>8. CASE ReleaseSingleton(s) BY <1>8 DEF ReleaseSingleton
<1>9. CASE StartDetached(s) BY <1>9 DEF StartDetached, records
<1>10. CASE StartVerified(s) BY <1>10 DEF StartVerified, records
<1>11. CASE StartUnverified(s) BY <1>11 DEF StartUnverified, records
<1>12. CASE CandidateCleaned(s) BY <1>12 DEF CandidateCleaned
<1>13. QED
  BY <1>1, <1>2, <1>3, <1>4, <1>5, <1>6, <1>7, <1>8, <1>9, <1>10, <1>11, <1>12
     DEF SupAction, StarterStep, SupervisorStep

\* A supervisor appends the record of the child it launched, and has collected
\* or terminated it before it goes on.
LEMMA RecordSup ==
    ASSUME TypeInv, Progress, NEW s \in Supervisors, SupAction(s),
           \A t \in Supervisors : RecordInv(t)
    PROVE  \A t \in Supervisors : RecordInv(t)'
<1> USE DEF TypeInv
<1>a. \A t \in Supervisors : Recorded(t) \subseteq Children
  BY RecordedType
<1>k. \A t \in Supervisors : sup[t].pc \in {"launched", "waiting"} => sup[t].kid \in Children
  BY DEF SupType
<1>1. ASSUME UNCHANGED <<child, childRec>>,
             started' \subseteq started \cup {t \in Supervisors : sup[t].pc # "off"},
             \A t \in Supervisors :
               /\ sup'[t].pc \in {"launched", "waiting"} =>
                    sup'[t].pc = sup[t].pc /\ sup'[t].kid = sup[t].kid
               /\ sup[t].pc \in {"waiting", "gone"} =>
                    \/ sup'[t].pc \in {"waiting", "gone"}
                    \/ sup[t].pc = "waiting" /\ child[sup[t].kid] = "dead"
      PROVE  \A t \in Supervisors : RecordInv(t)'
  <2> TAKE t \in Supervisors
  <2>1. Recorded(t)' = Recorded(t) /\ Last(t)' = Last(t)
    BY <1>1 DEF Recorded, Last
  <2>2. \A k \in Recorded(t) : /\ child'[k] # "none"
                               /\ child'[k] = "live" => k = Last(t) /\ sup'[t].pc \in {"waiting", "gone"}
    BY <1>1, <1>a DEF RecordInv, Live
  <2>3. t \in started' => sup'[t].pc # "off"
    BY <1>1 DEF RecordInv, Progress
  <2>4. sup'[t].pc \in {"launched", "waiting"} => child'[sup'[t].kid] # "none"
    BY <1>1 DEF RecordInv
  <2>5. sup'[t].pc = "waiting" => sup'[t].kid = Last(t)
    BY <1>1 DEF RecordInv
  <2>6. QED BY <2>1, <2>2, <2>3, <2>4, <2>5 DEF RecordInv, Live
<1>2. CASE ~((\E k \in Children : LaunchChild(s, k)) \/ RecordChild(s) \/ TermDelivered(s))
  <2> USE DEF SupType, SupRecords, NotBorn, Step, Gone, MaySup, Undisturbed, Running
  <2>1. UNCHANGED <<child, childRec>>
    BY <1>2
      DEF SupAction, StarterStep, SupervisorStep, StartDetached, StartVerified,
          StartUnverified, CandidateKilled, CandidateCleaned, BootRefused,
          BootAcquires, Enable, CollectChild, LoopEnds, ReleaseSingleton,
          SupervisorKilled, records
  <2>2. CASE Gone(s) /\ started' = started BY <1>1, <2>1, <2>2
  <2>3. CASE BootAcquires(s) BY <1>1, <2>1, <2>3 DEF BootAcquires
  <2>4. CASE Enable(s) BY <1>1, <2>1, <2>4 DEF Enable
  <2>5. CASE CollectChild(s) BY <1>1, <2>1, <2>5 DEF CollectChild, records
  <2>6. CASE LoopEnds(s) BY <1>1, <2>1, <2>6 DEF LoopEnds, records
  <2>7. CASE StartDetached(s) BY <1>1, <2>1, <2>7 DEF StartDetached, records
  <2>8. CASE StartUnverified(s)
    <3>1. CASE sup' = sup BY <1>1, <2>1, <2>8, <3>1 DEF StartUnverified, records
    <3>2. CASE sup' = [sup EXCEPT ![s].term = TRUE]
      BY <1>1, <2>1, <2>8, <3>2 DEF StartUnverified, records
    <3>3. CASE Gone(s) BY <2>2, <2>8, <3>3 DEF StartUnverified, records
    <3>4. QED BY <2>8, <3>1, <3>2, <3>3 DEF StartUnverified
  <2>9. CASE StartVerified(s) \/ CandidateCleaned(s)
    BY <1>1, <2>1, <2>9 DEF StartVerified, CandidateCleaned, records
  <2>10. CASE BootRefused(s) \/ ReleaseSingleton(s) \/ SupervisorKilled(s) \/ CandidateKilled(s)
    BY <2>2, <2>10
      DEF BootRefused, ReleaseSingleton, SupervisorKilled, CandidateKilled, records
  <2>11. QED
    BY <1>2, <2>3, <2>4, <2>5, <2>6, <2>7, <2>8, <2>9, <2>10
       DEF SupAction, StarterStep, SupervisorStep
<1>3. ASSUME NEW k \in Children, LaunchChild(s, k) PROVE \A t \in Supervisors : RecordInv(t)'
  <2>1. childRec' = childRec /\ started' = started /\ child[k] = "none"
    BY <1>3 DEF LaunchChild, records
  <2>2. /\ sup'[s].pc = "launched" /\ sup'[s].kid = k
        /\ \A t \in Supervisors : t # s => sup'[t] = sup[t]
        /\ child' = [child EXCEPT ![k] = "live"]
    BY <1>3 DEF LaunchChild, SupType, SupRecords
  <2>3. sup[s].pc = "cycle"
    BY <1>3 DEF LaunchChild, Undisturbed, MaySup
  <2> TAKE t \in Supervisors
  <2>4. Recorded(t)' = Recorded(t) /\ Last(t)' = Last(t)
    BY <2>1 DEF Recorded, Last
  <2>5. \A j \in Recorded(t) : /\ child'[j] # "none"
                               /\ child'[j] = "live" => j = Last(t) /\ sup'[t].pc \in {"waiting", "gone"}
    BY <1>a, <2>1, <2>2, <2>3 DEF RecordInv, Live, ProcType
  <2>6. sup'[t].pc \in {"launched", "waiting"} => child'[sup'[t].kid] # "none"
    BY <1>k, <2>2 DEF RecordInv, ProcType
  <2>7. t \in started' => sup'[t].pc # "off"
    BY <2>1 DEF RecordInv, Progress
  <2>8. sup'[t].pc = "waiting" => sup'[t].kid = Last(t)
    BY <2>2 DEF RecordInv
  <2>9. QED BY <2>4, <2>5, <2>6, <2>7, <2>8 DEF RecordInv, Live
<1>4. CASE RecordChild(s)
  <2>1. child' = child /\ started' = started
    BY <1>4 DEF RecordChild
  <2>2. /\ sup'[s].pc = "waiting" /\ sup'[s].kid = sup[s].kid /\ sup[s].pc = "launched"
        /\ \A t \in Supervisors : t # s => sup'[t] = sup[t]
    BY <1>4 DEF RecordChild, Step, Undisturbed, MaySup, SupType, SupRecords
  <2>3. \A t \in Supervisors : t # s => childRec'[t] = childRec[t]
    BY <1>4 DEF RecordChild, RecordType
  <2>4. childRec'[s] = Append(childRec[s], sup[s].kid) /\ childRec[s] \in Seq(Children)
    BY <1>4 DEF RecordChild, RecordType
  <2>5. Last(s)' = sup[s].kid
    BY <1>k, <2>2, <2>4 DEF Last
  <2>6. \A k \in Recorded(s)' : k \in Recorded(s) \/ k = sup[s].kid
    BY <1>k, <2>2, <2>4 DEF Recorded
  <2>7. RecordInv(s)'
    <3>1. \A k \in Recorded(s) : child[k] # "none" /\ ~Live(k)
      BY <2>2 DEF RecordInv
    <3>2. \A k \in Recorded(s)' : child'[k] # "none" /\ (child'[k] = "live" => k = Last(s)')
      BY <2>1, <2>2, <2>5, <2>6, <3>1 DEF RecordInv, Live
    <3>3. s \in started' => sup'[s].pc # "off"
      BY <2>1, <2>2
    <3>4. child'[sup'[s].kid] # "none" /\ sup'[s].kid = Last(s)'
      BY <2>1, <2>2, <2>5 DEF RecordInv
    <3>5. QED BY <2>2, <3>2, <3>3, <3>4 DEF RecordInv, Live
  <2>8. ASSUME NEW t \in Supervisors, t # s PROVE RecordInv(t)'
    <3>1. Recorded(t)' = Recorded(t) /\ Last(t)' = Last(t) /\ sup'[t] = sup[t]
      BY <2>2, <2>3, <2>8 DEF Recorded, Last
    <3>2. QED BY <2>1, <3>1 DEF RecordInv, Live
  <2>9. QED BY <2>7, <2>8
<1>5. CASE TermDelivered(s)
  <2>1. childRec' = childRec /\ started' = started
    BY <1>5 DEF TermDelivered, records
  <2>2. /\ sup'[s].pc \in {"gone", "unwinding"}
        /\ sup[s].pc \in {"cycle", "launched", "waiting", "finishing"}
        /\ \A t \in Supervisors : t # s => sup'[t] = sup[t]
    BY <1>5 DEF TermDelivered, SupType, SupRecords
  <2>3. /\ \A k \in Children : child'[k] = "live" => Live(k)
        /\ sup[s].pc = "waiting" => child'[sup[s].kid] = "dead"
    BY <1>5, <1>k DEF TermDelivered, ProcType, Live
  <2> TAKE t \in Supervisors
  <2>4. Recorded(t)' = Recorded(t) /\ Last(t)' = Last(t)
    BY <2>1 DEF Recorded, Last
  <2>5. \A j \in Recorded(t) : child'[j] # "none"
    BY <1>a DEF RecordInv, Progress, ChildProgress
  <2>6. \A j \in Recorded(t) : child'[j] = "live" => j = Last(t) /\ sup'[t].pc \in {"waiting", "gone"}
    BY <1>a, <2>2, <2>3 DEF RecordInv, Live
  <2>7. sup'[t].pc \in {"launched", "waiting"} => child'[sup'[t].kid] # "none"
    BY <1>k, <2>2 DEF RecordInv, Progress, ChildProgress
  <2>8. t \in started' => sup'[t].pc # "off"
    BY <2>1 DEF RecordInv, Progress
  <2>9. sup'[t].pc = "waiting" => sup'[t].kid = Last(t)
    BY <2>2 DEF RecordInv
  <2>10. QED BY <2>4, <2>5, <2>6, <2>7, <2>8, <2>9 DEF RecordInv, Live
<1>6. QED BY <1>2, <1>3, <1>4, <1>5

-----------------------------------------------------------------------------
(* Children: the worker, the task lock and the result of a run *)

LEMMA WorkerSup ==
    ASSUME NEW s \in Supervisors, SupAction(s)
    PROVE  UNCHANGED <<worker, lock, result>>
BY DEF SupAction, StarterStep, SupervisorStep, StartDetached, StartVerified,
   StartUnverified, CandidateKilled, CandidateCleaned, BootRefused, BootAcquires, Enable,
   LaunchChild, RecordChild, CollectChild, LoopEnds, TermDelivered, ReleaseSingleton,
   SupervisorKilled, records

LEMMA WorkerChild ==
    ASSUME TypeInv, NEW k \in Children, ChildAction(k), \A j \in Children : WorkerInv(j)
    PROVE  \A j \in Children : WorkerInv(j)'
<1> USE DEF TypeInv, ProcType, RecordType, Lock
<1>1. \A j \in Children : j # k => /\ worker'[j] = worker[j]
                                   /\ lock'[j] = lock[j]
                                   /\ result'[j] = result[j]
  BY DEF ChildAction, ChildStep, procs, records, Announce, StartGuard, PublishWorker,
     OpenGate, GuardSeesEof, WorkerReports, WorkerEnds, RecordResult, ReleaseTask,
     ChildExits, ChildKilled
<1>2. WorkerInv(k)'
  <2> USE DEF WorkerInv
  <2>1. CASE Announce(k) \/ ChildExits(k) \/ ChildKilled(k)
    BY <2>1 DEF Announce, ChildExits, ChildKilled, procs, records
  <2>2. CASE StartGuard(k) BY <2>2 DEF StartGuard
  <2>3. CASE PublishWorker(k) BY <2>3 DEF PublishWorker, procs
  <2>4. CASE OpenGate(k) BY <2>4 DEF OpenGate, records
  <2>5. CASE GuardSeesEof(k) \/ WorkerEnds(k)
    BY <2>5 DEF GuardSeesEof, WorkerEnds, records
  <2>6. CASE WorkerReports(k) BY <2>6 DEF WorkerReports, procs
  <2>7. CASE RecordResult(k) BY <2>7 DEF RecordResult, procs
  <2>8. CASE ReleaseTask(k) BY <2>8 DEF ReleaseTask, procs
  <2>9. QED
    BY <2>1, <2>2, <2>3, <2>4, <2>5, <2>6, <2>7, <2>8 DEF ChildAction, ChildStep
<1>3. \A j \in Children : j # k => WorkerInv(j)'
  BY <1>1 DEF WorkerInv
<1>4. QED BY <1>2, <1>3

\* A stop records and releases for workers it has seen dead.
LEMMA WorkerStop ==
    ASSUME TypeInv, NEW o \in Stoppers, StopAction(o), OwnedInv(o),
           \A j \in Children : WorkerInv(j)
    PROVE  \A j \in Children : WorkerInv(j)'
<1> USE DEF TypeInv, ProcType, RecordType, WorkerInv
<1>1. CASE UNCHANGED <<worker, lock, result>> BY <1>1
<1>2. CASE SignalWorkers(o) BY <1>2 DEF SignalWorkers, records
<1>3. ASSUME NEW k \in Children, RecordTerminated(o, k) PROVE \A j \in Children : WorkerInv(j)'
  <2>1. worker[k] = "dead" BY <1>3 DEF RecordTerminated, OwnedInv, At
  <2>2. QED BY <1>3, <2>1 DEF RecordTerminated, procs
<1>4. ASSUME NEW k \in Children, ReleaseDrained(o, k) PROVE \A j \in Children : WorkerInv(j)'
  <2>1. worker[k] = "dead" BY <1>4 DEF ReleaseDrained, OwnedInv, At
  <2>2. QED BY <1>4, <2>1 DEF ReleaseDrained, Lock, procs
<1>5. QED
  BY <1>1, <1>2, <1>3, <1>4
     DEF StopAction, StopStep, StopLooks, OpenSupervisor, CollectRoots, TakeSnapshot,
         OpenCandidates, Quiesce, SignalChildren, Drained, EndSupervisor, SupervisorGone,
         StopSucceeds, GivesUp, RecoverStale, StopKilled, procs, records

-----------------------------------------------------------------------------
(* Stops *)

\* A stop that takes no step keeps what it knows: nothing it relies on is
\* taken back.
LEMMA StopKept ==
    ASSUME TypeInv, Progress, NEW o \in Stoppers, stop'[o] = stop[o],
           StopInv(o), OwnedInv(o), SeenInv(o)
    PROVE  StopInv(o)' /\ OwnedInv(o)' /\ SeenInv(o)'
<1> USE DEF TypeInv, StopType, StopRecords, Progress, ChildProgress
<1>1. StopInv(o)'
  BY DEF StopInv, Target
<1>2. OwnedInv(o)'
  BY DEF OwnedInv
<1>3. SeenInv(o)'
  <2> SUFFICES ASSUME stop[o].pc \in ActivePCs, NEW k \in stop[o].seen
               PROVE  /\ child'[k] # "none"
                      /\ child'[k] = "live" => SeenChild(o, k)
                      /\ worker'[k] = "working" => SeenWorker(o, k)
    BY DEF SeenInv, SeenChild, SeenWorker, SeenDead, Live
  <2>1. k \in Children /\ child[k] # "none" BY DEF SeenInv
  <2>2. child'[k] = "live" => Live(k) BY <2>1 DEF Live
  <2>3. Live(k) => SeenWorker(o, k) BY DEF SeenInv, SeenChild, SeenDead, SeenWorker
  <2>4. QED BY <2>1, <2>2, <2>3 DEF SeenInv
<1>4. QED BY <1>1, <1>2, <1>3

LEMMA StopOnly ==
    ASSUME TypeInv, NEW o \in Stoppers, StopAction(o)
    PROVE  \A p \in Stoppers : p # o => stop'[p] = stop[p]
<1> USE DEF TypeInv, StopType
<1>1. CASE UNCHANGED stop BY <1>1
<1>2. CASE Blocked(o) BY <1>2 DEF Blocked
<1>3. CASE \E c \in StopStates : Goto(o, c) BY <1>3 DEF Goto
<1>4. CASE StopLooks(o) \/ TakeSnapshot(o) \/ Quiesce(o) \/ Drained(o)
  BY <1>4 DEF StopLooks, TakeSnapshot, Quiesce, Drained
<1>5. CASE CollectRoots(o) \/ OpenCandidates(o)
  BY <1>2, <1>5 DEF CollectRoots, OpenCandidates
<1>6. CASE RecoverStale(o) \/ StopKilled(o)
  BY <1>6 DEF RecoverStale, StopKilled
<1>7. QED
  BY <1>1, <1>2, <1>3, <1>4, <1>5, <1>6
     DEF StopAction, StopStep, OpenSupervisor, SignalWorkers, SignalChildren,
         EndSupervisor, SupervisorGone, RecordTerminated, ReleaseDrained, StopSucceeds,
         GivesUp, procs, Goto

\* The steps of a stop that write more than where it is, field by field.
LEMMA CollectEffect ==
    ASSUME StopType, NEW o \in Stoppers, CollectRoots(o), ~Blocked(o)
    PROVE  /\ Looking(o) /\ ~RootsRefused(Target(o))
           /\ stop'[o].roots = RootsOf(Target(o))
           /\ stop'[o].seen = IF At(o, "opened") THEN Recorded(Target(o)) ELSE stop[o].seen
           /\ stop'[o].pass = IF At(o, "opened") THEN 1 ELSE 2
           /\ stop'[o].pc = IF RootsOf(Target(o)) # {} THEN "rooted"
                            ELSE IF At(o, "opened") THEN "quiescing" ELSE "ending"
           /\ stop'[o].target = stop[o].target
           /\ stop'[o].fds = stop[o].fds
           /\ stop'[o].wrong = stop[o].wrong
           /\ stop'[o].owned = stop[o].owned
           /\ stop'[o].quiesced = stop[o].quiesced
<1> DEFINE r == RootsOf(Target(o))
           n == IF At(o, "opened") THEN Recorded(Target(o)) ELSE stop[o].seen
           s == IF At(o, "opened") THEN 1 ELSE 2
           c == IF RootsOf(Target(o)) # {} THEN "rooted"
                ELSE IF At(o, "opened") THEN "quiescing" ELSE "ending"
<1>1. Looking(o) /\ ~RootsRefused(Target(o))
  BY DEF CollectRoots
<1>2. stop' = [stop EXCEPT ![o].roots = r, ![o].seen = n, ![o].pass = s, ![o].pc = c]
  BY <1>1 DEF CollectRoots
<1>3. stop[o] \in StopRecords /\ stop \in [Stoppers -> StopRecords]
  BY DEF StopType
<1> HIDE DEF r, n, s, c
<1>4. stop'[o] = [stop[o] EXCEPT !.roots = r, !.seen = n, !.pass = s, !.pc = c]
  BY <1>2, <1>3
<1>5. QED BY <1>1, <1>3, <1>4 DEF StopRecords, r, n, s, c

LEMMA SnapshotEffect ==
    ASSUME StopType, NEW o \in Stoppers, TakeSnapshot(o)
    PROVE  /\ At(o, "rooted")
           /\ stop'[o].fds = Snapshot(o)
           /\ stop'[o].roots = {}
           /\ stop'[o].owned = stop[o].owned
                 \cup {k \in Children : Worker(k) \in stop[o].roots \cap Snapshot(o)}
           /\ stop'[o].pc = IF Snapshot(o) # {} THEN "opening"
                            ELSE IF stop[o].pass = 1 THEN "rescanning" ELSE "ending"
           /\ stop'[o].target = stop[o].target
           /\ stop'[o].pass = stop[o].pass
           /\ stop'[o].seen = stop[o].seen
           /\ stop'[o].wrong = stop[o].wrong
           /\ stop'[o].quiesced = stop[o].quiesced
<1> DEFINE w == stop[o].owned
                  \cup {k \in Children : Worker(k) \in stop[o].roots \cap Snapshot(o)}
           n == {k \in Children : Worker(k) \in Snapshot(o) /\ Live(k)}
           c == IF Snapshot(o) # {} THEN "opening"
                ELSE IF stop[o].pass = 1 THEN "rescanning" ELSE "ending"
<1>1. At(o, "rooted")
  BY DEF TakeSnapshot
<1>2. stop' = [stop EXCEPT ![o].fds = Snapshot(o), ![o].roots = {}, ![o].owned = w,
                           ![o].kin = n, ![o].pc = c]
  BY DEF TakeSnapshot
<1>3. stop[o] \in StopRecords /\ stop \in [Stoppers -> StopRecords]
  BY DEF StopType
<1> HIDE DEF w, n, c
<1>4. stop'[o] = [stop[o] EXCEPT !.fds = Snapshot(o), !.roots = {}, !.owned = w, !.kin = n,
                                 !.pc = c]
  BY <1>2, <1>3
<1>5. QED BY <1>1, <1>3, <1>4 DEF StopRecords, w, n, c

LEMMA OpenEffect ==
    ASSUME StopType, NEW o \in Stoppers, OpenCandidates(o), ~Blocked(o)
    PROVE  /\ At(o, "opening")
           /\ stop'[o].wrong = FALSE
           /\ stop'[o].pc = IF stop[o].pass = 1 THEN "quiescing" ELSE "signalling"
           /\ stop'[o].target = stop[o].target
           /\ stop'[o].pass = stop[o].pass
           /\ stop'[o].seen = stop[o].seen
           /\ stop'[o].roots = stop[o].roots
           /\ stop'[o].fds = stop[o].fds
           /\ stop'[o].owned = stop[o].owned
           /\ stop'[o].quiesced = stop[o].quiesced
<1> DEFINE c == IF stop[o].pass = 1 THEN "quiescing" ELSE "signalling"
<1>1. At(o, "opening") /\ ~IdentityChanged(o)
  BY DEF OpenCandidates
<1>2. stop[o].fds \cap strangers = {}
  BY <1>1 DEF IdentityChanged
<1>3. stop' = [stop EXCEPT ![o].wrong = FALSE, ![o].kin = {}, ![o].pc = c]
  BY <1>1, <1>2 DEF OpenCandidates
<1>4. stop[o] \in StopRecords /\ stop \in [Stoppers -> StopRecords]
  BY DEF StopType
<1> HIDE DEF c
<1>5. stop'[o] = [stop[o] EXCEPT !.wrong = FALSE, !.kin = {}, !.pc = c]
  BY <1>3, <1>4
<1>6. QED BY <1>1, <1>4, <1>5 DEF StopRecords, c

\* The others change where the stop is and at most one thing beside.
LEMMA GotoEffect ==
    ASSUME StopType, NEW o \in Stoppers, NEW c, Goto(o, c)
    PROVE  stop'[o] = [stop[o] EXCEPT !.pc = c]
BY DEF StopType, Goto

LEMMA QuiesceEffect ==
    ASSUME StopType, NEW o \in Stoppers, Quiesce(o)
    PROVE  /\ At(o, "quiescing")
           /\ stop'[o].pc = IF stop[o].fds # {} THEN "signalling" ELSE "rescanning"
           /\ stop'[o].target = stop[o].target
           /\ stop'[o].pass = stop[o].pass
           /\ stop'[o].seen = stop[o].seen
           /\ stop'[o].roots = stop[o].roots
           /\ stop'[o].fds = stop[o].fds
           /\ stop'[o].wrong = stop[o].wrong
           /\ stop'[o].owned = stop[o].owned
           /\ stop'[o].quiesced = TRUE
<1> DEFINE c == IF stop[o].fds # {} THEN "signalling" ELSE "rescanning"
<1>1. stop' = [stop EXCEPT ![o].pc = c, ![o].quiesced = TRUE] /\ At(o, "quiescing")
  BY DEF Quiesce, At
<1>2. stop[o] \in StopRecords /\ stop \in [Stoppers -> StopRecords]
  BY DEF StopType
<1> HIDE DEF c
<1>3. stop'[o] = [stop[o] EXCEPT !.pc = c, !.quiesced = TRUE]
  BY <1>1, <1>2
<1>4. QED BY <1>1, <1>2, <1>3 DEF StopRecords, c

LEMMA DrainedEffect ==
    ASSUME StopType, NEW o \in Stoppers, Drained(o)
    PROVE  /\ At(o, "draining") /\ \A p \in stop[o].fds : ~Alive(p)
           /\ stop'[o].pc = IF stop[o].pass = 1 THEN "rescanning" ELSE "ending"
           /\ stop'[o].target = stop[o].target
           /\ stop'[o].pass = stop[o].pass
           /\ stop'[o].seen = stop[o].seen
           /\ stop'[o].roots = stop[o].roots
           /\ stop'[o].fds = {}
           /\ stop'[o].wrong = stop[o].wrong
           /\ stop'[o].owned = stop[o].owned
           /\ stop'[o].quiesced = stop[o].quiesced
<1> DEFINE c == IF stop[o].pass = 1 THEN "rescanning" ELSE "ending"
<1>1. stop' = [stop EXCEPT ![o].fds = {}, ![o].pc = c]
  BY DEF Drained
<1>2. stop[o] \in StopRecords /\ stop \in [Stoppers -> StopRecords]
  BY DEF StopType
<1> HIDE DEF c
<1>3. stop'[o] = [stop[o] EXCEPT !.fds = {}, !.pc = c]
  BY <1>1, <1>2
<1>4. QED BY <1>2, <1>3 DEF StopRecords, c, Drained

\* A stop that ends without success forgets what it did.
LEMMA EndEffect ==
    ASSUME StopType, NEW o \in Stoppers, Blocked(o) \/ RecoverStale(o) \/ StopKilled(o)
    PROVE  \/ \E c \in {"blocked", "recovered", "killed"} : stop'[o] = [Idle EXCEPT !.pc = c]
           \/ stop'[o] = [Idle EXCEPT !.pc = "killed", !.quiesced = TRUE, !.target = Target(o)]
BY DEF StopType, Blocked, RecoverStale, StopKilled

LEMMA LooksEffect ==
    ASSUME StopType, NEW o \in Stoppers, StopLooks(o)
    PROVE  /\ At(o, "idle") /\ singleton # NoOne
           /\ \E c \in {"recovering", "found", "blocked"} :
                /\ stop'[o] = [stop[o] EXCEPT !.target = singleton, !.pc = c]
                /\ c = "found" => singleton \in started
BY DEF StopType, StopLooks


LEMMA StopInvStep ==
    ASSUME TypeInv, NEW o \in Stoppers, StopAction(o), StopInv(o),
           \A s \in Supervisors : RecordInv(s)
    PROVE  StopInv(o)'
<1> USE DEF StopInv, StopRecords, Target, ActivePCs, EndPCs, FreezingPCs, At
<1>p. \A s \in Supervisors : sup'[s].pc = sup[s].pc
  BY SupKeptStop DEF SupKept
<1>t. StopType /\ stop[o] \in StopRecords
  BY DEF TypeInv, StopType
<1>1. CASE Blocked(o) \/ RecoverStale(o) \/ StopKilled(o)
  <2>1. CASE \E c \in {"blocked", "recovered", "killed"} : stop'[o] = [Idle EXCEPT !.pc = c]
    <3>1. PICK c \in {"blocked", "recovered", "killed"} : stop'[o] = [Idle EXCEPT !.pc = c]
      BY <2>1
    <3>2. /\ stop'[o].pc \in {"blocked", "recovered", "killed"}
          /\ ~stop'[o].quiesced /\ ~stop'[o].wrong
      BY <3>1 DEF Idle
    <3>3. QED BY <3>2
  <2>2. CASE stop'[o] = [Idle EXCEPT !.pc = "killed", !.quiesced = TRUE, !.target = Target(o)]
    BY <2>2 DEF Idle
  <2>3. QED BY <1>1, <1>t, <2>1, <2>2, EndEffect
<1>2. CASE StopLooks(o)
  <2>1. singleton \in Supervisors BY <1>2 DEF StopLooks, TypeInv, RecordType
  <2>2. singleton \in started => sup[singleton].pc # "off" BY <2>1 DEF RecordInv
  <2>3. stop[o] = Idle BY <1>2, <1>t, LooksEffect
  <2>4. PICK c \in {"recovering", "found", "blocked"} :
          /\ stop'[o] = [stop[o] EXCEPT !.target = singleton, !.pc = c]
          /\ c = "found" => singleton \in started
    BY <1>2, <1>t, LooksEffect
  <2>5. QED BY <1>p, <2>1, <2>2, <2>3, <2>4 DEF Idle
<1>3. CASE OpenSupervisor(o)
  <2>1. PICK c \in {"opened", "blocked"} : Goto(o, c) /\ At(o, "found")
    BY <1>3 DEF OpenSupervisor
  <2>2. stop'[o] = [stop[o] EXCEPT !.pc = c] BY <1>t, <2>1, GotoEffect
  <2>3. QED BY <1>p, <1>t, <2>1, <2>2
<1>4. CASE CollectRoots(o)
  <2>1. CASE ~Blocked(o) BY <1>4, <1>p, <1>t, <2>1, CollectEffect DEF Looking
  <2>2. QED BY <1>1, <2>1
<1>5. CASE TakeSnapshot(o) BY <1>5, <1>p, <1>t, SnapshotEffect
<1>6. CASE OpenCandidates(o)
  <2>1. CASE ~Blocked(o)
    <3>1. /\ stop[o].pc = "opening" /\ stop'[o].wrong = FALSE
          /\ stop'[o].pc = IF stop[o].pass = 1 THEN "quiescing" ELSE "signalling"
          /\ stop'[o].target = stop[o].target /\ stop'[o].pass = stop[o].pass
          /\ stop'[o].quiesced = stop[o].quiesced
      BY <1>6, <1>t, <2>1, OpenEffect
    <3>2. QED BY <1>p, <3>1
  <2>2. QED BY <1>1, <2>1
<1>7. CASE Quiesce(o)
  <2>1. /\ stop[o].pc = "quiescing" /\ stop'[o].pc \in {"signalling", "rescanning"}
        /\ stop'[o].target = stop[o].target /\ stop'[o].wrong = stop[o].wrong
    BY <1>7, <1>t, QuiesceEffect
  <2>2. QED BY <1>p, <2>1
<1>8. CASE Drained(o)
  <2>1. /\ stop[o].pc = "draining" /\ stop'[o].pc \in {"rescanning", "ending"}
        /\ stop'[o].target = stop[o].target /\ stop'[o].wrong = stop[o].wrong
        /\ stop'[o].quiesced = stop[o].quiesced
    BY <1>8, <1>t, DrainedEffect
  <2>2. QED BY <1>p, <2>1
<1>9. CASE \/ SignalWorkers(o) \/ SignalChildren(o) \/ EndSupervisor(o)
           \/ SupervisorGone(o) \/ StopSucceeds(o)
  <2>1. PICK c \in {"leaves", "draining", "waiting", "reconciling", "stopped"} :
          /\ Goto(o, c)
          /\ stop[o].pc \in ActivePCs
          /\ stop[o].quiesced => stop[o].pc \in FreezingPCs \cup EndPCs
    BY <1>9 DEF SignalWorkers, SignalChildren, EndSupervisor, SupervisorGone, StopSucceeds
  <2>2. stop'[o] = [stop[o] EXCEPT !.pc = c] BY <1>t, <2>1, GotoEffect
  <2>3. QED BY <1>p, <1>t, <2>1, <2>2
<1>10. CASE stop' = stop BY <1>10, <1>p
<1>11. QED
  BY <1>1, <1>2, <1>3, <1>4, <1>5, <1>6, <1>7, <1>8, <1>9, <1>10
     DEF StopAction, StopStep, GivesUp, RecordTerminated, ReleaseDrained, procs

\* The look after a published worker: a task lock that is identified.
LEMMA OwnedInvStep ==
    ASSUME TypeInv, Progress, NEW o \in Stoppers, StopAction(o),
           StopInv(o), OwnedInv(o), \A k \in Children : WorkerInv(k)
    PROVE  OwnedInv(o)'
<1> USE DEF OwnedInv, StopRecords, At
<1>t. StopType /\ stop[o] \in StopRecords
  BY DEF TypeInv, StopType
<1>k. \A k \in Children :
        /\ lock[k] \in {"identified", "released"} => lock'[k] \in {"identified", "released"}
        /\ lock[k] = "released" => lock'[k] = "released"
        /\ worker[k] = "dead" => worker'[k] = "dead"
  BY DEF Progress, ChildProgress
<1>0. \A k \in stop[o].owned : k \in Children /\ lock'[k] \in {"identified", "released"}
  BY <1>k, <1>t
<1>r. \A k \in Children : Worker(k) \in stop[o].roots => lock'[k] \in {"identified", "released"}
  BY <1>k
<1>1. CASE Blocked(o) \/ RecoverStale(o) \/ StopKilled(o)
  <2>1. stop'[o].owned = {} /\ stop'[o].roots = {}
    <3>1. CASE \E c \in {"blocked", "recovered", "killed"} : stop'[o] = [Idle EXCEPT !.pc = c]
      BY <3>1 DEF Idle
    <3>2. CASE stop'[o] = [Idle EXCEPT !.pc = "killed", !.quiesced = TRUE, !.target = Target(o)]
      BY <3>2 DEF Idle
    <3>3. QED BY <1>1, <1>t, <3>1, <3>2, EndEffect
  <2>2. QED BY <2>1
<1>2. CASE StopLooks(o)
  <2>1. stop[o] = Idle
    BY <1>2 DEF StopLooks, StopInv
  <2>2. stop[o].owned = {} /\ stop[o].roots = {}
    BY <2>1 DEF Idle
  <2>3. PICK c \in {"recovering", "found", "blocked"} :
          stop'[o] = [stop[o] EXCEPT !.target = singleton, !.pc = c]
    BY <1>2, <1>t, LooksEffect
  <2>4. stop'[o].owned = {} /\ stop'[o].roots = {}
    BY <1>t, <2>2, <2>3
  <2>5. QED BY <2>4
<1>4. CASE CollectRoots(o)
  <2>1. CASE ~Blocked(o)
    <3>1. stop'[o].roots = RootsOf(Target(o)) /\ stop'[o].owned = stop[o].owned
      BY <1>4, <1>t, <2>1, CollectEffect
    <3>2. \A k \in Children : Worker(k) \in RootsOf(Target(o)) => lock[k] = "identified"
      <4> TAKE k \in Children
      <4> HAVE Worker(k) \in RootsOf(Target(o))
      <4>1. \A j : Child(j) # Worker(k) BY DEF Child, Worker
      <4>2. PICK j \in Identified : Worker(k) = Worker(j) BY <4>1 DEF RootsOf
      <4>3. j = k BY <4>2 DEF Worker
      <4>4. QED BY <4>2, <4>3 DEF Identified
    <3>3. \A k \in stop[o].owned : worker'[k] = "dead"
      BY <1>0, <1>4, <1>k DEF CollectRoots, Looking
    <3>4. stop'[o].pc # "stopped"
      BY <1>4, <1>t, <2>1, CollectEffect
    <3>5. QED BY <1>0, <1>k, <3>1, <3>2, <3>3, <3>4
  <2>2. QED BY <1>1, <2>1
<1>5. CASE TakeSnapshot(o)
  <2>1. /\ stop'[o].roots = {} /\ stop'[o].fds = Snapshot(o)
        /\ stop'[o].owned = stop[o].owned
              \cup {k \in Children : Worker(k) \in stop[o].roots \cap Snapshot(o)}
        /\ Snapshot(o) # {} => stop'[o].pc = "opening"
        /\ stop'[o].pc # "stopped" /\ stop[o].pc = "rooted"
    BY <1>5, <1>t, SnapshotEffect
  <2>2. \A k \in stop[o].owned : worker'[k] = "dead"
    BY <1>0, <1>k, <2>1
  <2>3. QED BY <1>0, <1>r, <2>1, <2>2
<1>6. CASE OpenCandidates(o)
  <2>1. CASE ~Blocked(o)
    <3>1. /\ stop'[o].roots = stop[o].roots /\ stop'[o].owned = stop[o].owned
          /\ stop'[o].fds = stop[o].fds
          /\ stop'[o].pc \in {"quiescing", "signalling"}
      BY <1>6, <1>t, <2>1, OpenEffect
    <3>2. QED BY <1>0, <1>k, <1>r, <3>1
  <2>2. QED BY <1>1, <2>1
<1>7. CASE Quiesce(o)
  <2>1. /\ stop'[o].roots = stop[o].roots /\ stop'[o].owned = stop[o].owned
        /\ stop'[o].fds = stop[o].fds
        /\ stop[o].fds # {} => stop'[o].pc = "signalling"
        /\ stop'[o].pc # "stopped"
    BY <1>7, <1>t, QuiesceEffect
  <2>2. QED BY <1>0, <1>k, <1>r, <2>1
<1>8. CASE Drained(o)
  <2>1. /\ stop'[o].roots = stop[o].roots /\ stop'[o].owned = stop[o].owned
        /\ stop'[o].pc # "stopped"
    BY <1>8, <1>t, DrainedEffect
  <2>2. \A k \in stop[o].owned : worker[k] = "dead"
    <3> TAKE k \in stop[o].owned
    <3>1. Worker(k) \in stop[o].fds => worker[k] \notin {"gated", "working"}
      BY <1>0, <1>8, AliveProcs DEF Drained
    <3>2. worker[k] # "none" BY <1>0 DEF WorkerInv
    <3>3. worker[k] \in {"none", "gated", "working", "dead"}
      BY <1>0 DEF TypeInv, ProcType
    <3>4. QED BY <3>1, <3>2, <3>3
  <2>3. QED BY <1>0, <1>k, <1>r, <2>1, <2>2
<1>9. CASE SignalWorkers(o) \/ SignalChildren(o)
  <2>1. PICK c \in {"leaves", "draining"} : Goto(o, c)
    BY <1>9 DEF SignalWorkers, SignalChildren
  <2>2. stop'[o] = [stop[o] EXCEPT !.pc = c] BY <1>t, <2>1, GotoEffect
  <2>3. QED BY <1>0, <1>k, <1>r, <1>t, <2>1, <2>2
<1>10. CASE OpenSupervisor(o) \/ EndSupervisor(o) \/ SupervisorGone(o)
  <2>1. PICK c \in {"opened", "blocked", "waiting", "reconciling"} : Goto(o, c)
    BY <1>10 DEF OpenSupervisor, EndSupervisor, SupervisorGone
  <2>2. stop'[o] = [stop[o] EXCEPT !.pc = c] BY <1>t, <2>1, GotoEffect
  <2>3. stop[o].pc \in {"found", "ending", "waiting"}
    BY <1>10 DEF OpenSupervisor, EndSupervisor, SupervisorGone
  <2>4. QED BY <1>0, <1>k, <1>r, <1>t, <2>1, <2>2, <2>3
<1>11. CASE StopSucceeds(o)
  <2>1. stop'[o] = [stop[o] EXCEPT !.pc = "stopped"]
    BY <1>11, <1>t, GotoEffect DEF StopSucceeds
  <2>2. \A k \in stop[o].owned : lock'[k] = "released" /\ worker'[k] = "dead"
    BY <1>0, <1>11, <1>k DEF StopSucceeds
  <2>3. QED BY <1>r, <1>t, <2>1, <2>2
<1>12. CASE stop' = stop BY <1>12, <1>0, <1>k, <1>r
<1>13. QED
  BY <1>1, <1>2, <1>4, <1>5, <1>6, <1>7, <1>8, <1>9, <1>10, <1>11, <1>12
     DEF StopAction, StopStep, GivesUp, RecordTerminated, ReleaseDrained, procs

\* What a look finds: the last recorded child while it lives, and every worker
\* that is at work.
LEMMA RootsFind ==
    ASSUME NEW s \in Supervisors, RecordInv(s), RecordType
    PROVE  /\ \A k \in Recorded(s) : Live(k) => Child(k) \in RootsOf(s)
           /\ \A k \in Children : WorkerInv(k) /\ worker[k] = "working"
                => Worker(k) \in RootsOf(s)
<1>1. ASSUME NEW k \in Recorded(s), Live(k) PROVE Child(k) \in RootsOf(s)
  <2>1. k \in Children /\ k = Last(s) BY <1>1, RecordedType DEF RecordInv
  <2>2. PidExists(Child(k)) BY <1>1, <2>1, AliveProcs, AliveIsThere
  <2>3. k \in LastChild(s) BY <2>1, <2>2 DEF LastChild, Last
  <2>4. QED BY <2>3 DEF RootsOf
<1>2. ASSUME NEW k \in Children, WorkerInv(k), worker[k] = "working"
      PROVE  Worker(k) \in RootsOf(s)
  <2>1. PidExists(Worker(k)) BY <1>2, AliveProcs, AliveIsThere
  <2>2. k \in Identified BY <1>2, <2>1 DEF Identified, WorkerInv
  <2>3. QED BY <2>2 DEF RootsOf
<1>3. QED BY <1>1, <1>2

\* A snapshot holds the roots that live.
LEMMA SnapshotFinds ==
    ASSUME NEW o \in Stoppers, NEW k \in Children
    PROVE  /\ Child(k) \in stop[o].roots /\ Live(k) => Child(k) \in Snapshot(o)
           /\ Worker(k) \in stop[o].roots /\ worker[k] = "working" => Worker(k) \in Snapshot(o)
<1>1. Live(k) => BirthMatches(Child(k)) BY AliveProcs, AliveIsThere
<1>2. worker[k] = "working" => BirthMatches(Worker(k)) BY AliveProcs, AliveIsThere
<1>3. QED BY <1>1, <1>2 DEF Snapshot

LEMMA SeenInvStep ==
    ASSUME TypeInv, Progress, NEW o \in Stoppers, StopAction(o),
           StopInv(o), SeenInv(o), StopInv(o)',
           \A k \in Children : WorkerInv(k), \A s \in Supervisors : RecordInv(s)
    PROVE  SeenInv(o)'
<1> USE DEF At
<1>t. StopType /\ stop[o] \in StopRecords
  BY DEF TypeInv, StopType
<1>q. \A k \in stop[o].seen : k \in Children
  BY <1>t DEF StopRecords
<1>k. \A k \in Children :
        /\ child[k] # "none" => child'[k] # "none" /\ (child'[k] = "live" => Live(k))
        /\ worker'[k] = "working" => worker[k] = "working" \/ Live(k)
  BY SupKeptStop DEF Progress, ChildProgress, SupKept
\* A stop keeps what it has seen; it is enough to look at what it moves to.
<1>s. ASSUME stop[o].pc \in ActivePCs, stop'[o].seen = stop[o].seen,
             \A k \in stop[o].seen : child[k] # "none" =>
               /\ child'[k] = "live" /\ SeenChild(o, k) => SeenChild(o, k)'
               /\ worker'[k] = "working" /\ (SeenWorker(o, k) \/ SeenChild(o, k))
                    => SeenWorker(o, k)'
      PROVE  SeenInv(o)'
  <2> SUFFICES ASSUME NEW k \in stop[o].seen
               PROVE  /\ child'[k] # "none"
                      /\ child'[k] = "live" => SeenChild(o, k)'
                      /\ worker'[k] = "working" => SeenWorker(o, k)'
    BY <1>s DEF SeenInv, Live
  <2>1. child[k] # "none" /\ child'[k] # "none" /\ (child'[k] = "live" => Live(k))
    BY <1>k, <1>q, <1>s DEF SeenInv
  <2>2. worker'[k] = "working" => worker[k] = "working" \/ Live(k)
    BY <1>k, <1>q
  <2>3. (Live(k) => SeenChild(o, k)) /\ (worker[k] = "working" => SeenWorker(o, k))
    BY <1>s DEF SeenInv
  <2>4. QED BY <1>s, <2>1, <2>2, <2>3
<1>1. CASE stop'[o].pc \notin ActivePCs BY <1>1 DEF SeenInv
<1>2. CASE StopLooks(o)
  <2>1. stop[o] = Idle
    BY <1>2 DEF StopLooks, StopInv
  <2>2. PICK c \in {"recovering", "found", "blocked"} :
          stop'[o] = [stop[o] EXCEPT !.target = singleton, !.pc = c]
    BY <1>2, <1>t, LooksEffect
  <2>3. stop'[o].seen = {}
    BY <2>1, <2>2 DEF Idle
  <2>4. QED BY <2>3 DEF SeenInv
<1>3. CASE OpenSupervisor(o) /\ stop'[o].pc \in ActivePCs
  <2>1. Goto(o, "opened")
    <3>1. Goto(o, "opened") \/ Goto(o, "blocked") BY <1>3 DEF OpenSupervisor
    <3>2. ASSUME Goto(o, "blocked") PROVE FALSE
      <4>1. stop'[o] = [stop[o] EXCEPT !.pc = "blocked"] BY <1>t, <3>2, GotoEffect
      <4>2. stop'[o].pc = "blocked" BY <1>t, <4>1 DEF StopRecords
      <4>3. QED BY <1>3, <4>2 DEF ActivePCs, EndPCs
    <3>3. QED BY <3>1, <3>2
  <2>2. stop'[o] = [stop[o] EXCEPT !.pc = "opened"] /\ stop[o].pc = "found"
    BY <1>3, <1>t, <2>1, GotoEffect DEF OpenSupervisor
  <2>3. QED
    BY <1>s, <1>t, <2>2
       DEF StopRecords, SeenChild, SeenWorker, SeenDead, ActivePCs, EndPCs
<1>4. CASE CollectRoots(o) /\ ~Blocked(o)
  <2> DEFINE s == Target(o)
  <2>1. /\ Looking(o)
        /\ stop'[o].roots = RootsOf(s)
        /\ stop'[o].seen = IF At(o, "opened") THEN Recorded(s) ELSE stop[o].seen
        /\ stop'[o].pass = IF At(o, "opened") THEN 1 ELSE 2
        /\ stop'[o].pc = IF RootsOf(s) # {} THEN "rooted"
                         ELSE IF At(o, "opened") THEN "quiescing" ELSE "ending"
    BY <1>4, <1>t, CollectEffect
  <2>2. s \in Supervisors
    BY <2>1 DEF Looking, StopInv, ActivePCs
  <2>3. UNCHANGED <<child, worker>>
    BY <1>4 DEF CollectRoots
  <2>4. CASE At(o, "opened")
    <3> SUFFICES ASSUME NEW k \in Recorded(s)
                 PROVE  /\ child'[k] # "none"
                        /\ child'[k] = "live" => SeenChild(o, k)'
                        /\ worker'[k] = "working" => SeenWorker(o, k)'
      BY <2>1, <2>4 DEF SeenInv, Live
    <3>1. child[k] # "none" /\ (Live(k) => Child(k) \in RootsOf(s))
      BY <2>2, RootsFind DEF RecordInv, TypeInv
    <3>2. SeenWorker(o, k)'
      BY <2>1, <2>4 DEF SeenWorker, EndPCs
    <3>3. Live(k) => SeenChild(o, k)'
      BY <2>1, <2>4, <3>1 DEF SeenChild, SeenDead, EndPCs
    <3>4. QED BY <2>3, <3>1, <3>2, <3>3 DEF Live
  <2>5. CASE At(o, "rescanning")
    <3>1. \A k \in stop[o].seen : worker[k] = "working" => Worker(k) \in RootsOf(s)
      BY <1>q, <2>2, RootsFind DEF TypeInv
    <3>2. \A k \in stop[o].seen : ~SeenChild(o, k)
      BY <2>5 DEF SeenChild, SeenDead
    <3>3. \A k \in stop[o].seen : worker[k] = "working" => SeenWorker(o, k)'
      BY <2>1, <2>5, <3>1 DEF SeenWorker, EndPCs
    <3>4. stop[o].pc \in ActivePCs /\ stop'[o].seen = stop[o].seen
      BY <2>1, <2>5 DEF ActivePCs
    <3>5. QED BY <1>s, <2>3, <3>2, <3>3, <3>4
  <2>6. QED BY <2>1, <2>4, <2>5 DEF Looking
<1>5. CASE TakeSnapshot(o)
  <2>1. /\ stop[o].pc = "rooted"
        /\ stop'[o].fds = Snapshot(o) /\ stop'[o].roots = {}
        /\ stop'[o].pc = IF Snapshot(o) # {} THEN "opening"
                         ELSE IF stop[o].pass = 1 THEN "rescanning" ELSE "ending"
        /\ stop'[o].pass = stop[o].pass /\ stop'[o].seen = stop[o].seen
    BY <1>5, <1>t, SnapshotEffect
  <2>2. UNCHANGED <<child, worker>>
    BY <1>5 DEF TakeSnapshot, procs
  <2>3. stop[o].pass \in {1, 2} BY <1>t DEF StopRecords
  <2>4. ASSUME NEW k \in stop[o].seen, Live(k), SeenChild(o, k)
        PROVE  SeenChild(o, k)' /\ SeenWorker(o, k)'
    <3>1. Child(k) \in Snapshot(o)
      BY <1>q, <2>1, <2>4, SnapshotFinds DEF SeenChild
    <3>2. stop[o].pass # 2
      BY <2>4 DEF SeenChild, SeenDead
    <3>3. QED BY <2>1, <2>3, <3>1, <3>2 DEF SeenChild, SeenWorker, SeenDead, EndPCs
  <2>5. ASSUME NEW k \in stop[o].seen, worker[k] = "working", SeenWorker(o, k)
        PROVE  SeenWorker(o, k)'
    <3>1. stop[o].pass = 2 => Worker(k) \in Snapshot(o)
      BY <1>q, <2>1, <2>5, SnapshotFinds DEF SeenWorker
    <3>2. QED BY <2>1, <2>3, <3>1 DEF SeenWorker, EndPCs
  <2>6. stop[o].pc \in ActivePCs BY <2>1 DEF ActivePCs
  <2>7. \A k \in stop[o].seen : SeenChild(o, k) /\ ~Live(k) => stop[o].pass = 1
    BY <2>3 DEF SeenChild, SeenDead
  <2>8. \A k \in stop[o].seen : stop[o].pass = 1 => SeenWorker(o, k)'
    BY <2>1 DEF SeenWorker, EndPCs
  <2>9. QED BY <1>s, <2>1, <2>2, <2>4, <2>5, <2>6, <2>7, <2>8 DEF Live
<1>6. CASE OpenCandidates(o) /\ ~Blocked(o)
  <2>1. /\ stop[o].pc = "opening"
        /\ stop'[o].pc = IF stop[o].pass = 1 THEN "quiescing" ELSE "signalling"
        /\ stop'[o].pass = stop[o].pass /\ stop'[o].seen = stop[o].seen
        /\ stop'[o].fds = stop[o].fds
    BY <1>6, <1>t, OpenEffect
  <2>2. stop[o].pass \in {1, 2} BY <1>t DEF StopRecords
  <2>3. stop[o].pc \in ActivePCs BY <2>1 DEF ActivePCs
  <2>4. \A k \in stop[o].seen : /\ SeenChild(o, k) => SeenChild(o, k)' /\ SeenWorker(o, k)'
                                /\ SeenWorker(o, k) => SeenWorker(o, k)'
    BY <2>1, <2>2 DEF SeenChild, SeenWorker, SeenDead, EndPCs
  <2>5. QED BY <1>s, <2>1, <2>3, <2>4
<1>7. CASE Quiesce(o)
  <2>1. /\ stop[o].pc = "quiescing"
        /\ stop'[o].pc \in {"signalling", "rescanning"}
        /\ stop[o].fds # {} => stop'[o].pc = "signalling"
        /\ stop'[o].pass = stop[o].pass /\ stop'[o].seen = stop[o].seen
        /\ stop'[o].fds = stop[o].fds
    BY <1>7, <1>t, QuiesceEffect DEF StopRecords
  <2>2. stop[o].pass = 1 BY <2>1 DEF StopInv
  <2>3. stop[o].pc \in ActivePCs BY <2>1 DEF ActivePCs
  <2>4. \A k \in stop[o].seen : /\ SeenChild(o, k) => SeenChild(o, k)'
                                /\ SeenWorker(o, k)'
    BY <2>1, <2>2 DEF SeenChild, SeenWorker, SeenDead, EndPCs
  <2>5. QED BY <1>s, <2>1, <2>3, <2>4
<1>8. CASE SignalWorkers(o)
  <2>1. stop'[o] = [stop[o] EXCEPT !.pc = "leaves"] /\ stop[o].pc = "signalling"
    BY <1>8, <1>t, GotoEffect DEF SignalWorkers
  <2>2. stop[o].pc \in ActivePCs /\ stop'[o].seen = stop[o].seen
    BY <1>t, <2>1 DEF ActivePCs, StopRecords
  <2>3. \A k \in stop[o].seen : /\ SeenChild(o, k) => SeenChild(o, k)' /\ SeenWorker(o, k)'
                                /\ SeenWorker(o, k) => SeenWorker(o, k)'
    BY <1>t, <2>1 DEF StopRecords, SeenChild, SeenWorker, SeenDead, EndPCs
  <2>4. QED BY <1>s, <2>2, <2>3
<1>9. CASE SignalChildren(o)
  <2>1. stop'[o] = [stop[o] EXCEPT !.pc = "draining"] /\ stop[o].pc = "leaves"
    BY <1>9, <1>t, GotoEffect DEF SignalChildren
  <2>2. stop[o].pc \in ActivePCs /\ stop'[o].seen = stop[o].seen
    BY <1>t, <2>1 DEF ActivePCs, StopRecords
  <2>3. \A k \in stop[o].seen : /\ SeenChild(o, k) => Child(k) \in stop[o].fds /\ SeenWorker(o, k)'
                                /\ SeenWorker(o, k) => SeenWorker(o, k)'
    BY <1>t, <2>1 DEF StopRecords, SeenChild, SeenWorker, SeenDead, EndPCs
  <2>4. \A k \in stop[o].seen : Child(k) \in stop[o].fds => child'[k] # "live"
    BY <1>9, <1>q DEF SignalChildren, Live
  <2>5. QED BY <1>s, <2>2, <2>3, <2>4
<1>10. CASE Drained(o)
  <2>1. /\ stop[o].pc = "draining" /\ \A p \in stop[o].fds : ~Alive(p)
        /\ stop'[o].pc = IF stop[o].pass = 1 THEN "rescanning" ELSE "ending"
        /\ stop'[o].pass = stop[o].pass /\ stop'[o].seen = stop[o].seen
    BY <1>10, <1>t, DrainedEffect DEF StopRecords
  <2>2. stop[o].pass \in {1, 2} BY <1>t DEF StopRecords
  <2>3. stop[o].pc \in ActivePCs BY <2>1 DEF ActivePCs
  <2>4. \A k \in stop[o].seen : ~SeenChild(o, k)
    BY <2>1 DEF SeenChild, SeenDead
  <2>5. \A k \in stop[o].seen : worker'[k] = "working" => Worker(k) \notin stop[o].fds
    BY <1>10, <1>q, <2>1, AliveProcs DEF Drained, procs
  <2>6. \A k \in stop[o].seen : worker'[k] = "working" /\ SeenWorker(o, k) => SeenWorker(o, k)'
    BY <2>1, <2>2, <2>5 DEF SeenWorker, EndPCs
  <2>7. QED BY <1>s, <2>1, <2>3, <2>4, <2>6
<1>11. CASE EndSupervisor(o) \/ SupervisorGone(o) \/ StopSucceeds(o)
  <2>1. PICK c \in EndPCs : Goto(o, c) /\ stop[o].pc \in {"ending"} \cup EndPCs
    BY <1>11 DEF EndSupervisor, SupervisorGone, StopSucceeds, EndPCs
  <2>2. stop'[o] = [stop[o] EXCEPT !.pc = c]
    BY <1>t, <2>1, GotoEffect
  <2>3. stop[o].pc \in ActivePCs /\ stop'[o].seen = stop[o].seen
    BY <1>t, <2>1, <2>2 DEF ActivePCs, EndPCs, StopRecords
  <2>4. \A k \in stop[o].seen : ~SeenChild(o, k) /\ ~SeenWorker(o, k)
    BY <2>1 DEF SeenChild, SeenWorker, SeenDead
  <2>5. QED BY <1>s, <2>3, <2>4
<1>12. CASE stop' = stop /\ stop[o].pc \in ActivePCs
  <2>1. stop[o].pass \in {1, 2} BY <1>t DEF StopRecords
  <2>2. \A k \in stop[o].seen : /\ SeenChild(o, k) => SeenChild(o, k)' /\ SeenWorker(o, k)'
                                /\ SeenWorker(o, k) => SeenWorker(o, k)'
    BY <1>12, <2>1 DEF SeenChild, SeenWorker, SeenDead, EndPCs
  <2>3. QED BY <1>s, <1>12, <2>2
<1>13. CASE Blocked(o) \/ RecoverStale(o) \/ StopKilled(o)
  <2>1. stop'[o].pc \in {"blocked", "recovered", "killed"}
    <3>1. CASE \E c \in {"blocked", "recovered", "killed"} : stop'[o] = [Idle EXCEPT !.pc = c]
      BY <3>1 DEF Idle
    <3>2. CASE stop'[o] = [Idle EXCEPT !.pc = "killed", !.quiesced = TRUE, !.target = Target(o)]
      BY <3>2 DEF Idle
    <3>3. QED BY <1>13, <1>t, <3>1, <3>2, EndEffect
  <2>2. QED BY <1>1, <2>1 DEF ActivePCs, EndPCs
<1>14. QED
  BY <1>1, <1>2, <1>3, <1>4, <1>5, <1>6, <1>7, <1>8, <1>9, <1>10, <1>11, <1>12, <1>13
     DEF StopAction, StopStep, CollectRoots, OpenCandidates, GivesUp, RecordTerminated,
         ReleaseDrained, procs

-----------------------------------------------------------------------------
(* Frozen supervisors *)

LEMMA FrozenSup ==
    ASSUME TypeInv, NEW s \in Supervisors, SupAction(s), NotLeftFrozen
    PROVE  NotLeftFrozen'
<1> USE DEF TypeInv, SupType, SupRecords, NotBorn, Step, Gone
<1>1. stop' = stop
  BY DEF SupAction, StarterStep, SupervisorStep, StartDetached, StartVerified,
     StartUnverified, CandidateKilled, CandidateCleaned, BootRefused, BootAcquires, Enable,
     LaunchChild, RecordChild, CollectChild, LoopEnds, TermDelivered, ReleaseSingleton,
     SupervisorKilled
<1>2. \A t \in Supervisors : sup'[t].frozen => sup[t].frozen
  <2>1. CASE sup' = sup BY <2>1
  <2>2. CASE Gone(s) BY <2>2
  <2>3. CASE \E c \in SupStates : Step(s, c) BY <2>3
  <2>4. CASE (\E k \in Children : LaunchChild(s, k)) \/ CollectChild(s)
    BY <2>4 DEF LaunchChild, CollectChild
  <2>5. CASE TermDelivered(s) BY <2>5 DEF TermDelivered
  <2>6. CASE sup' = [sup EXCEPT ![s].term = TRUE] BY <2>6
  <2>7. {"booting", "holding", "unwinding", "cycle", "waiting", "finishing"} \subseteq SupStates
    BY DEF SupStates
  <2>8. QED
    BY <2>1, <2>2, <2>3, <2>4, <2>5, <2>6, <2>7
       DEF SupAction, StarterStep, SupervisorStep, StartDetached, StartVerified,
           StartUnverified, CandidateKilled, CandidateCleaned, BootRefused, BootAcquires,
           Enable, RecordChild, LoopEnds, ReleaseSingleton, SupervisorKilled
<1>3. QED BY <1>1, <1>2 DEF NotLeftFrozen, Freezes, Target

LEMMA FrozenStop ==
    ASSUME TypeInv, NEW o \in Stoppers, StopAction(o), StopInv(o), NotLeftFrozen
    PROVE  NotLeftFrozen'
<1> USE DEF TypeInv, SupType, SupRecords, At
<1>t. StopType /\ stop[o] \in StopRecords
  BY DEF StopType
<1>o. \A p \in Stoppers : p # o => stop'[p] = stop[p]
  BY StopOnly
\* Who was frozen stays accounted for, by the same stop.
<1>k. ASSUME \A s \in Supervisors : sup'[s].frozen =>
               \/ sup[s].frozen /\ (Freezes(o) /\ Target(o) = s => Freezes(o)' /\ Target(o)' = s)
               \/ Freezes(o)' /\ Target(o)' = s
      PROVE  NotLeftFrozen'
  BY <1>k, <1>o DEF NotLeftFrozen, Freezes, Target
<1>1. CASE Blocked(o)
  <2>1. CASE Freezes(o)
    <3>1. \A s \in Supervisors : sup'[s].frozen => sup[s].frozen /\ s # Target(o)
      BY <1>1, <2>1 DEF Blocked
    <3>2. QED BY <1>k, <3>1
  <2>2. CASE ~Freezes(o)
    BY <1>1, <1>k, <2>2 DEF Blocked
  <2>3. QED BY <2>1, <2>2
<1>2. ASSUME sup' = sup, ~Freezes(o) PROVE NotLeftFrozen'
  BY <1>k, <1>2
<1>3. ASSUME sup' = sup, Freezes(o) => stop'[o].quiesced /\ stop'[o].pc \in FreezingPCs
                                       /\ stop'[o].target = stop[o].target
      PROVE  NotLeftFrozen'
  BY <1>k, <1>3 DEF Freezes, FreezingPCs, Target
<1>4. CASE StopLooks(o) \/ OpenSupervisor(o) \/ SupervisorGone(o) \/ StopSucceeds(o) \/ RecoverStale(o)
  BY <1>2, <1>4 DEF StopLooks, OpenSupervisor, SupervisorGone, StopSucceeds, RecoverStale,
     Freezes, procs
<1>5. CASE CollectRoots(o) /\ ~Blocked(o)
  <2>1. sup' = sup BY <1>5 DEF CollectRoots
  <2>2. Freezes(o) => stop'[o].pc \in {"rooted", "ending"}
    BY <1>5, <1>t, CollectEffect DEF Freezes, Looking
  <2>3. stop'[o].target = stop[o].target /\ stop'[o].quiesced = stop[o].quiesced
    BY <1>5, <1>t, CollectEffect
  <2>4. QED BY <1>3, <2>1, <2>2, <2>3 DEF Freezes, FreezingPCs
<1>6. CASE TakeSnapshot(o)
  <2>1. sup' = sup BY <1>6 DEF TakeSnapshot, procs
  <2>2. stop'[o].pc \in {"opening", "rescanning", "ending"}
    BY <1>6, <1>t, SnapshotEffect
  <2>3. stop'[o].target = stop[o].target /\ stop'[o].quiesced = stop[o].quiesced
    BY <1>6, <1>t, SnapshotEffect
  <2>4. QED BY <1>3, <2>1, <2>2, <2>3 DEF Freezes, FreezingPCs
<1>7. CASE OpenCandidates(o) /\ ~Blocked(o)
  <2>1. sup' = sup BY <1>7 DEF OpenCandidates
  <2>2. /\ stop'[o].target = stop[o].target /\ stop'[o].quiesced = stop[o].quiesced
        /\ stop'[o].pc = IF stop[o].pass = 1 THEN "quiescing" ELSE "signalling"
        /\ stop[o].pc = "opening"
    BY <1>7, <1>t, OpenEffect
  <2>3. Freezes(o) => stop'[o].pc = "signalling"
    BY <2>2 DEF StopInv, Freezes
  <2>4. QED BY <1>3, <2>1, <2>2, <2>3 DEF Freezes, FreezingPCs
<1>8. CASE Quiesce(o)
  <2>1. /\ stop[o].pc = "quiescing"
        /\ stop'[o].pc \in {"signalling", "rescanning"}
        /\ stop'[o].target = stop[o].target /\ stop'[o].quiesced
    BY <1>8, <1>t, QuiesceEffect DEF StopRecords
  <2>2. \A s \in Supervisors : s # Target(o) => sup'[s] = sup[s]
    BY <1>8 DEF Quiesce
  <2>3. Freezes(o)' /\ Target(o)' = Target(o) /\ ~Freezes(o)
    BY <2>1 DEF Freezes, Target
  <2>4. QED BY <1>k, <2>2, <2>3
<1>9. CASE SignalWorkers(o) \/ SignalChildren(o)
  <2>1. PICK c \in {"leaves", "draining"} : Goto(o, c)
    BY <1>9 DEF SignalWorkers, SignalChildren
  <2>2. stop'[o] = [stop[o] EXCEPT !.pc = c] BY <1>t, <2>1, GotoEffect
  <2>3. sup' = sup BY <1>9 DEF SignalWorkers, SignalChildren
  <2>4. QED BY <1>3, <1>t, <2>2, <2>3 DEF Freezes, FreezingPCs, StopRecords
<1>10. CASE Drained(o)
  <2>1. /\ stop'[o].target = stop[o].target /\ stop'[o].quiesced = stop[o].quiesced
        /\ stop'[o].pc \in {"rescanning", "ending"}
    BY <1>10, <1>t, DrainedEffect DEF StopRecords
  <2>2. QED BY <1>3, <1>10, <2>1 DEF Drained, Freezes, FreezingPCs, procs
<1>11. CASE EndSupervisor(o)
  <2>1. \A s \in Supervisors : s # Target(o) => sup'[s] = sup[s]
    BY <1>11 DEF EndSupervisor
  <2>2. Freezes(o) => \A s \in Supervisors : sup'[s].frozen => s # Target(o)
    BY <1>11 DEF EndSupervisor, Freezes
  <2>3. \A s \in Supervisors : sup'[s].frozen => sup[s].frozen
    BY <1>11 DEF EndSupervisor
  <2>4. QED BY <1>k, <2>1, <2>2, <2>3
<1>12. CASE StopKilled(o)
  <2>1. CASE Freezes(o)
    <3>1. stop'[o] = [Idle EXCEPT !.pc = "killed", !.quiesced = TRUE, !.target = Target(o)]
      BY <1>12, <1>t, <2>1 DEF StopKilled, StopType
    <3>2. stop'[o].quiesced /\ stop'[o].pc = "killed" /\ stop'[o].target = stop[o].target
      BY <3>1 DEF Idle, Target
    <3>3. QED BY <1>3, <1>12, <3>2 DEF StopKilled, FreezingPCs, procs
  <2>2. CASE ~Freezes(o) BY <1>2, <1>12, <2>2 DEF StopKilled, procs
  <2>3. QED BY <2>1, <2>2
<1>13. CASE stop' = stop /\ sup' = sup
  BY <1>k, <1>13 DEF Freezes, Target
<1>14. QED
  BY <1>1, <1>4, <1>5, <1>6, <1>7, <1>8, <1>9, <1>10, <1>11, <1>12, <1>13
     DEF StopAction, StopStep, CollectRoots, OpenCandidates, GivesUp, RecordTerminated,
         ReleaseDrained, procs

-----------------------------------------------------------------------------
(* The inductive invariant holds *)

LEMMA IInvInit == Init => IInv
<1> SUFFICES ASSUME Init PROVE IInv
  OBVIOUS
<1>1. TypeInv BY TypeInit
<1>2. \A s \in Supervisors : SingletonInv(s) /\ RecordInv(s)
  <2>1. \A s \in Supervisors : Recorded(s) = {} BY DEF Init, Recorded
  <2>2. QED BY <2>1 DEF Init, SingletonInv, RecordInv, NotBorn
<1>3. \A k \in Children : WorkerInv(k)
  BY DEF Init, WorkerInv
<1>4. \A o \in Stoppers : StopInv(o) /\ OwnedInv(o) /\ SeenInv(o)
  BY DEF Init, StopInv, OwnedInv, SeenInv, Idle, ActivePCs, EndPCs, Target
<1>5. NotLeftFrozen
  BY DEF Init, NotLeftFrozen, NotBorn
<1>6. ~hit BY DEF Init
<1>7. QED BY <1>1, <1>2, <1>3, <1>4, <1>5, <1>6 DEF IInv

LEMMA HitStep ==
    ASSUME IInv, Next
    PROVE  ~hit'
<1>1. CASE hit' = hit BY <1>1 DEF IInv
<1>2. ASSUME NEW o \in Stoppers, SignalWorkers(o) PROVE ~hit'
  BY <1>2 DEF SignalWorkers, IInv, StopInv
<1>3. ASSUME NEW s \in Supervisors, SupAction(s) PROVE hit' = hit
  BY <1>3 DEF SupAction, StarterStep, SupervisorStep, StartDetached, StartVerified,
     StartUnverified, CandidateKilled, CandidateCleaned, BootRefused, BootAcquires, Enable,
     LaunchChild, RecordChild, CollectChild, LoopEnds, TermDelivered, ReleaseSingleton,
     SupervisorKilled
<1>4. ASSUME NEW k \in Children, ChildAction(k) PROVE hit' = hit
  BY <1>4 DEF ChildAction, ChildStep, procs, Announce, StartGuard, PublishWorker,
     OpenGate, GuardSeesEof, WorkerReports, WorkerEnds, RecordResult, ReleaseTask,
     ChildExits, ChildKilled
<1>5. ASSUME NEW o \in Stoppers, StopAction(o), ~SignalWorkers(o) PROVE hit' = hit
  BY <1>5
    DEF StopAction, StopStep, StopLooks, OpenSupervisor, CollectRoots, TakeSnapshot,
        OpenCandidates, Quiesce, SignalChildren, Drained, EndSupervisor,
        SupervisorGone, RecordTerminated, ReleaseDrained, StopSucceeds, GivesUp,
        RecoverStale, StopKilled, procs
<1>6. ASSUME NEW p \in Procs, Recycle(p) PROVE hit' = hit
  BY <1>6 DEF Recycle
<1>7. QED
  BY <1>1, <1>2, <1>3, <1>4, <1>5, <1>6 DEF Next, SupAction, ChildAction, StopAction

LEMMA IInvStep == IInv /\ [Next]_vars => IInv'
<1> SUFFICES ASSUME IInv, [Next]_vars PROVE IInv'
  OBVIOUS
<1>0. /\ TypeInv /\ NotLeftFrozen /\ ~hit
      /\ \A s \in Supervisors : SingletonInv(s) /\ RecordInv(s)
      /\ \A k \in Children : WorkerInv(k)
      /\ \A o \in Stoppers : StopInv(o) /\ OwnedInv(o) /\ SeenInv(o)
  BY DEF IInv
<1>1. ASSUME NEW s \in Supervisors, SupAction(s) PROVE IInv'
  <2>1. TypeInv' BY <1>0, <1>1, TypeSup
  <2>2. Progress BY <1>0, <1>1, ProgressSup
  <2>3. \A t \in Supervisors : SingletonInv(t)' BY <1>0, <1>1, SingletonSup
  <2>4. \A t \in Supervisors : RecordInv(t)' BY <1>0, <1>1, <2>2, RecordSup
  <2>5. \A k \in Children : WorkerInv(k)'
    BY <1>0, <1>1, WorkerSup DEF WorkerInv
  <2>6. stop' = stop
    BY <1>1 DEF SupAction, StarterStep, SupervisorStep, StartDetached, StartVerified,
       StartUnverified, CandidateKilled, CandidateCleaned, BootRefused, BootAcquires,
       Enable, LaunchChild, RecordChild, CollectChild, LoopEnds, TermDelivered,
       ReleaseSingleton, SupervisorKilled
  <2>7. \A o \in Stoppers : StopInv(o)' /\ OwnedInv(o)' /\ SeenInv(o)'
    BY <1>0, <2>2, <2>6, StopKept
  <2>8. NotLeftFrozen' BY <1>0, <1>1, FrozenSup
  <2>9. ~hit' BY <1>1, HitStep DEF Next, SupAction
  <2>10. QED BY <2>1, <2>3, <2>4, <2>5, <2>7, <2>8, <2>9 DEF IInv
<1>2. ASSUME NEW k \in Children, ChildAction(k) PROVE IInv'
  <2>1. TypeInv' BY <1>0, <1>2, TypeChild
  <2>2. Progress BY <1>0, <1>2, ProgressChild
  <2>3. SupKept /\ singleton' = singleton BY <1>0, <1>2, SupKeptChild
  <2>4. \A s \in Supervisors : SingletonInv(s)' /\ RecordInv(s)'
    <3>1. \A s \in Supervisors : RecordInv(s)' BY <1>0, <2>2, <2>3, RecordKept
    <3>2. QED BY <1>0, <2>3, <3>1 DEF SingletonInv, SupKept
  <2>5. \A j \in Children : WorkerInv(j)' BY <1>0, <1>2, WorkerChild
  <2>6. stop' = stop /\ sup' = sup
    BY <1>2 DEF ChildAction, ChildStep, procs, Announce, StartGuard, PublishWorker,
       OpenGate, GuardSeesEof, WorkerReports, WorkerEnds, RecordResult, ReleaseTask,
       ChildExits, ChildKilled
  <2>7. \A o \in Stoppers : StopInv(o)' /\ OwnedInv(o)' /\ SeenInv(o)'
    BY <1>0, <2>2, <2>6, StopKept
  <2>8. NotLeftFrozen' BY <1>0, <2>6 DEF NotLeftFrozen, Freezes, Target
  <2>9. ~hit' BY <1>2, HitStep DEF Next, ChildAction
  <2>10. QED BY <2>1, <2>4, <2>5, <2>7, <2>8, <2>9 DEF IInv
<1>3. ASSUME NEW o \in Stoppers, StopAction(o) PROVE IInv'
  <2>1. TypeInv'
    <3>1. Looking(o) => Target(o) # NoOne
      BY <1>0, AutopilotAssumption DEF Looking, At, StopInv, ActivePCs, AutopilotAssumption
    <3>2. StopType' BY <1>0, <1>3, <3>1, StopStopType
    <3>3. ~stop[o].wrong BY <1>0 DEF StopInv
    <3>4. SupType' /\ ProcType' /\ RecordType'
      BY <1>0, <1>3, <3>3, StopSupType, StopProcType, StopRecordType DEF TypeInv
    <3>5. QED BY <3>2, <3>4 DEF TypeInv
  <2>2. Progress BY <1>0, <1>3, ProgressStop
  <2>3. SupKept BY <1>0, <1>3, SupKeptStop
  <2>4. \A s \in Supervisors : SingletonInv(s)' BY <1>0, <1>3, SingletonStop
  <2>5. \A s \in Supervisors : RecordInv(s)' BY <1>0, <2>2, <2>3, RecordKept
  <2>6. \A k \in Children : WorkerInv(k)' BY <1>0, <1>3, WorkerStop
  <2>7. StopInv(o)' BY <1>0, <1>3, StopInvStep
  <2>8. OwnedInv(o)' BY <1>0, <1>3, <2>2, OwnedInvStep
  <2>9. SeenInv(o)' BY <1>0, <1>3, <2>2, <2>7, SeenInvStep
  <2>10. ASSUME NEW p \in Stoppers, p # o PROVE StopInv(p)' /\ OwnedInv(p)' /\ SeenInv(p)'
    <3>1. stop'[p] = stop[p] BY <1>0, <1>3, <2>10, StopOnly
    <3>2. QED BY <1>0, <2>2, <3>1, StopKept
  <2>11. \A p \in Stoppers : StopInv(p)' /\ OwnedInv(p)' /\ SeenInv(p)'
    BY <2>7, <2>8, <2>9, <2>10
  <2>12. NotLeftFrozen' BY <1>0, <1>3, FrozenStop
  <2>13. ~hit' BY <1>3, HitStep DEF Next, StopAction
  <2>14. QED BY <2>1, <2>4, <2>5, <2>6, <2>11, <2>12, <2>13 DEF IInv
<1>4. ASSUME NEW p \in Procs, Recycle(p) PROVE IInv'
  <2> USE <1>4 DEF Recycle, records
  <2>1. TypeInv' BY <1>0 DEF TypeInv, SupType, ProcType, RecordType, StopType
  <2>2. Progress BY <1>0 DEF Progress, ChildProgress
  <2>3. \A s \in Supervisors : SingletonInv(s)' /\ RecordInv(s)'
    BY <1>0 DEF SingletonInv, RecordInv, Recorded, Last, Live
  <2>4. \A k \in Children : WorkerInv(k)' BY <1>0 DEF WorkerInv
  <2>5. \A o \in Stoppers : StopInv(o)' /\ OwnedInv(o)' /\ SeenInv(o)'
    BY <1>0, <2>2, StopKept
  <2>6. NotLeftFrozen' /\ ~hit' BY <1>0 DEF NotLeftFrozen, Freezes, Target
  <2>7. QED BY <2>1, <2>3, <2>4, <2>5, <2>6 DEF IInv
<1>5. CASE UNCHANGED vars
  <2> USE <1>5 DEF vars, procs, records
  <2>1. TypeInv' BY <1>0 DEF TypeInv, SupType, ProcType, RecordType, StopType
  <2>2. Progress BY <1>0 DEF Progress, ChildProgress
  <2>3. \A s \in Supervisors : SingletonInv(s)' /\ RecordInv(s)'
    BY <1>0 DEF SingletonInv, RecordInv, Recorded, Last, Live
  <2>4. \A k \in Children : WorkerInv(k)' BY <1>0 DEF WorkerInv
  <2>5. \A o \in Stoppers : StopInv(o)' /\ OwnedInv(o)' /\ SeenInv(o)'
    BY <1>0, <2>2, StopKept
  <2>6. NotLeftFrozen' /\ ~hit' BY <1>0 DEF NotLeftFrozen, Freezes, Target
  <2>7. QED BY <2>1, <2>3, <2>4, <2>5, <2>6 DEF IInv
<1>6. QED
  BY <1>1, <1>2, <1>3, <1>4, <1>5 DEF Next, SupAction, ChildAction, StopAction

LEMMA IInvHolds == Spec => []IInv
<1>1. QED BY IInvInit, IInvStep, PTL DEF Spec

-----------------------------------------------------------------------------
(* A stop that goes on alone *)

OneStop == \A o, p \in Stoppers : o = p

\* The supervisor of a stop that goes on alone starts nothing from its freezing
\* on: it is frozen until it has a termination pending. So a child that a
\* record names lives until the second look at most, and that look finds it.
FrozenChild(o, k) ==
    /\ stop[o].pc \notin {"ending"} \cup EndPCs
    /\ stop[o].pass = 2 =>
         /\ stop[o].pc # "draining"
         /\ stop[o].pc = "rooted" => Child(k) \in stop[o].roots
         /\ stop[o].pc \in {"opening", "signalling", "leaves"} => Child(k) \in stop[o].fds

FrozenInv(o) ==
    stop[o].quiesced /\ stop[o].pc # "killed" =>
      /\ stop[o].pc \in FreezingPCs => sup[Target(o)].pc = "gone" \/ sup[Target(o)].frozen
      /\ stop[o].pc \in EndPCs => sup[Target(o)].pc = "gone" \/ sup[Target(o)].term
      /\ \A k \in Recorded(Target(o)) : Live(k) => FrozenChild(o, k)

\* What a frozen, signalled or ended supervisor is, it stays until it is gone,
\* and it records no child.
Held(t) ==
    /\ sup[t].pc = "gone" => sup'[t].pc = "gone"
    /\ sup[t].frozen => sup'[t].pc = "gone" \/ sup'[t].frozen
    /\ sup[t].term => sup'[t].pc = "gone" \/ sup'[t].term
    /\ sup[t].pc = "gone" \/ sup[t].frozen \/ sup[t].term => childRec'[t] = childRec[t]

LEMMA HeldSup ==
    ASSUME TypeInv, NEW s \in Supervisors, SupAction(s)
    PROVE  \A t \in Supervisors : Held(t)
<1> USE DEF TypeInv, SupType, SupRecords, RecordType, NotBorn, Step, Gone, MaySup,
            Undisturbed, Running, Held
<1>1. CASE Gone(s) /\ childRec' = childRec BY <1>1
<1>2. CASE BootAcquires(s) BY <1>2 DEF BootAcquires
<1>3. CASE Enable(s) BY <1>3 DEF Enable
<1>4. CASE \E k \in Children : LaunchChild(s, k) BY <1>4 DEF LaunchChild, records
<1>5. CASE RecordChild(s) BY <1>5 DEF RecordChild
<1>6. CASE CollectChild(s) BY <1>6 DEF CollectChild, records
<1>7. CASE LoopEnds(s) BY <1>7 DEF LoopEnds, records
<1>8. CASE TermDelivered(s) BY <1>8 DEF TermDelivered, records
<1>9. CASE StartDetached(s) BY <1>9 DEF StartDetached, records
<1>10. CASE StartVerified(s) \/ CandidateCleaned(s)
  BY <1>10 DEF StartVerified, CandidateCleaned, records
<1>11. CASE StartUnverified(s)
  <2>1. childRec' = childRec BY <1>11 DEF StartUnverified, records
  <2>2. CASE sup' = sup BY <2>1, <2>2
  <2>3. CASE sup' = [sup EXCEPT ![s].term = TRUE] BY <2>1, <2>3
  <2>4. CASE Gone(s) BY <1>1, <2>1, <2>4
  <2>5. QED BY <1>11, <2>2, <2>3, <2>4 DEF StartUnverified
<1>12. CASE BootRefused(s) \/ ReleaseSingleton(s) \/ SupervisorKilled(s) \/ CandidateKilled(s)
  BY <1>1, <1>12
    DEF BootRefused, ReleaseSingleton, SupervisorKilled, CandidateKilled, records
<1>13. QED
  BY <1>2, <1>3, <1>4, <1>5, <1>6, <1>7, <1>8, <1>9, <1>10, <1>11, <1>12
     DEF SupAction, StarterStep, SupervisorStep

LEMMA FrozenKept ==
    ASSUME IInv, Progress, NEW o \in Stoppers, stop'[o] = stop[o], FrozenInv(o),
           \A t \in Supervisors : Held(t)
    PROVE  FrozenInv(o)'
<1> SUFFICES ASSUME stop[o].quiesced, stop[o].pc # "killed" PROVE FrozenInv(o)'
  BY DEF FrozenInv
<1>1. Target(o) \in Supervisors /\ stop[o].pc \in FreezingPCs \cup EndPCs
  BY DEF IInv, StopInv, FreezingPCs, EndPCs, ActivePCs
<1>2. Held(Target(o)) /\ Target(o)' = Target(o)
  BY <1>1 DEF Target
<1>3. childRec'[Target(o)] = childRec[Target(o)]
  BY <1>1, <1>2 DEF FrozenInv, Held
<1>4. Recorded(Target(o))' = Recorded(Target(o))
  BY <1>2, <1>3 DEF Recorded
<1>5. \A k \in Recorded(Target(o)) : child'[k] = "live" => Live(k)
  <2>1. Recorded(Target(o)) \subseteq Children
    BY <1>1, RecordedType DEF IInv, TypeInv
  <2>2. \A k \in Recorded(Target(o)) : child[k] # "none"
    BY <1>1 DEF IInv, RecordInv
  <2>3. QED BY <2>1, <2>2 DEF Progress, ChildProgress, Live
<1>6. QED
  BY <1>2, <1>4, <1>5 DEF FrozenInv, FrozenChild, Held, Live

LEMMA FrozenInvStep ==
    ASSUME IInv, NEW o \in Stoppers, StopAction(o), FrozenInv(o), StopInv(o)'
    PROVE  FrozenInv(o)'
<1> USE DEF At
<1>t. /\ TypeInv /\ StopType /\ stop[o] \in StopRecords /\ StopInv(o)
      /\ \A s \in Supervisors : RecordInv(s)
  BY DEF IInv, TypeInv, StopType
<1>p. SupKept BY <1>t, SupKeptStop
<1>r. \A s \in Supervisors : Recorded(s)' = Recorded(s) /\ Recorded(s) \subseteq Children
  BY <1>t, <1>p, RecordedType DEF SupKept, Recorded, TypeInv
\* It is enough to look at the target, which stays, and at its children.
<1>s. ASSUME stop[o].quiesced \/ ~stop'[o].quiesced, stop[o].pc # "killed",
             stop'[o].quiesced => stop'[o].target = stop[o].target,
             Target(o) \in Supervisors =>
               /\ stop'[o].pc \in FreezingPCs =>
                    sup'[Target(o)].pc = "gone" \/ sup'[Target(o)].frozen
               /\ stop'[o].pc \in EndPCs =>
                    sup'[Target(o)].pc = "gone" \/ sup'[Target(o)].term
               /\ \A k \in Recorded(Target(o)) : child'[k] = "live" => FrozenChild(o, k)'
      PROVE  FrozenInv(o)'
  <2> SUFFICES ASSUME stop'[o].quiesced PROVE FrozenInv(o)'
    BY DEF FrozenInv
  <2>1. Target(o) \in Supervisors
    BY <1>s, <1>t DEF StopInv, FreezingPCs, EndPCs, ActivePCs
  <2>2. Target(o)' = Target(o) BY <1>s DEF Target
  <2>3. Recorded(Target(o))' = Recorded(Target(o)) BY <1>p, <2>2 DEF SupKept, Recorded
  <2>4. QED BY <1>s, <2>1, <2>2, <2>3 DEF FrozenInv, Live
<1>0. stop[o].quiesced /\ stop[o].pc # "killed" => Target(o) \in Supervisors
  BY <1>t DEF StopInv, FreezingPCs, EndPCs, ActivePCs
<1>1. CASE ~stop'[o].quiesced \/ stop'[o].pc = "killed" BY <1>1 DEF FrozenInv
<1>2. CASE Blocked(o) \/ RecoverStale(o) \/ StopKilled(o)
  <2>1. CASE \E c \in {"blocked", "recovered", "killed"} : stop'[o] = [Idle EXCEPT !.pc = c]
    BY <1>1, <2>1 DEF Idle
  <2>2. CASE stop'[o] = [Idle EXCEPT !.pc = "killed", !.quiesced = TRUE, !.target = Target(o)]
    BY <1>1, <2>2 DEF Idle
  <2>3. QED BY <1>2, <1>t, <2>1, <2>2, EndEffect
<1>3. CASE StopLooks(o) \/ OpenSupervisor(o)
  <2>1. ~stop[o].quiesced
    BY <1>3, <1>t DEF StopLooks, OpenSupervisor, StopInv, FreezingPCs, EndPCs
  <2>2. stop'[o].quiesced = stop[o].quiesced
    <3>1. CASE StopLooks(o)
      <4>1. PICK c : stop'[o] = [stop[o] EXCEPT !.target = singleton, !.pc = c]
        BY <1>t, <3>1, LooksEffect
      <4>2. QED BY <1>t, <4>1 DEF StopRecords
    <3>2. CASE OpenSupervisor(o)
      <4>1. PICK c : Goto(o, c) BY <3>2 DEF OpenSupervisor
      <4>2. stop'[o] = [stop[o] EXCEPT !.pc = c] BY <1>t, <4>1, GotoEffect
      <4>3. QED BY <1>t, <4>2 DEF StopRecords
    <3>3. QED BY <1>3, <3>1, <3>2
  <2>3. QED BY <1>1, <2>1, <2>2
<1>4. CASE CollectRoots(o) /\ ~Blocked(o) /\ stop[o].quiesced
  <2>1. /\ stop[o].pc = "rescanning"
        /\ stop'[o].roots = RootsOf(Target(o))
        /\ stop'[o].pass = 2
        /\ stop'[o].pc = IF RootsOf(Target(o)) # {} THEN "rooted" ELSE "ending"
        /\ stop'[o].target = stop[o].target
    BY <1>4, <1>t, CollectEffect DEF Looking, StopInv, FreezingPCs, EndPCs
  <2>2. UNCHANGED <<sup, child>> BY <1>4 DEF CollectRoots
  <2>3. Target(o) \in Supervisors BY <1>0, <1>4, <2>1
  <2>4. \A k \in Recorded(Target(o)) : child'[k] = "live" => FrozenChild(o, k)'
    <3> TAKE k \in Recorded(Target(o))
    <3>1. Live(k) => Child(k) \in RootsOf(Target(o))
      BY <1>t, <2>3, RootsFind DEF TypeInv
    <3>2. QED BY <2>1, <2>2, <3>1 DEF FrozenChild, EndPCs, Live
  <2>5. sup[Target(o)].pc = "gone" \/ sup[Target(o)].frozen
    BY <1>4, <2>1 DEF FrozenInv, FreezingPCs
  <2>6. QED BY <1>4, <1>s, <2>1, <2>2, <2>4, <2>5 DEF EndPCs
<1>5. CASE TakeSnapshot(o) /\ stop[o].quiesced
  <2>1. /\ stop[o].pc = "rooted" /\ stop[o].pass = 2
        /\ stop'[o].fds = Snapshot(o)
        /\ stop'[o].pc = IF Snapshot(o) # {} THEN "opening" ELSE "ending"
        /\ stop'[o].target = stop[o].target
    BY <1>5, <1>t, SnapshotEffect DEF StopInv
  <2>2. UNCHANGED <<sup, child>> BY <1>5 DEF TakeSnapshot, procs
  <2>3. Target(o) \in Supervisors BY <1>0, <1>5, <2>1
  <2>4. \A k \in Recorded(Target(o)) : child'[k] = "live" => FrozenChild(o, k)'
    <3> TAKE k \in Recorded(Target(o))
    <3> HAVE child'[k] = "live"
    <3>1. k \in Children /\ Live(k) BY <1>r, <2>2, <2>3 DEF Live
    <3>2. Child(k) \in stop[o].roots BY <1>5, <2>1, <3>1 DEF FrozenInv, FrozenChild
    <3>3. Child(k) \in Snapshot(o) BY <3>1, <3>2, SnapshotFinds
    <3>4. QED BY <2>1, <3>3 DEF FrozenChild, EndPCs
  <2>5. sup[Target(o)].pc = "gone" \/ sup[Target(o)].frozen
    BY <1>5, <2>1 DEF FrozenInv, FreezingPCs
  <2>6. QED BY <1>5, <1>s, <2>1, <2>2, <2>4, <2>5 DEF EndPCs
<1>6. CASE OpenCandidates(o) /\ ~Blocked(o) /\ stop[o].quiesced
  <2>0. /\ stop[o].pc = "opening"
        /\ stop'[o].fds = stop[o].fds /\ stop'[o].target = stop[o].target
        /\ stop'[o].pc = IF stop[o].pass = 1 THEN "quiescing" ELSE "signalling"
        /\ stop'[o].pass = stop[o].pass
    BY <1>6, <1>t, OpenEffect
  <2>1. /\ stop[o].pc = "opening" /\ stop[o].pass = 2
        /\ stop'[o].fds = stop[o].fds
        /\ stop'[o].pc = "signalling"
        /\ stop'[o].pass = stop[o].pass
        /\ stop'[o].target = stop[o].target
    BY <1>6, <1>t, <2>0 DEF StopInv
  <2>2. UNCHANGED <<sup, child>> BY <1>6 DEF OpenCandidates
  <2>3. \A k \in Recorded(Target(o)) : child'[k] = "live" => FrozenChild(o, k)'
    BY <1>6, <2>1, <2>2 DEF FrozenInv, FrozenChild, EndPCs, Live
  <2>4. sup[Target(o)].pc = "gone" \/ sup[Target(o)].frozen
    BY <1>6, <2>1 DEF FrozenInv, FreezingPCs
  <2>5. QED BY <1>6, <1>s, <2>1, <2>2, <2>3, <2>4 DEF EndPCs
<1>7. CASE Quiesce(o)
  <2>1. /\ stop[o].pc = "quiescing"
        /\ stop'[o].pc \in {"signalling", "rescanning"}
        /\ stop'[o].pass = stop[o].pass /\ stop'[o].target = stop[o].target
    BY <1>7, <1>t, QuiesceEffect
  <2>2. stop[o].pass = 1 BY <1>t, <2>1 DEF StopInv
  <2>3. Target(o) \in Supervisors /\ sup[Target(o)].pc # "off"
    BY <1>t, <2>1 DEF StopInv, ActivePCs
  <2>4. sup'[Target(o)].pc = "gone" \/ sup'[Target(o)].frozen
    <3>1. CASE Running(Target(o))
      BY <1>7, <1>t, <2>3, <3>1 DEF Quiesce, TypeInv, SupType, SupRecords
    <3>2. CASE ~Running(Target(o))
      BY <1>p, <2>3, <3>2 DEF Running, SupKept
    <3>3. QED BY <3>1, <3>2
  <2>5. \A k \in Recorded(Target(o)) : FrozenChild(o, k)'
    BY <2>1, <2>2 DEF FrozenChild, EndPCs
  <2>6. Recorded(Target(o))' = Recorded(Target(o)) /\ Target(o)' = Target(o)
    BY <1>p, <2>1 DEF SupKept, Recorded, Target
  <2>7. QED BY <2>1, <2>4, <2>5, <2>6 DEF FrozenInv, EndPCs
<1>8. CASE (SignalWorkers(o) \/ SignalChildren(o)) /\ stop[o].quiesced
  <2>1. PICK c \in {"leaves", "draining"} :
          /\ Goto(o, c) /\ sup' = sup
          /\ stop[o].pc = IF c = "leaves" THEN "signalling" ELSE "leaves"
    BY <1>8 DEF SignalWorkers, SignalChildren
  <2>2. stop'[o] = [stop[o] EXCEPT !.pc = c] BY <1>t, <2>1, GotoEffect
  <2>3. /\ stop'[o].pc = c /\ stop'[o].target = stop[o].target
        /\ stop'[o].pass = stop[o].pass /\ stop'[o].fds = stop[o].fds
    BY <1>t, <2>2 DEF StopRecords
  <2>4. Target(o) \in Supervisors BY <1>0, <1>8, <2>1
  <2>5. ASSUME NEW k \in Recorded(Target(o)), child'[k] = "live" PROVE FrozenChild(o, k)'
    <3>1. k \in Children /\ Live(k) BY <1>p, <1>r, <2>4, <2>5 DEF SupKept
    <3>2. FrozenChild(o, k) BY <1>8, <2>1, <3>1 DEF FrozenInv
    <3>3. CASE c = "leaves"
      BY <2>1, <2>3, <3>2, <3>3 DEF FrozenChild, EndPCs
    <3>4. CASE c = "draining"
      <4>1. SignalChildren(o)
        BY <1>8, <2>1, <3>4 DEF SignalWorkers
      <4>2. Child(k) \notin stop[o].fds
        BY <2>5, <3>1, <4>1 DEF SignalChildren
      <4>3. stop[o].pass # 2
        BY <2>1, <3>2, <3>4, <4>2 DEF FrozenChild
      <4>4. QED BY <2>3, <3>4, <4>3 DEF FrozenChild, EndPCs
    <3>5. QED BY <2>1, <3>3, <3>4
  <2>6. sup[Target(o)].pc = "gone" \/ sup[Target(o)].frozen
    BY <1>8, <2>1 DEF FrozenInv, FreezingPCs
  <2>7. QED BY <1>8, <1>s, <2>1, <2>3, <2>5, <2>6 DEF EndPCs
<1>9. CASE Drained(o) /\ stop[o].quiesced
  <2>1. /\ stop[o].pc = "draining"
        /\ stop'[o].pc = IF stop[o].pass = 1 THEN "rescanning" ELSE "ending"
        /\ stop'[o].pass = stop[o].pass /\ stop'[o].target = stop[o].target
    BY <1>9, <1>t, DrainedEffect
  <2>2. UNCHANGED <<sup, child>> BY <1>9 DEF Drained, procs
  <2>3. stop[o].pass \in {1, 2} BY <1>t DEF StopRecords
  <2>4. \A k \in Recorded(Target(o)) : child'[k] = "live" => FrozenChild(o, k)'
    BY <1>9, <2>1, <2>2, <2>3 DEF FrozenInv, FrozenChild, EndPCs, Live
  <2>5. sup[Target(o)].pc = "gone" \/ sup[Target(o)].frozen
    BY <1>9, <2>1 DEF FrozenInv, FreezingPCs
  <2>6. QED BY <1>9, <1>s, <2>1, <2>2, <2>4, <2>5 DEF EndPCs
<1>10. CASE EndSupervisor(o) /\ stop[o].quiesced
  <2>1. stop[o].pc = "ending" /\ Goto(o, "waiting") /\ child' = child
    BY <1>10 DEF EndSupervisor
  <2>2. stop'[o] = [stop[o] EXCEPT !.pc = "waiting"] BY <1>t, <2>1, GotoEffect
  <2>3. stop'[o].pc = "waiting" /\ stop'[o].target = stop[o].target
    BY <1>t, <2>2 DEF StopRecords
  <2>4. Target(o) \in Supervisors /\ sup[Target(o)].pc # "off"
    BY <1>t, <2>1 DEF StopInv, ActivePCs
  <2>5. sup'[Target(o)].pc = "gone" \/ sup'[Target(o)].term
    <3>1. CASE Running(Target(o))
      BY <1>10, <1>t, <2>4, <3>1 DEF EndSupervisor, TypeInv, SupType, SupRecords
    <3>2. CASE ~Running(Target(o))
      BY <1>p, <2>4, <3>2 DEF Running, SupKept
    <3>3. QED BY <3>1, <3>2
  <2>6. \A k \in Recorded(Target(o)) : child'[k] # "live"
    BY <1>10, <2>1 DEF FrozenInv, FrozenChild, Live
  <2>7. QED BY <1>10, <1>s, <2>1, <2>3, <2>5, <2>6 DEF FreezingPCs
<1>11. CASE (SupervisorGone(o) \/ StopSucceeds(o)) /\ stop[o].quiesced
  <2>1. PICK c \in EndPCs : Goto(o, c) /\ stop[o].pc \in EndPCs
    BY <1>11 DEF SupervisorGone, StopSucceeds, EndPCs
  <2>2. stop'[o] = [stop[o] EXCEPT !.pc = c] BY <1>t, <2>1, GotoEffect
  <2>3. stop'[o].pc = c /\ stop'[o].target = stop[o].target
    BY <1>t, <2>2 DEF StopRecords
  <2>4. UNCHANGED <<sup, child>> BY <1>11 DEF SupervisorGone, StopSucceeds, procs
  <2>5. stop[o].pc # "killed" BY <2>1 DEF EndPCs
  <2>6. \A k \in Recorded(Target(o)) : child'[k] # "live"
    BY <1>11, <2>1, <2>4, <2>5 DEF FrozenInv, FrozenChild, Live
  <2>7. sup[Target(o)].pc = "gone" \/ sup[Target(o)].term
    BY <1>11, <2>1, <2>5 DEF FrozenInv
  <2>8. QED BY <1>11, <1>s, <2>1, <2>3, <2>4, <2>5, <2>6, <2>7 DEF EndPCs, FreezingPCs
<1>12. CASE UNCHANGED <<stop, sup, child>>
  BY <1>12, <1>p DEF FrozenInv, FrozenChild, SupKept, Recorded, Target, Live
<1>13. CASE stop'[o].quiesced = stop[o].quiesced /\ ~stop[o].quiesced
  BY <1>1, <1>13
<1>14. QED
  <2>1. CASE stop[o].quiesced
    BY <1>2, <1>3, <1>4, <1>5, <1>6, <1>7, <1>8, <1>9, <1>10, <1>11, <1>12, <2>1
       DEF StopAction, StopStep, CollectRoots, OpenCandidates, GivesUp, RecordTerminated,
           ReleaseDrained, procs
  <2>2. CASE ~stop[o].quiesced
    <3>1. CASE CollectRoots(o) /\ ~Blocked(o) BY <1>13, <1>t, <2>2, <3>1, CollectEffect
    <3>2. CASE TakeSnapshot(o) BY <1>13, <1>t, <2>2, <3>2, SnapshotEffect
    <3>3. CASE OpenCandidates(o) /\ ~Blocked(o) BY <1>13, <1>t, <2>2, <3>3, OpenEffect
    <3>4. CASE Drained(o) BY <1>13, <1>t, <2>2, <3>4, DrainedEffect
    <3>5. ASSUME NEW c, Goto(o, c) PROVE FrozenInv(o)'
      <4>1. stop'[o] = [stop[o] EXCEPT !.pc = c] BY <1>t, <3>5, GotoEffect
      <4>2. QED BY <1>13, <1>t, <2>2, <4>1 DEF StopRecords
    <3>6. QED
      BY <1>2, <1>3, <1>7, <1>12, <3>1, <3>2, <3>3, <3>4, <3>5
         DEF StopAction, StopStep, CollectRoots, OpenCandidates, GivesUp, SignalWorkers,
             SignalChildren, EndSupervisor, SupervisorGone, StopSucceeds, RecordTerminated,
             ReleaseDrained, procs
  <2>3. QED BY <2>1, <2>2

AloneInv == \A o \in Stoppers : FrozenInv(o)

LEMMA AloneInit == Init => AloneInv
BY DEF Init, AloneInv, FrozenInv, Idle

LEMMA AloneStep ==
    ASSUME OneStop, IInv, IInv', AloneInv, [Next]_vars
    PROVE  AloneInv'
<1>1. ASSUME NEW s \in Supervisors, SupAction(s) PROVE AloneInv'
  <2>1. Progress /\ \A t \in Supervisors : Held(t)
    BY <1>1, ProgressSup, HeldSup DEF IInv
  <2>2. stop' = stop
    BY <1>1 DEF SupAction, StarterStep, SupervisorStep, StartDetached, StartVerified,
       StartUnverified, CandidateKilled, CandidateCleaned, BootRefused, BootAcquires,
       Enable, LaunchChild, RecordChild, CollectChild, LoopEnds, TermDelivered,
       ReleaseSingleton, SupervisorKilled
  <2>3. QED BY <2>1, <2>2, FrozenKept DEF AloneInv
<1>2. ASSUME NEW k \in Children, ChildAction(k) PROVE AloneInv'
  <2>1. Progress BY <1>2, ProgressChild DEF IInv
  <2>2. UNCHANGED <<sup, childRec, stop>>
    BY <1>2 DEF ChildAction, ChildStep, procs, records, Announce, StartGuard,
       PublishWorker, OpenGate, GuardSeesEof, WorkerReports, WorkerEnds, RecordResult,
       ReleaseTask, ChildExits, ChildKilled
  <2>3. \A t \in Supervisors : Held(t) BY <2>2 DEF Held
  <2>4. QED BY <2>1, <2>2, <2>3, FrozenKept DEF AloneInv
<1>3. ASSUME NEW o \in Stoppers, StopAction(o) PROVE AloneInv'
  <2>1. FrozenInv(o)' BY <1>3, FrozenInvStep DEF IInv, AloneInv
  <2>2. QED BY <2>1 DEF OneStop, AloneInv
<1>4. ASSUME UNCHANGED <<sup, child, worker, lock, childRec, stop>> PROVE AloneInv'
  <2>1. Progress /\ \A t \in Supervisors : Held(t)
    BY <1>4 DEF Progress, ChildProgress, Held
  <2>2. QED BY <1>4, <2>1, FrozenKept DEF AloneInv
<1>5. ASSUME NEW p \in Procs, Recycle(p) PROVE AloneInv'
  BY <1>4, <1>5 DEF Recycle, records
<1>6. QED
  BY <1>1, <1>2, <1>3, <1>4, <1>5
     DEF Next, SupAction, ChildAction, StopAction, vars, procs, records

LEMMA AloneHolds == OneStop /\ Spec => [](IInv /\ AloneInv)
<1>1. CASE OneStop
  <2>1. IInv /\ AloneInv /\ [Next]_vars => (IInv /\ AloneInv)'
    BY <1>1, IInvStep, AloneStep
  <2>2. QED BY <2>1, IInvInit, AloneInit, PTL DEF Spec
<1>2. QED BY <1>1

-----------------------------------------------------------------------------
(* Theorems *)

\* Every variable has its type, and no supervisor waits for nobody
\* (run_autopilot, stop_detached_autopilot).
THEOREM TypeCorrect == Spec => []TypeOK
<1>1. IInv => TypeOK BY TypeInvOK DEF IInv
<1>2. QED BY <1>1, IInvHolds, PTL

\* Two supervisors never dispatch at once, whoever starts, stops and recovers
\* them, whatever is killed and whatever pid is taken over
\* (acquire_autopilot, recover_stale_autopilot, cleanup_detached_candidate).
THEOREM SupervisorIsAlone == Spec => []OneSupervisor
<1>1. IInv => OneSupervisor
  BY DEF IInv, SingletonInv, OneSupervisor, InLoop
<1>2. QED BY <1>1, IInvHolds, PTL

\* A supervisor is frozen only while the stop that froze it goes on, unless
\* that command was killed (quiesce_supervisor and the returns after it).
THEOREM NoneLeftFrozen == Spec => []NotLeftFrozen
<1>1. IInv => NotLeftFrozen BY DEF IInv
<1>2. QED BY <1>1, IInvHolds, PTL

\* No signal of a stop reaches a process this installation did not start
\* (drain_owned_process_tree: pidfds verified before any signal).
THEOREM OwnSignalsOnly == Spec => []OnlyOwnSignalled
<1>1. IInv => OnlyOwnSignalled BY DEF IInv, OnlyOwnSignalled
<1>2. QED BY <1>1, IInvHolds, PTL

\* A stop that succeeds has accounted for every worker it drained: the run has
\* a result or a report, and its task lock is released
\* (reconcile_drained_workers).
THEOREM DrainedIsSettled == Spec => []StoppedRunsSettled
<1>1. IInv => StoppedRunsSettled
  <2> SUFFICES ASSUME IInv, NEW o \in Stoppers, At(o, "stopped"), NEW k \in stop[o].owned
               PROVE  lock[k] = "released" /\ result[k] # "none"
    BY DEF StoppedRunsSettled
  <2>1. k \in Children BY DEF IInv, TypeInv, StopType, StopRecords
  <2>2. lock[k] = "released" BY DEF IInv, OwnedInv, At
  <2>3. QED BY <2>1, <2>2 DEF IInv, WorkerInv
<1>2. QED BY <1>1, IInvHolds, PTL

\* One stop at a time: when it froze its supervisor and reports success, it
\* leaves no recorded child of the run, and no worker of the children it found
\* recorded when it began (stop_verified_detached_autopilot: the second pass).
THEOREM DrainIsComplete == OneStop /\ Spec => []StopDrains
<1>1. IInv /\ AloneInv => StopDrains
  <2> SUFFICES ASSUME IInv, AloneInv,
                      NEW o \in Stoppers, At(o, "stopped"), stop[o].quiesced,
                      NEW k \in Recorded(Target(o))
               PROVE  ~Live(k) /\ (k \in stop[o].seen => worker[k] # "working")
    BY DEF StopDrains
  <2>1. ~Live(k) BY DEF AloneInv, FrozenInv, FrozenChild, At, EndPCs
  <2>2. k \in stop[o].seen => worker[k] # "working"
    BY DEF IInv, SeenInv, SeenWorker, At, ActivePCs, EndPCs
  <2>3. QED BY <2>1, <2>2
<1>2. QED BY <1>1, AloneHolds, PTL
=============================================================================
