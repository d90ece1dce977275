-------------------------- MODULE RunAttemptsProofs --------------------------
(***************************************************************************)
(* Proofs about RunAttempts: type correctness, the threshold of the attempt *)
(* circuit, that a recovery is made once and never after a verdict, and     *)
(* that no unknown run is forgotten, for any number of invocations, runs,   *)
(* recoveries and any threshold.                                            *)
(***************************************************************************)
EXTENDS RunAttempts, FiniteSetTheorems, TLAPS

-----------------------------------------------------------------------------
(* The inductive invariant. *)

\* No run is in hand before the lock is taken.
Empty == {"off", "loop", "chosen", "selected"}
\* The run in hand has the lock ...
Locking == {"locked", "reserved", "running", "recorded"}
\* ... its reservation, and no outcome that is final ...
InFlight == {"reserved", "running", "recorded"}
\* ... and was launched.
Begun == {"running", "recorded", "returned"}

\* An invocation: what it recovers was launched before, and what it recovers it
\* as follows what that was launched as.
SupInv ==
    \A p \in Supervisors :
        /\ sup[p].pc \in Empty <=> sup[p].run = NoRun
        /\ sup[p].run < next
        /\ sup[p].pc \in {"off", "loop", "selected"} => sup[p].from = NoRun
        /\ sup[p].pc = "chosen" => sup[p].from # NoRun
        /\ sup[p].from = NoRun => sup[p].attempt = 0
        /\ sup[p].from # NoRun => /\ sup[p].from \in launched
                                  /\ sup[p].attempt = nth[sup[p].from] + 1
        /\ sup[p].pc \in Locking => lock = sup[p].run
        /\ sup[p].pc \in {"locked", "reserved"} => worker[sup[p].run] = "none"
        /\ sup[p].pc \in Begun =>
              /\ sup[p].run \in launched
              /\ prior[sup[p].run] = sup[p].from
              /\ nth[sup[p].run] = sup[p].attempt
        /\ sup[p].pc \in {"recorded", "returned"} =>
              unsettled[sup[p].run] = 0 /\ result[sup[p].run] # "none"

\* A run: an intent and a verdict exclude each other by the number of the
\* recovery that the run was, and an intent makes the next one.
RunInv ==
    \A r \in Runs :
        /\ worker[r] = "none" =>
              /\ intent[r] = 0 /\ unsettled[r] = 0 /\ nth[r] = 0
              /\ prior[r] = NoRun /\ result[r] = "none"
        /\ r >= next => worker[r] = "none" /\ r \notin counted
        /\ unsettled[r] # 0 => unsettled[r] = nth[r] /\ result[r] = "none"
        /\ intent[r] # 0 => intent[r] = nth[r] + 1
        /\ r \in verdicts => nth[r] >= MaxAttempts
        /\ prior[r] # NoRun => prior[r] \in launched /\ nth[r] = nth[prior[r]] + 1

\* As long as invocations follow each other, one is active, and what is still to
\* be recovered has not been, unless its recovery was put off after its launch.
Followed(r) == \E t \in launched : prior[t] = r
Succeeded(r) == r \notin putOff /\ Followed(r)
SeqInv ==
    ~overlapped =>
        /\ \A p, q \in Supervisors : Active(p) /\ Active(q) => p = q
        /\ \A r \in Runs : intent[r] # 0 \/ unsettled[r] # 0 => ~Succeeded(r)
        /\ \A p \in Supervisors :
              /\ sup[p].run # NoRun => ~Succeeded(sup[p].run)
              /\ sup[p].from # NoRun /\ sup[p].pc \in {"chosen", "locked", "reserved"}
                    => ~Succeeded(sup[p].from) /\ unsettled[sup[p].from] = 0
        /\ \A r, t \in launched :
              prior[r] = prior[t] /\ prior[r] \notin putOff \cup {NoRun} => r = t

\* Recoveries without a result that no invocation has in hand, and invocations
\* beyond their look at what is pending: together no more than may be active.
Busy == {p \in Supervisors : sup[p].pc \notin {"off", "loop"}}
Orphans == {r \in Runs : unsettled[r] # 0 /\ \A p \in Supervisors : sup[p].run # r}
Width == IF overlapped THEN Cardinality(Supervisors) ELSE 1
WidthInv == Cardinality(Orphans) + Cardinality(Busy) <= Width

\* The attempts that count and failed as c, or still may.
Open(r) ==
    \/ unsettled[r] # 0
    \/ \E p \in Supervisors : sup[p].run = r /\ sup[p].pc \in InFlight
Charged(c) == {r \in counted : result[r] = c \/ Open(r)}
CircuitInv ==
    \A c \in Classes : Cardinality(Charged(c)) <= Threshold
                       \/ Cardinality(Charged(c)) <= Width

IInv ==
    /\ TypeOK
    /\ SupInv
    /\ RunInv
    /\ SeqInv
    /\ NothingForgotten
    /\ WidthInv
    /\ CircuitInv

-----------------------------------------------------------------------------
(* How the steps move an invocation. *)

SupType == [pc : {"off", "loop", "chosen", "selected", "locked", "reserved",
                  "running", "recorded", "returned"},
            run : Runs \cup {NoRun}, from : Runs \cup {NoRun},
            attempt : 0..MaxAttempts, skipped : BOOLEAN]

\* Invocation p, and no other, goes on to pc with this run and this recovery.
Moved(p, pc, run, from, attempt) ==
    /\ sup' \in [Supervisors -> SupType]
    /\ sup'[p].pc = pc /\ sup'[p].run = run
    /\ sup'[p].from = from /\ sup'[p].attempt = attempt
    /\ \A q \in Supervisors : q # p => sup'[q] = sup[q]

\* Invocation p is outside of a dispatch again.
Outside(p) == \E pc \in {"off", "loop"} : Moved(p, pc, NoRun, NoRun, 0)

LEMMA Constants ==
    /\ IsFiniteSet(Supervisors) /\ MaxRuns \in Nat /\ MaxStarts \in Nat
    /\ MaxAttempts \in Nat \ {0} /\ Threshold \in Nat \ {0}
    /\ 0 \in 0..MaxAttempts /\ NoRun \notin Runs
BY Assumption DEF Assumption, NoRun, Runs

LEMMA FreshType == Fresh \in SupType
BY Constants DEF Fresh, SupType

LEMMA GotoMoves ==
    ASSUME sup \in [Supervisors -> SupType], NEW p \in Supervisors,
           NEW pc \in {"off", "loop", "chosen", "selected", "locked", "reserved",
                       "running", "recorded", "returned"},
           Goto(p, pc)
    PROVE  Moved(p, pc, sup[p].run, sup[p].from, sup[p].attempt)
BY DEF Goto, Moved, SupType

LEMMA EndsMoves ==
    ASSUME sup \in [Supervisors -> SupType], NEW p \in Supervisors,
           Ends(p) \/ PassesOver(p)
    PROVE  Outside(p)
<1>1. CASE Ends(p)
  BY <1>1, FreshType DEF Ends, Moved, Outside, Fresh
<1>2. CASE Skips(p)
  <2>1. [Fresh EXCEPT !.pc = "loop", !.skipped = TRUE] \in SupType
    BY Constants DEF Fresh, SupType
  <2>2. Moved(p, "loop", NoRun, NoRun, 0)
    BY <1>2, <2>1 DEF Skips, Moved, Fresh
  <2>3. QED BY <2>2 DEF Outside
<1>3. QED BY <1>1, <1>2 DEF PassesOver

LEMMA WithheldMoves ==
    ASSUME sup \in [Supervisors -> SupType], NEW p \in Supervisors, Withheld(p)
    PROVE  Outside(p)
BY EndsMoves DEF Withheld

LEMMA TakeLockMoves ==
    ASSUME TypeOK, sup \in [Supervisors -> SupType], NEW p \in Supervisors, TakeLock(p)
    PROVE  Moved(p, "locked", next, sup[p].from, sup[p].attempt)
<1>1. next \in Runs BY Constants DEF TypeOK, TakeLock, Runs
<1>2. QED BY <1>1, ZenonT(40) DEF TakeLock, Moved, SupType

LEMMA RefreshedType ==
    ASSUME TypeOK
    PROVE  Refreshed \in [Runs -> 0..MaxAttempts]
BY Constants DEF TypeOK, Refreshed, Spent, Unfinished

LEMMA LookMoves ==
    ASSUME TypeOK, SupInv, sup \in [Supervisors -> SupType], NEW p \in Supervisors, Look(p)
    PROVE  \/ \E r \in Runs : /\ Refreshed[r] # 0
                              /\ Moved(p, "chosen", NoRun, r, Refreshed[r])
           \/ /\ \A r \in Runs : Refreshed[r] = 0
              /\ Moved(p, "selected", NoRun, NoRun, 0)
           \/ Outside(p)
<1>0. sup[p].run = NoRun BY DEF Look, At, SupInv, Empty
<1>1. CASE \E r \in Runs : Refreshed[r] # 0 /\
              sup' = [sup EXCEPT ![p].pc = "chosen", ![p].from = r,
                                 ![p].attempt = Refreshed[r]]
  <2>1. PICK r \in Runs : Refreshed[r] # 0 /\
              sup' = [sup EXCEPT ![p].pc = "chosen", ![p].from = r,
                                 ![p].attempt = Refreshed[r]]
    BY <1>1
  <2>2. PICK n \in 0..MaxAttempts : n = Refreshed[r] BY RefreshedType
  <2>2a. sup' = [sup EXCEPT ![p].pc = "chosen", ![p].from = r, ![p].attempt = n]
    BY <2>1, <2>2
  <2>2b. Moved(p, "chosen", NoRun, r, n)
    <3>1. sup[p] \in SupType OBVIOUS
    <3>2. sup' \in [Supervisors -> SupType] BY <2>2a, <3>1 DEF SupType
    <3>3. /\ sup'[p].pc = "chosen" /\ sup'[p].from = r /\ sup'[p].attempt = n
          /\ sup'[p].run = NoRun
      BY <1>0, <2>2a, <3>1 DEF SupType
    <3>4. QED BY <2>2a, <3>2, <3>3 DEF Moved
  <2>3. Moved(p, "chosen", NoRun, r, Refreshed[r])
    BY <2>2, <2>2b
  <2>4. QED BY <2>1, <2>3
<1>2. CASE /\ \A r \in Runs : Refreshed[r] = 0
           /\ sup' = [sup EXCEPT ![p] = [Fresh EXCEPT !.pc = "selected"]]
  <2>1. Moved(p, "selected", NoRun, NoRun, 0)
    BY <1>2, Constants DEF Moved, SupType, Fresh
  <2>2. QED BY <1>2, <2>1
<1>3. CASE Ends(p)
  BY <1>3, EndsMoves
<1>4. QED BY <1>1, <1>2, <1>3 DEF Look

\* A run that may be recovered once more is, without a look at what else is
\* pending.
Again(p) == result[sup[p].run] = "unknown" /\ sup[p].attempt < MaxAttempts

LEMMA ReturnMoves ==
    ASSUME TypeOK, SupInv, sup \in [Supervisors -> SupType], NEW p \in Supervisors, Return(p)
    PROVE  \/ /\ Again(p)
              /\ Moved(p, "chosen", NoRun, sup[p].run, sup[p].attempt + 1)
           \/ ~Again(p) /\ Outside(p)
<1>0. sup[p].run \in Runs
  BY DEF Return, At, SupInv, Empty, TypeOK
<1>1. CASE result[sup[p].run] = "completed"
  <2>1. sup' = [sup EXCEPT ![p] = [Fresh EXCEPT !.pc = "loop"]]
    BY <1>1 DEF Return
  <2>2. Moved(p, "loop", NoRun, NoRun, 0)
    BY <2>1, Constants DEF Moved, SupType, Fresh
  <2>3. QED BY <1>1, <2>2 DEF Outside, Again
<1>2. CASE Again(p)
  <2>1. sup' = [sup EXCEPT ![p].pc = "chosen", ![p].from = sup[p].run,
                           ![p].run = NoRun, ![p].attempt = sup[p].attempt + 1]
    BY <1>2 DEF Return, Again
  <2>2. sup[p].attempt + 1 \in 0..MaxAttempts
    BY <1>2, Constants DEF Again, SupType
  <2>3. Moved(p, "chosen", NoRun, sup[p].run, sup[p].attempt + 1)
    BY <1>0, <2>1, <2>2 DEF Moved, SupType
  <2>4. QED BY <1>2, <2>3
<1>3. CASE result[sup[p].run] # "completed" /\ ~Again(p)
  <2>1. Ends(p) \/ PassesOver(p)
    BY <1>3 DEF Return, Again
  <2>2. QED BY <1>3, <2>1, EndsMoves
<1>4. QED BY <1>1, <1>2, <1>3

-----------------------------------------------------------------------------
(* Types *)

LEMMA SupTyped == TypeOK => sup \in [Supervisors -> SupType]
BY DEF TypeOK, SupType

\* What is left of the type once the invocations are typed.
LEMMA TypeOfSup ==
    ASSUME TypeOK, SupInv, NEW p \in Supervisors, NEW pc, NEW run, NEW from, NEW attempt,
           Moved(p, pc, run, from, attempt), run \in {NoRun, sup[p].run, next}
    PROVE  /\ sup' \in [Supervisors -> SupType]
           /\ \A q, s \in Supervisors :
                 sup'[q].run = sup'[s].run /\ sup'[q].run # NoRun => q = s
<1>1. sup' \in [Supervisors -> SupType] BY DEF Moved
<1>2. \A q \in Supervisors : q # p => sup'[q].run # next
  BY Constants DEF Moved, SupInv, TypeOK, Runs, NoRun
<1>3. \A q, s \in Supervisors :
                 sup'[q].run = sup'[s].run /\ sup'[q].run # NoRun => q = s
  BY <1>2 DEF Moved, TypeOK
<1>4. QED BY <1>1, <1>3

LEMMA RunInHand ==
    ASSUME TypeOK, SupInv, NEW p \in Supervisors, sup[p].pc \notin Empty
    PROVE  sup[p].run \in Runs
BY DEF TypeOK, SupInv

LEMMA AttemptTyped ==
    ASSUME TypeOK, NEW p \in Supervisors
    PROVE  sup[p].attempt \in 0..MaxAttempts /\ sup[p].from \in Runs \cup {NoRun}
BY SupTyped DEF SupType

LEMMA FromTyped ==
    ASSUME TypeOK, SupInv, NEW p \in Supervisors, sup[p].from # NoRun
    PROVE  sup[p].from \in Runs
BY AttemptTyped

LEMMA WithheldTypes ==
    ASSUME TypeOK, SupInv, NEW p \in Supervisors, Withheld(p)
    PROVE  /\ intent' \in [Runs -> 0..MaxAttempts]
           /\ unsettled' \in [Runs -> 0..MaxAttempts]
BY Constants, AttemptTyped DEF Withheld, PhaseDefers, TypeOK

LEMMA TypeStep ==
    ASSUME TypeOK, SupInv, Next
    PROVE  TypeOK'
<1> USE SupTyped DEF recovery, Outside, TakenForUnlaunched
<1> DEFINE SupTypes ==
        /\ sup \in [Supervisors -> SupType]
        /\ \A p, q \in Supervisors :
              sup[p].run = sup[q].run /\ sup[p].run # NoRun => p = q
<1>0. /\ SupTypes' /\ starts' \in 0..MaxStarts /\ next' \in 1..(MaxRuns + 1)
      /\ worker' \in [Runs -> {"none", "live", "dead"}]
      /\ lock' \in Runs \cup {NoRun} /\ done' \in BOOLEAN /\ overlapped' \in BOOLEAN
      /\ counted' \subseteq Runs /\ result' \in [Runs -> Outcomes]
      /\ intent' \in [Runs -> 0..MaxAttempts] /\ unsettled' \in [Runs -> 0..MaxAttempts]
      /\ prior' \in [Runs -> Runs \cup {NoRun}] /\ nth' \in [Runs -> 0..MaxAttempts]
      /\ cancelled' \subseteq Runs /\ verdicts' \subseteq Runs /\ putOff' \subseteq Runs
      => TypeOK'
  BY DEF TypeOK, SupType
<1>0a. SupTypes BY DEF TypeOK
<1>1. ASSUME NEW p \in Supervisors, Start(p) PROVE TypeOK'
  <2>1. SupTypes'
    BY <1>1, GotoMoves, TypeOfSup DEF Start
  <2>2. starts' \in 0..MaxStarts BY <1>1, Constants DEF Start, TypeOK
  <2>3. QED BY <1>0, <1>1, <2>1, <2>2 DEF Start, TypeOK
<1>2. ASSUME NEW p \in Supervisors, Look(p) PROVE TypeOK'
  <2>1. SupTypes'
    BY <1>2, LookMoves, TypeOfSup
  <2>2. result' \in [Runs -> Outcomes]
    BY <1>2 DEF Look, TypeOK, Outcomes, Classes
  <2>3. unsettled' \in [Runs -> 0..MaxAttempts] /\ intent' \in [Runs -> 0..MaxAttempts]
    BY <1>2, RefreshedType, Constants DEF Look
  <2>4. verdicts' \subseteq Runs
    BY <1>2 DEF Look, Spent, Unfinished, TypeOK
  <2>5. QED BY <1>0, <1>2, <2>1, <2>2, <2>3, <2>4 DEF Look, TypeOK
<1>3. ASSUME NEW p \in Supervisors, ProbeFails(p) \/ TaskAbsent(p) PROVE TypeOK'
  <2>1. SupTypes'
    BY <1>3, EndsMoves, TypeOfSup DEF ProbeFails, TaskAbsent
  <2>2. sup[p].from \in Runs
    BY <1>3, FromTyped DEF ProbeFails, TaskAbsent, At, SupInv
  <2>3. /\ intent' \in [Runs -> 0..MaxAttempts] /\ unsettled' \in [Runs -> 0..MaxAttempts]
        /\ cancelled' \subseteq Runs
    BY <1>3, <2>2, AttemptTyped, Constants
       DEF ProbeFails, TaskAbsent, PhaseDefers, PhaseCancels, TypeOK
  <2>4. QED BY <1>0, <1>3, <2>1, <2>3 DEF ProbeFails, TaskAbsent, TypeOK
<1>4. ASSUME NEW p \in Supervisors, TakeLock(p) PROVE TypeOK'
  <2>1. SupTypes'
    BY <1>4, TakeLockMoves, TypeOfSup
  <2>2. next \in Runs /\ next' \in 1..(MaxRuns + 1)
    <3>1. next \in 1..(MaxRuns + 1) /\ next <= MaxRuns /\ next' = next + 1
      BY <1>4 DEF TakeLock, TypeOK
    <3>2. QED BY <3>1, Constants DEF Runs
  <2>3. QED BY <1>0, <1>4, <2>1, <2>2 DEF TakeLock, TypeOK
<1>5. ASSUME NEW p \in Supervisors, LockBusy(p) \/ Avoid(p) \/ PreLaunchFails(p)
      PROVE TypeOK'
  <2>1. Withheld(p) BY <1>5 DEF LockBusy, Avoid, PreLaunchFails
  <2>2. SupTypes'
    BY <2>1, WithheldMoves, TypeOfSup
  <2>3. QED
    BY <1>0, <1>5, <2>1, <2>2, WithheldTypes
       DEF LockBusy, Avoid, PreLaunchFails, TypeOK
<1>6. ASSUME NEW p \in Supervisors, Reserve(p) \/ Release(p) PROVE TypeOK'
  <2>1. SupTypes'
    BY <1>6, GotoMoves, TypeOfSup DEF Reserve, Release
  <2>2. sup[p].run \in Runs
    BY <1>6, RunInHand DEF Reserve, Release, At, Empty
  <2>3. QED BY <1>0, <1>6, <2>1, <2>2 DEF Reserve, Release, TypeOK
<1>7. ASSUME NEW p \in Supervisors, Launch(p) PROVE TypeOK'
  <2>1. SupTypes'
    BY <1>7, GotoMoves, TypeOfSup DEF Launch
  <2>2. sup[p].run \in Runs
    BY <1>7, RunInHand DEF Launch, At, Empty
  <2>3. /\ worker' \in [Runs -> {"none", "live", "dead"}]
        /\ prior' \in [Runs -> Runs \cup {NoRun}] /\ nth' \in [Runs -> 0..MaxAttempts]
        /\ intent' \in [Runs -> 0..MaxAttempts] /\ unsettled' \in [Runs -> 0..MaxAttempts]
    <3>1. PICK n \in 0..MaxAttempts : n = sup[p].attempt BY AttemptTyped
    <3>2. PICK r \in Runs : r = sup[p].run BY <2>2
    <3>3. PICK from \in Runs \cup {NoRun} : from = sup[p].from BY AttemptTyped
    <3>4. /\ worker' = [worker EXCEPT ![r] = "live"]
          /\ prior' = [prior EXCEPT ![r] = from]
          /\ nth' = [nth EXCEPT ![r] = n]
          /\ intent' \in {intent, [intent EXCEPT ![from] = 0]}
          /\ unsettled' \in {unsettled, [unsettled EXCEPT ![r] = n]}
      BY <1>7, <3>1, <3>2, <3>3 DEF Launch
    <3>5. QED BY <3>4, Constants DEF TypeOK
  <2>4. QED BY <1>0, <1>7, <2>1, <2>3 DEF Launch, TypeOK
<1>8. ASSUME NEW p \in Supervisors, RecordResult(p) PROVE TypeOK'
  <2>1. SupTypes'
    BY <1>8, GotoMoves, TypeOfSup DEF RecordResult
  <2>2. PICK class \in {"completed", "unknown", "failed"} \cup Walls :
            /\ result' = [result EXCEPT ![sup[p].run] = class]
            /\ intent' = IF class = "unknown" /\ sup[p].attempt < MaxAttempts
                         THEN [intent EXCEPT ![sup[p].run] = sup[p].attempt + 1]
                         ELSE intent
            /\ done' = (done \/ class = "completed")
    BY <1>8 DEF RecordResult
  <2>2a. result' \in [Runs -> Outcomes] /\ done' \in BOOLEAN
    BY <2>2 DEF TypeOK, Outcomes, Classes, Walls
  <2>3. intent' \in [Runs -> 0..MaxAttempts]
    <3>1. sup[p].attempt < MaxAttempts => sup[p].attempt + 1 \in 0..MaxAttempts
      BY AttemptTyped, Constants
    <3>2. intent \in [Runs -> 0..MaxAttempts] BY DEF TypeOK
    <3>3. QED BY <2>2, <3>1, <3>2
  <2>3a. unsettled' \in [Runs -> 0..MaxAttempts]
    BY <1>8, Constants DEF RecordResult, TypeOK
  <2>4. QED BY <1>0, <1>8, <2>1, <2>2a, <2>3, <2>3a DEF RecordResult, TypeOK
<1>9. ASSUME NEW p \in Supervisors, RecordVerdict(p) PROVE TypeOK'
  <2>1. sup[p].run \in Runs
    BY <1>9, RunInHand DEF RecordVerdict, At, Empty
  <2>2. result' \in [Runs -> Outcomes] /\ unsettled' \in [Runs -> 0..MaxAttempts]
    BY <1>9, Constants DEF RecordVerdict, TypeOK, Outcomes, Classes
  <2>3. QED BY <1>9, <2>1, <2>2 DEF RecordVerdict, TypeOK
<1>10. ASSUME NEW p \in Supervisors, RunRaises(p) \/ Dies(p) PROVE TypeOK'
  <2>1. SupTypes'
    BY <1>10, EndsMoves, TypeOfSup DEF RunRaises, Dies
  <2>2. /\ intent' \in [Runs -> 0..MaxAttempts] /\ unsettled' \in [Runs -> 0..MaxAttempts]
        /\ putOff' \subseteq Runs /\ lock' \in Runs \cup {NoRun}
    BY <1>10, AttemptTyped, Constants DEF RunRaises, Dies, PhaseDefers, TypeOK
  <2>3. QED BY <1>0, <1>10, <2>1, <2>2 DEF RunRaises, Dies, TypeOK
<1>11. ASSUME NEW p \in Supervisors, Return(p) PROVE TypeOK'
  <2>1. SupTypes'
    BY <1>11, ReturnMoves, TypeOfSup
  <2>2. intent' \in [Runs -> 0..MaxAttempts]
    BY <1>11, AttemptTyped, Constants DEF Return, TypeOK
  <2>3. unsettled' \in [Runs -> 0..MaxAttempts]
    BY <1>11, Constants DEF Return, TypeOK
  <2>4. QED BY <1>0, <1>11, <2>1, <2>2, <2>3 DEF Return, TypeOK
<1>12. CASE (\E r \in Runs : WorkerEnds(r)) \/ Reset \/ RecoverLock
  BY <1>12 DEF WorkerEnds, Reset, RecoverLock, TypeOK
<1>13. QED
  BY <1>1, <1>2, <1>3, <1>4, <1>5, <1>6, <1>7, <1>8, <1>9, <1>10, <1>11, <1>12
     DEF Next

-----------------------------------------------------------------------------
(* The invocations and the runs *)

\* What an invocation is supposed to know, for the one that is p.
SupOk(p) ==
    /\ sup[p].pc \in Empty <=> sup[p].run = NoRun
    /\ sup[p].run < next
    /\ sup[p].pc \in {"off", "loop", "selected"} => sup[p].from = NoRun
    /\ sup[p].pc = "chosen" => sup[p].from # NoRun
    /\ sup[p].from = NoRun => sup[p].attempt = 0
    /\ sup[p].from # NoRun => /\ sup[p].from \in launched
                              /\ sup[p].attempt = nth[sup[p].from] + 1
    /\ sup[p].pc \in Locking => lock = sup[p].run
    /\ sup[p].pc \in {"locked", "reserved"} => worker[sup[p].run] = "none"
    /\ sup[p].pc \in Begun =>
          /\ sup[p].run \in launched
          /\ prior[sup[p].run] = sup[p].from
          /\ nth[sup[p].run] = sup[p].attempt
    /\ sup[p].pc \in {"recorded", "returned"} =>
          unsettled[sup[p].run] = 0 /\ result[sup[p].run] # "none"

LEMMA SupOkIsInv == SupInv <=> \A p \in Supervisors : SupOk(p)
BY DEF SupInv, SupOk

\* An invocation outside of a dispatch knows nothing.
LEMMA OutsideOk ==
    ASSUME TypeOK, NEW p \in Supervisors, Outside(p), next' = next
    PROVE  SupOk(p)'
BY DEF TypeOK, Outside, Moved, SupOk, Empty, Locking, Begun, NoRun

\* What it knows stays true when another one does something else.
LEMMA OthersKnow ==
    ASSUME TypeOK, NEW q \in Supervisors, SupOk(q),
           sup'[q] = sup[q], next <= next', next' \in Nat,
           launched \subseteq launched',
           \A r \in Runs : r \in launched => nth'[r] = nth[r] /\ prior'[r] = prior[r],
           sup[q].pc \in Locking => lock' = lock,
           sup[q].pc \in {"locked", "reserved"} =>
               worker'[sup[q].run] = worker[sup[q].run],
           sup[q].pc \in {"recorded", "returned"} =>
               /\ unsettled'[sup[q].run] \in {0, unsettled[sup[q].run]}
               /\ result'[sup[q].run] \in {"exhausted", result[sup[q].run]}
    PROVE  SupOk(q)'
<1>1. sup[q] \in SupType BY SupTyped
<1>2. QED
  BY <1>1, SMTT(30) DEF SupOk, TypeOK, SupType, launched, Empty, Locking, Begun, Runs, NoRun

\* Two invocations do not have the lock at once.
LEMMA OneLocks ==
    ASSUME TypeOK, SupInv, NEW p \in Supervisors, NEW q \in Supervisors,
           sup[p].pc \in Locking, sup[q].pc \in Locking
    PROVE  p = q
BY DEF TypeOK, SupInv, Locking, Empty

LEMMA SupStep ==
    ASSUME TypeOK, TypeOK', SupInv, RunInv, Next
    PROVE  SupInv'
<1> USE SupTyped DEF recovery, At, TakenForUnlaunched
<1>0. \A q \in Supervisors : SupOk(q)
  BY SupOkIsInv
<1>0a. (\A q \in Supervisors : SupOk(q)') => SupInv'
  BY DEF SupInv, SupOk
<1>0b. next \in Nat /\ next' \in Nat
  BY Constants DEF TypeOK
<1>1. ASSUME NEW p \in Supervisors, Start(p) PROVE SupInv'
  <2>1. Moved(p, "loop", sup[p].run, sup[p].from, sup[p].attempt)
    BY <1>1, GotoMoves DEF Start
  <2>2. SupOk(p)'
    BY <1>0, <1>1, <2>1 DEF Start, Moved, SupOk, Empty, Locking, Begun, launched
  <2>3. \A q \in Supervisors : q # p => SupOk(q)'
    BY <1>0, <1>0b, <1>1, <2>1, OthersKnow DEF Start, Moved, launched
  <2>4. QED BY <1>0a, <2>2, <2>3
<1>2. ASSUME NEW p \in Supervisors, Look(p) PROVE SupInv'
  <2>1. \A r \in Runs : Refreshed[r] # 0 =>
            r \in launched /\ Refreshed[r] = nth[r] + 1
    BY DEF TypeOK, RunInv, Refreshed, Spent, Unfinished, launched
  <2>1a. UNCHANGED <<next, worker, lock, nth, prior>> /\ launched' = launched
    BY <1>2 DEF Look, launched
  <2>1b. NoRun < next /\ NoRun \notin launched
    BY Constants DEF TypeOK, NoRun, launched
  <2>2. SupOk(p)'
    <3>1. CASE Outside(p)
      BY <1>2, <3>1, OutsideOk DEF Look
    <3>2. CASE \E r \in Runs : /\ Refreshed[r] # 0
                               /\ Moved(p, "chosen", NoRun, r, Refreshed[r])
      <4>1. PICK r \in Runs : /\ Refreshed[r] # 0
                              /\ Moved(p, "chosen", NoRun, r, Refreshed[r])
        BY <3>2
      <4>2. QED
        BY <2>1, <2>1a, <2>1b, <4>1 DEF Moved, SupOk, Empty, Locking, Begun
    <3>3. CASE Moved(p, "selected", NoRun, NoRun, 0)
      BY <2>1a, <2>1b, <3>3 DEF Moved, SupOk, Empty, Locking, Begun
    <3>4. QED BY <1>2, <3>1, <3>2, <3>3, LookMoves
  <2>3. \A q \in Supervisors : q # p => sup'[q] = sup[q]
    BY <1>2, LookMoves DEF Outside, Moved
  <2>4. \A r \in Runs : unsettled'[r] = 0 /\ result'[r] \in {"exhausted", result[r]}
    BY <1>2 DEF Look
  <2>5. ASSUME NEW q \in Supervisors, q # p PROVE SupOk(q)'
    <3>1. SupOk(q) BY <1>0
    <3>2. sup[q].pc \in {"recorded", "returned"} => sup[q].run \in Runs
      BY RunInHand DEF Empty
    <3>3. QED
      BY <1>0b, <2>1a, <2>3, <2>4, <2>5, <3>1, <3>2, OthersKnow
  <2>6. QED BY <1>0a, <2>2, <2>5
<1>3. ASSUME NEW p \in Supervisors, ProbeFails(p) \/ TaskAbsent(p) PROVE SupInv'
  <2>1. Outside(p)
    BY <1>3, EndsMoves DEF ProbeFails, TaskAbsent
  <2>2. SupOk(p)'
    BY <1>3, <2>1, OutsideOk DEF ProbeFails, TaskAbsent
  <2>3. \A r \in Runs : unsettled'[r] \in {0, unsettled[r]}
    BY <1>3 DEF ProbeFails, TaskAbsent, PhaseDefers, PhaseCancels, TypeOK
  <2>4. \A q \in Supervisors : q # p => SupOk(q)'
    BY <1>0, <1>0b, <1>3, <2>1, <2>3, OthersKnow, RunInHand
       DEF ProbeFails, TaskAbsent, Outside, Moved, launched, Empty
  <2>5. QED BY <1>0a, <2>2, <2>4
<1>4. ASSUME NEW p \in Supervisors, TakeLock(p) PROVE SupInv'
  <2>1. Moved(p, "locked", next, sup[p].from, sup[p].attempt)
    BY <1>4, TakeLockMoves
  <2>2. next \in Runs /\ worker[next] = "none"
    BY <1>4, Constants DEF TakeLock, TypeOK, Runs, RunInv
  <2>3. SupOk(p)'
    BY <1>0, <1>0b, <1>4, <2>1, <2>2, Constants
       DEF TakeLock, Moved, SupOk, Empty, Locking, Begun, launched
  <2>4. \A q \in Supervisors : sup[q].pc \notin Locking
    BY <1>0, <1>4 DEF TakeLock, SupOk, Locking, Empty
  <2>5. \A q \in Supervisors : q # p => SupOk(q)'
    BY <1>0, <1>0b, <1>4, <2>1, <2>4, OthersKnow DEF TakeLock, Moved, launched, Locking
  <2>6. QED BY <1>0a, <2>3, <2>5
<1>5. ASSUME NEW p \in Supervisors, LockBusy(p) \/ Avoid(p) \/ PreLaunchFails(p)
      PROVE SupInv'
  <2>1. Outside(p)
    BY <1>5, WithheldMoves DEF LockBusy, Avoid, PreLaunchFails
  <2>2. SupOk(p)'
    BY <1>5, <2>1, OutsideOk DEF LockBusy, Avoid, PreLaunchFails
  <2>3. \A r \in Runs : unsettled'[r] \in {0, unsettled[r]}
    BY <1>5 DEF LockBusy, Avoid, PreLaunchFails, Withheld, PhaseDefers, TypeOK
  <2>4. lock' = lock \/ sup[p].pc \in Locking
    BY <1>5 DEF LockBusy, Avoid, PreLaunchFails, Locking
  <2>5. \A q \in Supervisors : q # p /\ sup[q].pc \in Locking => lock' = lock
    BY <2>4, OneLocks
  <2>6. \A q \in Supervisors : q # p => SupOk(q)'
    BY <1>0, <1>0b, <1>5, <2>1, <2>3, <2>5, OthersKnow, RunInHand
       DEF LockBusy, Avoid, PreLaunchFails, Outside, Moved, launched, Empty
  <2>7. QED BY <1>0a, <2>2, <2>6
<1>6. ASSUME NEW p \in Supervisors, Reserve(p) PROVE SupInv'
  <2>1. Moved(p, "reserved", sup[p].run, sup[p].from, sup[p].attempt)
    BY <1>6, GotoMoves DEF Reserve
  <2>2. SupOk(p)'
    BY <1>0, <1>6, <2>1 DEF Reserve, Moved, SupOk, Empty, Locking, Begun, launched
  <2>3. \A q \in Supervisors : q # p => SupOk(q)'
    BY <1>0, <1>0b, <1>6, <2>1, OthersKnow DEF Reserve, Moved, launched
  <2>4. QED BY <1>0a, <2>2, <2>3
<1>7. ASSUME NEW p \in Supervisors, Launch(p) PROVE SupInv'
  <2>0. sup[p].run \in Runs /\ worker[sup[p].run] = "none" /\ sup[p].pc \in Locking
    BY <1>7, <1>0, RunInHand DEF Launch, Empty, SupOk, Locking
  <2>1. Moved(p, "running", sup[p].run, sup[p].from, sup[p].attempt)
    BY <1>7, GotoMoves DEF Launch
  <2>2. /\ worker' = [worker EXCEPT ![sup[p].run] = "live"]
        /\ prior' = [prior EXCEPT ![sup[p].run] = sup[p].from]
        /\ nth' = [nth EXCEPT ![sup[p].run] = sup[p].attempt]
        /\ UNCHANGED <<next, lock, result>>
    BY <1>7 DEF Launch
  <2>3. launched \subseteq launched' /\ sup[p].run \in launched'
    BY <2>0, <2>2 DEF launched, TypeOK
  <2>4. \A r \in Runs : r \in launched => nth'[r] = nth[r] /\ prior'[r] = prior[r]
    BY <2>0, <2>2 DEF launched, TypeOK
  <2>5. SupOk(p)'
    <3>1. sup[p].from # NoRun => nth'[sup[p].from] = nth[sup[p].from]
      BY <1>0, <2>4 DEF SupOk, launched
    <3>2. prior'[sup[p].run] = sup[p].from /\ nth'[sup[p].run] = sup[p].attempt
      BY <2>0, <2>2 DEF TypeOK
    <3>3. QED
      BY <1>0, <1>7, <2>0, <2>1, <2>2, <2>3, <3>1, <3>2
         DEF Launch, Moved, SupOk, Empty, Locking, Begun
  <2>6. \A q \in Supervisors : q # p => sup[q].run # sup[p].run /\ sup[q].pc \notin Locking
    BY <2>0, OneLocks, Constants DEF TypeOK
  <2>7. ASSUME NEW q \in Supervisors, q # p PROVE SupOk(q)'
    <3>1. sup[q].pc \notin {"locked", "reserved", "recorded"}
      BY <2>6, <2>7 DEF Locking
    <3>2. sup[q].pc = "returned" => unsettled'[sup[q].run] = unsettled[sup[q].run]
      BY <1>7, <2>0, <2>6, <2>7, RunInHand DEF Launch, TypeOK, Empty
    <3>3. SupOk(q) BY <1>0
    <3>4. sup'[q] = sup[q] BY <2>1, <2>7 DEF Moved
    <3>5. QED
      BY <1>0b, <2>2, <2>3, <2>4, <2>6, <2>7, <3>1, <3>2, <3>3, <3>4, OthersKnow
  <2>8. QED BY <1>0a, <2>5, <2>7
<1>8. ASSUME NEW p \in Supervisors, RecordResult(p) PROVE SupInv'
  <2>0. sup[p].run \in Runs /\ sup[p].pc = "running"
    BY <1>8, RunInHand DEF RecordResult, Empty
  <2>1. Moved(p, "recorded", sup[p].run, sup[p].from, sup[p].attempt)
    BY <1>8, GotoMoves DEF RecordResult
  <2>2. /\ UNCHANGED <<next, worker, lock, prior, nth>>
        /\ unsettled' = [unsettled EXCEPT ![sup[p].run] = 0]
        /\ \E class \in {"completed", "unknown", "failed", "wall"} :
               result' = [result EXCEPT ![sup[p].run] = class]
    BY <1>8 DEF RecordResult, Walls
  <2>3. SupOk(p)'
    BY <1>0, <2>0, <2>1, <2>2
       DEF Moved, SupOk, Empty, Locking, Begun, launched, TypeOK
  <2>4. ASSUME NEW q \in Supervisors, q # p PROVE SupOk(q)'
    <3>1. sup[q].run # sup[p].run
      BY <2>0, <2>4, Constants DEF TypeOK
    <3>2. sup[q].pc \in {"recorded", "returned"} => sup[q].run \in Runs
      BY RunInHand DEF Empty
    <3>3. sup[q].pc \in {"recorded", "returned"} =>
             /\ unsettled'[sup[q].run] = unsettled[sup[q].run]
             /\ result'[sup[q].run] = result[sup[q].run]
      BY <2>2, <3>1, <3>2 DEF TypeOK
    <3>4. SupOk(q) BY <1>0
    <3>5. sup'[q] = sup[q] BY <2>1, <2>4 DEF Moved
    <3>6. QED BY <1>0b, <2>2, <3>3, <3>4, <3>5, OthersKnow DEF launched
  <2>5. QED BY <1>0a, <2>3, <2>4
<1>9. ASSUME NEW p \in Supervisors, RecordVerdict(p) PROVE SupInv'
  <2>0. sup[p].run \in Runs
    BY <1>9, RunInHand DEF RecordVerdict, Empty
  <2>1. \A r \in Runs : /\ unsettled'[r] \in {0, unsettled[r]}
                        /\ result'[r] \in {"exhausted", result[r]}
    BY <1>9 DEF RecordVerdict, TypeOK
  <2>2. \A q \in Supervisors : SupOk(q)'
    BY <1>0, <1>0b, <1>9, <2>1, OthersKnow, RunInHand
       DEF RecordVerdict, launched, Empty
  <2>3. QED BY <1>0a, <2>2
<1>10. ASSUME NEW p \in Supervisors, Release(p) PROVE SupInv'
  <2>0. sup[p].run \in Runs /\ sup[p].pc = "recorded"
    BY <1>10, RunInHand DEF Release, Empty
  <2>1. Moved(p, "returned", sup[p].run, sup[p].from, sup[p].attempt)
    BY <1>10, GotoMoves DEF Release
  <2>2. SupOk(p)'
    BY <1>0, <1>10, <2>0, <2>1
       DEF Release, Moved, SupOk, Empty, Locking, Begun, launched
  <2>3. \A q \in Supervisors : q # p => sup[q].pc \notin Locking
    BY <2>0, OneLocks DEF Locking
  <2>4. \A q \in Supervisors : q # p => SupOk(q)'
    BY <1>0, <1>0b, <1>10, <2>1, <2>3, OthersKnow DEF Release, Moved, launched, Locking
  <2>5. QED BY <1>0a, <2>2, <2>4
<1>11. ASSUME NEW p \in Supervisors, RunRaises(p) \/ Dies(p) PROVE SupInv'
  <2>1. Outside(p)
    BY <1>11, EndsMoves DEF RunRaises, Dies
  <2>2. SupOk(p)'
    BY <1>11, <2>1, OutsideOk DEF RunRaises, Dies
  <2>3. lock' = lock \/ sup[p].pc \in Locking
    BY <1>11 DEF RunRaises, Dies, Locking
  <2>4. \A q \in Supervisors : q # p /\ sup[q].pc \in Locking => lock' = lock
    BY <2>3, OneLocks
  <2>4a. \A r \in Runs : unsettled'[r] \in {0, unsettled[r]}
    BY <1>11 DEF RunRaises, Dies, PhaseDefers, TypeOK
  <2>5. \A q \in Supervisors : q # p => SupOk(q)'
    BY <1>0, <1>0b, <1>11, <2>1, <2>4, <2>4a, OthersKnow, RunInHand
       DEF RunRaises, Dies, Outside, Moved, launched, Empty
  <2>6. QED BY <1>0a, <2>2, <2>5
<1>12. ASSUME NEW p \in Supervisors, Return(p) PROVE SupInv'
  <2>0. sup[p].run \in Runs
    BY <1>12, RunInHand DEF Return, Empty
  <2>1. UNCHANGED <<next, worker, lock, prior, nth, result>>
    BY <1>12 DEF Return
  <2>2. SupOk(p)'
    <3>1. CASE Outside(p)
      BY <2>1, <3>1, OutsideOk
    <3>2. CASE Moved(p, "chosen", NoRun, sup[p].run, sup[p].attempt + 1)
      <4>1. sup[p].run \in launched /\ nth[sup[p].run] = sup[p].attempt
        BY <1>0, <1>12 DEF Return, SupOk, Begun
      <4>2. QED
        BY <1>0b, <2>0, <2>1, <3>2, <4>1, Constants
           DEF Moved, SupOk, Empty, Locking, Begun, launched, TypeOK, NoRun
    <3>3. QED BY <1>12, <3>1, <3>2, ReturnMoves
  <2>3. \A q \in Supervisors : q # p => sup'[q] = sup[q]
    BY <1>12, ReturnMoves DEF Outside, Moved
  <2>4. \A r \in Runs : unsettled'[r] \in {0, unsettled[r]}
    BY <1>12 DEF Return, TypeOK
  <2>5. \A q \in Supervisors : q # p => SupOk(q)'
    BY <1>0, <1>0b, <2>1, <2>3, <2>4, OthersKnow, RunInHand DEF launched, Empty
  <2>6. QED BY <1>0a, <2>2, <2>5
<1>13. CASE (\E r \in Runs : WorkerEnds(r)) \/ Reset
  <2>1. launched' = launched
    BY <1>13 DEF WorkerEnds, Reset, launched, TypeOK
  <2>2. UNCHANGED <<sup, next, lock, prior, nth, unsettled, result>>
    BY <1>13 DEF WorkerEnds, Reset
  <2>3. \A r \in Runs : worker[r] = "none" => worker'[r] = "none"
    BY <1>13 DEF WorkerEnds, Reset, TypeOK
  <2>4. ASSUME NEW q \in Supervisors PROVE SupOk(q)'
    <3>1. sup[q].pc \in {"locked", "reserved"} =>
              worker'[sup[q].run] = worker[sup[q].run]
      BY <1>0, <2>3, RunInHand DEF SupOk, Empty
    <3>2. SupOk(q) BY <1>0
    <3>3. QED BY <1>0b, <2>1, <2>2, <3>1, <3>2, OthersKnow
  <2>5. QED BY <1>0a, <2>4
<1>14. CASE RecoverLock
  <2>1. \A q \in Supervisors : sup[q].pc \notin Locking
    BY <1>0, <1>14 DEF RecoverLock, SupOk
  <2>2. \A q \in Supervisors : SupOk(q)'
    BY <1>0, <1>0b, <1>14, <2>1, OthersKnow DEF RecoverLock, launched, Locking
  <2>3. QED BY <1>0a, <2>2
<1>15. QED
  BY <1>1, <1>2, <1>3, <1>4, <1>5, <1>6, <1>7, <1>8, <1>9, <1>10, <1>11, <1>12,
     <1>13, <1>14 DEF Next

\* An invocation recovers a run that may be recovered.
LEMMA FromMayBeRecovered ==
    ASSUME TypeOK, SupInv, NEW p \in Supervisors, sup[p].from # NoRun
    PROVE  /\ sup[p].from \in Runs /\ sup[p].from \in launched
           /\ sup[p].attempt = nth[sup[p].from] + 1
           /\ nth[sup[p].from] < MaxAttempts
<1>1. sup[p].attempt \in 0..MaxAttempts /\ nth \in [Runs -> 0..MaxAttempts]
  BY AttemptTyped DEF TypeOK
<1>2. QED BY <1>1, FromTyped, Constants DEF SupInv

\* A deferral leaves the intent that was there or would be there.
LEMMA DeferralKeepsRuns ==
    ASSUME TypeOK, SupInv, RunInv, NEW p \in Supervisors, sup[p].from # NoRun,
           PhaseDefers(sup[p].from, sup[p].attempt),
           UNCHANGED <<next, worker, counted, result, prior, nth, verdicts>>
    PROVE  RunInv'
<1>1. UNCHANGED launched BY DEF launched
<1>2. QED BY <1>1, FromMayBeRecovered DEF PhaseDefers, RunInv, TypeOK, launched

LEMMA RunStep ==
    ASSUME TypeOK, TypeOK', SupInv, RunInv, Next
    PROVE  RunInv'
<1> USE DEF recovery, At, TakenForUnlaunched
<1>1a. ASSUME NEW p \in Supervisors, RunRaises(p) PROVE RunInv'
  <2>1. UNCHANGED <<next, worker, counted, result, prior, nth, verdicts>>
    BY <1>1a DEF RunRaises
  <2>2. CASE UNCHANGED <<intent, unsettled>>
    BY <2>1, <2>2 DEF RunInv, launched
  <2>3. CASE sup[p].from # NoRun /\ PhaseDefers(sup[p].from, sup[p].attempt)
    BY <2>1, <2>3, DeferralKeepsRuns
  <2>4. QED BY <1>1a, <2>2, <2>3 DEF RunRaises
<1>1. CASE \/ \E p \in Supervisors : Start(p) \/ Release(p) \/ Dies(p)
           \/ Reset \/ RecoverLock
  <2>1. UNCHANGED <<next, worker, result, intent, unsettled, prior, nth, verdicts>>
        /\ counted' \subseteq counted
    BY <1>1 DEF Start, Release, Dies, Reset, RecoverLock
  <2>2. QED BY <2>1 DEF RunInv, launched
<1>2. ASSUME NEW p \in Supervisors, Look(p) PROVE RunInv'
  <2>1. UNCHANGED <<next, worker, counted, prior, nth>> /\ launched' = launched
    BY <1>2 DEF Look, launched
  <2>2. ASSUME NEW r \in Runs
        PROVE  /\ unsettled'[r] = 0
               /\ intent'[r] = Refreshed[r]
               /\ result'[r] = IF r \in Spent THEN "exhausted" ELSE result[r]
               /\ r \in verdicts' <=> r \in verdicts \cup Spent
    BY <1>2, RefreshedType DEF Look
  <2>3. ASSUME NEW r \in Runs
        PROVE  /\ r \in Spent => unsettled[r] # 0 /\ unsettled[r] >= MaxAttempts
               /\ Refreshed[r] # 0 => \/ Refreshed[r] = intent[r]
                                      \/ unsettled[r] # 0 /\ Refreshed[r] = unsettled[r] + 1
               /\ unsettled[r] = 0 => Refreshed[r] = intent[r]
    BY DEF Refreshed, Spent, Unfinished
  <2>4. QED BY <2>1, <2>2, <2>3 DEF RunInv, launched
<1>3. ASSUME NEW p \in Supervisors, ProbeFails(p) \/ TaskAbsent(p) PROVE RunInv'
  <2>1. sup[p].from # NoRun BY <1>3 DEF ProbeFails, TaskAbsent, SupInv
  <2>2. CASE ProbeFails(p)
    BY <2>1, <2>2, DeferralKeepsRuns DEF ProbeFails
  <2>3. CASE TaskAbsent(p)
    BY <2>3 DEF TaskAbsent, PhaseCancels, RunInv, TypeOK, launched
  <2>4. QED BY <1>3, <2>2, <2>3
<1>4. ASSUME NEW p \in Supervisors, TakeLock(p) PROVE RunInv'
  <2>1. UNCHANGED <<worker, counted, result, intent, unsettled, prior, nth, verdicts>>
        /\ launched' = launched
    BY <1>4 DEF TakeLock, launched
  <2>2. \A r \in Runs : r >= next' => r >= next
    BY <1>4, Constants DEF TakeLock, TypeOK, Runs
  <2>3. QED BY <2>1, <2>2 DEF RunInv
<1>5. ASSUME NEW p \in Supervisors, LockBusy(p) \/ Avoid(p) \/ PreLaunchFails(p)
      PROVE RunInv'
  <2>1. UNCHANGED <<next, worker, counted, result, prior, nth, verdicts>>
    BY <1>5 DEF LockBusy, Avoid, PreLaunchFails
  <2>2. Withheld(p) BY <1>5 DEF LockBusy, Avoid, PreLaunchFails
  <2>3. CASE sup[p].from # NoRun
    BY <2>1, <2>2, <2>3, DeferralKeepsRuns DEF Withheld
  <2>4. CASE sup[p].from = NoRun
    BY <2>1, <2>2, <2>4 DEF Withheld, RunInv, launched
  <2>5. QED BY <2>3, <2>4
<1>6. ASSUME NEW p \in Supervisors, Reserve(p) PROVE RunInv'
  <2>1. \A r \in Runs : r >= next => r # sup[p].run
    BY Constants DEF SupInv, TypeOK, Runs
  <2>2. UNCHANGED <<next, worker, result, intent, unsettled, prior, nth, verdicts>>
        /\ counted' = counted \cup {sup[p].run}
    BY <1>6 DEF Reserve
  <2>3. QED BY <2>1, <2>2 DEF RunInv, launched
<1>7. ASSUME NEW p \in Supervisors, Launch(p) PROVE RunInv'
  <2>0. sup[p].run \in Runs /\ worker[sup[p].run] = "none" /\ sup[p].run < next
    BY <1>7, RunInHand DEF Launch, Empty, SupInv
  <2>1. /\ worker' = [worker EXCEPT ![sup[p].run] = "live"]
        /\ prior' = [prior EXCEPT ![sup[p].run] = sup[p].from]
        /\ nth' = [nth EXCEPT ![sup[p].run] = sup[p].attempt]
        /\ UNCHANGED <<next, counted, result, verdicts>>
    BY <1>7 DEF Launch
  <2>2. launched' = launched \cup {sup[p].run} /\ sup[p].run \notin launched
    BY <2>0, <2>1 DEF launched, TypeOK
  <2>3. \A r \in Runs : r # sup[p].run =>
            nth'[r] = nth[r] /\ prior'[r] = prior[r] /\ worker'[r] = worker[r]
    BY <2>1 DEF TypeOK
  <2>4. /\ nth'[sup[p].run] = sup[p].attempt /\ prior'[sup[p].run] = sup[p].from
        /\ worker'[sup[p].run] = "live"
    BY <2>0, <2>1 DEF TypeOK
  <2>5. /\ intent[sup[p].run] = 0 /\ unsettled[sup[p].run] = 0
        /\ result[sup[p].run] = "none" /\ sup[p].run \notin verdicts
    BY <2>0, Constants DEF RunInv
  <2>6. ASSUME NEW r \in Runs, r # sup[p].run, prior[r] # NoRun
        PROVE  prior[r] \in launched /\ nth'[prior[r]] = nth[prior[r]]
    BY <2>2, <2>3, <2>6 DEF RunInv, TypeOK, launched
  <2>7. \A r \in Runs : r >= next => r # sup[p].run
    BY <2>0, Constants DEF TypeOK, Runs
  <2>8. /\ \A r \in Runs : r # sup[p].run =>
              unsettled'[r] = unsettled[r] /\ intent'[r] \in {0, intent[r]}
        /\ unsettled'[sup[p].run] \in {0, sup[p].attempt} /\ intent'[sup[p].run] = 0
        /\ sup[p].from # NoRun =>
              /\ sup[p].from \in launched'
              /\ sup[p].attempt = nth'[sup[p].from] + 1
    <3>1. CASE sup[p].from = NoRun
      BY <1>7, <2>5, <3>1 DEF Launch
    <3>2. CASE sup[p].from # NoRun
      <4>1. /\ intent' = [intent EXCEPT ![sup[p].from] = 0]
            /\ unsettled' = [unsettled EXCEPT ![sup[p].run] = sup[p].attempt]
        BY <1>7, <3>2 DEF Launch
      <4>2. /\ sup[p].from \in Runs /\ sup[p].from \in launched
            /\ sup[p].attempt = nth[sup[p].from] + 1
        BY <3>2, FromMayBeRecovered
      <4>3. sup[p].from # sup[p].run BY <2>2, <4>2
      <4>4. QED BY <2>0, <2>2, <2>3, <2>5, <4>1, <4>2, <4>3 DEF TypeOK
    <3>3. QED BY <3>1, <3>2
  <2>9. ASSUME NEW r \in Runs
        PROVE  /\ worker'[r] = "none" =>
                     /\ intent'[r] = 0 /\ unsettled'[r] = 0 /\ nth'[r] = 0
                     /\ prior'[r] = NoRun /\ result'[r] = "none"
               /\ r >= next' => worker'[r] = "none" /\ r \notin counted'
               /\ unsettled'[r] # 0 => unsettled'[r] = nth'[r] /\ result'[r] = "none"
               /\ intent'[r] # 0 => intent'[r] = nth'[r] + 1
               /\ r \in verdicts' => nth'[r] >= MaxAttempts
               /\ prior'[r] # NoRun =>
                     prior'[r] \in launched' /\ nth'[r] = nth'[prior'[r]] + 1
    <3>1. CASE r = sup[p].run
      BY <2>1, <2>4, <2>5, <2>7, <2>8, <3>1
    <3>2. CASE r # sup[p].run
      BY <2>1, <2>2, <2>3, <2>6, <2>8, <3>2 DEF RunInv
    <3>3. QED BY <3>1, <3>2
  <2>10. QED BY <2>9 DEF RunInv
<1>8. ASSUME NEW r \in Runs, WorkerEnds(r) PROVE RunInv'
  <2>1. launched' = launched /\ \A t \in Runs : worker'[t] = "none" <=> worker[t] = "none"
    BY <1>8 DEF WorkerEnds, launched, TypeOK
  <2>2. UNCHANGED <<next, counted, result, intent, unsettled, prior, nth, verdicts>>
    BY <1>8 DEF WorkerEnds
  <2>3. QED BY <2>1, <2>2 DEF RunInv
<1>9. ASSUME NEW p \in Supervisors, RecordResult(p) PROVE RunInv'
  <2>0. /\ sup[p].run \in Runs /\ worker[sup[p].run] # "none"
        /\ nth[sup[p].run] = sup[p].attempt
    BY <1>9, RunInHand DEF RecordResult, Empty, SupInv, Begun
  <2>1. /\ UNCHANGED <<next, worker, counted, prior, nth, verdicts>>
        /\ launched' = launched
        /\ unsettled' = [unsettled EXCEPT ![sup[p].run] = 0]
    BY <1>9 DEF RecordResult, launched
  <2>2. \A r \in Runs : r # sup[p].run => result'[r] = result[r] /\ intent'[r] = intent[r]
    BY <1>9 DEF RecordResult, TypeOK
  <2>3. intent'[sup[p].run] \in {intent[sup[p].run], sup[p].attempt + 1}
    BY <1>9, <2>0 DEF RecordResult, TypeOK
  <2>4. QED BY <2>0, <2>1, <2>2, <2>3 DEF RunInv, TypeOK, launched
<1>10. ASSUME NEW p \in Supervisors, RecordVerdict(p) PROVE RunInv'
  <2>0. /\ sup[p].run \in Runs /\ worker[sup[p].run] # "none"
        /\ nth[sup[p].run] = sup[p].attempt
    BY <1>10, RunInHand DEF RecordVerdict, Empty, SupInv, Begun, launched
  <2>1. QED
    BY <1>10, <2>0 DEF RecordVerdict, OutOfAttempts, RunInv, TypeOK, launched
<1>11. ASSUME NEW p \in Supervisors, Return(p) PROVE RunInv'
  <2>0. /\ sup[p].run \in Runs /\ worker[sup[p].run] # "none"
        /\ nth[sup[p].run] = sup[p].attempt
    BY <1>11, RunInHand DEF Return, Empty, SupInv, Begun, launched
  <2>1. /\ UNCHANGED <<next, worker, counted, result, prior, nth, verdicts>>
        /\ launched' = launched
        /\ unsettled' = [unsettled EXCEPT ![sup[p].run] = 0]
    BY <1>11 DEF Return, launched
  <2>2. \A r \in Runs : \/ intent'[r] \in {0, intent[r]}
                        \/ r = sup[p].run /\ intent'[r] = sup[p].attempt + 1
    BY <1>11, <2>0 DEF Return, TypeOK
  <2>3. QED BY <2>0, <2>1, <2>2 DEF RunInv, TypeOK, launched
<1>12. QED
  BY <1>1a, <1>1, <1>2, <1>3, <1>4, <1>5, <1>6, <1>7, <1>8, <1>9, <1>10, <1>11 DEF Next

-----------------------------------------------------------------------------
(* One invocation at a time *)

\* What is worth keeping of a step of p in the case that it is alone.
Follows(p) ==
    /\ \A r \in Runs : intent'[r] # 0 \/ unsettled'[r] # 0
                      => ~Succeeded(r) \/ r \in putOff'
    /\ sup'[p].run # NoRun => ~Succeeded(sup'[p].run)
    /\ sup'[p].from # NoRun /\ sup'[p].pc \in {"chosen", "locked", "reserved"}
          => ~Succeeded(sup'[p].from) /\ unsettled'[sup'[p].from] = 0

LEMMA OthersAreOff ==
    ASSUME SupInv, SeqInv, ~overlapped, NEW p \in Supervisors, Active(p),
           NEW q \in Supervisors, q # p
    PROVE  sup[q].pc = "off" /\ sup[q].run = NoRun /\ sup[q].from = NoRun
BY DEF SupInv, SeqInv, Active, Empty

LEMMA SeqKept ==
    ASSUME TypeOK, SupInv, SeqInv, NEW p \in Supervisors, Active(p),
           \A q \in Supervisors : q # p => sup'[q] = sup[q],
           worker' = worker, prior' = prior, overlapped' = overlapped,
           putOff \subseteq putOff',
           ~overlapped => Follows(p)
    PROVE  SeqInv'
<1> SUFFICES ASSUME ~overlapped' PROVE SeqInv'
  BY DEF SeqInv
<1>0. ~overlapped OBVIOUS
<1>1. ASSUME NEW q \in Supervisors, q # p
      PROVE  sup'[q].pc = "off" /\ sup'[q].run = NoRun /\ sup'[q].from = NoRun
  BY <1>0, <1>1, OthersAreOff
<1>2. launched' = launched
  BY DEF launched
<1>3. \A q, s \in Supervisors : Active(q)' /\ Active(s)' => q = s
  BY <1>1 DEF Active
<1>4. \A r \in Runs : intent'[r] # 0 \/ unsettled'[r] # 0
          => r \in putOff' \/ ~(\E t \in launched' : prior'[t] = r)
  BY <1>0, <1>2 DEF Follows, Succeeded, Followed
<1>5. ASSUME NEW q \in Supervisors
      PROVE  /\ sup'[q].run # NoRun => \/ sup'[q].run \in putOff'
                                       \/ ~(\E t \in launched' : prior'[t] = sup'[q].run)
             /\ sup'[q].from # NoRun /\ sup'[q].pc \in {"chosen", "locked", "reserved"}
                   => /\ \/ sup'[q].from \in putOff'
                         \/ ~(\E t \in launched' : prior'[t] = sup'[q].from)
                      /\ unsettled'[sup'[q].from] = 0
  <2>1. CASE q # p BY <1>1, <2>1
  <2>2. CASE q = p BY <1>0, <1>2, <2>2 DEF Follows, Succeeded, Followed
  <2>3. QED BY <2>1, <2>2
<1>6. \A r, t \in launched' :
          prior'[r] = prior'[t] /\ prior'[r] \notin putOff' \cup {NoRun} => r = t
  BY <1>0, <1>2 DEF SeqInv
<1>7. QED BY <1>3, <1>4, <1>5, <1>6 DEF SeqInv, Succeeded, Followed

LEMMA SeqStep ==
    ASSUME TypeOK, SupInv, RunInv, SeqInv, Next
    PROVE  SeqInv'
<1> USE SupTyped DEF recovery, At, TakenForUnlaunched
<1> DEFINE Known(p) ==
        /\ \A r \in Runs : intent[r] # 0 \/ unsettled[r] # 0 => ~Succeeded(r)
        /\ sup[p].run # NoRun => ~Succeeded(sup[p].run)
        /\ sup[p].from # NoRun /\ sup[p].pc \in {"chosen", "locked", "reserved"}
              => ~Succeeded(sup[p].from) /\ unsettled[sup[p].from] = 0
<1>0. ASSUME NEW p \in Supervisors, ~overlapped PROVE Known(p)
  BY <1>0 DEF SeqInv
<1>1. ASSUME NEW p \in Supervisors, Start(p) PROVE SeqInv'
  <2>1. Moved(p, "loop", sup[p].run, sup[p].from, sup[p].attempt)
    BY <1>1, GotoMoves DEF Start
  <2>2. sup[p].run = NoRun /\ sup[p].from = NoRun
    BY <1>1 DEF Start, SupInv, Empty
  <2>3. UNCHANGED <<worker, prior, intent, unsettled>>
    BY <1>1 DEF Start
  <2>4. ~overlapped' => ~overlapped /\ \A q \in Supervisors : sup[q].pc = "off"
    BY <1>1 DEF Start, Active
  <2>5. ASSUME ~overlapped', NEW q \in Supervisors
        PROVE  /\ sup'[q].run = NoRun /\ sup'[q].from = NoRun
               /\ Active(q)' => q = p
    BY <2>1, <2>2, <2>4, <2>5 DEF Moved, Active, SupInv, Empty
  <2>6. putOff' = putOff BY <1>1 DEF Start
  <2>7. QED BY <2>3, <2>4, <2>5, <2>6 DEF SeqInv, Succeeded, Followed, launched
<1>2. ASSUME NEW p \in Supervisors, Look(p) PROVE SeqInv'
  <2>1. \A q \in Supervisors : q # p => sup'[q] = sup[q]
    BY <1>2, LookMoves DEF Outside, Moved
  <2>2. ASSUME NEW r \in Runs
        PROVE  /\ intent'[r] # 0 => intent[r] # 0 \/ unsettled[r] # 0
               /\ Refreshed[r] = intent'[r] /\ unsettled'[r] = 0
    BY <1>2, RefreshedType DEF Look, Refreshed, Spent, Unfinished
  <2>3. ASSUME ~overlapped PROVE Follows(p)
    <3>1. Known(p) BY <1>0, <2>3
    <3>2. \/ \E r \in Runs : /\ Refreshed[r] # 0
                             /\ sup'[p].run = NoRun /\ sup'[p].from = r
          \/ sup'[p].run = NoRun /\ sup'[p].from = NoRun
      BY <1>2, LookMoves DEF Outside, Moved
    <3>3. QED BY <2>2, <3>1, <3>2 DEF Follows
  <2>4. QED BY <1>2, <2>1, <2>3, SeqKept DEF Look, Active
<1>3. ASSUME NEW p \in Supervisors, ProbeFails(p) \/ TaskAbsent(p) PROVE SeqInv'
  <2>1. Outside(p) BY <1>3, EndsMoves DEF ProbeFails, TaskAbsent
  <2>2. \A r \in Runs : intent'[r] # 0 \/ unsettled'[r] # 0
                        => r = sup[p].from \/ intent[r] # 0 \/ unsettled[r] # 0
    BY <1>3 DEF ProbeFails, TaskAbsent, PhaseDefers, PhaseCancels, TypeOK
  <2>3. sup[p].pc = "chosen" /\ sup[p].from # NoRun
    BY <1>3 DEF ProbeFails, TaskAbsent, SupInv
  <2>4. ~overlapped => Follows(p)
    BY <1>0, <2>1, <2>2, <2>3 DEF Follows, Outside, Moved
  <2>5. QED BY <1>3, <2>1, <2>3, <2>4, SeqKept
       DEF ProbeFails, TaskAbsent, Outside, Moved, Active
<1>4. ASSUME NEW p \in Supervisors, TakeLock(p) PROVE SeqInv'
  <2>1. Moved(p, "locked", next, sup[p].from, sup[p].attempt)
    BY <1>4, TakeLockMoves
  <2>2. next \in Runs /\ worker[next] = "none"
    BY <1>4, Constants DEF TakeLock, TypeOK, Runs, RunInv
  <2>3. ~Succeeded(next)
    BY <2>2, Constants DEF Succeeded, Followed, RunInv, launched
  <2>4. sup[p].from # NoRun => sup[p].pc = "chosen"
    BY <1>4 DEF TakeLock, SupInv
  <2>5. UNCHANGED <<intent, unsettled>> BY <1>4 DEF TakeLock
  <2>6. ~overlapped => Follows(p)
    BY <1>0, <2>1, <2>3, <2>4, <2>5 DEF Follows, Moved
  <2>7. QED BY <1>4, <2>1, <2>6, SeqKept DEF TakeLock, Moved, Active
<1>5. ASSUME NEW p \in Supervisors, LockBusy(p) \/ Avoid(p) \/ PreLaunchFails(p)
      PROVE SeqInv'
  <2>1. Withheld(p) /\ Outside(p)
    BY <1>5, WithheldMoves DEF LockBusy, Avoid, PreLaunchFails
  <2>2. \A r \in Runs : intent'[r] # 0 \/ unsettled'[r] # 0
            => (r = sup[p].from /\ r # NoRun) \/ intent[r] # 0 \/ unsettled[r] # 0
    BY <2>1, Constants DEF Withheld, PhaseDefers, TypeOK
  <2>3. sup[p].from # NoRun => sup[p].pc \in {"chosen", "locked", "reserved"}
    BY <1>5 DEF LockBusy, Avoid, PreLaunchFails, SupInv
  <2>4. ~overlapped => Follows(p)
    BY <1>0, <2>1, <2>2, <2>3 DEF Follows, Outside, Moved
  <2>5. QED BY <1>5, <2>1, <2>4, SeqKept
       DEF LockBusy, Avoid, PreLaunchFails, Outside, Moved, Active
<1>6. ASSUME NEW p \in Supervisors, Reserve(p) \/ Release(p) PROVE SeqInv'
  <2>1. \E pc \in {"reserved", "returned"} :
            /\ Moved(p, pc, sup[p].run, sup[p].from, sup[p].attempt)
            /\ pc = "reserved" => sup[p].pc = "locked"
    BY <1>6, GotoMoves DEF Reserve, Release
  <2>2. UNCHANGED <<intent, unsettled>> BY <1>6 DEF Reserve, Release
  <2>3. ~overlapped => Follows(p)
    BY <1>0, <2>1, <2>2 DEF Follows, Moved
  <2>4. QED BY <1>6, <2>1, <2>3, SeqKept DEF Reserve, Release, Moved, Active
<1>7. ASSUME NEW p \in Supervisors, Launch(p) PROVE SeqInv'
  <2> SUFFICES ASSUME ~overlapped' PROVE SeqInv'
    BY DEF SeqInv
  <2> DEFINE run == sup[p].run
             from == sup[p].from
  <2>0. /\ run \in Runs /\ worker[run] = "none" /\ ~overlapped
        /\ sup[p].pc = "reserved"
    BY <1>7, RunInHand DEF Launch, Empty, SupInv
  <2>1. Moved(p, "running", run, from, sup[p].attempt)
    BY <1>7, GotoMoves DEF Launch
  <2>2. /\ worker' = [worker EXCEPT ![run] = "live"]
        /\ prior' = [prior EXCEPT ![run] = from]
    BY <1>7 DEF Launch
  <2>3. launched' = launched \cup {run} /\ run \notin launched
    BY <2>0, <2>2 DEF launched, TypeOK
  <2>4. /\ prior'[run] = from
        /\ \A t \in launched : prior'[t] = prior[t]
    BY <2>0, <2>2, <2>3 DEF TypeOK, launched
  <2>5. Known(p) BY <1>0, <2>0
  <2>6. ~Succeeded(run) /\ from # run
    BY <2>0, <2>3, <2>5, FromMayBeRecovered, Constants
  <2>7. ASSUME NEW r \in Runs, r # from, ~Succeeded(r)
        PROVE  r \in putOff \/ ~(\E t \in launched' : prior'[t] = r)
    BY <2>3, <2>4, <2>7 DEF Succeeded, Followed
  <2>8. ASSUME NEW q \in Supervisors, q # p
        PROVE  sup'[q].pc = "off" /\ sup'[q].run = NoRun /\ sup'[q].from = NoRun
    <3>1. sup'[q] = sup[q] BY <2>1, <2>8 DEF Moved
    <3>2. QED BY <2>0, <2>8, <3>1, OthersAreOff DEF Active
  <2>9. ASSUME NEW r \in Runs, intent'[r] # 0 \/ unsettled'[r] # 0
        PROVE  r # from /\ ~Succeeded(r)
    <3>1. CASE from = NoRun
      BY <1>7, <2>5, <2>9, <3>1, Constants DEF Launch
    <3>2. CASE from # NoRun
      <4>1. /\ intent' = [intent EXCEPT ![from] = 0]
            /\ unsettled' = [unsettled EXCEPT ![run] = sup[p].attempt]
        BY <1>7, <3>2 DEF Launch
      <4>2. from \in Runs /\ unsettled[from] = 0
        BY <2>0, <2>5, <3>2, FromMayBeRecovered
      <4>3. r # from BY <2>6, <2>9, <4>1, <4>2 DEF TypeOK
      <4>4. r = run \/ intent[r] # 0 \/ unsettled[r] # 0
        BY <2>9, <4>1, <4>3 DEF TypeOK
      <4>5. QED BY <2>5, <2>6, <4>3, <4>4
    <3>3. QED BY <3>1, <3>2
  <2>10. ASSUME NEW r \in launched', NEW t \in launched',
                prior'[r] = prior'[t], prior'[r] \notin putOff \cup {NoRun}
         PROVE  r = t
    <3>1. \A x, y \in launched :
              prior[x] = prior[y] /\ prior[x] \notin putOff \cup {NoRun} => x = y
      BY <2>0 DEF SeqInv
    <3>2. from \notin putOff \cup {NoRun} => \A x \in launched : prior[x] # from
      BY <2>0, <2>5 DEF Succeeded, Followed
    <3>3. QED BY <2>3, <2>4, <2>10, <3>1, <3>2
  <2>11. ASSUME NEW q \in Supervisors
         PROVE  /\ sup'[q].run # NoRun =>
                      \/ sup'[q].run \in putOff
                      \/ ~(\E t \in launched' : prior'[t] = sup'[q].run)
                /\ sup'[q].from # NoRun => sup'[q].pc = "running"
                /\ Active(q)' => q = p
    BY <2>0, <2>1, <2>6, <2>7, <2>8 DEF Moved, Active
  <2>12. putOff' = putOff BY <1>7 DEF Launch
  <2>13. QED BY <2>7, <2>9, <2>10, <2>11, <2>12 DEF SeqInv, Succeeded, Followed
<1>8. ASSUME NEW p \in Supervisors, RecordResult(p) PROVE SeqInv'
  <2>0. sup[p].run # NoRun BY <1>8 DEF RecordResult, SupInv, Empty
  <2>1. Moved(p, "recorded", sup[p].run, sup[p].from, sup[p].attempt)
    BY <1>8, GotoMoves DEF RecordResult
  <2>2. \A r \in Runs : intent'[r] # 0 \/ unsettled'[r] # 0
                        => r = sup[p].run \/ intent[r] # 0 \/ unsettled[r] # 0
    BY <1>8 DEF RecordResult, TypeOK
  <2>3. ~overlapped => Follows(p)
    BY <1>0, <2>0, <2>1, <2>2 DEF Follows, Moved
  <2>4. QED BY <1>8, <2>1, <2>3, SeqKept DEF RecordResult, Moved, Active
<1>9. ASSUME NEW p \in Supervisors, RecordVerdict(p) PROVE SeqInv'
  <2>1. \A r \in Runs : unsettled'[r] # 0 => unsettled[r] # 0
    BY <1>9 DEF RecordVerdict, TypeOK
  <2>2. ~overlapped => Follows(p)
    BY <1>0, <1>9, <2>1 DEF RecordVerdict, Follows
  <2>3. QED BY <1>9, <2>2, SeqKept DEF RecordVerdict, Active
<1>10. ASSUME NEW p \in Supervisors, RunRaises(p) \/ Dies(p) PROVE SeqInv'
  <2>1. Outside(p) BY <1>10, EndsMoves DEF RunRaises, Dies
  <2>2. \A r \in Runs : intent'[r] # 0 \/ unsettled'[r] # 0
                        => r \in putOff' \/ intent[r] # 0 \/ unsettled[r] # 0
    BY <1>10 DEF RunRaises, Dies, PhaseDefers, TypeOK
  <2>3. ~overlapped => Follows(p)
    BY <1>0, <2>1, <2>2 DEF Follows, Outside, Moved
  <2>4. QED BY <1>10, <2>1, <2>3, SeqKept DEF RunRaises, Dies, Outside, Moved, Active
<1>11. ASSUME NEW p \in Supervisors, Return(p) PROVE SeqInv'
  <2>0. sup[p].run \in Runs /\ sup[p].run # NoRun
    BY <1>11, RunInHand, Constants DEF Return, Empty
  <2>1. /\ \A q \in Supervisors : q # p => sup'[q] = sup[q]
        /\ sup'[p].run = NoRun /\ sup'[p].from \in {NoRun, sup[p].run}
    BY <1>11, ReturnMoves DEF Outside, Moved
  <2>2. \A r \in Runs : /\ intent'[r] # 0 => r = sup[p].run \/ intent[r] # 0
                        /\ unsettled'[r] # 0 => unsettled[r] # 0
    BY <1>11 DEF Return, TypeOK
  <2>3. unsettled'[sup[p].run] = 0
    BY <1>11, <2>0 DEF Return, TypeOK
  <2>4. ~overlapped => Follows(p)
    BY <1>0, <2>0, <2>1, <2>2, <2>3 DEF Follows
  <2>5. QED BY <1>11, <2>1, <2>4, SeqKept DEF Return, Active
<1>12. CASE (\E r \in Runs : WorkerEnds(r)) \/ Reset \/ RecoverLock
  <2>1. launched' = launched
    BY <1>12 DEF WorkerEnds, Reset, RecoverLock, launched, TypeOK
  <2>2. UNCHANGED <<sup, intent, unsettled, prior, putOff, overlapped>>
    BY <1>12 DEF WorkerEnds, Reset, RecoverLock
  <2>3. QED BY <2>1, <2>2 DEF SeqInv, Succeeded, Followed, Active
<1>13. QED
  BY <1>1, <1>2, <1>3, <1>4, <1>5, <1>6, <1>7, <1>8, <1>9, <1>10, <1>11, <1>12
     DEF Next

\* A recovery is of a run that may be recovered, and a verdict is on one that may
\* not.
LEMMA OnceHolds ==
    ASSUME TypeOK, RunInv, SeqInv
    PROVE  RecoveredOnce
<1>1. ASSUME NEW r \in launched PROVE prior[r] \notin verdicts
  <2>1. r \in Runs /\ nth[r] \in 0..MaxAttempts /\ verdicts \subseteq Runs
    BY DEF launched, TypeOK
  <2>2. CASE prior[r] = NoRun BY <2>1, <2>2, Constants
  <2>3. CASE prior[r] # NoRun
    <3>1. prior[r] \in Runs /\ nth[r] = nth[prior[r]] + 1 /\ nth[prior[r]] \in Nat
      BY <2>1, <2>3, Constants DEF RunInv, launched, TypeOK
    <3>2. nth[prior[r]] < MaxAttempts BY <2>1, <3>1, Constants
    <3>3. QED BY <3>1, <3>2, Constants DEF RunInv
  <2>4. QED BY <2>2, <2>3
<1>2. QED BY <1>1 DEF RecoveredOnce, SeqInv

-----------------------------------------------------------------------------
(* Nothing is forgotten *)

\* A run that should be recovered, and where it is kept until it is.
Owed(r) ==
    \/ result[r] = "unknown" /\ nth[r] < MaxAttempts
    \/ result[r] = "none" /\ nth[r] > 0
Kept(r) ==
    intent[r] # 0 \/ unsettled[r] # 0 \/ r \in cancelled \cup verdicts \/ Followed(r)

LEMMA ForgottenIsKept == NothingForgotten <=> \A r \in launched : Owed(r) => Kept(r)
BY DEF NothingForgotten, Owed, Kept, Followed

LEMMA ForgottenStep ==
    ASSUME TypeOK, TypeOK', SupInv, RunInv, NothingForgotten, Next
    PROVE  NothingForgotten'
<1> USE SupTyped DEF recovery, At, TakenForUnlaunched
<1>0. \A r \in launched : Owed(r) => Kept(r) BY ForgottenIsKept
<1>0a. (\A r \in launched' : Owed(r)' => Kept(r)') => NothingForgotten'
  BY DEF NothingForgotten, Owed, Kept, Followed
<1>0b. launched \subseteq Runs /\ launched' \subseteq Runs
  BY DEF launched
<1>1. CASE \/ \E p \in Supervisors :
                 \/ Start(p) \/ TakeLock(p) \/ Reserve(p) \/ Release(p)
                 \/ Dies(p)
           \/ \E r \in Runs : WorkerEnds(r)
           \/ Reset \/ RecoverLock
  <2>1. UNCHANGED <<result, intent, unsettled, prior, nth, cancelled, verdicts>>
    BY <1>1 DEF Start, TakeLock, Reserve, Release, Dies, WorkerEnds, Reset,
       RecoverLock
  <2>2. launched' = launched
    BY <1>1 DEF Start, TakeLock, Reserve, Release, Dies, WorkerEnds, Reset,
       RecoverLock, launched, TypeOK
  <2>3. QED BY <1>0, <1>0a, <2>1, <2>2 DEF Owed, Kept, Followed
<1>2. ASSUME NEW p \in Supervisors, Look(p) PROVE NothingForgotten'
  <2>1. UNCHANGED <<prior, nth, cancelled>> /\ launched' = launched
        /\ verdicts' = verdicts \cup Spent
    BY <1>2 DEF Look, launched
  <2>2. ASSUME NEW r \in Runs
        PROVE  /\ intent'[r] = Refreshed[r]
               /\ result'[r] = IF r \in Spent THEN "exhausted" ELSE result[r]
    BY <1>2, RefreshedType DEF Look
  <2>3. ASSUME NEW r \in Runs, intent[r] # 0 \/ unsettled[r] # 0, r \notin Spent
        PROVE  Refreshed[r] # 0
    BY <2>3, Constants DEF Refreshed, Spent, Unfinished, TypeOK
  <2>4. ASSUME NEW r \in launched', Owed(r)' PROVE Kept(r)'
    <3>1. r \in Runs /\ r \in launched BY <2>1, <1>0b
    <3>2. Owed(r) BY <2>1, <2>2, <2>4, <3>1 DEF Owed
    <3>3. Kept(r) BY <1>0, <3>1, <3>2
    <3>4. QED BY <2>1, <2>2, <2>3, <3>1, <3>3 DEF Kept, Followed
  <2>5. QED BY <1>0a, <2>4
<1>3. ASSUME NEW p \in Supervisors,
             \/ ProbeFails(p) \/ TaskAbsent(p) \/ LockBusy(p) \/ Avoid(p)
             \/ PreLaunchFails(p) \/ RunRaises(p)
      PROVE  NothingForgotten'
  <2>1. UNCHANGED <<result, prior, nth, verdicts, worker>> /\ launched' = launched
    BY <1>3 DEF ProbeFails, TaskAbsent, LockBusy, Avoid, PreLaunchFails, RunRaises,
       launched
  <2>2. sup[p].from # NoRun => sup[p].from \in Runs /\ sup[p].attempt # 0
    BY FromMayBeRecovered, Constants DEF TypeOK
  <2>3. \/ /\ sup[p].from # NoRun /\ cancelled' = cancelled
           /\ PhaseDefers(sup[p].from, sup[p].attempt)
        \/ /\ sup[p].from # NoRun /\ cancelled' = cancelled \cup {sup[p].from}
           /\ PhaseCancels(sup[p].from)
        \/ UNCHANGED <<intent, unsettled, cancelled>>
    BY <1>3 DEF ProbeFails, TaskAbsent, LockBusy, Avoid, PreLaunchFails, RunRaises,
       Withheld, SupInv
  <2>4. ASSUME NEW r \in Runs, intent[r] # 0 \/ unsettled[r] # 0
        PROVE  intent'[r] # 0 \/ unsettled'[r] # 0 \/ r \in cancelled'
    BY <2>2, <2>3, <2>4 DEF PhaseDefers, PhaseCancels, TypeOK
  <2>5. cancelled \subseteq cancelled' BY <2>3
  <2>6. ASSUME NEW r \in launched', Owed(r)' PROVE Kept(r)'
    <3>1. r \in Runs /\ r \in launched BY <2>1, <1>0b
    <3>2. Owed(r) BY <2>1, <2>6 DEF Owed
    <3>3. Kept(r) BY <1>0, <3>1, <3>2
    <3>4. QED BY <2>1, <2>4, <2>5, <3>1, <3>3 DEF Kept, Followed
  <2>7. QED BY <1>0a, <2>6
<1>4. ASSUME NEW p \in Supervisors, Launch(p) PROVE NothingForgotten'
  <2> DEFINE from == sup[p].from
  <2>r. PICK run \in Runs : run = sup[p].run
    BY <1>4, RunInHand DEF Launch, Empty
  <2>0. run \in Runs /\ worker[run] = "none"
    BY <1>4, <2>r DEF Launch, SupInv
  <2>1. /\ worker' = [worker EXCEPT ![run] = "live"]
        /\ prior' = [prior EXCEPT ![run] = from]
        /\ nth' = [nth EXCEPT ![run] = sup[p].attempt]
        /\ UNCHANGED <<result, cancelled, verdicts>>
    BY <1>4, <2>r DEF Launch
  <2>2. launched' = launched \cup {run} /\ run \notin launched
    BY <2>0, <2>1 DEF launched, TypeOK
  <2>3. /\ prior'[run] = from /\ nth'[run] = sup[p].attempt
        /\ \A t \in launched : prior'[t] = prior[t] /\ nth'[t] = nth[t]
    BY <2>0, <2>1, <2>2 DEF TypeOK, launched
  <2>4. from # NoRun =>
            /\ intent' = [intent EXCEPT ![from] = 0]
            /\ unsettled' = [unsettled EXCEPT ![run] = sup[p].attempt]
            /\ from \in Runs /\ sup[p].attempt # 0
    BY <1>4, <2>r, FromMayBeRecovered, Constants DEF Launch, TypeOK
  <2>5. from = NoRun => UNCHANGED <<intent, unsettled>> /\ sup[p].attempt = 0
    BY <1>4 DEF Launch, SupInv
  <2>6. ASSUME Owed(run)' PROVE Kept(run)'
    <3>1. CASE from = NoRun BY <2>0, <2>1, <2>3, <2>5, <2>6, <3>1 DEF Owed, RunInv
    <3>2. CASE from # NoRun BY <2>0, <2>4, <3>2 DEF Kept, TypeOK
    <3>3. QED BY <3>1, <3>2
  <2>7. ASSUME NEW r \in launched, Owed(r)' PROVE Kept(r)'
    <3>1. r \in Runs /\ r # run /\ Owed(r)
      BY <1>0b, <2>1, <2>2, <2>3, <2>7 DEF Owed
    <3>2. Kept(r) BY <1>0, <3>1
    <3>3. CASE r = from
      BY <2>2, <2>3, <3>3 DEF Kept, Followed
    <3>4. CASE r # from
      <4>1. intent'[r] = intent[r] /\ unsettled'[r] = unsettled[r]
        BY <2>4, <2>5, <3>1, <3>4 DEF TypeOK
      <4>2. QED BY <2>1, <2>2, <2>3, <3>2, <4>1 DEF Kept, Followed
    <3>5. QED BY <3>3, <3>4
  <2>8. QED BY <1>0a, <2>2, <2>6, <2>7
<1>5. ASSUME NEW p \in Supervisors, RecordResult(p) PROVE NothingForgotten'
  <2>r. PICK run \in Runs : run = sup[p].run
    BY <1>5, RunInHand DEF RecordResult, Empty
  <2>0. /\ run \in Runs /\ run \in launched /\ nth[run] = sup[p].attempt
        /\ sup[p].attempt \in Nat
    BY <1>5, <2>r, AttemptTyped DEF RecordResult, SupInv, Begun
  <2>1. /\ UNCHANGED <<prior, nth, cancelled, verdicts>> /\ launched' = launched
        /\ unsettled' = [unsettled EXCEPT ![run] = 0]
    BY <1>5, <2>r DEF RecordResult, launched
  <2>2. PICK class \in {"completed", "unknown", "failed"} \cup Walls :
            /\ result' = [result EXCEPT ![run] = class]
            /\ intent' = IF class = "unknown" /\ sup[p].attempt < MaxAttempts
                         THEN [intent EXCEPT ![run] = sup[p].attempt + 1] ELSE intent
    BY <1>5, <2>r DEF RecordResult
  <2>3. ASSUME Owed(run)' PROVE Kept(run)'
    <3>1. class = "unknown" /\ sup[p].attempt < MaxAttempts
      BY <2>0, <2>1, <2>2, <2>3 DEF Owed, Walls, TypeOK
    <3>2. intent'[run] = sup[p].attempt + 1 /\ sup[p].attempt + 1 # 0
      BY <2>0, <2>2, <3>1 DEF TypeOK
    <3>3. QED BY <3>2 DEF Kept
  <2>4. ASSUME NEW r \in launched, r # run, Owed(r)' PROVE Kept(r)'
    <3>1. /\ r \in Runs /\ result'[r] = result[r] /\ intent'[r] = intent[r]
          /\ unsettled'[r] = unsettled[r]
      BY <1>0b, <2>1, <2>2, <2>4 DEF TypeOK
    <3>2. Kept(r) BY <1>0, <2>1, <2>4, <3>1 DEF Owed
    <3>3. QED BY <2>1, <3>1, <3>2 DEF Kept, Followed
  <2>5. QED BY <1>0a, <2>1, <2>3, <2>4
<1>6. ASSUME NEW p \in Supervisors, RecordVerdict(p) PROVE NothingForgotten'
  <2>0. sup[p].run \in Runs BY <1>6, RunInHand DEF RecordVerdict, Empty
  <2>1. /\ UNCHANGED <<prior, nth, cancelled, intent>> /\ launched' = launched
        /\ verdicts' = verdicts \cup {sup[p].run}
        /\ result' = [result EXCEPT ![sup[p].run] = "exhausted"]
        /\ unsettled' = [unsettled EXCEPT ![sup[p].run] = 0]
    BY <1>6 DEF RecordVerdict, launched
  <2>2. ASSUME NEW r \in launched, Owed(r)' PROVE Kept(r)'
    <3>1. /\ r \in Runs /\ r # sup[p].run => /\ result'[r] = result[r]
                                             /\ unsettled'[r] = unsettled[r]
      BY <1>0b, <2>1, <2>2 DEF TypeOK
    <3>2. CASE r = sup[p].run BY <2>1, <3>2 DEF Kept
    <3>3. CASE r # sup[p].run
      <4>1. Kept(r) BY <1>0, <1>0b, <2>1, <2>2, <3>1, <3>3 DEF Owed
      <4>2. QED BY <1>0b, <2>1, <3>1, <3>3, <4>1 DEF Kept, Followed
    <3>4. QED BY <3>2, <3>3
  <2>3. QED BY <1>0a, <2>1, <2>2
<1>7. ASSUME NEW p \in Supervisors, Return(p) PROVE NothingForgotten'
  <2> DEFINE run == sup[p].run
             from == sup[p].from
  <2>0. /\ run \in Runs /\ run \in launched /\ prior[run] = from /\ unsettled[run] = 0
        /\ sup[p].attempt \in Nat
    BY <1>7, RunInHand, AttemptTyped DEF Return, Empty, SupInv, Begun
  <2>1. UNCHANGED <<result, prior, nth, cancelled, verdicts>> /\ launched' = launched
    BY <1>7 DEF Return, launched
  <2>2. ASSUME NEW r \in Runs
        PROVE  /\ unsettled[r] # 0 => unsettled'[r] # 0
               /\ intent[r] # 0 => intent'[r] # 0 \/ r = from
    <3>1. unsettled' = [unsettled EXCEPT ![run] = 0] BY <1>7 DEF Return
    <3>2. \/ intent'[r] = IF r = from THEN 0 ELSE intent[r]
          \/ r = run /\ intent'[r] = sup[p].attempt + 1
      BY <1>7, <2>0 DEF Return
    <3>3. QED BY <2>0, <3>1, <3>2 DEF TypeOK
  <2>3. ASSUME NEW r \in launched, Owed(r)' PROVE Kept(r)'
    <3>1. Kept(r) BY <1>0, <2>1, <2>3 DEF Owed
    <3>2. r = from => Followed(r) BY <2>0 DEF Followed
    <3>3. QED BY <1>0b, <2>1, <2>2, <3>1, <3>2 DEF Kept, Followed
  <2>4. QED BY <1>0a, <2>1, <2>3
<1>8. QED BY <1>1, <1>2, <1>3, <1>4, <1>5, <1>6, <1>7 DEF Next

-----------------------------------------------------------------------------
(* How many recoveries may be out at once *)

LEMMA Finiteness ==
    ASSUME TypeOK
    PROVE  /\ IsFiniteSet(Runs) /\ IsFiniteSet(Orphans) /\ IsFiniteSet(Busy)
           /\ IsFiniteSet(counted)
           /\ Cardinality(Orphans) \in Nat /\ Cardinality(Busy) \in Nat
           /\ Cardinality(Supervisors) \in Nat /\ Width \in Nat
<1>1. IsFiniteSet(Runs) BY FS_Interval, Constants DEF Runs
<1>2. Orphans \subseteq Runs /\ Busy \subseteq Supervisors /\ counted \subseteq Runs
  BY DEF Orphans, Busy, TypeOK
<1>3. IsFiniteSet(Orphans) /\ IsFiniteSet(Busy) /\ IsFiniteSet(counted)
  BY <1>1, <1>2, FS_Subset, Constants
<1>4. QED BY <1>1, <1>3, FS_CardinalityType, Constants DEF Width

\* Invocations beyond their look are as many as may be active.
LEMMA BusyFits ==
    ASSUME TypeOK, SeqInv
    PROVE  Cardinality(Busy) <= Width
<1>1. CASE overlapped
  BY <1>1, Constants, FS_Subset DEF Busy, Width
<1>2. CASE ~overlapped
  <2>1. \A p, q \in Busy : p = q
    BY <1>2 DEF SeqInv, Busy, Active
  <2>2. CASE Busy = {}
    BY <1>2, <2>2, FS_EmptySet DEF Width
  <2>3. CASE Busy # {}
    <3>1. PICK p \in Busy : TRUE BY <2>3
    <3>2. Busy = {p} BY <2>1, <3>1
    <3>3. Cardinality({p}) = 1 BY FS_Singleton
    <3>4. QED BY <1>2, <3>2, <3>3 DEF Width
  <2>4. QED BY <2>2, <2>3
<1>3. QED BY <1>1, <1>2 DEF TypeOK

LEMMA Narrows ==
    ASSUME TypeOK, TypeOK', WidthInv, Width <= Width',
           Orphans' \subseteq Orphans, Busy' \subseteq Busy
    PROVE  WidthInv'
<1>1. /\ Cardinality(Orphans') <= Cardinality(Orphans)
      /\ Cardinality(Busy') <= Cardinality(Busy)
      /\ Cardinality(Orphans') \in Nat /\ Cardinality(Busy') \in Nat /\ Width' \in Nat
  <2>1. IsFiniteSet(Orphans) /\ IsFiniteSet(Busy) BY Finiteness
  <2>2. IsFiniteSet(Orphans') /\ IsFiniteSet(Busy') BY <2>1, FS_Subset
  <2>3. QED BY <2>1, <2>2, FS_Subset, FS_CardinalityType, Constants DEF Width
<1>2. QED BY <1>1, Finiteness DEF WidthInv

\* An invocation that ends leaves one orphan at most.
LEMMA Leaves ==
    ASSUME TypeOK, TypeOK', WidthInv, Width' = Width, NEW p \in Busy, NEW r,
           Orphans' \subseteq Orphans \cup {r}, Busy' \subseteq Busy \ {p}
    PROVE  WidthInv'
<1>1. IsFiniteSet(Orphans) /\ IsFiniteSet(Busy) BY Finiteness
<1>2. Cardinality(Orphans') <= Cardinality(Orphans) + 1
  <2>1. /\ IsFiniteSet(Orphans \cup {r})
        /\ Cardinality(Orphans \cup {r}) <= Cardinality(Orphans) + 1
    <3>1. /\ IsFiniteSet(Orphans \cup {r})
          /\ Cardinality(Orphans \cup {r}) =
                IF r \in Orphans THEN Cardinality(Orphans) ELSE Cardinality(Orphans) + 1
      BY <1>1, FS_AddElement
    <3>2. QED BY <3>1, Finiteness
  <2>2. Cardinality(Orphans') <= Cardinality(Orphans \cup {r})
        /\ Cardinality(Orphans \cup {r}) \in Nat /\ Cardinality(Orphans') \in Nat
    BY <2>1, FS_Subset, FS_CardinalityType
  <2>3. QED BY <2>1, <2>2, Finiteness
<1>3. Cardinality(Busy') <= Cardinality(Busy) - 1
  <2>1. /\ IsFiniteSet(Busy \ {p})
        /\ Cardinality(Busy \ {p}) = Cardinality(Busy) - 1
    BY <1>1, FS_RemoveElement
  <2>2. QED BY <2>1, FS_Subset
<1>4. Cardinality(Orphans') \in Nat /\ Cardinality(Busy') \in Nat
  <2>1. IsFiniteSet(Orphans \cup {r}) BY <1>1, FS_AddElement
  <2>2. IsFiniteSet(Orphans') /\ IsFiniteSet(Busy') BY <1>1, <2>1, FS_Subset
  <2>3. QED BY <2>2, FS_CardinalityType
<1>5. QED BY <1>2, <1>3, <1>4, Finiteness DEF WidthInv

\* Who is outside of a dispatch leaves the run it had in hand.
LEMMA OutsideLeaves ==
    ASSUME TypeOK, NEW p \in Supervisors, Outside(p),
           \A r \in Runs : unsettled'[r] # 0 => unsettled[r] # 0
    PROVE  /\ Orphans' \subseteq Orphans \cup {sup[p].run}
           /\ Busy' \subseteq Busy \ {p}
<1>1. ASSUME NEW r \in Orphans', r # sup[p].run PROVE r \in Orphans
  BY <1>1 DEF Orphans, Outside, Moved
<1>2. QED BY <1>1 DEF Busy, Outside, Moved

\* Who goes on with the run in hand, or with one that needs no recovery, leaves
\* none.
LEMMA GoingOnNarrows ==
    ASSUME TypeOK, NEW p \in Supervisors, sup[p].pc \notin {"off", "loop"},
           \A q \in Supervisors : q # p => sup'[q] = sup[q],
           \A r \in Runs : unsettled'[r] # 0 => unsettled[r] # 0 \/ r = sup'[p].run,
           sup'[p].run = sup[p].run \/ sup[p].run = NoRun \/ unsettled'[sup[p].run] = 0
    PROVE  Orphans' \subseteq Orphans /\ Busy' \subseteq Busy
<1>1. ASSUME NEW r \in Orphans' PROVE r \in Orphans
  BY <1>1, Constants DEF Orphans
<1>2. QED BY <1>1 DEF Busy

LEMMA WidthStep ==
    ASSUME TypeOK, TypeOK', SupInv, RunInv, SeqInv', WidthInv, Next
    PROVE  WidthInv'
<1> USE SupTyped DEF recovery, At, TakenForUnlaunched
<1>0. overlapped' = overlapped => Width' = Width /\ Width <= Width'
  BY Finiteness DEF Width
<1>1. ASSUME NEW p \in Supervisors, Start(p) PROVE WidthInv'
  <2>1. Moved(p, "loop", sup[p].run, sup[p].from, sup[p].attempt)
    BY <1>1, GotoMoves DEF Start
  <2>2. Orphans' \subseteq Orphans /\ Busy' \subseteq Busy
    BY <1>1, <2>1 DEF Start, Moved, Orphans, Busy
  <2>3. Width <= Width'
    <3>1. 1 <= Cardinality(Supervisors)
      <4>1. Cardinality({p}) = 1 /\ {p} \subseteq Supervisors BY FS_Singleton
      <4>2. QED BY <4>1, FS_Subset, Constants
    <3>2. QED BY <1>1, <3>1, Finiteness DEF Start, Width, TypeOK
  <2>4. QED BY <2>2, <2>3, Narrows
<1>2. ASSUME NEW p \in Supervisors, Look(p) PROVE WidthInv'
  <2>1. Orphans' = {} BY <1>2 DEF Look, Orphans
  <2>2. Cardinality(Orphans') = 0 BY <2>1, FS_EmptySet
  <2>3. (Cardinality(Busy) <= Width /\ Cardinality(Busy) \in Nat)'
    <3>1. (TypeOK /\ SeqInv => Cardinality(Busy) <= Width /\ Cardinality(Busy) \in Nat)'
      BY BusyFits, Finiteness, PTL
    <3>2. QED BY <3>1
  <2>4. QED BY <2>2, <2>3 DEF WidthInv
<1>3. ASSUME NEW p \in Supervisors,
             \/ ProbeFails(p) \/ TaskAbsent(p) \/ LockBusy(p) \/ Avoid(p)
             \/ PreLaunchFails(p) \/ RunRaises(p)
      PROVE  WidthInv'
  <2>1. Outside(p)
    BY <1>3, EndsMoves, WithheldMoves DEF ProbeFails, TaskAbsent, LockBusy, Avoid,
       PreLaunchFails, RunRaises
  <2>2. p \in Busy /\ overlapped' = overlapped
    BY <1>3 DEF ProbeFails, TaskAbsent, LockBusy, Avoid, PreLaunchFails, RunRaises, Busy
  <2>3. \A r \in Runs : unsettled'[r] # 0 => unsettled[r] # 0
    BY <1>3 DEF ProbeFails, TaskAbsent, LockBusy, Avoid, PreLaunchFails, RunRaises,
       Withheld, PhaseDefers, PhaseCancels, TypeOK
  <2>4. QED BY <1>0, <2>1, <2>2, <2>3, OutsideLeaves, Leaves
<1>4. ASSUME NEW p \in Supervisors, Dies(p) PROVE WidthInv'
  <2>1. Outside(p) /\ unsettled' = unsettled /\ overlapped' = overlapped
    BY <1>4, EndsMoves DEF Dies
  <2>2. CASE p \in Busy
    BY <1>0, <2>1, <2>2, OutsideLeaves, Leaves
  <2>3. CASE p \notin Busy
    <3>1. sup[p].run = NoRun BY <2>3 DEF Busy, SupInv, Empty
    <3>2. NoRun \notin Orphans' BY Constants DEF Orphans
    <3>3. Orphans' \subseteq Orphans /\ Busy' \subseteq Busy
      BY <2>1, <3>1, <3>2, OutsideLeaves
    <3>4. QED BY <1>0, <2>1, <3>3, Narrows
  <2>4. QED BY <2>2, <2>3
<1>5. ASSUME NEW p \in Supervisors,
             \/ TakeLock(p) \/ Reserve(p) \/ Release(p) \/ RecordResult(p)
             \/ RecordVerdict(p) \/ Launch(p)
      PROVE  WidthInv'
  <2>1. /\ \A q \in Supervisors : q # p => sup'[q] = sup[q]
        /\ sup'[p].run = sup[p].run \/ sup[p].run = NoRun
    BY <1>5, GotoMoves, TakeLockMoves DEF TakeLock, Reserve, Release, RecordResult,
       RecordVerdict, Launch, Moved, SupInv, Empty
  <2>2. sup[p].pc \notin {"off", "loop"} /\ overlapped' = overlapped
    BY <1>5 DEF TakeLock, Reserve, Release, RecordResult, RecordVerdict, Launch
  <2>3. \A r \in Runs : unsettled'[r] # 0 => unsettled[r] # 0 \/ r = sup'[p].run
    <3>1. CASE Launch(p)
      <4>1. sup'[p].run = sup[p].run BY <3>1, GotoMoves DEF Launch, Moved
      <4>2. QED BY <3>1, <4>1 DEF Launch, TypeOK
    <3>2. CASE ~Launch(p)
      BY <1>5, <3>2 DEF TakeLock, Reserve, Release, RecordResult, RecordVerdict, TypeOK
    <3>3. QED BY <3>1, <3>2
  <2>4. QED BY <1>0, <2>1, <2>2, <2>3, GoingOnNarrows, Narrows
<1>6. ASSUME NEW p \in Supervisors, Return(p) PROVE WidthInv'
  <2>0. /\ sup[p].run \in Runs /\ p \in Busy /\ overlapped' = overlapped
        /\ unsettled' = [unsettled EXCEPT ![sup[p].run] = 0]
    BY <1>6, RunInHand DEF Return, Empty, Busy
  <2>1. /\ \A r \in Runs : unsettled'[r] # 0 => unsettled[r] # 0
        /\ unsettled'[sup[p].run] = 0
    BY <2>0 DEF TypeOK
  <2>2. CASE Outside(p)
    BY <1>0, <2>0, <2>1, <2>2, OutsideLeaves, Leaves
  <2>3. CASE ~Outside(p)
    <3>1. \A q \in Supervisors : q # p => sup'[q] = sup[q]
      BY <1>6, <2>3, ReturnMoves DEF Moved
    <3>2. QED BY <1>0, <2>0, <2>1, <3>1, GoingOnNarrows, Narrows DEF Busy
  <2>4. QED BY <2>2, <2>3
<1>7. CASE (\E r \in Runs : WorkerEnds(r)) \/ Reset \/ RecoverLock
  <2>1. UNCHANGED <<sup, unsettled, overlapped>>
    BY <1>7 DEF WorkerEnds, Reset, RecoverLock
  <2>2. QED BY <1>0, <2>1, Narrows DEF Orphans, Busy
<1>8. QED BY <1>1, <1>2, <1>3, <1>4, <1>5, <1>6, <1>7 DEF Next

-----------------------------------------------------------------------------
(* The circuit *)

LEMMA ChargedFinite ==
    ASSUME TypeOK, NEW c
    PROVE  /\ IsFiniteSet(Charged(c)) /\ Cardinality(Charged(c)) \in Nat
           /\ IsFiniteSet({r \in counted : result[r] = c}) /\ Count(c) \in Nat
           /\ Count(c) <= Cardinality(Charged(c))
           /\ IsFiniteSet({r \in counted : result[r] = "none"}) /\ Pending \in Nat
<1>1. IsFiniteSet(counted) BY Finiteness
<1>2. /\ Charged(c) \subseteq counted
      /\ {r \in counted : result[r] = c} \subseteq Charged(c)
      /\ {r \in counted : result[r] = "none"} \subseteq counted
  BY DEF Charged
<1>3. IsFiniteSet(Charged(c)) /\ IsFiniteSet({r \in counted : result[r] = "none"})
  BY <1>1, <1>2, FS_Subset
<1>4. /\ IsFiniteSet({r \in counted : result[r] = c})
      /\ Cardinality({r \in counted : result[r] = c}) <= Cardinality(Charged(c))
  BY <1>2, <1>3, FS_Subset
<1>5. QED BY <1>3, <1>4, FS_CardinalityType DEF Count, Pending

\* The class that decides has the most failures.
LEMMA WorstIsMost ==
    ASSUME TypeOK
    PROVE  Worst \in Nat /\ \A c \in Classes : Count(c) <= Worst
<1>1. \A c \in Classes : Count(c) \in Nat BY ChargedFinite
<1>2. \E n \in {Count(c) : c \in Classes} : \A c \in Classes : n >= Count(c)
  <2>1. PICK a, b, d : a = Count("unknown") /\ b = Count("failed") /\ d = Count("exhausted")
    OBVIOUS
  <2>2. a \in Nat /\ b \in Nat /\ d \in Nat BY <1>1, <2>1 DEF Classes
  <2>3. /\ {Count(c) : c \in Classes} = {a, b, d}
        /\ \A n : (\A c \in Classes : n >= Count(c)) <=> n >= a /\ n >= b /\ n >= d
    BY <2>1 DEF Classes
  <2>4. \E n \in {a, b, d} : n >= a /\ n >= b /\ n >= d BY <2>2
  <2>5. QED BY <2>3, <2>4
<1>3. /\ Worst \in {Count(c) : c \in Classes}
      /\ \A c \in Classes : Worst >= Count(c)
  BY <1>2 DEF Worst
<1>4. QED BY <1>1, <1>3

\* Who is about to reserve finds in flight only orphans.
LEMMA OpenIsOrphaned ==
    ASSUME TypeOK, SupInv, RunInv, NEW p \in Supervisors, sup[p].pc = "locked",
           NEW r \in Runs, Open(r)
    PROVE  r \in Orphans /\ result[r] = "none"
<1>1. \A q \in Supervisors : sup[q].pc \notin InFlight
  BY OneLocks DEF InFlight, Locking
<1>2. unsettled[r] # 0 BY <1>1 DEF Open
<1>3. ASSUME NEW q \in Supervisors, sup[q].run = r PROVE FALSE
  <2>1. sup[q].pc \notin Empty BY <1>3, Constants DEF SupInv
  <2>2. sup[q].pc \in {"locked", "returned"}
    BY <1>1, <2>1, SupTyped DEF SupType, Empty, InFlight
  <2>3. QED BY <1>2, <1>3, <2>2 DEF SupInv, RunInv
<1>4. QED BY <1>2, <1>3 DEF Orphans, RunInv

LEMMA ReserveKeepsCircuit ==
    ASSUME TypeOK, SupInv, RunInv, WidthInv, NEW p \in Supervisors, Reserve(p)
    PROVE  CircuitInv'
<1>0. sup[p].pc = "locked" /\ p \in Busy /\ sup[p].run \in Runs
  BY RunInHand DEF Reserve, At, Busy, Empty
<1>1. Moved(p, "reserved", sup[p].run, sup[p].from, sup[p].attempt)
  BY GotoMoves, SupTyped DEF Reserve
<1>2. /\ counted' = counted \cup {sup[p].run} /\ UNCHANGED <<result, unsettled, overlapped>>
  BY DEF Reserve, recovery
<1>3. ASSUME NEW r \in Runs, r # sup[p].run, Open(r)' PROVE Open(r)
  BY <1>1, <1>2, <1>3 DEF Open, Moved
<1>4. counted \subseteq Runs /\ Width' = Width
  BY <1>2 DEF TypeOK, Width
<1>5. SUFFICES ASSUME NEW c \in Classes
               PROVE  \/ Cardinality(Charged(c)') <= Threshold
                      \/ Cardinality(Charged(c)') <= Width
  BY <1>4 DEF CircuitInv
<1>5a. /\ Count(c) \in Nat /\ Count(c) <= Worst
       /\ Worst \in Nat /\ Pending \in Nat
  <2>1. Count(c) \in Nat /\ Pending \in Nat BY ChargedFinite
  <2>2. Worst \in Nat /\ \A d \in Classes : Count(d) <= Worst BY WorstIsMost
  <2>3. QED BY <2>1, <2>2
<1>6. ASSUME NEW r \in Charged(c)', r # sup[p].run
      PROVE  r \in counted /\ (result[r] = c \/ (r \in Orphans /\ result[r] = "none"))
  <2>1. r \in counted /\ r \in Runs BY <1>2, <1>4, <1>6 DEF Charged
  <2>2. result[r] = c \/ Open(r)' BY <1>2, <1>6 DEF Charged
  <2>3. QED BY <1>0, <1>3, <1>6, <2>1, <2>2, OpenIsOrphaned
<1>7. CASE Worst = 0
  <2>1. Count(c) = 0 BY <1>5a, <1>7
  <2>2. {r \in counted : result[r] = c} = {}
    BY <2>1, ChargedFinite, FS_EmptySet DEF Count
  <2>3. Charged(c)' \subseteq Orphans \cup {sup[p].run}
    BY <1>6, <2>2
  <2>4. /\ IsFiniteSet(Orphans \cup {sup[p].run})
        /\ Cardinality(Orphans \cup {sup[p].run}) \in Nat
        /\ Cardinality(Orphans \cup {sup[p].run}) <= Cardinality(Orphans) + 1
    <3>1. /\ IsFiniteSet(Orphans \cup {sup[p].run})
          /\ Cardinality(Orphans \cup {sup[p].run}) =
                IF sup[p].run \in Orphans THEN Cardinality(Orphans)
                ELSE Cardinality(Orphans) + 1
      BY Finiteness, FS_AddElement
    <3>2. QED BY <3>1, Finiteness
  <2>5. /\ Cardinality(Charged(c)') <= Cardinality(Orphans \cup {sup[p].run})
        /\ Cardinality(Charged(c)') \in Nat
    BY <2>3, <2>4, FS_Subset, FS_CardinalityType
  <2>6. Cardinality(Busy) # 0 BY <1>0, Finiteness, FS_EmptySet
  <2>7. QED BY <2>4, <2>5, <2>6, Finiteness DEF WidthInv
<1>8. CASE Worst # 0
  <2> DEFINE Alike == {r \in counted : result[r] = c}
             Unknown == {r \in counted : result[r] = "none"}
  <2>1. Worst + Pending < Threshold
    <3>1. ~(Worst > 0 /\ Worst + Pending >= Threshold)
      BY DEF Reserve, LaunchBlocked
    <3>2. QED BY <1>5a, <1>8, <3>1, Constants
  <2>2. IsFiniteSet(Alike) /\ IsFiniteSet(Unknown)
        /\ Cardinality(Alike) = Count(c) /\ Cardinality(Unknown) = Pending
    BY ChargedFinite DEF Count, Pending
  <2>3. Charged(c)' \subseteq (Alike \cup Unknown) \cup {sup[p].run}
    BY <1>6
  <2>4. /\ IsFiniteSet(Alike \cup Unknown)
        /\ Cardinality(Alike \cup Unknown) <= Count(c) + Pending
        /\ Cardinality(Alike \cup Unknown) \in Nat
    <3>1. /\ IsFiniteSet(Alike \cup Unknown)
          /\ Cardinality(Alike \cup Unknown)
                = Cardinality(Alike) + Cardinality(Unknown) - Cardinality(Alike \cap Unknown)
      BY <2>2, FS_Union
    <3>2. Cardinality(Alike \cap Unknown) \in Nat
      <4>1. Alike \cap Unknown \subseteq Alike OBVIOUS
      <4>2. IsFiniteSet(Alike \cap Unknown) BY <2>2, <4>1, FS_Subset
      <4>3. QED BY <4>2, FS_CardinalityType
    <3>3. Cardinality(Alike \cup Unknown) \in Nat BY <3>1, FS_CardinalityType
    <3>4. QED BY <1>5a, <2>2, <3>1, <3>2, <3>3
  <2>5. /\ IsFiniteSet((Alike \cup Unknown) \cup {sup[p].run})
        /\ Cardinality((Alike \cup Unknown) \cup {sup[p].run}) <= Count(c) + Pending + 1
        /\ Cardinality((Alike \cup Unknown) \cup {sup[p].run}) \in Nat
    <3>1. /\ IsFiniteSet((Alike \cup Unknown) \cup {sup[p].run})
          /\ Cardinality((Alike \cup Unknown) \cup {sup[p].run}) =
                IF sup[p].run \in Alike \cup Unknown THEN Cardinality(Alike \cup Unknown)
                ELSE Cardinality(Alike \cup Unknown) + 1
      BY <2>4, FS_AddElement
    <3>2. QED BY <1>5a, <2>4, <3>1
  <2>6. /\ Cardinality(Charged(c)') <= Cardinality((Alike \cup Unknown) \cup {sup[p].run})
        /\ Cardinality(Charged(c)') \in Nat
    BY <2>3, <2>5, FS_Subset, FS_CardinalityType
  <2>7. QED BY <1>5a, <2>1, <2>5, <2>6, Constants
<1>9. QED BY <1>7, <1>8

\* What no step but a reservation charges to a class.
LEMMA ChargedShrinks ==
    ASSUME TypeOK, TypeOK', CircuitInv, Width <= Width',
           counted' \subseteq counted,
           \A r \in Runs : Open(r)' => Open(r),
           \A r \in Runs : result'[r] = result[r] \/ Open(r)
    PROVE  CircuitInv'
<1>1. ASSUME NEW c \in Classes
      PROVE  /\ Cardinality(Charged(c)') <= Cardinality(Charged(c))
             /\ Cardinality(Charged(c)') \in Nat
  <2>1. ASSUME NEW r \in Charged(c)' PROVE r \in Charged(c)
    BY <2>1 DEF Charged, TypeOK
  <2>2. IsFiniteSet(Charged(c)) BY ChargedFinite
  <2>3. QED BY <2>1, <2>2, FS_Subset, FS_CardinalityType
<1>2. Width \in Nat /\ Width' \in Nat
  BY Finiteness, Constants, FS_CardinalityType DEF Width
<1>3. ASSUME NEW c \in Classes
      PROVE  \/ Cardinality(Charged(c)') <= Threshold
             \/ Cardinality(Charged(c)') <= Width'
  <2>1. /\ Cardinality(Charged(c)) \in Nat
        /\ \/ Cardinality(Charged(c)) <= Threshold
           \/ Cardinality(Charged(c)) <= Width
    BY ChargedFinite DEF CircuitInv
  <2>2. QED BY <1>1, <1>2, <2>1, Constants
<1>4. QED BY <1>3 DEF CircuitInv

LEMMA CircuitStep ==
    ASSUME TypeOK, TypeOK', SupInv, RunInv, WidthInv, CircuitInv, Next
    PROVE  CircuitInv'
<1> USE SupTyped DEF recovery, At, TakenForUnlaunched
<1>0. overlapped' = overlapped => Width <= Width'
  BY Finiteness DEF Width
<1>1. ASSUME NEW p \in Supervisors, Start(p) PROVE CircuitInv'
  <2>1. Moved(p, "loop", sup[p].run, sup[p].from, sup[p].attempt)
    BY <1>1, GotoMoves DEF Start
  <2>2. Width <= Width'
    <3>1. 1 <= Cardinality(Supervisors)
      <4>1. Cardinality({p}) = 1 /\ {p} \subseteq Supervisors BY FS_Singleton
      <4>2. QED BY <4>1, FS_Subset, Constants
    <3>2. QED BY <1>1, <3>1, Finiteness DEF Start, Width, TypeOK
  <2>3. UNCHANGED <<counted, result, unsettled>> BY <1>1 DEF Start
  <2>4. \A r \in Runs : Open(r)' => Open(r)
    BY <2>1, <2>3 DEF Open, Moved, InFlight
  <2>5. QED BY <2>2, <2>3, <2>4, ChargedShrinks
<1>2. ASSUME NEW p \in Supervisors, Look(p) PROVE CircuitInv'
  <2>1. UNCHANGED <<counted, overlapped>> BY <1>2 DEF Look
  <2>2. /\ \A q \in Supervisors : q # p => sup'[q] = sup[q]
        /\ sup'[p].pc \notin InFlight
    BY <1>2, LookMoves DEF Outside, Moved, InFlight
  <2>3. ASSUME NEW r \in Runs
        PROVE  /\ unsettled'[r] = 0 /\ (result'[r] = result[r] \/ unsettled[r] # 0)
    BY <1>2 DEF Look, Spent, Unfinished
  <2>4. \A r \in Runs : Open(r)' => Open(r)
    BY <2>2, <2>3 DEF Open
  <2>5. QED BY <1>0, <2>1, <2>3, <2>4, ChargedShrinks DEF Open
<1>3. ASSUME NEW p \in Supervisors,
             \/ ProbeFails(p) \/ TaskAbsent(p) \/ LockBusy(p) \/ Avoid(p)
             \/ PreLaunchFails(p) \/ RunRaises(p) \/ Dies(p)
      PROVE  CircuitInv'
  <2>1. Outside(p)
    BY <1>3, EndsMoves, WithheldMoves DEF ProbeFails, TaskAbsent, LockBusy, Avoid,
       PreLaunchFails, RunRaises, Dies
  <2>2. UNCHANGED <<counted, result, overlapped>>
    BY <1>3 DEF ProbeFails, TaskAbsent, LockBusy, Avoid, PreLaunchFails, RunRaises, Dies
  <2>3. \A r \in Runs : unsettled'[r] # 0 => unsettled[r] # 0
    BY <1>3 DEF ProbeFails, TaskAbsent, LockBusy, Avoid, PreLaunchFails, RunRaises, Dies,
       Withheld, PhaseDefers, PhaseCancels, TypeOK
  <2>4. \A r \in Runs : Open(r)' => Open(r)
    BY <2>1, <2>3 DEF Open, Outside, Moved, InFlight
  <2>5. QED BY <1>0, <2>2, <2>4, ChargedShrinks
<1>4. ASSUME NEW p \in Supervisors, TakeLock(p) PROVE CircuitInv'
  <2>1. Moved(p, "locked", next, sup[p].from, sup[p].attempt)
    BY <1>4, TakeLockMoves
  <2>2. UNCHANGED <<counted, result, unsettled, overlapped>> BY <1>4 DEF TakeLock
  <2>3. \A r \in Runs : Open(r)' => Open(r)
    BY <2>1, <2>2 DEF Open, Moved, InFlight
  <2>4. QED BY <1>0, <2>2, <2>3, ChargedShrinks
<1>5. ASSUME NEW p \in Supervisors,
             Launch(p) \/ RecordResult(p) \/ RecordVerdict(p)
      PROVE  CircuitInv'
  <2>1. /\ sup[p].run \in Runs /\ sup[p].pc \in InFlight
        /\ UNCHANGED <<counted, overlapped>>
    BY <1>5, RunInHand DEF Launch, RecordResult, RecordVerdict, Empty, InFlight
  <2>2. Open(sup[p].run) BY <2>1 DEF Open
  <2>3. \A q \in Supervisors : sup'[q].run = sup[q].run /\ (q # p => sup'[q] = sup[q])
    BY <1>5, GotoMoves DEF Launch, RecordResult, RecordVerdict, Moved
  <2>4. \A r \in Runs : r # sup[p].run =>
            result'[r] = result[r] /\ (unsettled'[r] # 0 => unsettled[r] # 0)
    BY <1>5 DEF Launch, RecordResult, RecordVerdict, TypeOK
  <2>5. \A r \in Runs : Open(r)' => Open(r)
    BY <2>2, <2>3, <2>4 DEF Open
  <2>6. QED BY <1>0, <2>1, <2>2, <2>4, <2>5, ChargedShrinks
<1>6. ASSUME NEW p \in Supervisors, Release(p) PROVE CircuitInv'
  <2>1. Moved(p, "returned", sup[p].run, sup[p].from, sup[p].attempt)
    BY <1>6, GotoMoves DEF Release
  <2>2. UNCHANGED <<counted, result, unsettled, overlapped>> BY <1>6 DEF Release
  <2>3. \A r \in Runs : Open(r)' => Open(r)
    BY <2>1, <2>2 DEF Open, Moved, InFlight
  <2>4. QED BY <1>0, <2>2, <2>3, ChargedShrinks
<1>7. ASSUME NEW p \in Supervisors, Return(p) PROVE CircuitInv'
  <2>1. UNCHANGED <<counted, result, overlapped>> BY <1>7 DEF Return
  <2>2. /\ \A q \in Supervisors : q # p => sup'[q] = sup[q]
        /\ sup'[p].pc \notin InFlight
    BY <1>7, ReturnMoves DEF Outside, Moved, InFlight
  <2>3. \A r \in Runs : unsettled'[r] # 0 => unsettled[r] # 0
    BY <1>7 DEF Return, TypeOK
  <2>4. \A r \in Runs : Open(r)' => Open(r)
    BY <2>2, <2>3 DEF Open
  <2>5. QED BY <1>0, <2>1, <2>4, ChargedShrinks
<1>8. CASE (\E r \in Runs : WorkerEnds(r)) \/ Reset \/ RecoverLock
  <2>1. UNCHANGED <<sup, result, unsettled, overlapped>> /\ counted' \subseteq counted
    BY <1>8 DEF WorkerEnds, Reset, RecoverLock
  <2>2. QED BY <1>0, <2>1, ChargedShrinks DEF Open
<1>9. QED BY <1>1, <1>2, <1>3, <1>4, <1>5, <1>6, <1>7, <1>8, ReserveKeepsCircuit DEF Next

LEMMA CircuitInvHolds ==
    ASSUME TypeOK, CircuitInv
    PROVE  CircuitHolds
<1>1. ASSUME NEW c \in Classes
      PROVE  Count(c) <= Threshold \/ (overlapped /\ Count(c) <= Cardinality(Supervisors))
  <2>1. /\ Count(c) <= Cardinality(Charged(c)) /\ Count(c) \in Nat
        /\ Cardinality(Charged(c)) \in Nat
    BY ChargedFinite
  <2>2. Cardinality(Charged(c)) <= Threshold \/ Cardinality(Charged(c)) <= Width
    BY DEF CircuitInv
  <2>3. QED BY <2>1, <2>2, Finiteness, Constants DEF Width
<1>2. QED BY <1>1 DEF CircuitHolds

-----------------------------------------------------------------------------
(* The theorems *)

LEMMA IInvInit == Init => IInv
<1> SUFFICES ASSUME Init PROVE IInv
  OBVIOUS
<1>1. TypeOK
  <2>1. sup \in [Supervisors -> SupType] /\ \A p \in Supervisors : sup[p].run = NoRun
    BY FreshType DEF Init, Fresh
  <2>2. 0 \in 0..MaxStarts /\ 1 \in 1..(MaxRuns + 1) BY Constants
  <2>3. QED BY <2>1, <2>2, Constants DEF Init, TypeOK, SupType, Outcomes
<1>2. SupInv BY Constants DEF Init, SupInv, Fresh, Empty, Locking, Begun, NoRun
<1>3. RunInv BY DEF Init, RunInv
<1>5. launched = {} BY DEF Init, launched
<1>6. SeqInv BY <1>5 DEF Init, SeqInv, Active, Fresh, Succeeded, Followed
<1>7. NothingForgotten BY <1>5 DEF NothingForgotten
<1>8. WidthInv
  <2>1. Orphans = {} /\ Busy = {} BY DEF Init, Orphans, Busy, Fresh
  <2>2. QED BY <2>1, FS_EmptySet DEF Init, WidthInv, Width
<1>9. CircuitInv
  <2>1. \A c \in Classes : Charged(c) = {} BY DEF Init, Charged
  <2>2. QED BY <2>1, FS_EmptySet, Constants DEF CircuitInv
<1>10. QED BY <1>1, <1>2, <1>3, <1>6, <1>7, <1>8, <1>9 DEF IInv

LEMMA IInvStep == IInv /\ [Next]_vars => IInv'
<1> SUFFICES ASSUME IInv, [Next]_vars PROVE IInv'
  OBVIOUS
<1>0. /\ TypeOK /\ SupInv /\ RunInv /\ SeqInv
      /\ NothingForgotten /\ WidthInv /\ CircuitInv
  BY DEF IInv
<1>1. CASE Next
  <2>1. TypeOK' BY <1>0, <1>1, TypeStep
  <2>2. SeqInv' BY <1>0, <1>1, SeqStep
  <2>3. /\ SupInv' /\ RunInv'  /\ NothingForgotten'
        /\ WidthInv' /\ CircuitInv'
    BY <1>0, <1>1, <2>1, <2>2, SupStep, RunStep, ForgottenStep, WidthStep,
       CircuitStep
  <2>4. QED BY <2>1, <2>2, <2>3 DEF IInv
<1>2. CASE UNCHANGED vars
  BY <1>0, <1>2
    DEF IInv, vars, recovery, TypeOK, SupInv, RunInv, SeqInv, NothingForgotten,
        WidthInv, CircuitInv, launched, Succeeded, Followed, Active, Busy, Orphans,
        Width, Charged, Open
<1>3. QED BY <1>1, <1>2

LEMMA IInvHolds == Spec => []IInv
BY IInvInit, IInvStep, PTL DEF Spec

\* Every variable keeps its type, and a run is in hand of one invocation at most,
\* however many invocations of run_until_done start, overlap and die.
THEOREM TypeCorrect == Spec => []TypeOK
<1>1. IInv => TypeOK BY DEF IInv
<1>2. QED BY <1>1, IInvHolds, PTL

\* For any threshold and any number of invocations: what fails alike stays within
\* the threshold of reserve_attempt_circuit, or, when invocations overlap and
\* nothing had failed yet, within the number of invocations.
THEOREM CircuitKept == Spec => []CircuitHolds
<1>1. IInv => CircuitHolds BY CircuitInvHolds DEF IInv
<1>2. QED BY <1>1, IInvHolds, PTL

\* pending_recovery_records never makes a recovery of a run that was declared out
\* of recoveries, nor, while invocations follow each other, two of one run whose
\* recovery was not put off after its launch.
THEOREM RecoveryOnce == Spec => []RecoveredOnce
<1>1. IInv => RecoveredOnce BY OnceHolds DEF IInv
<1>2. QED BY <1>1, IInvHolds, PTL

\* A run of unknown outcome that may be recovered, and a recovery without a
\* result, stay in the journal until they are taken up, given up or declared
\* spent, wherever an invocation died.
THEOREM NoneForgotten == Spec => []NothingForgotten
<1>1. IInv => NothingForgotten BY DEF IInv
<1>2. QED BY <1>1, IInvHolds, PTL
=============================================================================
