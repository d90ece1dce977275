---------------------------- MODULE RunAttempts ----------------------------
(***************************************************************************)
(* How often a task is attempted: the cross-run attempt circuit and the    *)
(* recovery intents of the run journal (runs.py), and the run-until-done   *)
(* loop that dispatches and recovers by them (runner.py).                  *)
(*                                                                         *)
(* One task, the runs that are made of it, and the invocations of          *)
(* run-until-done that make them, which may die, follow each other and     *)
(* overlap. The journal is append-only and both of its readers go through  *)
(* all of it; a variable here holds what a reader has made of the records  *)
(* so far, and an append is the step the reader takes at that record.      *)
(***************************************************************************)
EXTENDS Naturals, FiniteSets

CONSTANTS
    Supervisors,    \* terminals in which run-until-done is invoked, again and again
    Mortal,         \* those in which it may die
    MaxStarts,      \* how many invocations there are in all
    MaxRuns,        \* how many runs are made in all
    MaxAttempts,    \* supervision.max_restarts: recoveries of a run
    Threshold       \* supervision.cross_run_attempt_threshold

Assumption ==
    /\ IsFiniteSet(Supervisors) /\ Mortal \subseteq Supervisors
    /\ MaxRuns \in Nat /\ MaxStarts \in Nat
    /\ MaxAttempts \in Nat \ {0} /\ Threshold \in Nat \ {0}
ASSUME Assumption

Runs == 1..MaxRuns
NoRun == 0

VARIABLES
    sup,        \* sup[p]: where invocation p is in its loop
    starts,     \* how many invocations there were
    next,       \* the next run id
    worker,     \* worker[r]: the worker of run r
    lock,       \* the run that holds the task lock
    done,       \* the task is done in its source
    counted,    \* the runs with an attempt record that counts
    result,     \* result[r]: the class of the last result record of r
    intent,     \* intent[r]: the attempt of the pending recovery of r, if any
    unsettled,  \* unsettled[r]: the attempt r was launched for, while it has no result
    prior,      \* prior[r]: the run that r recovers
    nth,        \* nth[r]: which recovery in a row r was launched as
    cancelled,  \* the runs whose recovery was given up
    verdicts,   \* the runs that were declared out of recoveries
    putOff,     \* history: the runs whose recovery was put off after its launch
    overlapped  \* two invocations were alive at once

recovery == <<intent, unsettled, prior, nth, cancelled, verdicts, putOff>>
vars == <<sup, starts, next, worker, lock, done, counted, result, recovery, overlapped>>

---------------------------------------------------------------------------
(* The invocations. *)

Active(p) == sup[p].pc # "off"

\* run: the run in hand; from and attempt: the recovery it is, if one, which is
\* also recovery_attempts of the task; skipped: the task is passed over.
Fresh == [pc |-> "off", run |-> NoRun, from |-> NoRun, attempt |-> 0,
          skipped |-> FALSE]

At(p, pc) == sup[p].pc = pc
Goto(p, pc) == sup' = [sup EXCEPT ![p].pc = pc]
Ends(p) == sup' = [sup EXCEPT ![p] = Fresh]
Skips(p) == sup' = [sup EXCEPT ![p] = [Fresh EXCEPT !.pc = "loop", !.skipped = TRUE]]
\* A task that came to nothing is passed over, or ends the invocation, unless
\* it continues on failure.
PassesOver(p) == Skips(p) \/ Ends(p)

Init ==
    /\ sup = [p \in Supervisors |-> Fresh]
    /\ starts = 0
    /\ next = 1
    /\ worker = [r \in Runs |-> "none"]
    /\ lock = NoRun
    /\ done = FALSE
    /\ counted = {}
    /\ result = [r \in Runs |-> "none"]
    /\ intent = [r \in Runs |-> 0]
    /\ unsettled = [r \in Runs |-> 0]
    /\ prior = [r \in Runs |-> NoRun]
    /\ nth = [r \in Runs |-> 0]
    /\ cancelled = {}
    /\ verdicts = {}
    /\ putOff = {}
    /\ overlapped = FALSE

Start(p) ==
    /\ At(p, "off") /\ starts < MaxStarts
    /\ starts' = starts + 1
    /\ Goto(p, "loop")
    /\ overlapped' = (overlapped \/ \E q \in Supervisors : Active(q))
    /\ UNCHANGED <<next, worker, lock, done, counted, result, recovery>>

---------------------------------------------------------------------------
(* The attempt circuit: attempt_circuit_state over the journal. *)

Classes == {"unknown", "failed", "exhausted"}    \* what counts against a task
Walls == {"wall"}                                \* provider and account limits do not

Count(class) == Cardinality({r \in counted : result[r] = class})
Pending == Cardinality({r \in counted : result[r] = "none"})

\* The class with the most failures decides; attempts without a result are
\* charged to it, once there is one.
Worst == CHOOSE n \in {Count(c) : c \in Classes} : \A c \in Classes : n >= Count(c)
\* Mutant: pending reservations are not charged and the threshold is passed.
LaunchBlocked_Over == Worst > Threshold

LaunchBlocked == Worst >= Threshold \/ (Worst > 0 /\ Worst + Pending >= Threshold)

\* The operator resets the circuit, or the task, the base, the configuration or
\* the route becomes another one: the attempts before no longer count.
Reset ==
    /\ counted # {}
    /\ counted' = {}
    /\ UNCHANGED <<sup, starts, next, worker, lock, done, result, recovery, overlapped>>

---------------------------------------------------------------------------
(* Recovery intents: pending_recovery_records over the journal. *)

\* A recovery phase record that leaves, or takes away, the intent of a run.
PhaseDefers(r, n) ==
    /\ intent' = [intent EXCEPT ![r] = n]
    /\ unsettled' = [unsettled EXCEPT ![r] = 0]
PhaseCancels(r) ==
    /\ intent' = [intent EXCEPT ![r] = 0]
    /\ UNCHANGED unsettled

\* A recovery that was launched and has no result is taken up by its own
\* recovery, or declared out of attempts.
Unfinished == {r \in Runs : unsettled[r] # 0}
Spent == {r \in Unfinished : unsettled[r] >= MaxAttempts}
Refreshed == [r \in Runs |-> IF r \in Unfinished \ Spent THEN unsettled[r] + 1
                             ELSE IF r \in Spent THEN 0 ELSE intent[r]]

\* pending_recovery_contexts appends the verdicts of the spent and the renewed
\* intents of the others, and run_until_done takes one of what is pending.
Look(p) ==
    /\ At(p, "loop")
    /\ verdicts' = verdicts \cup Spent
    /\ result' = [r \in Runs |-> IF r \in Spent THEN "exhausted" ELSE result[r]]
    /\ intent' = Refreshed
    /\ unsettled' = [r \in Runs |-> 0]
    /\ LET skip == sup[p].skipped \/ Spent # {}
           todo == {r \in Runs : Refreshed[r] # 0}
       IN  \/ /\ ~skip
              /\ \E r \in todo :
                     sup' = [sup EXCEPT ![p].pc = "chosen", ![p].from = r,
                                        ![p].attempt = Refreshed[r]]
           \/ /\ ~skip /\ todo = {} /\ ~done /\ lock = NoRun
              /\ sup' = [sup EXCEPT ![p] = [Fresh EXCEPT !.pc = "selected"]]
           \/ /\ skip \/ (todo = {} /\ (done \/ lock # NoRun))
              /\ Ends(p)
    /\ UNCHANGED <<starts, next, worker, lock, done, counted, prior, nth, cancelled,
                   putOff, overlapped>>

---------------------------------------------------------------------------
(* resume_pending_recovery and run_next. *)

\* The probe of the source fails, or the task is not there any more.
ProbeFails(p) ==
    /\ At(p, "chosen")
    /\ PhaseDefers(sup[p].from, sup[p].attempt)
    /\ PassesOver(p)
    /\ UNCHANGED <<starts, next, worker, lock, done, counted, result, prior, nth,
                   cancelled, verdicts, putOff, overlapped>>

TaskAbsent(p) ==
    /\ At(p, "chosen")
    /\ PhaseCancels(sup[p].from)
    /\ cancelled' = cancelled \cup {sup[p].from}
    /\ PassesOver(p)
    /\ UNCHANGED <<starts, next, worker, lock, done, counted, result, prior, nth,
                   verdicts, putOff, overlapped>>

\* A dispatch that ends before its launch: a recovery is deferred, and a fresh
\* run is passed over.
Withheld(p) ==
    IF sup[p].from # NoRun
    THEN PhaseDefers(sup[p].from, sup[p].attempt) /\ PassesOver(p)
    ELSE UNCHANGED <<intent, unsettled>> /\ Ends(p)

TakeLock(p) ==
    /\ sup[p].pc \in {"chosen", "selected"} /\ lock = NoRun /\ next <= MaxRuns
    /\ lock' = next
    /\ next' = next + 1
    /\ sup' = [sup EXCEPT ![p].pc = "locked", ![p].run = next]
    /\ UNCHANGED <<starts, worker, done, counted, result, recovery, overlapped>>

LockBusy(p) ==
    /\ sup[p].pc \in {"chosen", "selected"} /\ lock # NoRun
    /\ Withheld(p)
    /\ UNCHANGED <<starts, next, worker, lock, done, counted, result, prior, nth,
                   cancelled, verdicts, putOff, overlapped>>

\* reserve_attempt_circuit, under the lock of the journal.
Reserve(p) ==
    /\ At(p, "locked") /\ ~LaunchBlocked
    /\ counted' = counted \cup {sup[p].run}
    /\ Goto(p, "reserved")
    /\ UNCHANGED <<starts, next, worker, lock, done, result, recovery, overlapped>>

\* An open circuit is recorded as an avoided launch and the lock is released.
Avoid(p) ==
    /\ At(p, "locked") /\ LaunchBlocked
    /\ lock' = NoRun
    /\ Withheld(p)
    /\ UNCHANGED <<starts, next, worker, done, counted, result, prior, nth,
                   cancelled, verdicts, putOff, overlapped>>

\* A refused budget or a failure before the launch releases the lock. The
\* attempt stays on record without a result.
PreLaunchFails(p) ==
    /\ At(p, "reserved")
    /\ lock' = NoRun
    /\ Withheld(p)
    /\ UNCHANGED <<starts, next, worker, done, counted, result, prior, nth,
                   cancelled, verdicts, putOff, overlapped>>

\* Mutant: the launch record does not settle the intent it carries out.
Launch_KeepsIntent(p) ==
    LET r == sup[p].run
        from == sup[p].from
    IN  /\ At(p, "reserved")
        /\ worker' = [worker EXCEPT ![r] = "live"]
        /\ prior' = [prior EXCEPT ![r] = from]
        /\ nth' = [nth EXCEPT ![r] = sup[p].attempt]
        /\ IF from = NoRun
           THEN UNCHANGED <<intent, unsettled>>
           ELSE /\ UNCHANGED intent
                /\ unsettled' = [unsettled EXCEPT ![r] = sup[p].attempt]
        /\ Goto(p, "running")
        /\ UNCHANGED <<starts, next, lock, done, counted, result, cancelled,
                       verdicts, putOff, overlapped>>

\* worker_process_started names the recovery that the run is; it settles the
\* intent and is itself unsettled until the run has a result.
Launch(p) ==
    LET r == sup[p].run
        from == sup[p].from
    IN  /\ At(p, "reserved")
        /\ worker' = [worker EXCEPT ![r] = "live"]
        /\ prior' = [prior EXCEPT ![r] = from]
        /\ nth' = [nth EXCEPT ![r] = sup[p].attempt]
        /\ IF from = NoRun
           THEN UNCHANGED <<intent, unsettled>>
           ELSE /\ intent' = [intent EXCEPT ![from] = 0]
                /\ unsettled' = [unsettled EXCEPT ![r] = sup[p].attempt]
        /\ Goto(p, "running")
        /\ UNCHANGED <<starts, next, lock, done, counted, result, cancelled,
                       verdicts, putOff, overlapped>>

WorkerEnds(r) ==
    /\ worker[r] = "live"
    /\ worker' = [worker EXCEPT ![r] = "dead"]
    /\ UNCHANGED <<sup, starts, next, lock, done, counted, result, recovery, overlapped>>

\* Mutant: the last attempt of a recovery leaves an intent for one more.
RecordResult_OneMore(p) ==
    LET r == sup[p].run
    IN  /\ At(p, "running") /\ worker[r] = "dead"
        /\ \E class \in {"completed", "unknown", "failed"} \cup Walls :
               /\ result' = [result EXCEPT ![r] = class]
               /\ intent' = IF class = "unknown" /\ sup[p].attempt <= MaxAttempts
                            THEN [intent EXCEPT ![r] = sup[p].attempt + 1] ELSE intent
               /\ done' = (done \/ class = "completed")
        /\ unsettled' = [unsettled EXCEPT ![r] = 0]
        /\ Goto(p, "recorded")
        /\ UNCHANGED <<starts, next, worker, lock, counted, prior, nth, cancelled,
                       verdicts, putOff, overlapped>>

\* Mutant: the result is recorded first and the intent when the run returns.
RecordResult_NoIntent(p) ==
    LET r == sup[p].run
    IN  /\ At(p, "running") /\ worker[r] = "dead"
        /\ \E class \in {"completed", "unknown", "failed"} \cup Walls :
               /\ result' = [result EXCEPT ![r] = class]
               /\ done' = (done \/ class = "completed")
        /\ unsettled' = [unsettled EXCEPT ![r] = 0]
        /\ Goto(p, "recorded")
        /\ UNCHANGED <<starts, next, worker, lock, counted, intent, prior, nth,
                       cancelled, verdicts, putOff, overlapped>>

\* The result is recorded, with the intent to recover a run of unknown outcome
\* that may be recovered once more.
RecordResult(p) ==
    LET r == sup[p].run
    IN  /\ At(p, "running") /\ worker[r] = "dead"
        /\ \E class \in {"completed", "unknown", "failed"} \cup Walls :
               /\ result' = [result EXCEPT ![r] = class]
               /\ intent' = IF class = "unknown" /\ sup[p].attempt < MaxAttempts
                            THEN [intent EXCEPT ![r] = sup[p].attempt + 1] ELSE intent
               /\ done' = (done \/ class = "completed")
        /\ unsettled' = [unsettled EXCEPT ![r] = 0]
        /\ Goto(p, "recorded")
        /\ UNCHANGED <<starts, next, worker, lock, counted, prior, nth, cancelled,
                       verdicts, putOff, overlapped>>

\* The last recovery that is still of unknown outcome gets its verdict before
\* the lock is released.
OutOfAttempts(p) ==
    result[sup[p].run] = "unknown" /\ sup[p].from # NoRun /\ sup[p].attempt >= MaxAttempts

RecordVerdict(p) ==
    /\ At(p, "recorded") /\ OutOfAttempts(p)
    /\ result' = [result EXCEPT ![sup[p].run] = "exhausted"]
    /\ verdicts' = verdicts \cup {sup[p].run}
    /\ unsettled' = [unsettled EXCEPT ![sup[p].run] = 0]
    /\ UNCHANGED <<sup, starts, next, worker, lock, done, counted, intent, prior,
                   nth, cancelled, putOff, overlapped>>

Release(p) ==
    /\ At(p, "recorded") /\ ~OutOfAttempts(p)
    /\ lock' = IF lock = sup[p].run THEN NoRun ELSE lock
    /\ Goto(p, "returned")
    /\ UNCHANGED <<starts, next, worker, done, counted, result, recovery, overlapped>>

\* resume_pending_recovery takes an OSError or a SubprocessError out of run_task
\* for one before the launch: the recovery is put off, its intent there again.
TakenForUnlaunched(p) ==
    /\ sup[p].from # NoRun
    /\ PhaseDefers(sup[p].from, sup[p].attempt)
    /\ putOff' = putOff \cup {sup[p].from}
    /\ PassesOver(p)

\* An exception in the body of a run that has launched, or out of its release:
\* the lock is released or kept, and the invocation ends.
RunRaises(p) ==
    LET r == sup[p].run
    IN  /\ sup[p].pc \in {"running", "recorded"} /\ worker[r] = "dead"
        /\ lock' \in {lock, IF lock = r THEN NoRun ELSE lock}
        /\ \/ Ends(p) /\ UNCHANGED <<intent, unsettled, putOff>>
           \/ TakenForUnlaunched(p)
        /\ UNCHANGED <<starts, next, worker, done, counted, result, prior, nth,
                       cancelled, verdicts, overlapped>>

\* The outcome of a recovery is recorded; drive_unknown_recovery continues with
\* a run of unknown outcome, and the loop with anything else.
Return(p) ==
    LET r == sup[p].run
        from == sup[p].from
    IN  /\ At(p, "returned")
        /\ LET settled == [x \in Runs |-> IF x = from THEN 0 ELSE intent[x]]
               again == result[r] = "unknown" /\ sup[p].attempt < MaxAttempts
           IN  intent' = IF again /\ settled[r] # sup[p].attempt + 1
                         THEN [settled EXCEPT ![r] = sup[p].attempt + 1] ELSE settled
        /\ unsettled' = [unsettled EXCEPT ![r] = 0]
        /\ CASE result[r] = "completed" -> sup' = [sup EXCEPT ![p] = [Fresh EXCEPT !.pc = "loop"]]
             [] result[r] = "unknown" /\ sup[p].attempt < MaxAttempts ->
                    sup' = [sup EXCEPT ![p].pc = "chosen", ![p].from = r, ![p].run = NoRun,
                                       ![p].attempt = sup[p].attempt + 1]
             [] result[r] = "wall" /\ from = NoRun -> Ends(p)
             [] OTHER -> PassesOver(p)
        /\ UNCHANGED <<starts, next, worker, lock, done, counted, result, prior, nth,
                       cancelled, verdicts, putOff, overlapped>>

\* An invocation dies; the worker of its run goes on.
Dies(p) ==
    /\ p \in Mortal /\ Active(p)
    /\ Ends(p)
    /\ UNCHANGED <<starts, next, worker, lock, done, counted, result, recovery, overlapped>>

\* The lock of a run without a supervisor and without a worker is recovered.
RecoverLock ==
    /\ lock # NoRun /\ worker[lock] # "live"
    /\ \A p \in Supervisors : sup[p].run # lock
    /\ lock' = NoRun
    /\ UNCHANGED <<sup, starts, next, worker, done, counted, result, recovery, overlapped>>

Next ==
    \/ \E p \in Supervisors :
           \/ Start(p) \/ Look(p) \/ ProbeFails(p) \/ TaskAbsent(p)
           \/ TakeLock(p) \/ LockBusy(p) \/ Reserve(p) \/ Avoid(p)
           \/ PreLaunchFails(p) \/ Launch(p) \/ RecordResult(p)
           \/ RecordVerdict(p) \/ Release(p) \/ RunRaises(p) \/ Return(p) \/ Dies(p)
    \/ \E r \in Runs : WorkerEnds(r)
    \/ Reset \/ RecoverLock

Spec == Init /\ [][Next]_vars

---------------------------------------------------------------------------
(* Properties. *)

Outcomes == {"none", "completed"} \cup Classes \cup Walls

\* Every variable has its type, and a run is in hand of one invocation at most
\* (run_until_done, run_task).
TypeOK ==
    /\ sup \in [Supervisors ->
           [pc : {"off", "loop", "chosen", "selected", "locked", "reserved",
                 "running", "recorded", "returned"},
            run : Runs \cup {NoRun}, from : Runs \cup {NoRun},
            attempt : 0..MaxAttempts, skipped : BOOLEAN]]
    /\ \A p, q \in Supervisors : sup[p].run = sup[q].run /\ sup[p].run # NoRun => p = q
    /\ starts \in 0..MaxStarts
    /\ next \in 1..(MaxRuns + 1)
    /\ worker \in [Runs -> {"none", "live", "dead"}]
    /\ lock \in Runs \cup {NoRun}
    /\ done \in BOOLEAN /\ overlapped \in BOOLEAN
    /\ counted \subseteq Runs
    /\ result \in [Runs -> Outcomes]
    /\ intent \in [Runs -> 0..MaxAttempts]
    /\ unsettled \in [Runs -> 0..MaxAttempts]
    /\ prior \in [Runs -> Runs \cup {NoRun}]
    /\ nth \in [Runs -> 0..MaxAttempts]
    /\ cancelled \subseteq Runs /\ verdicts \subseteq Runs /\ putOff \subseteq Runs

\* The runs of unchanged inputs that fail alike, since the last reset, never
\* exceed the threshold, whoever makes them and whoever dies
\* (reserve_attempt_circuit: "concurrent supervisors cannot both claim the
\* final permitted launch"). Attempts without a result are charged to an
\* established class only: when nothing has failed yet and invocations overlap,
\* as many as there are invocations may come to fail alike.
CircuitHolds ==
    \A c \in Classes :
        \/ Count(c) <= Threshold
        \/ overlapped /\ Count(c) <= Cardinality(Supervisors)

launched == {r \in Runs : worker[r] # "none"}

\* No recovery follows a verdict that a run is out of recoveries; and as long as
\* invocations follow each other, no intent launches two recoveries, however
\* often it is deferred and whoever dies in between (pending_recovery_records,
\* record_recovery_budget_exhausted). The exception the code has is a recovery
\* that raises after its launch and is put off as if it had not (putOff).
RecoveredOnce ==
    /\ \A r \in launched : prior[r] \notin verdicts
    /\ ~overlapped =>
           \A r, t \in launched :
               prior[r] = prior[t] /\ prior[r] \notin putOff \cup {NoRun} => r = t

\* Whoever dies and when, an unknown run that may be recovered, or a recovery
\* that was launched and has no result, is not forgotten: it is pending, or its
\* recovery was launched, given up or declared spent (RunResult.recovery_intent,
\* pending_recovery_records).
NothingForgotten ==
    \A r \in launched :
        \/ result[r] = "unknown" /\ nth[r] < MaxAttempts
        \/ result[r] = "none" /\ nth[r] > 0
        => \/ intent[r] # 0 \/ unsettled[r] # 0
           \/ r \in cancelled \cup verdicts
           \/ \E t \in launched : prior[t] = r
=============================================================================
