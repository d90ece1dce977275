---------------------------- MODULE BudgetLedger ----------------------------
(***************************************************************************)
(* The usage-budget ledger (src/vibe_loop/budget.py): an append-only        *)
(* journal of reservations and their terminal records, and the checkpoint   *)
(* compaction folds closed reservations into.  Every model launch reserves  *)
(* its declared allowance before it starts and is charged afterwards; a     *)
(* fresh supervisor recovers what a dead one left open.                     *)
(*                                                                          *)
(* Each ledger operation runs under the append lock and is one step here;   *)
(* what a process read before it took the lock (the clock of an admission,  *)
(* the run results of a recovery) is read in a step of its own.  A write    *)
(* that fails or a process that dies inside an operation leaves the files   *)
(* as they were at that point.                                              *)
(***************************************************************************)
EXTENDS Integers, FiniteSets, FiniteSetsExt

CONSTANTS
    Launches,         \* reservation ids: one per model launch
    Implementations,  \* those whose id is the run id, charged by the run result
    Remediations,     \* remediation launches
    Owners,           \* supervisor processes
    Owner,            \* the supervisor of each launch
    Verifiable,       \* owners whose process-birth identity is recorded
    Mortal,           \* owners that may die
    Recoverers,       \* supervisors that run recover_abandoned_budget
    Limits, Cap, Window, Covered,  \* caps, their size, window, launches matched
    Declared,         \* allowance reserved for a launch
    FailSafe,         \* charge of a launch whose usage is unknown
    Usages,           \* usage figures a provider may report
    Grace,            \* age at which an ownerless reservation is abandoned
    MaxTime,          \* bound: the clock
    MaxGeneration,    \* bound: compactions
    TornWrites,       \* whether appending a row may be cut short
    FailingCompaction \* whether the second file replace of a compaction may fail

ASSUME LaunchesAssumption ==
    /\ IsFiniteSet(Launches) /\ IsFiniteSet(Limits)
    /\ Implementations \subseteq Launches
    /\ Remediations \subseteq Launches
    /\ Owner \in [Launches -> Owners]
    /\ Covered \in [Limits -> SUBSET Launches]

ASSUME AmountsAssumption ==
    /\ Cap \in [Limits -> Nat]
    /\ Window \in [Limits -> Nat]
    /\ Declared \in [Launches -> Nat]
    /\ FailSafe \in [Launches -> Nat]
    /\ Usages \subseteq Nat

ASSUME LedgerBoundsAssumption ==
    /\ Grace \in Nat
    /\ MaxTime \in Nat
    /\ MaxGeneration \in Nat
    /\ TornWrites \in BOOLEAN
    /\ FailingCompaction \in BOOLEAN

Never == -1
Times == 0..MaxTime

\* What a finished launch says about its usage: a figure, or nothing usable
\* (not authoritative, or without the configured metric).
Unreported == -1
NoResult == -2
Reports == Usages \cup {Unreported}

\* The terminal record that closes a reservation; "none" while it is live.
Terminals == [kind : {"none", "released", "reconciled"}, charge : Nat, at : Times]
Open == [kind |-> "none", charge |-> 0, at |-> 0]

\* The cumulative charges of a checkpoint, kept per launch instead of summed
\* per scope; a journal header names its checkpoint by generation and digest.
NotFolded == -1
Checkpoints == [gen : 0..MaxGeneration, folded : [Launches -> Nat \cup {NotFolded}]]
NoCheckpoint == [gen |-> 0, folded |-> [l \in Launches |-> NotFolded]]

LaunchPCs ==
    {"idle",
     "asking",      \* reserve called: the clock is read, the lock is not taken
     "admitted",    \* reserved, not launched
     "launched",    \* the model process runs
     "finished",    \* its run result is durable, the charge is not made
     "abandoned",   \* launched, and over without any usage to report
     "interrupted", \* launched, interrupted, and its allowance given back
     "stopped",     \* denied, cancelled or failed before the launch
     "done"}        \* settled by its owner

VARIABLES
    reservedAt, \* journal: when the launch's reserved row was written
    terminal,   \* journal: the launch's terminal row
    torn,       \* journal: it ends in a partial row without a newline
    header,     \* journal: the checkpoint its header row names
    checkpoint, \* the checkpoint file
    clock,      \* wall clock
    pc,         \* control point of a launch
    asked,      \* the clock a reserve call has read
    result,     \* usage in the durable RunResult of an implementation
    alive,      \* the owner process exists
    reused,     \* its pid belongs to another process now
    known,      \* run results a recovering supervisor has read
    settled,    \* history: the terminal record that closed a reservation
    escaped     \* history: launches whose allowance the ledger does not hold

ledgerVars == <<reservedAt, terminal, torn, header, checkpoint, settled>>
runVars    == <<pc, asked, result>>
ownerVars  == <<alive, reused>>
vars == <<ledgerVars, runVars, ownerVars, clock, known, escaped>>

Idle == [l \in Launches |-> NoResult]

TypeOK ==
    /\ reservedAt \in [Launches -> Times \cup {Never}]
    /\ terminal \in [Launches -> Terminals]
    /\ torn \in BOOLEAN
    /\ header \in Checkpoints
    /\ checkpoint \in Checkpoints
    /\ clock \in Times
    /\ pc \in [Launches -> LaunchPCs]
    /\ asked \in [Launches -> Times]
    /\ result \in [Launches -> Reports \cup {NoResult}]
    /\ alive \in [Owners -> BOOLEAN]
    /\ reused \in [Owners -> BOOLEAN]
    /\ known \in [Recoverers -> [busy : BOOLEAN,
                                 results : [Launches -> Reports \cup {NoResult}]]]
    /\ settled \in [Launches -> Terminals]
    /\ escaped \subseteq Launches

Init ==
    /\ reservedAt = [l \in Launches |-> Never]
    /\ terminal = [l \in Launches |-> Open]
    /\ torn = FALSE
    /\ header = NoCheckpoint
    /\ checkpoint = NoCheckpoint
    /\ clock = 0
    /\ pc = [l \in Launches |-> "idle"]
    /\ asked = [l \in Launches |-> 0]
    /\ result = [l \in Launches |-> NoResult]
    /\ alive = [o \in Owners |-> TRUE]
    /\ reused = [o \in Owners |-> FALSE]
    /\ known = [c \in Recoverers |-> [busy |-> FALSE, results |-> Idle]]
    /\ settled = [l \in Launches |-> Open]
    /\ escaped = {}

-----------------------------------------------------------------------------
(* What the files say. *)

\* Mutant: a checkpoint ahead of the journal is accepted.
Readable_Lenient == checkpoint.gen >= header.gen

\* _load_state_unlocked raises BudgetLedgerCorruption otherwise: a checkpoint
\* without the header that names it, or a header without its checkpoint.
Readable == checkpoint = header

Reserved == {l \in Launches : reservedAt[l] # Never}
Live == {l \in Reserved : terminal[l].kind = "none"}

\* _within_window
InWindow(at, m, t) == Window[m] = 0 \/ at >= t - Window[m]

\* _charge_of: what the journal rows of a launch contribute to cap m at t.
Counted(l, m, t) ==
    CASE l \in Live -> Declared[l]
      [] l \in Reserved \ Live /\ terminal[l].kind = "reconciled"
           /\ InWindow(terminal[l].at, m, t) -> terminal[l].charge
      [] OTHER -> 0

\* Folded charges count for cumulative caps only.
CountedFolded(l, m) ==
    IF Window[m] = 0 /\ checkpoint.folded[l] # NotFolded
      THEN checkpoint.folded[l] ELSE 0

\* _consumption
Consumption(m, t) ==
    SumFunction([l \in Covered[m] |-> Counted(l, m, t) + CountedFolded(l, m)])

\* reserve: no matching cap has less remaining than the declared allowance.
Fits(l, t) ==
    \A m \in Limits :
        l \in Covered[m] => Consumption(m, t) + Declared[l] <= Cap[m]

\* _reconcile_unlocked and _fail_safe_charge
ChargeFor(l, u) == IF u = Unreported THEN FailSafe[l] ELSE u

-----------------------------------------------------------------------------
(* Compaction, the tail of every reserve call that found the journal long.  *)

\* The newest time that is outside every window, exclusive.
FoldBefore(t) == t - Max({0} \cup {Window[m] : m \in Limits})

\* Mutant: a charge at the edge of the window is folded too.
Foldable_OffByOne(t) ==
    {l \in Reserved \ Live : terminal[l].at <= FoldBefore(t)}

\* Closed reservations that can only count for cumulative caps from now on.
Foldable(t) == {l \in Reserved \ Live : terminal[l].at < FoldBefore(t)}

\* The checkpoint after the next one: folded charges are carried over.
NextCheckpoint(fold) ==
    [gen    |-> header.gen + 1,
     folded |-> [l \in Launches |->
                   IF l \in fold /\ terminal[l].kind = "reconciled"
                     THEN terminal[l].charge ELSE checkpoint.folded[l]]]

\* _compact_unlocked, with `rows` the reserved rows after the append. (Decision
\* rows carry no charge and are left out: a compaction folds a reservation.)
\* The checkpoint is published before the journal is rewritten; when the second
\* replace does not happen the operation raises, or its process is dead.
Compact(l, rows, to) ==
    LET fold == Foldable(asked[l]) IN
    /\ fold # {}
    /\ header.gen < MaxGeneration
    /\ checkpoint' = NextCheckpoint(fold)
    /\ \/ /\ header' = checkpoint'
          /\ reservedAt' = [r \in Launches |-> IF r \in fold THEN Never ELSE rows[r]]
          /\ terminal' = [r \in Launches |-> IF r \in fold THEN Open ELSE terminal[r]]
          /\ pc' = [pc EXCEPT ![l] = to]
       \/ /\ FailingCompaction
          /\ reservedAt' = rows
          /\ pc' = [pc EXCEPT ![l] = "stopped"]
          /\ UNCHANGED <<header, terminal>>

NoCompact(l, rows, to) ==
    /\ reservedAt' = rows
    /\ pc' = [pc EXCEPT ![l] = to]
    /\ UNCHANGED <<header, checkpoint, terminal>>

-----------------------------------------------------------------------------
(* The owner of a launch. *)

Runs(l) == alive[Owner[l]]

\* reserve reads the clock, then waits for the append lock.
Ask(l) ==
    /\ Runs(l)
    /\ pc[l] = "idle"
    /\ pc' = [pc EXCEPT ![l] = "asking"]
    /\ asked' = [asked EXCEPT ![l] = clock]
    /\ UNCHANGED <<ledgerVars, result, ownerVars, clock, known, escaped>>

\* The reserved and the decision row are appended. A row written behind a
\* partial one shares its line and is unreadable, and ends that line.
Admit(l) ==
    LET rows == IF torn THEN reservedAt ELSE [reservedAt EXCEPT ![l] = clock] IN
    /\ Runs(l)
    /\ pc[l] = "asking"
    /\ Readable
    /\ Fits(l, asked[l])
    /\ NoCompact(l, rows, "admitted") \/ Compact(l, rows, "admitted")
    /\ torn' = FALSE
    /\ escaped' = IF torn THEN escaped \cup {l} ELSE escaped
    /\ asked' = [asked EXCEPT ![l] = 0]
    /\ UNCHANGED <<settled, result, ownerVars, clock, known>>

\* A binding cap: only the decision row is appended.
Deny(l) ==
    /\ Runs(l)
    /\ pc[l] = "asking"
    /\ Readable
    /\ ~Fits(l, asked[l])
    /\ NoCompact(l, reservedAt, "stopped") \/ Compact(l, reservedAt, "stopped")
    /\ torn' = FALSE
    /\ asked' = [asked EXCEPT ![l] = 0]
    /\ UNCHANGED <<settled, result, ownerVars, clock, known, escaped>>

\* The ledger cannot be read, or the append of the reserved row (or of the
\* decision row behind it) is cut short: reserve raises, nothing is launched.
ReserveRaises(l) ==
    /\ Runs(l)
    /\ pc[l] = "asking"
    /\ \/ ~Readable /\ UNCHANGED <<reservedAt, torn>>
       \/ /\ TornWrites /\ Readable
          /\ torn' = TRUE
          /\ \/ UNCHANGED reservedAt
             \/ Fits(l, asked[l]) /\ ~torn
                  /\ reservedAt' = [reservedAt EXCEPT ![l] = clock]
    /\ pc' = [pc EXCEPT ![l] = "stopped"]
    /\ asked' = [asked EXCEPT ![l] = 0]
    /\ UNCHANGED <<terminal, header, checkpoint, settled, result,
                   ownerVars, clock, known, escaped>>

Launch(l) ==
    /\ Runs(l)
    /\ pc[l] = "admitted"
    /\ pc' = [pc EXCEPT ![l] = "launched"]
    /\ UNCHANGED <<ledgerVars, asked, result, ownerVars, clock, known, escaped>>

\* The guard shared by release and _reconcile_unlocked.
Closable(l) == Readable /\ l \in Live

\* One terminal row is appended, behind a partial row (and lost), or cut short.
Close(l, kind, charge) ==
    LET t == [kind |-> kind, charge |-> charge, at |-> clock] IN
    \/ /\ Closable(l) /\ ~torn
       /\ terminal' = [terminal EXCEPT ![l] = t]
       /\ settled' = IF settled[l].kind = "none"
                       THEN [settled EXCEPT ![l] = t] ELSE settled
       /\ UNCHANGED <<reservedAt, torn, header, checkpoint>>
    \/ /\ Closable(l) /\ torn
       /\ torn' = FALSE
       /\ UNCHANGED <<reservedAt, terminal, header, checkpoint, settled>>
    \/ /\ Closable(l) /\ TornWrites
       /\ torn' = TRUE
       /\ UNCHANGED <<reservedAt, terminal, header, checkpoint, settled>>
    \/ /\ ~Closable(l)
       /\ UNCHANGED ledgerVars

\* Something before the launch fails: the allowance is given back.
Cancel(l) ==
    /\ Runs(l)
    /\ pc[l] = "admitted"
    /\ Close(l, "released", 0)
    /\ pc' = [pc EXCEPT ![l] = "stopped"]
    /\ UNCHANGED <<asked, result, ownerVars, clock, known, escaped>>

\* record_result appends the RunResult first ...
RecordResult(l, u) ==
    /\ Runs(l)
    /\ pc[l] = "launched"
    /\ l \in Implementations
    /\ result' = [result EXCEPT ![l] = u]
    /\ pc' = [pc EXCEPT ![l] = "finished"]
    /\ UNCHANGED <<ledgerVars, asked, ownerVars, clock, known, escaped>>

\* ... and reconciles the run's own reservation afterwards.
ReconcileRun(l) ==
    /\ Runs(l)
    /\ pc[l] = "finished"
    /\ Close(l, "reconciled", ChargeFor(l, result[l]))
    /\ pc' = [pc EXCEPT ![l] = "done"]
    /\ UNCHANGED <<asked, result, ownerVars, clock, known, escaped>>

\* A review or remediation launch reports its own usage.
ReconcilePhase(l, u) ==
    /\ Runs(l)
    /\ pc[l] = "launched"
    /\ l \notin Implementations
    /\ Close(l, "reconciled", ChargeFor(l, u))
    /\ pc' = [pc EXCEPT ![l] = "done"]
    /\ UNCHANGED <<asked, result, ownerVars, clock, known, escaped>>

\* The launch ends in an exception before anything is reported. Only the
\* remediation launcher catches it, and gives the allowance back.
Interrupt(l) ==
    /\ Runs(l)
    /\ pc[l] = "launched"
    /\ \/ /\ l \in Remediations
          /\ Close(l, "released", 0)
          /\ pc' = [pc EXCEPT ![l] = "interrupted"]
          /\ escaped' = escaped \cup {l}
       \/ /\ l \notin Remediations
          /\ pc' = [pc EXCEPT ![l] = "abandoned"]
          /\ UNCHANGED <<ledgerVars, escaped>>
    /\ UNCHANGED <<asked, result, ownerVars, clock, known>>

-----------------------------------------------------------------------------
(* Recovery by another supervisor. *)

\* recover_abandoned_budget reads the run store without the ledger's lock.
ReadResults(c) ==
    /\ ~known[c].busy
    /\ known' = [known EXCEPT ![c] = [busy |-> TRUE, results |-> result]]
    /\ UNCHANGED <<ledgerVars, runVars, ownerVars, clock, escaped>>

\* Mutant: every owner counts as gone.
OwnerGone_Ignored(o) == TRUE

\* Mutant: any process under the owner's pid keeps the reservation.
OwnerGone_PidOnly(o) == ~alive[o] /\ ~reused[o]

\* process_alive, and the process-birth identity that tells a reused pid.
OwnerGone(o) == ~alive[o] /\ (reused[o] => o \in Verifiable)

Resolved(c, l) == l \in Implementations /\ known[c].results[l] # NoResult

\* The reservations recover_abandoned closes.
Due(c) ==
    {l \in Live : \/ Resolved(c, l)
                  \/ OwnerGone(Owner[l]) /\ clock - reservedAt[l] >= Grace}

RecoveryTerminal(c, l) ==
    [kind |-> "reconciled", at |-> clock,
     charge |-> IF Resolved(c, l) THEN ChargeFor(l, known[c].results[l])
                                  ELSE FailSafe[l]]

\* The loop of recover_abandoned closes `closed`, the rows that could be
\* written whole and on a line of their own.
CloseAll(c, closed) ==
    /\ terminal' = [l \in Launches |->
                      IF l \in closed THEN RecoveryTerminal(c, l) ELSE terminal[l]]
    /\ settled' = [l \in Launches |->
                      IF l \in closed /\ settled[l].kind = "none"
                        THEN RecoveryTerminal(c, l) ELSE settled[l]]
    /\ UNCHANGED <<reservedAt, header, checkpoint>>

Recover(c) ==
    /\ known[c].busy
    /\ IF Readable /\ Due(c) # {}
         THEN \/ /\ IF torn THEN \E lost \in Due(c) : CloseAll(c, Due(c) \ {lost})
                            ELSE CloseAll(c, Due(c))
                 /\ torn' = FALSE
              \/ /\ TornWrites
                 /\ \E closed \in (SUBSET Due(c)) \ {Due(c)} : CloseAll(c, closed)
                 /\ torn' = TRUE
         ELSE UNCHANGED ledgerVars
    /\ known' = [known EXCEPT ![c] = [busy |-> FALSE, results |-> Idle]]
    /\ UNCHANGED <<runVars, ownerVars, clock, escaped>>

-----------------------------------------------------------------------------
(* The environment. *)

OwnerDies(o) ==
    /\ o \in Mortal
    /\ alive[o]
    /\ alive' = [alive EXCEPT ![o] = FALSE]
    /\ UNCHANGED <<ledgerVars, runVars, reused, clock, known, escaped>>

\* The kernel hands the pid of a dead owner to another process.
PidReused(o) ==
    /\ ~alive[o]
    /\ ~reused[o]
    /\ reused' = [reused EXCEPT ![o] = TRUE]
    /\ UNCHANGED <<ledgerVars, runVars, alive, clock, known, escaped>>

Tick ==
    /\ clock < MaxTime
    /\ clock' = clock + 1
    /\ UNCHANGED <<ledgerVars, runVars, ownerVars, known, escaped>>

LaunchStep(l) ==
    \/ Ask(l) \/ Admit(l) \/ Deny(l) \/ ReserveRaises(l)
    \/ Launch(l) \/ Cancel(l)
    \/ \E u \in Reports : RecordResult(l, u) \/ ReconcilePhase(l, u)
    \/ ReconcileRun(l) \/ Interrupt(l)

RecoveryStep(c) == ReadResults(c) \/ Recover(c)

Next ==
    \/ \E l \in Launches : LaunchStep(l)
    \/ \E c \in Recoverers : RecoveryStep(c)
    \/ \E o \in Owners : OwnerDies(o) \/ PidReused(o)
    \/ Tick

Spec == Init /\ [][Next]_vars

\* Time passes, every start of run_until_done recovers, and the disk takes a
\* whole row again and again, also behind a row that is whole.
Fairness ==
    /\ WF_vars(Tick)
    /\ \A c \in Recoverers :
         /\ WF_vars(ReadResults(c))
         /\ WF_vars(Recover(c))
         /\ SF_vars(Recover(c) /\ ~torn')
         /\ SF_vars(Recover(c) /\ ~torn /\ ~torn')

FairSpec == Spec /\ Fairness

-----------------------------------------------------------------------------
(* Properties *)

AtRisk == {"admitted", "launched", "finished", "abandoned", "interrupted"}

\* What a launch has really taken from cap m: its charge once it is charged,
\* its whole allowance as long as it is not.
Taken(l, m) ==
    IF settled[l].kind = "reconciled"
      THEN IF InWindow(settled[l].at, m, clock) THEN settled[l].charge ELSE 0
      ELSE IF pc[l] \in AtRisk THEN Declared[l] ELSE 0

TakenBy(ls, m) == SumFunction([l \in Covered[m] \cap ls |-> Taken(l, m)])

\* No launch uses more than it declared, and none is charged more for unknown
\* usage (the fail-safe policy "reserved" of _fail_safe_charge).
NoOveruse ==
    \A l \in Launches :
        FailSafe[l] <= Declared[l] /\ \A u \in Usages : u <= Declared[l]

\* No cap is ever exceeded, whoever asks concurrently, whatever is recovered,
\* folded or left behind (reserve: "concurrent supervisors and runs therefore
\* cannot oversubscribe a cap"), provided NoOveruse. Launches whose allowance
\* the ledger lost are the exception.
CapRespected == \A m \in Limits : TakenBy(Launches \ escaped, m) <= Cap[m]

\* A launch that runs under a live supervisor is backed by a live reservation:
\* neither recovery nor compaction takes it away (recover_abandoned: "process
\* _alive", live reservations are never folded).
LaunchBacked ==
    \A l \in Launches \ escaped :
        Runs(l) /\ pc[l] = "launched" => l \in Live

\* Every charge is made once and kept once: what closed a reservation is in
\* the journal or in the checkpoint, never in both and never lost, as long as
\* the ledger can be read (exactly-once guard, crash-safe compaction).
ChargedOnce ==
    Readable =>
        \A l \in Launches :
            /\ checkpoint.folded[l] = NotFolded \/ terminal[l].kind = "none"
            /\ settled[l].kind = "reconciled" =>
                 \/ terminal[l] = settled[l]
                 \/ checkpoint.folded[l] = settled[l].charge
            /\ settled[l].kind # "reconciled" =>
                 checkpoint.folded[l] = NotFolded /\ terminal[l] \in {Open, settled[l]}

\* The reservation of a dead owner is eventually closed, its pid reused or not
\* (recover_abandoned: a crashed launch cannot silently vanish or hold its
\* allowance for ever).
AbandonedClosed ==
    \A l \in Launches :
        (/\ l \in Live /\ reservedAt[l] + Grace <= MaxTime
         /\ ~alive[Owner[l]] /\ Owner[l] \in Verifiable) ~> l \notin Live

=============================================================================
