------------------------ MODULE BudgetLedgerProofs ------------------------
(***************************************************************************)
(* Proofs about BudgetLedger: type correctness, that a running launch      *)
(* keeps its reservation, that every charge is kept exactly once, and that *)
(* no cap is exceeded, for any launches, supervisors, caps and compactions.*)
(***************************************************************************)
EXTENDS BudgetLedger, FiniteSetTheorems, TLAPS

-----------------------------------------------------------------------------
(* Types *)

\* A charge is a natural number, whatever the provider reported.
LEMMA ChargeType ==
    ASSUME NEW l \in Launches, NEW u \in Reports
    PROVE  ChargeFor(l, u) \in Nat
BY AmountsAssumption DEF ChargeFor, Reports, Unreported, AmountsAssumption

LEMMA OpenType == Open \in Terminals /\ Open.kind = "none"
BY LedgerBoundsAssumption DEF Open, Terminals, Times, LedgerBoundsAssumption

LEMMA NoCheckpointType == NoCheckpoint \in Checkpoints
BY LedgerBoundsAssumption
   DEF NoCheckpoint, Checkpoints, NotFolded, LedgerBoundsAssumption

\* The part of the types that the files hold.
FilesType ==
    /\ reservedAt \in [Launches -> Times \cup {Never}]
    /\ terminal \in [Launches -> Terminals]
    /\ torn \in BOOLEAN
    /\ header \in Checkpoints
    /\ checkpoint \in Checkpoints
    /\ settled \in [Launches -> Terminals]

\* Appending a reserved row keeps them typed, with or without a compaction.
LEMMA AppendType ==
    ASSUME TypeOK, NEW l \in Launches, NEW to \in LaunchPCs,
           NEW rows \in [Launches -> Times \cup {Never}],
           NoCompact(l, rows, to) \/ Compact(l, rows, to)
    PROVE  /\ reservedAt' \in [Launches -> Times \cup {Never}]
           /\ terminal' \in [Launches -> Terminals]
           /\ header' \in Checkpoints
           /\ checkpoint' \in Checkpoints
           /\ pc' \in [Launches -> LaunchPCs]
<1>1. CASE NoCompact(l, rows, to) BY <1>1 DEF NoCompact, TypeOK
<1>2. CASE Compact(l, rows, to)
  <2> DEFINE fold == Foldable(asked[l])
  <2>1. header.gen + 1 \in 0..MaxGeneration
    BY <1>2, LedgerBoundsAssumption
       DEF Compact, TypeOK, Checkpoints, LedgerBoundsAssumption
  <2>2. checkpoint' \in Checkpoints
    <3>1. \A r \in Launches : terminal[r].charge \in Nat
      BY DEF TypeOK, Terminals
    <3>2. NextCheckpoint(fold) \in Checkpoints
      BY <2>1, <3>1 DEF NextCheckpoint, TypeOK, Checkpoints
    <3>3. QED BY <1>2, <3>2 DEF Compact
  <2>3. header' \in Checkpoints BY <1>2, <2>2 DEF Compact, TypeOK
  <2>4. "stopped" \in LaunchPCs BY DEF LaunchPCs
  <2>5. QED BY <1>2, <2>2, <2>3, <2>4, OpenType, SMTT(30) DEF Compact, TypeOK
<1>3. QED BY <1>1, <1>2

\* Closing a reservation keeps them typed.
LEMMA CloseType ==
    ASSUME TypeOK, NEW l \in Launches, NEW kind \in {"released", "reconciled"},
           NEW charge \in Nat, Close(l, kind, charge)
    PROVE  FilesType'
<1>1. [kind |-> kind, charge |-> charge, at |-> clock] \in Terminals
  BY DEF TypeOK, Terminals
<1>2. QED BY <1>1, ZenonT(40) DEF Close, FilesType, TypeOK, ledgerVars

\* So does recovery, for the launches it closes.
LEMMA CloseAllType ==
    ASSUME TypeOK, NEW c \in Recoverers, NEW closed \in SUBSET Launches,
           CloseAll(c, closed)
    PROVE  /\ terminal' \in [Launches -> Terminals]
           /\ settled' \in [Launches -> Terminals]
<1>1. ASSUME NEW l \in Launches PROVE RecoveryTerminal(c, l) \in Terminals
  <2>1. Resolved(c, l) => known[c].results[l] \in Reports
    BY DEF Resolved, TypeOK
  <2>2. Resolved(c, l) => ChargeFor(l, known[c].results[l]) \in Nat
    BY <2>1, ChargeType
  <2>3. FailSafe[l] \in Nat BY AmountsAssumption DEF AmountsAssumption
  <2>4. QED BY <2>2, <2>3 DEF RecoveryTerminal, Terminals, TypeOK
<1>2. QED BY <1>1 DEF CloseAll, TypeOK

\* The result of a run is durable from "finished" on, and what a recovering
\* supervisor knows of a run is durable.
ResultsDurable ==
    /\ \A l \in Launches : pc[l] = "finished" => result[l] # NoResult
    /\ \A l \in Launches : result[l] # NoResult => pc[l] \in {"finished", "done"}
    /\ \A c \in Recoverers, l \in Launches :
          known[c].results[l] # NoResult => result[l] # NoResult

TypeInv == TypeOK /\ ResultsDurable

LEMMA InitType == Init => TypeInv
<1> SUFFICES ASSUME Init PROVE TypeInv OBVIOUS
<1>1. TypeOK
  <2>1. 0 \in Times BY LedgerBoundsAssumption DEF Times, LedgerBoundsAssumption
  <2>2. FilesType BY <2>1, OpenType, NoCheckpointType DEF Init, FilesType
  <2>3. Idle \in [Launches -> Reports \cup {NoResult}] BY DEF Idle
  <2>4. known \in [Recoverers -> [busy : BOOLEAN,
                                  results : [Launches -> Reports \cup {NoResult}]]]
    BY <2>3 DEF Init
  <2>5. QED BY <2>1, <2>2, <2>4 DEF Init, TypeOK, FilesType, LaunchPCs
<1>2. ResultsDurable BY DEF Init, ResultsDurable, Idle
<1>3. QED BY <1>1, <1>2 DEF TypeInv

\* One step per action.
LEMMA NextType == TypeInv /\ [Next]_vars => TypeOK'
<1> SUFFICES ASSUME TypeOK, ResultsDurable, [Next]_vars PROVE TypeOK'
  BY DEF TypeInv
<1> USE DEF TypeOK, LaunchPCs
<1>1. ASSUME NEW l \in Launches, Ask(l) PROVE TypeOK'
  BY <1>1 DEF Ask, ledgerVars, ownerVars
<1>2. ASSUME NEW l \in Launches, Admit(l) PROVE TypeOK'
  <2> DEFINE rows == IF torn THEN reservedAt ELSE [reservedAt EXCEPT ![l] = clock]
  <2>1. rows \in [Launches -> Times \cup {Never}] OBVIOUS
  <2>2. NoCompact(l, rows, "admitted") \/ Compact(l, rows, "admitted")
    BY <1>2 DEF Admit
  <2> HIDE DEF rows
  <2>3. /\ reservedAt' \in [Launches -> Times \cup {Never}]
        /\ terminal' \in [Launches -> Terminals]
        /\ header' \in Checkpoints
        /\ checkpoint' \in Checkpoints
        /\ pc' \in [Launches -> LaunchPCs]
    BY <2>1, <2>2, AppendType
  <2>4. 0 \in Times BY LedgerBoundsAssumption DEF Times, LedgerBoundsAssumption
  <2>5. QED BY <1>2, <2>3, <2>4 DEF Admit, ownerVars
<1>3. ASSUME NEW l \in Launches, Deny(l) PROVE TypeOK'
  <2>1. NoCompact(l, reservedAt, "stopped") \/ Compact(l, reservedAt, "stopped")
    BY <1>3 DEF Deny
  <2>2. /\ reservedAt' \in [Launches -> Times \cup {Never}]
        /\ terminal' \in [Launches -> Terminals]
        /\ header' \in Checkpoints
        /\ checkpoint' \in Checkpoints
        /\ pc' \in [Launches -> LaunchPCs]
    BY <2>1, AppendType
  <2>3. 0 \in Times BY LedgerBoundsAssumption DEF Times, LedgerBoundsAssumption
  <2>4. QED BY <1>3, <2>2, <2>3 DEF Deny, ownerVars
<1>4. ASSUME NEW l \in Launches, ReserveRaises(l) PROVE TypeOK'
  <2>1. 0 \in Times BY LedgerBoundsAssumption DEF Times, LedgerBoundsAssumption
  <2>2. QED BY <1>4, <2>1, ZenonT(40) DEF ReserveRaises, ownerVars
<1>5. ASSUME NEW l \in Launches, Launch(l) PROVE TypeOK'
  BY <1>5 DEF Launch, ledgerVars, ownerVars
<1>6. ASSUME NEW l \in Launches, Cancel(l) PROVE TypeOK'
  <2>1. FilesType' BY <1>6, CloseType DEF Cancel
  <2>2. QED BY <1>6, <2>1 DEF Cancel, FilesType, ownerVars
<1>7. ASSUME NEW l \in Launches, NEW u \in Reports, RecordResult(l, u) PROVE TypeOK'
  BY <1>7 DEF RecordResult, ledgerVars, ownerVars
<1>8. ASSUME NEW l \in Launches, ReconcileRun(l) PROVE TypeOK'
  <2>1. result[l] \in Reports BY <1>8 DEF ReconcileRun, ResultsDurable
  <2>2. FilesType' BY <1>8, <2>1, CloseType, ChargeType DEF ReconcileRun
  <2>3. QED BY <1>8, <2>2 DEF ReconcileRun, FilesType, ownerVars
<1>9. ASSUME NEW l \in Launches, NEW u \in Reports, ReconcilePhase(l, u) PROVE TypeOK'
  <2>1. FilesType' BY <1>9, CloseType, ChargeType DEF ReconcilePhase
  <2>2. QED BY <1>9, <2>1 DEF ReconcilePhase, FilesType, ownerVars
<1>10. ASSUME NEW l \in Launches, Interrupt(l) PROVE TypeOK'
  <2>1. FilesType' BY <1>10, CloseType DEF Interrupt, FilesType, ledgerVars
  <2>2. QED BY <1>10, <2>1 DEF Interrupt, FilesType, ownerVars
<1>11. ASSUME NEW c \in Recoverers, ReadResults(c) PROVE TypeOK'
  BY <1>11 DEF ReadResults, ledgerVars, runVars, ownerVars
<1>12. ASSUME NEW c \in Recoverers, Recover(c) PROVE TypeOK'
  <2>1. Due(c) \in SUBSET Launches BY DEF Due, Live, Reserved
  <2>2. FilesType'
    <3>1. ASSUME NEW closed \in SUBSET Launches, CloseAll(c, closed),
                 torn' \in BOOLEAN
          PROVE  FilesType'
      BY <3>1, CloseAllType DEF CloseAll, FilesType
    <3>2. CASE Readable /\ Due(c) # {}
      <4>1. \E closed \in SUBSET Launches : CloseAll(c, closed) /\ torn' \in BOOLEAN
        BY <1>12, <2>1, <3>2 DEF Recover
      <4>2. QED BY <3>1, <4>1
    <3>3. CASE ~(Readable /\ Due(c) # {})
      BY <1>12, <3>3 DEF Recover, ledgerVars, FilesType
    <3>4. QED BY <3>2, <3>3
  <2>3. Idle \in [Launches -> Reports \cup {NoResult}] BY DEF Idle
  <2>4. QED BY <1>12, <2>2, <2>3 DEF Recover, FilesType, runVars, ownerVars
<1>13. ASSUME NEW o \in Owners, OwnerDies(o) \/ PidReused(o) PROVE TypeOK'
  BY <1>13 DEF OwnerDies, PidReused, ledgerVars, runVars
<1>14. CASE Tick
  BY <1>14, LedgerBoundsAssumption
     DEF Tick, Times, ledgerVars, runVars, ownerVars, LedgerBoundsAssumption
<1>15. CASE UNCHANGED vars
  BY <1>15 DEF vars, ledgerVars, runVars, ownerVars
<1>16. QED
  BY <1>1, <1>2, <1>3, <1>4, <1>5, <1>6, <1>7, <1>8, <1>9, <1>10, <1>11,
     <1>12, <1>13, <1>14, <1>15 DEF Next, LaunchStep, RecoveryStep

\* Where an append leaves the launch that asked.
LEMMA AppendPC ==
    ASSUME NEW l \in Launches, NEW to, NEW rows,
           NoCompact(l, rows, to) \/ Compact(l, rows, to)
    PROVE  pc' = [pc EXCEPT ![l] = to] \/ pc' = [pc EXCEPT ![l] = "stopped"]
BY DEF NoCompact, Compact

\* Only record_result and the steps after it touch a durable result.
LEMMA NextDurable == TypeInv /\ [Next]_vars => ResultsDurable'
<1> SUFFICES ASSUME TypeOK, ResultsDurable, [Next]_vars PROVE ResultsDurable'
  BY DEF TypeInv
<1> USE DEF ResultsDurable, TypeOK
<1>1. ASSUME NEW l \in Launches, Ask(l) \/ ReserveRaises(l) \/ Launch(l) \/ Cancel(l)
      PROVE  ResultsDurable'
  BY <1>1 DEF Ask, ReserveRaises, Launch, Cancel
<1>2. ASSUME NEW l \in Launches, Admit(l) \/ Deny(l) PROVE ResultsDurable'
  <2>1. \E to \in {"admitted", "stopped"} : pc' = [pc EXCEPT ![l] = to]
    BY <1>2, AppendPC DEF Admit, Deny
  <2>2. UNCHANGED <<result, known>> /\ pc[l] = "asking" BY <1>2 DEF Admit, Deny
  <2>3. QED BY <2>1, <2>2
<1>3. ASSUME NEW l \in Launches, NEW u \in Reports, RecordResult(l, u)
      PROVE  ResultsDurable'
  <2>1. u # NoResult
    BY AmountsAssumption DEF Reports, Unreported, NoResult, AmountsAssumption
  <2>2. QED BY <1>3, <2>1 DEF RecordResult
<1>4. ASSUME NEW l \in Launches, ReconcileRun(l) PROVE ResultsDurable'
  BY <1>4 DEF ReconcileRun
<1>5. ASSUME NEW l \in Launches, NEW u \in Reports, ReconcilePhase(l, u)
      PROVE  ResultsDurable'
  BY <1>5 DEF ReconcilePhase
<1>6. ASSUME NEW l \in Launches, Interrupt(l) PROVE ResultsDurable'
  BY <1>6 DEF Interrupt
<1>7. ASSUME NEW c \in Recoverers, ReadResults(c) \/ Recover(c)
      PROVE  ResultsDurable'
  <2>1. UNCHANGED <<pc, result>> BY <1>7 DEF ReadResults, Recover, runVars
  <2>2. \E b \in BOOLEAN, rs \in {result, Idle} :
           known' = [known EXCEPT ![c] = [busy |-> b, results |-> rs]]
    BY <1>7 DEF ReadResults, Recover
  <2>3. \A l \in Launches : Idle[l] = NoResult BY DEF Idle
  <2>4. QED BY <2>1, <2>2, <2>3
<1>8. ASSUME NEW o \in Owners, OwnerDies(o) \/ PidReused(o) PROVE ResultsDurable'
  BY <1>8 DEF OwnerDies, PidReused, runVars
<1>9. CASE Tick \/ UNCHANGED vars
  BY <1>9 DEF Tick, vars, runVars
<1>10. QED
  BY <1>1, <1>2, <1>3, <1>4, <1>5, <1>6, <1>7, <1>8, <1>9
     DEF Next, LaunchStep, RecoveryStep

LEMMA NextTypeInv == TypeInv /\ [Next]_vars => TypeInv'
BY NextType, NextDurable DEF TypeInv

\* Every reachable state of the ledger, its launches and its recoverers is type
\* correct; every charge in a terminal row is a natural number.
THEOREM TypeCorrect == Spec => []TypeOK
<1>1. TypeInv => TypeOK BY DEF TypeInv
<1>2. QED BY <1>1, InitType, NextTypeInv, PTL DEF Spec

-----------------------------------------------------------------------------
(* Launches that have not reserved *)

\* A launch that has not reserved has no row in the journal and no charge.
Fresh ==
    \A l \in Launches :
        pc[l] \in {"idle", "asking"} =>
            /\ reservedAt[l] = Never
            /\ terminal[l] = Open
            /\ settled[l].kind = "none"

\* A launch admitted under a live supervisor holds its reservation, unless the
\* ledger lost it.
Backed ==
    \A l \in Launches \ escaped :
        alive[Owner[l]] /\ pc[l] \in {"admitted", "launched"} => l \in Live

\* The rows after an append, and after the compaction that may follow it.
LEMMA AppendRows ==
    ASSUME TypeOK, NEW l \in Launches, NEW to,
           NEW rows \in [Launches -> Times \cup {Never}],
           NoCompact(l, rows, to) \/ Compact(l, rows, to),
           NEW r \in Launches
    PROVE  \/ reservedAt'[r] = rows[r] /\ terminal'[r] = terminal[r]
           \/ /\ r \in Reserved \ Live
              /\ reservedAt'[r] = Never
              /\ terminal'[r] = Open
BY DEF NoCompact, Compact, Foldable, TypeOK

\* Recovery leaves alone what it does not close.
LEMMA RecoverRows ==
    ASSUME TypeOK, NEW c \in Recoverers, Recover(c), NEW l \in Launches
    PROVE  /\ UNCHANGED <<reservedAt, pc, alive, escaped, header, checkpoint>>
           /\ \/ terminal'[l] = terminal[l] /\ settled'[l] = settled[l]
              \/ /\ l \in Due(c) /\ Readable
                 /\ terminal'[l] = RecoveryTerminal(c, l)
                 /\ settled'[l] = IF settled[l].kind = "none"
                                    THEN RecoveryTerminal(c, l) ELSE settled[l]
<1>1. UNCHANGED <<pc, alive, escaped>> BY DEF Recover, runVars, ownerVars
<1>2. CASE Readable /\ Due(c) # {}
  <2>1. PICK closed \in SUBSET Due(c) : CloseAll(c, closed)
    BY <1>2 DEF Recover
  <2>2. QED BY <1>1, <1>2, <2>1 DEF CloseAll
<1>3. CASE ~(Readable /\ Due(c) # {})
  BY <1>1, <1>3 DEF Recover, ledgerVars
<1>4. QED BY <1>2, <1>3

\* Closing one reservation leaves the rows of every other launch alone.
LEMMA CloseRows ==
    ASSUME TypeOK, NEW l \in Launches, NEW kind, NEW charge,
           Close(l, kind, charge), NEW r \in Launches
    PROVE  /\ UNCHANGED <<reservedAt, header, checkpoint>>
           /\ \/ terminal'[r] = terminal[r] /\ settled'[r] = settled[r]
              \/ /\ r = l /\ Readable /\ l \in Live
                 /\ terminal'[l] = [kind |-> kind, charge |-> charge, at |-> clock]
                 /\ settled'[l] = IF settled[l].kind = "none"
                                    THEN terminal'[l] ELSE settled[l]
BY DEF Close, Closable, TypeOK, ledgerVars

LEMMA InitFreshBacked == Init => Fresh /\ Backed
BY OpenType DEF Init, Fresh, Backed

\* Only the launch itself appends its row, when it leaves "asking".
LEMMA NextFresh == TypeInv /\ Fresh /\ [Next]_vars => Fresh'
<1> SUFFICES ASSUME TypeOK, Fresh, [Next]_vars PROVE Fresh'
  BY DEF TypeInv
<1> USE DEF Fresh, TypeOK
<1>1. ASSUME NEW l \in Launches, Ask(l) \/ ReserveRaises(l) \/ Launch(l) PROVE Fresh'
  BY <1>1 DEF Ask, ReserveRaises, Launch, ledgerVars
<1>2. ASSUME NEW l \in Launches, Admit(l) \/ Deny(l) PROVE Fresh'
  <2>1. PICK to \in {"admitted", "stopped"}, rows \in [Launches -> Times \cup {Never}] :
           /\ NoCompact(l, rows, to) \/ Compact(l, rows, to)
           /\ \A r \in Launches \ {l} : rows[r] = reservedAt[r]
    <3>1. CASE Admit(l)
      <4> DEFINE rows == IF torn THEN reservedAt ELSE [reservedAt EXCEPT ![l] = clock]
      <4>1. rows \in [Launches -> Times \cup {Never}] OBVIOUS
      <4>2. \A r \in Launches \ {l} : rows[r] = reservedAt[r] OBVIOUS
      <4>3. NoCompact(l, rows, "admitted") \/ Compact(l, rows, "admitted")
        BY <3>1 DEF Admit
      <4> HIDE DEF rows
      <4>4. QED BY <4>1, <4>2, <4>3
    <3>2. CASE Deny(l) BY <3>2 DEF Deny
    <3>3. QED BY <1>2, <3>1, <3>2
  <2>2. \A r \in Launches : pc'[r] \in {"idle", "asking"} => r # l /\ pc'[r] = pc[r]
    BY <2>1, AppendPC
  <2>3. UNCHANGED settled BY <1>2 DEF Admit, Deny
  <2>4. ASSUME NEW r \in Launches, pc'[r] \in {"idle", "asking"}
        PROVE  reservedAt'[r] = Never /\ terminal'[r] = Open
    BY <2>1, <2>2, <2>4, AppendRows
  <2>5. QED BY <2>2, <2>3, <2>4
<1>3. ASSUME NEW l \in Launches, NEW kind, NEW charge, Close(l, kind, charge),
             \A r \in Launches \ {l} : pc'[r] = pc[r],
             pc'[l] \notin {"idle", "asking"}
      PROVE  Fresh'
  <2>1. ASSUME NEW r \in Launches, pc'[r] \in {"idle", "asking"}
        PROVE  /\ reservedAt'[r] = Never
               /\ terminal'[r] = Open
               /\ settled'[r].kind = "none"
    <3>1. r # l /\ pc[r] \in {"idle", "asking"} BY <1>3, <2>1
    <3>2. /\ reservedAt' = reservedAt
          /\ terminal'[r] = terminal[r] /\ settled'[r] = settled[r]
      BY <1>3, <3>1, CloseRows, ZenonT(40)
    <3>3. QED BY <3>1, <3>2
  <2>2. QED BY <2>1
<1>4. ASSUME NEW l \in Launches, Cancel(l) \/ ReconcileRun(l) PROVE Fresh'
  BY <1>3, <1>4 DEF Cancel, ReconcileRun
<1>5. ASSUME NEW l \in Launches, NEW u \in Reports,
             RecordResult(l, u) \/ ReconcilePhase(l, u)
      PROVE  Fresh'
  <2>1. CASE RecordResult(l, u) BY <2>1 DEF RecordResult, ledgerVars
  <2>2. CASE ReconcilePhase(l, u) BY <1>3, <2>2 DEF ReconcilePhase
  <2>3. QED BY <1>5, <2>1, <2>2
<1>6. ASSUME NEW l \in Launches, Interrupt(l) PROVE Fresh'
  <2>1. CASE UNCHANGED ledgerVars BY <1>6, <2>1 DEF Interrupt, ledgerVars
  <2>2. CASE Close(l, "released", 0) BY <1>3, <1>6, <2>2 DEF Interrupt
  <2>3. QED BY <1>6, <2>1, <2>2 DEF Interrupt
<1>7. ASSUME NEW c \in Recoverers, Recover(c) PROVE Fresh'
  <2>1. \A l \in Launches : l \in Due(c) => pc[l] \notin {"idle", "asking"}
    BY DEF Due, Live, Reserved
  <2>2. QED BY <1>7, <2>1, RecoverRows
<1>8. ASSUME NEW c \in Recoverers, ReadResults(c) PROVE Fresh'
  BY <1>8 DEF ReadResults, ledgerVars, runVars
<1>9. ASSUME NEW o \in Owners, OwnerDies(o) \/ PidReused(o) PROVE Fresh'
  BY <1>9 DEF OwnerDies, PidReused, ledgerVars, runVars
<1>10. CASE Tick \/ UNCHANGED vars BY <1>10 DEF Tick, vars, ledgerVars, runVars
<1>11. QED
  BY <1>1, <1>2, <1>4, <1>5, <1>6, <1>7, <1>8, <1>9, <1>10
     DEF Next, LaunchStep, RecoveryStep

-----------------------------------------------------------------------------
(* A running launch keeps its reservation *)

\* The rows of a live launch survive compaction, the closing of others, and
\* recovery as long as its owner lives and it has no result.
LEMMA NextBacked == TypeInv /\ Fresh /\ Backed /\ [Next]_vars => Backed'
<1> SUFFICES ASSUME TypeOK, ResultsDurable, Fresh, Backed, [Next]_vars PROVE Backed'
  BY DEF TypeInv
<1> USE LaunchesAssumption DEF Backed, TypeOK, Live, Reserved, LaunchesAssumption
<1>1. ASSUME NEW l \in Launches, Ask(l) \/ ReserveRaises(l) \/ Launch(l) PROVE Backed'
  BY <1>1 DEF Ask, ReserveRaises, Launch, ledgerVars, ownerVars
<1>2. ASSUME NEW l \in Launches, Admit(l) PROVE Backed'
  <2> DEFINE rows == IF torn THEN reservedAt ELSE [reservedAt EXCEPT ![l] = clock]
  <2>1. rows \in [Launches -> Times \cup {Never}] OBVIOUS
  <2>2. NoCompact(l, rows, "admitted") \/ Compact(l, rows, "admitted")
    BY <1>2 DEF Admit
  <2>3. UNCHANGED alive BY <1>2 DEF Admit, ownerVars
  <2>4. l \notin escaped' => rows[l] # Never /\ terminal[l].kind = "none"
    BY <1>2, OpenType DEF Admit, Fresh, Times, Never
  <2>5. \A r \in Launches : r # l => rows[r] = reservedAt[r] OBVIOUS
  <2>6. escaped \subseteq escaped' BY <1>2 DEF Admit
  <2> HIDE DEF rows
  <2>7. ASSUME NEW r \in Launches \ escaped', alive'[Owner[r]],
               pc'[r] \in {"admitted", "launched"}
        PROVE  r \in Live'
    <3>1. rows[r] # Never /\ terminal[r].kind = "none"
      BY <2>2, <2>3, <2>4, <2>5, <2>6, <2>7, AppendPC
    <3>2. reservedAt'[r] = rows[r] /\ terminal'[r] = terminal[r]
      BY <2>1, <2>2, <3>1, AppendRows
    <3>3. QED BY <3>1, <3>2
  <2>8. QED BY <2>7
<1>3. ASSUME NEW l \in Launches, Deny(l) PROVE Backed'
  <2>1. NoCompact(l, reservedAt, "stopped") \/ Compact(l, reservedAt, "stopped")
    BY <1>3 DEF Deny
  <2>2. UNCHANGED <<alive, escaped>> BY <1>3 DEF Deny, ownerVars
  <2>3. ASSUME NEW r \in Launches \ escaped', alive'[Owner[r]],
               pc'[r] \in {"admitted", "launched"}
        PROVE  r \in Live'
    <3>1. r \in Live
      <4>1. pc' = [pc EXCEPT ![l] = "stopped"] BY <2>1, AppendPC
      <4>2. r # l /\ pc'[r] = pc[r] BY <2>3, <4>1
      <4>3. QED BY <2>2, <2>3, <4>2
    <3>2. reservedAt'[r] = reservedAt[r] /\ terminal'[r] = terminal[r]
      BY <2>1, <3>1, AppendRows
    <3>3. QED BY <3>1, <3>2
  <2>4. QED BY <2>3
<1>4. ASSUME NEW l \in Launches, NEW kind, NEW charge, Close(l, kind, charge),
             \A r \in Launches \ {l} : pc'[r] = pc[r],
             pc'[l] \notin {"admitted", "launched"},
             UNCHANGED alive, escaped \subseteq escaped'
      PROVE  Backed'
  <2>1. ASSUME NEW r \in Launches \ escaped', alive'[Owner[r]],
               pc'[r] \in {"admitted", "launched"}
        PROVE  r \in Live'
    <3>1. r # l /\ r \in Live BY <1>4, <2>1
    <3> HIDE DEF Live, Reserved
    <3>2. reservedAt' = reservedAt /\ terminal'[r] = terminal[r]
      BY <1>4, <3>1, CloseRows, ZenonT(40)
    <3> USE DEF Live, Reserved
    <3>3. QED BY <3>1, <3>2
  <2>2. QED BY <2>1
<1>5. ASSUME NEW l \in Launches, Cancel(l) \/ ReconcileRun(l) PROVE Backed'
  BY <1>4, <1>5 DEF Cancel, ReconcileRun, ownerVars
<1>6. ASSUME NEW l \in Launches, NEW u \in Reports,
             RecordResult(l, u) \/ ReconcilePhase(l, u)
      PROVE  Backed'
  <2>1. CASE RecordResult(l, u) BY <2>1 DEF RecordResult, ledgerVars, ownerVars
  <2>2. CASE ReconcilePhase(l, u) BY <1>4, <2>2 DEF ReconcilePhase, ownerVars
  <2>3. QED BY <1>6, <2>1, <2>2
<1>7. ASSUME NEW l \in Launches, Interrupt(l) PROVE Backed'
  <2>1. CASE UNCHANGED <<ledgerVars, escaped>>
    BY <1>7, <2>1 DEF Interrupt, ledgerVars, ownerVars
  <2>2. CASE Close(l, "released", 0) /\ escaped' = escaped \cup {l}
    BY <1>4, <1>7, <2>2 DEF Interrupt, ownerVars
  <2>3. QED BY <1>7, <2>1, <2>2 DEF Interrupt
<1>8. ASSUME NEW c \in Recoverers, Recover(c) PROVE Backed'
  <2>1. ASSUME NEW l \in Launches, alive[Owner[l]], pc[l] \in {"admitted", "launched"}
        PROVE  l \notin Due(c)
    BY <2>1 DEF Due, Resolved, OwnerGone, ResultsDurable
  <2>2. QED BY <1>8, <2>1, RecoverRows
<1>9. ASSUME NEW c \in Recoverers, ReadResults(c) PROVE Backed'
  BY <1>9 DEF ReadResults, ledgerVars, runVars, ownerVars
<1>10. ASSUME NEW o \in Owners, OwnerDies(o) \/ PidReused(o) PROVE Backed'
  BY <1>10 DEF OwnerDies, PidReused, ledgerVars, runVars
<1>11. CASE Tick \/ UNCHANGED vars
  BY <1>11 DEF Tick, vars, ledgerVars, runVars, ownerVars
<1>12. QED
  BY <1>1, <1>2, <1>3, <1>5, <1>6, <1>7, <1>8, <1>9, <1>10, <1>11
     DEF Next, LaunchStep, RecoveryStep

\* A launch that runs under a live supervisor is backed by a live reservation,
\* for any number of recovering supervisors and whatever compaction folds: this
\* is what makes "the ledger holds the allowance of everything that runs" true.
THEOREM RunningIsReserved == Spec => []LaunchBacked
<1> DEFINE Inv == TypeInv /\ Fresh /\ Backed
<1>1. Init => Inv BY InitType, InitFreshBacked
<1>2. Inv /\ [Next]_vars => Inv' BY NextTypeInv, NextFresh, NextBacked
<1>3. Inv => LaunchBacked BY DEF Backed, LaunchBacked, Runs
<1>4. QED BY <1>1, <1>2, <1>3, PTL DEF Spec

-----------------------------------------------------------------------------
(* Every charge is kept once *)

\* What ChargedOnce says of one launch.
ChargeKept(l) ==
    /\ checkpoint.folded[l] = NotFolded \/ terminal[l].kind = "none"
    /\ settled[l].kind = "reconciled" =>
         \/ terminal[l] = settled[l]
         \/ checkpoint.folded[l] = settled[l].charge
    /\ settled[l].kind # "reconciled" =>
         checkpoint.folded[l] = NotFolded /\ terminal[l] \in {Open, settled[l]}

\* No reservation is live again once it was closed.
LiveUnsettled(l) == l \in Live => settled[l].kind = "none"

Charged == Readable => \A l \in Launches : ChargeKept(l) /\ LiveUnsettled(l)

LEMMA InitCharged == Init => Charged
BY OpenType DEF Init, Charged, ChargeKept, LiveUnsettled, NoCheckpoint, Open

\* Nothing is lost or doubled when a reserve call appends and compacts: a
\* folded charge leaves the journal as it enters the checkpoint.
LEMMA AppendCharged ==
    ASSUME TypeOK, Charged, Readable, NEW l \in Launches, NEW to,
           NEW rows \in [Launches -> Times \cup {Never}],
           \A r \in Launches \ {l} : rows[r] = reservedAt[r],
           rows[l] = reservedAt[l] \/ settled[l].kind = "none",
           NoCompact(l, rows, to) \/ Compact(l, rows, to),
           UNCHANGED settled
    PROVE  Charged'
<1> USE DEF Charged, ChargeKept, LiveUnsettled
<1>1. CASE NoCompact(l, rows, to)
  BY <1>1 DEF NoCompact, Readable, Live, Reserved
<1>2. CASE Compact(l, rows, to) /\ header' # checkpoint'
  BY <1>2 DEF Readable
<1>3. CASE Compact(l, rows, to) /\ header' = checkpoint'
  <2> DEFINE fold == Foldable(asked[l])
  <2>1. header'.gen = header.gen + 1
    BY <1>3 DEF Compact, NextCheckpoint
  <2>2. header.gen + 1 # header.gen BY DEF TypeOK, Checkpoints
  <2>3. ~(header' = header) BY <2>1, <2>2
  <2>4. /\ checkpoint' = NextCheckpoint(fold)
        /\ reservedAt' = [r \in Launches |-> IF r \in fold THEN Never ELSE rows[r]]
        /\ terminal' = [r \in Launches |-> IF r \in fold THEN Open ELSE terminal[r]]
    BY <1>3, <2>3 DEF Compact
  <2>5. ASSUME NEW r \in Launches PROVE ChargeKept(r)' /\ LiveUnsettled(r)'
    <3>1. checkpoint'.folded[r] = IF r \in fold /\ terminal[r].kind = "reconciled"
                                    THEN terminal[r].charge ELSE checkpoint.folded[r]
      BY <2>4 DEF NextCheckpoint
    <3>2. ChargeKept(r) /\ LiveUnsettled(r) BY DEF Charged
    <3>3. CASE r \notin fold
      <4>1. /\ reservedAt'[r] = rows[r] /\ terminal'[r] = terminal[r]
            /\ checkpoint'.folded[r] = checkpoint.folded[r]
        BY <2>4, <3>1, <3>3
      <4>2. ChargeKept(r)' BY <3>2, <4>1 DEF ChargeKept
      <4>3. LiveUnsettled(r)' BY <3>2, <4>1 DEF LiveUnsettled, Live, Reserved
      <4>4. QED BY <4>2, <4>3
    <3>4. CASE r \in fold
      <4>1. /\ reservedAt'[r] = Never /\ terminal'[r] = Open
            /\ terminal[r].kind \in {"released", "reconciled"}
        BY <2>4, <3>4 DEF Foldable, Live, Reserved, TypeOK, Terminals
      <4>2. terminal[r].charge \in Nat /\ settled[r].charge \in Nat
        BY DEF TypeOK, Terminals
      <4>3. checkpoint.folded[r] = NotFolded BY <3>2, <4>1 DEF ChargeKept
      <4>4. terminal[r] = settled[r]
        BY <3>2, <4>1, <4>2, <4>3, OpenType DEF ChargeKept, NotFolded
      <4>5. ChargeKept(r)'
        BY <3>1, <3>4, <4>1, <4>3, <4>4, OpenType DEF ChargeKept
      <4>6. LiveUnsettled(r)' BY <4>1 DEF LiveUnsettled, Live, Reserved
      <4>7. QED BY <4>5, <4>6
    <3>5. QED BY <3>3, <3>4
  <2>6. QED BY <2>5 DEF Charged
<1>4. QED BY <1>1, <1>2, <1>3

\* A terminal row closes a live reservation, so it is the first.
LEMMA ClosedCharged ==
    ASSUME TypeOK, Charged, UNCHANGED <<reservedAt, header, checkpoint>>,
           \A l \in Launches :
               \/ terminal'[l] = terminal[l] /\ settled'[l] = settled[l]
               \/ /\ l \in Live
                  /\ terminal'[l].kind \in {"released", "reconciled"}
                  /\ settled'[l] = IF settled[l].kind = "none"
                                     THEN terminal'[l] ELSE settled[l]
    PROVE  Charged'
<1> SUFFICES ASSUME Readable, NEW l \in Launches
             PROVE  ChargeKept(l)' /\ LiveUnsettled(l)'
  BY DEF Charged, Readable
<1>1. ChargeKept(l) /\ LiveUnsettled(l) BY DEF Charged
<1>2. CASE terminal'[l] = terminal[l] /\ settled'[l] = settled[l]
  BY <1>1, <1>2 DEF ChargeKept, LiveUnsettled, Live, Reserved
<1>3. CASE /\ l \in Live
           /\ terminal'[l].kind \in {"released", "reconciled"}
           /\ settled'[l] = IF settled[l].kind = "none"
                              THEN terminal'[l] ELSE settled[l]
  <2>1. settled[l].kind = "none" BY <1>1, <1>3 DEF LiveUnsettled
  <2>2. settled'[l] = terminal'[l] BY <1>3, <2>1
  <2>3. checkpoint.folded[l] = NotFolded BY <1>1, <2>1 DEF ChargeKept
  <2>4. ChargeKept(l)' BY <1>3, <2>2, <2>3 DEF ChargeKept
  <2>5. LiveUnsettled(l)' BY <1>3 DEF LiveUnsettled, Live
  <2>6. QED BY <2>4, <2>5
<1>4. QED BY <1>2, <1>3

LEMMA NextCharged == TypeInv /\ Fresh /\ Charged /\ [Next]_vars => Charged'
<1> SUFFICES ASSUME TypeOK, Fresh, Charged, [Next]_vars PROVE Charged'
  BY DEF TypeInv
<1>1. ASSUME UNCHANGED ledgerVars PROVE Charged'
  BY <1>1 DEF Charged, ChargeKept, LiveUnsettled, Readable, Live, Reserved, ledgerVars
<1>2. ASSUME NEW l \in Launches, Admit(l) PROVE Charged'
  <2> DEFINE rows == IF torn THEN reservedAt ELSE [reservedAt EXCEPT ![l] = clock]
  <2>1. rows \in [Launches -> Times \cup {Never}] BY DEF TypeOK
  <2>2. NoCompact(l, rows, "admitted") \/ Compact(l, rows, "admitted")
    BY <1>2 DEF Admit
  <2>3. \A r \in Launches \ {l} : rows[r] = reservedAt[r] BY DEF TypeOK
  <2>4. Readable /\ settled' = settled /\ settled[l].kind = "none"
    BY <1>2 DEF Admit, Fresh
  <2> HIDE DEF rows
  <2>5. QED BY <2>1, <2>2, <2>3, <2>4, AppendCharged
<1>3. ASSUME NEW l \in Launches, Deny(l) PROVE Charged'
  BY <1>3, AppendCharged DEF Deny, TypeOK
<1>4. ASSUME NEW l \in Launches, ReserveRaises(l) PROVE Charged'
  <2>1. UNCHANGED <<terminal, header, checkpoint, settled>>
    BY <1>4 DEF ReserveRaises
  <2>2. \A r \in Launches : reservedAt'[r] = reservedAt[r] \/ settled[r].kind = "none"
    BY <1>4 DEF ReserveRaises, Fresh, TypeOK
  <2>3. QED
    BY <2>1, <2>2 DEF Charged, ChargeKept, LiveUnsettled, Readable, Live, Reserved
<1>5. ASSUME NEW l \in Launches, NEW kind \in {"released", "reconciled"}, NEW charge,
             Close(l, kind, charge)
      PROVE  Charged'
  <2>1. UNCHANGED <<reservedAt, header, checkpoint>>
    BY <1>5 DEF Close, ledgerVars
  <2>2. ASSUME NEW r \in Launches
        PROVE  \/ terminal'[r] = terminal[r] /\ settled'[r] = settled[r]
               \/ /\ r \in Live
                  /\ terminal'[r].kind \in {"released", "reconciled"}
                  /\ settled'[r] = IF settled[r].kind = "none"
                                     THEN terminal'[r] ELSE settled[r]
    <3>1. CASE terminal'[r] = terminal[r] /\ settled'[r] = settled[r] BY <3>1
    <3>2. CASE /\ r = l /\ l \in Live
               /\ terminal'[l] = [kind |-> kind, charge |-> charge, at |-> clock]
               /\ settled'[l] = IF settled[l].kind = "none"
                                  THEN terminal'[l] ELSE settled[l]
      <4>1. terminal'[r].kind = kind BY <3>2
      <4>2. QED BY <1>5, <3>2, <4>1
    <3>3. QED BY <1>5, <3>1, <3>2, CloseRows
  <2>3. QED BY <2>1, <2>2, ClosedCharged
<1>6. ASSUME NEW l \in Launches, Cancel(l) \/ ReconcileRun(l) \/ Interrupt(l)
      PROVE  Charged'
  BY <1>1, <1>5, <1>6 DEF Cancel, ReconcileRun, Interrupt
<1>7. ASSUME NEW l \in Launches, NEW u \in Reports,
             RecordResult(l, u) \/ ReconcilePhase(l, u)
      PROVE  Charged'
  BY <1>1, <1>5, <1>7 DEF RecordResult, ReconcilePhase
<1>8. ASSUME NEW c \in Recoverers, Recover(c) PROVE Charged'
  <2>1. UNCHANGED <<reservedAt, header, checkpoint>>
    BY <1>8 DEF Recover, CloseAll, ledgerVars
  <2>2. \A l \in Launches : RecoveryTerminal(c, l).kind = "reconciled"
    BY DEF RecoveryTerminal
  <2>3. \A l \in Due(c) : l \in Live BY DEF Due
  <2>4. QED BY <1>8, <2>1, <2>2, <2>3, RecoverRows, ClosedCharged
<1>9. ASSUME NEW l \in Launches, Ask(l) \/ Launch(l) PROVE Charged'
  BY <1>1, <1>9 DEF Ask, Launch
<1>10. ASSUME NEW c \in Recoverers, ReadResults(c) PROVE Charged'
  BY <1>1, <1>10 DEF ReadResults
<1>11. ASSUME NEW o \in Owners, OwnerDies(o) \/ PidReused(o) PROVE Charged'
  BY <1>1, <1>11 DEF OwnerDies, PidReused
<1>12. CASE Tick \/ UNCHANGED vars BY <1>1, <1>12 DEF Tick, vars
<1>13. QED
  BY <1>2, <1>3, <1>4, <1>6, <1>7, <1>8, <1>9, <1>10, <1>11, <1>12
     DEF Next, LaunchStep, RecoveryStep

\* Every charge is made once and is in the journal or in the checkpoint, never
\* in both and never lost, for any number of compactions, recoveries and torn
\* rows, as long as the ledger can be read.
THEOREM ChargesKept == Spec => []ChargedOnce
<1> DEFINE Inv == TypeInv /\ Fresh /\ Charged
<1>1. Init => Inv BY InitType, InitFreshBacked, InitCharged
<1>2. Inv /\ [Next]_vars => Inv' BY NextTypeInv, NextFresh, NextCharged
<1>3. Inv => ChargedOnce BY DEF Charged, ChargeKept, ChargedOnce
<1>4. QED BY <1>1, <1>2, <1>3, PTL DEF Spec

-----------------------------------------------------------------------------
(* Sums over finite sets *)

\* Induction over the parts of a finite set, with sets in place of predicates.
LEMMA SubsetsInduction ==
    ASSUME NEW S, IsFiniteSet(S), NEW T \in SUBSET (SUBSET S),
           \A s \in SUBSET S : (\A u \in SUBSET s : u # s => u \in T) => s \in T
    PROVE  T = SUBSET S
<1> DEFINE bad == (SUBSET S) \ T
           below == StrictSubsetOrdering(S)
<1> SUFFICES ASSUME bad # {} PROVE FALSE
  OBVIOUS
<1>1. IsWellFoundedOn(below, SUBSET S)
  <2>1. IsWellFoundedOn(below, FiniteSubsetsOf(S))
    BY FS_StrictSubsetOrderingWellFounded
  <2>2. FiniteSubsetsOf(S) = SUBSET S
    BY FS_FiniteSubsetsOfFinite
  <2>3. QED BY <2>1, <2>2
<1>2. \E s \in bad : \A u \in bad : ~ (<<u, s>> \in below)
  <2>1. bad \subseteq SUBSET S OBVIOUS
  <2> HIDE DEF bad, below
  <2>2. QED BY <1>1, <2>1, WFMin
<1>3. PICK s \in bad : \A u \in bad : ~ (<<u, s>> \in below)
  BY <1>2
<1>4. ASSUME NEW u \in SUBSET s, u # s PROVE u \in T
  <2>1. <<u, s>> \in below BY <1>3, <1>4 DEF StrictSubsetOrdering
  <2>2. QED BY <1>3, <2>1
<1>5. s \in SUBSET S /\ s \notin T
  OBVIOUS
<1>6. (\A u \in SUBSET s : u # s => u \in T) => s \in T
  BY <1>5
<1>7. QED BY <1>4, <1>5, <1>6

\* Induction over the natural numbers, likewise.
LEMMA NumbersInduction ==
    ASSUME NEW T \in SUBSET Nat, 0 \in T, \A n \in T : n + 1 \in T
    PROVE  T = Nat
<1> DEFINE bad == Nat \ T
           below == OpToRel(<, Nat)
<1> SUFFICES ASSUME bad # {} PROVE FALSE
  OBVIOUS
<1>1. \E n \in bad : \A k \in bad : ~ (<<k, n>> \in below)
  <2>1. bad \subseteq Nat OBVIOUS
  <2>2. IsWellFoundedOn(below, Nat) BY NatLessThanWellFounded
  <2> HIDE DEF bad, below
  <2>3. QED BY <2>1, <2>2, WFMin
<1>2. PICK n \in bad : \A k \in bad : ~ (<<k, n>> \in below)
  BY <1>1
<1>3. n # 0 /\ n - 1 \in Nat /\ n - 1 < n
  OBVIOUS
<1>4. <<n - 1, n>> \in below
  BY <1>3 DEF OpToRel
<1>5. n - 1 \in T
  BY <1>2, <1>3, <1>4
<1>6. n = (n - 1) + 1 /\ n \notin T
  OBVIOUS
<1>7. QED BY <1>5, <1>6

Pick(s) == CHOOSE x \in s : TRUE
Sums(f, S) ==
    CHOOSE sum : sum = [s \in SUBSET S |->
        IF s = {} THEN 0 ELSE f[Pick(s)] + sum[s \ {Pick(s)}]]

\* SumFunctionOnSet is a recursive function on the parts of its set.
LEMMA SumIs == \A f, S : SumFunctionOnSet(f, S) = Sums(f, S)[S]
BY DEF SumFunctionOnSet, FoldFunctionOnSet, MapThenFoldSet, Sums, Pick

\* There is a function that is what its recursive definition says.
SumRec(f, s, sum) == IF s = {} THEN 0 ELSE f[Pick(s)] + sum[s \ {Pick(s)}]

LEMMA SumsExists ==
    ASSUME NEW f, NEW S, IsFiniteSet(S)
    PROVE  \E sum : sum = [s \in SUBSET S |-> SumRec(f, s, sum)]
<1> DEFINE Upto(n) == {s \in SUBSET S : Cardinality(s) <= n}
           Has(n) == \E g : g = [s \in Upto(n) |-> SumRec(f, s, g)]
           good == {n \in Nat : Has(n)}
<1>0. \A s \in SUBSET S : /\ IsFiniteSet(s) /\ Cardinality(s) \in Nat
                          /\ Cardinality(s) = 0 <=> s = {}
  BY FS_Subset, FS_CardinalityType, FS_EmptySet
<1>1. 0 \in good
  <2>1. Upto(0) = {{}} BY <1>0
  <2> DEFINE g == [s \in Upto(0) |-> 0]
  <2>2. \A s \in Upto(0) : SumRec(f, s, g) = 0 BY <2>1 DEF SumRec
  <2>3. g = [s \in Upto(0) |-> SumRec(f, s, g)] BY <2>2
  <2>4. Has(0) BY <2>3
  <2>5. QED BY <2>4
<1>2. ASSUME NEW n \in good PROVE n + 1 \in good
  <2>1. PICK g : g = [s \in Upto(n) |-> SumRec(f, s, g)]
    OBVIOUS
  <2> DEFINE h == [s \in Upto(n + 1) |-> SumRec(f, s, g)]
  <2>2. ASSUME NEW s \in Upto(n + 1), s # {}
        PROVE  s \ {Pick(s)} \in Upto(n)
    <3>1. Pick(s) \in s BY <2>2 DEF Pick
    <3>2. IsFiniteSet(s) /\ Cardinality(s) \in Nat BY <1>0
    <3>3. Cardinality(s \ {Pick(s)}) = Cardinality(s) - 1
      BY <3>1, <3>2, FS_RemoveElement
    <3>4. s \ {Pick(s)} \in SUBSET S OBVIOUS
    <3>5. QED BY <3>2, <3>3, <3>4
  <2>3. \A s \in Upto(n) : h[s] = g[s] /\ s \in Upto(n + 1)
    <3>1. Upto(n) \subseteq Upto(n + 1) BY <1>0
    <3>2. \A s \in Upto(n + 1) : h[s] = SumRec(f, s, g) OBVIOUS
    <3>3. \A s \in Upto(n) : g[s] = SumRec(f, s, g) BY <2>1
    <3>4. QED BY <3>1, <3>2, <3>3
  <2>4. \A s \in Upto(n + 1) : SumRec(f, s, g) = SumRec(f, s, h)
    <3> HIDE DEF h, Upto
    <3>1. QED BY <2>2, <2>3 DEF SumRec
  <2>5. h = [s \in Upto(n + 1) |-> SumRec(f, s, h)] BY <2>4
  <2>6. Has(n + 1) BY <2>5
  <2>7. n + 1 \in Nat OBVIOUS
  <2> HIDE DEF Has
  <2>8. QED BY <2>6, <2>7
<1>3. good = Nat
  <2> HIDE DEF Has
  <2>1. good \in SUBSET Nat OBVIOUS
  <2> HIDE DEF good
  <2>2. QED BY <1>1, <1>2, <2>1, NumbersInduction
<1>4. Cardinality(S) \in Nat /\ Upto(Cardinality(S)) = SUBSET S
  BY <1>0, FS_Subset, FS_CardinalityType
<1>5. Has(Cardinality(S))
  BY <1>3, <1>4
<1>6. QED BY <1>4, <1>5

\* So Sums is such a function.
LEMMA SumsRec ==
    ASSUME NEW f, NEW S, IsFiniteSet(S)
    PROVE  \A s \in SUBSET S : Sums(f, S)[s] = SumRec(f, s, Sums(f, S))
<1> DEFINE sums == Sums(f, S)
<1>1. \E sum : sum = [s \in SUBSET S |-> SumRec(f, s, sum)]
  BY SumsExists
<1>2. Sums(f, S) = CHOOSE sum : sum = [s \in SUBSET S |-> SumRec(f, s, sum)]
  BY DEF Sums, SumRec
<1>3. sums = [s \in SUBSET S |-> SumRec(f, s, sums)] BY <1>1, <1>2
<1> HIDE DEF sums
<1>4. \A s \in SUBSET S : sums[s] = SumRec(f, s, sums) BY <1>3
<1>5. QED BY <1>4 DEF sums

\* The sum over a part is the same whatever it is a part of.
LEMMA SumsAgree ==
    ASSUME NEW f, NEW S, IsFiniteSet(S), NEW T \in SUBSET S
    PROVE  Sums(f, S)[T] = Sums(f, T)[T]
<1> DEFINE F == Sums(f, S)
           G == Sums(f, T)
           same == {u \in SUBSET T : F[u] = G[u]}
<1>0. IsFiniteSet(T) BY FS_Subset
<1>1. ASSUME NEW s \in SUBSET T, \A u \in SUBSET s : u # s => u \in same
      PROVE  s \in same
  <2>1. F[s] = SumRec(f, s, F)
    BY SumsRec
  <2>2. G[s] = SumRec(f, s, G)
    BY <1>0, SumsRec
  <2>3. CASE s = {} BY <2>1, <2>2, <2>3 DEF SumRec
  <2>4. CASE s # {}
    <3>1. Pick(s) \in s BY <2>4 DEF Pick
    <3>2. s \ {Pick(s)} \in same BY <1>1, <3>1
    <3>3. F[s \ {Pick(s)}] = G[s \ {Pick(s)}] BY <3>2
    <3>4. QED BY <2>1, <2>2, <2>4, <3>3 DEF SumRec
  <2>5. QED BY <2>3, <2>4
<1>2. same = SUBSET T
  <2>1. same \in SUBSET (SUBSET T) OBVIOUS
  <2> HIDE DEF same
  <2>2. QED BY <1>0, <1>1, <2>1, SubsetsInduction
<1>3. QED BY <1>2

Sum(f, S) == SumFunctionOnSet(f, S)

\* A sum takes its terms one by one, in an order of its own.
LEMMA SumPicks ==
    ASSUME NEW f, NEW S, IsFiniteSet(S)
    PROVE  /\ S = {} => Sum(f, S) = 0
           /\ S # {} => Pick(S) \in S /\ Sum(f, S) = f[Pick(S)] + Sum(f, S \ {Pick(S)})
<1>1. Sums(f, S)[S] = SumRec(f, S, Sums(f, S)) BY SumsRec
<1>2. Sum(f, S) = Sums(f, S)[S] BY SumIs DEF Sum
<1>3. ASSUME S # {}
      PROVE  Pick(S) \in S /\ Sum(f, S) = f[Pick(S)] + Sum(f, S \ {Pick(S)})
  <2>1. Pick(S) \in S BY <1>3 DEF Pick
  <2>2. S \ {Pick(S)} \in SUBSET S OBVIOUS
  <2>3. Sum(f, S \ {Pick(S)}) = Sums(f, S)[S \ {Pick(S)}]
    BY <2>2, SumIs, SumsAgree DEF Sum
  <2>4. QED BY <1>1, <1>2, <1>3, <2>1, <2>3 DEF SumRec
<1>4. QED BY <1>1, <1>2, <1>3 DEF SumRec

\* A sum of natural numbers is one.
LEMMA SumNat ==
    ASSUME NEW f, NEW S, IsFiniteSet(S), \A x \in S : f[x] \in Nat
    PROVE  Sum(f, S) \in Nat
<1> DEFINE nat == {s \in SUBSET S : Sum(f, s) \in Nat}
<1>1. ASSUME NEW s \in SUBSET S, \A u \in SUBSET s : u # s => u \in nat
      PROVE  s \in nat
  <2>0. IsFiniteSet(s) BY FS_Subset
  <2>1. CASE s = {}
    <3>1. Sum(f, s) = 0 BY <2>0, <2>1, SumPicks
    <3>2. QED BY <3>1
  <2>2. CASE s # {}
    <3>1. Pick(s) \in s /\ Sum(f, s) = f[Pick(s)] + Sum(f, s \ {Pick(s)})
      BY <2>0, <2>2, SumPicks
    <3>2. s \ {Pick(s)} \in nat BY <1>1, <3>1
    <3>3. QED BY <3>1, <3>2
  <2>3. QED BY <2>1, <2>2
<1>2. nat = SUBSET S
  <2>1. nat \in SUBSET (SUBSET S) OBVIOUS
  <2> HIDE DEF nat
  <2>2. QED BY <1>1, <2>1, SubsetsInduction
<1>3. QED BY <1>2

\* A sum may take its terms in any order.
LEMMA SumRemove ==
    ASSUME NEW f, NEW S, IsFiniteSet(S), \A x \in S : f[x] \in Nat, NEW x \in S
    PROVE  Sum(f, S) = f[x] + Sum(f, S \ {x})
<1> DEFINE any == {s \in SUBSET S : \A y \in s : Sum(f, s) = f[y] + Sum(f, s \ {y})}
<1>1. ASSUME NEW s \in SUBSET S, \A u \in SUBSET s : u # s => u \in any, NEW y \in s
      PROVE  Sum(f, s) = f[y] + Sum(f, s \ {y})
  <2>0. IsFiniteSet(s) BY FS_Subset
  <2> DEFINE z == Pick(s)
  <2>1. z \in s /\ Sum(f, s) = f[z] + Sum(f, s \ {z})
    BY <2>0, SumPicks
  <2>2. CASE y = z BY <2>1, <2>2
  <2>3. CASE y # z
    <3> DEFINE rest == (s \ {z}) \ {y}
    <3>0. IsFiniteSet(rest) /\ \A w \in rest : f[w] \in Nat
      BY <2>0, FS_Subset
    <3>1. s \ {z} \in any /\ s \ {y} \in any
      BY <1>1, <2>1
    <3>2. Sum(f, s \ {z}) = f[y] + Sum(f, rest)
      BY <2>3, <3>1
    <3>3. rest = (s \ {y}) \ {z} OBVIOUS
    <3>4. Sum(f, s \ {y}) = f[z] + Sum(f, rest)
      BY <2>1, <2>3, <3>1, <3>3
    <3>5. Sum(f, rest) \in Nat /\ f[y] \in Nat /\ f[z] \in Nat
      BY <2>1, <3>0, SumNat
    <3> HIDE DEF rest, z
    <3>6. QED BY <2>1, <3>2, <3>4, <3>5
  <2>4. QED BY <2>2, <2>3
<1>2. any = SUBSET S
  <2>1. any \in SUBSET (SUBSET S) OBVIOUS
  <2>2. \A s \in SUBSET S : (\A u \in SUBSET s : u # s => u \in any) => s \in any
    BY <1>1
  <2> HIDE DEF any
  <2>3. QED BY <2>1, <2>2, SubsetsInduction
<1>3. QED BY <1>2

\* Fewer and smaller terms have a smaller sum.
LEMMA SumMonotone ==
    ASSUME NEW f, NEW g, NEW S, IsFiniteSet(S), NEW T \in SUBSET S,
           \A x \in S : g[x] \in Nat,
           \A x \in T : f[x] \in Nat /\ f[x] <= g[x]
    PROVE  Sum(f, T) <= Sum(g, S)
<1> DEFINE below == {s \in SUBSET S : Sum(f, s \cap T) <= Sum(g, s)}
<1>1. ASSUME NEW s \in SUBSET S, \A u \in SUBSET s : u # s => u \in below
      PROVE  s \in below
  <2>0. IsFiniteSet(s) /\ IsFiniteSet(s \cap T) BY FS_Subset
  <2>1. CASE s = {}
    <3>1. Sum(g, s) = 0 /\ Sum(f, s \cap T) = 0 BY <2>0, <2>1, SumPicks
    <3>2. QED BY <3>1
  <2>2. CASE s # {}
    <3>1. PICK x \in s : TRUE BY <2>2
    <3> DEFINE r == s \ {x}
    <3>2. r \in below /\ IsFiniteSet(r) /\ IsFiniteSet(r \cap T)
      BY <1>1, <3>1, FS_Subset
    <3>3. Sum(g, s) = g[x] + Sum(g, r) BY <2>0, SumRemove
    <3>4. Sum(g, r) \in Nat /\ Sum(f, r \cap T) \in Nat /\ g[x] \in Nat
      BY <3>2, SumNat
    <3>5. CASE x \in T
      <4>1. (s \cap T) \ {x} = r \cap T OBVIOUS
      <4>2. Sum(f, s \cap T) = f[x] + Sum(f, r \cap T)
        BY <2>0, <3>5, <4>1, SumRemove
      <4>3. f[x] \in Nat /\ f[x] <= g[x] BY <3>5
      <4> HIDE DEF r
      <4>4. QED BY <3>2, <3>3, <3>4, <4>2, <4>3
    <3>6. CASE x \notin T
      <4>1. s \cap T = r \cap T BY <3>6
      <4>2. Sum(f, s \cap T) = Sum(f, r \cap T) BY <4>1
      <4> HIDE DEF r
      <4>3. QED BY <3>2, <3>3, <3>4, <4>2
    <3>7. QED BY <3>5, <3>6
  <2>3. QED BY <2>1, <2>2
<1>2. below = SUBSET S
  <2>1. below \in SUBSET (SUBSET S) OBVIOUS
  <2> HIDE DEF below
  <2>2. QED BY <1>1, <2>1, SubsetsInduction
<1>3. S \cap T = T OBVIOUS
<1>4. QED BY <1>2, <1>3

-----------------------------------------------------------------------------
(* What a step does to the rows of a launch *)

\* Then no charge is above the allowance either.
LEMMA ChargeDeclared ==
    ASSUME NoOveruse, NEW l \in Launches, NEW u \in Reports
    PROVE  ChargeFor(l, u) <= Declared[l]
BY DEF NoOveruse, ChargeFor, Reports

RowKept(r) ==
    /\ reservedAt'[r] = reservedAt[r]
    /\ terminal'[r] = terminal[r]
    /\ settled'[r] = settled[r]

RowFolded(r) ==
    /\ r \in Reserved \ Live
    /\ reservedAt'[r] = Never
    /\ terminal'[r] = Open
    /\ settled'[r] = settled[r]

RowClosed(r) ==
    /\ r \in Live
    /\ Readable
    /\ reservedAt'[r] = reservedAt[r]
    /\ terminal'[r].kind \in {"released", "reconciled"}
    /\ terminal'[r].kind = "reconciled" => terminal'[r].charge <= Declared[r]
    /\ settled'[r] = IF settled[r].kind = "none" THEN terminal'[r] ELSE settled[r]

RowReserved(r) ==
    /\ pc[r] = "asking"
    /\ Readable
    /\ Fits(r, asked[r])
    /\ reservedAt'[r] # Never
    /\ terminal'[r] = terminal[r]
    /\ settled'[r] = settled[r]

RowPast(r) == RowKept(r) \/ RowFolded(r) \/ RowClosed(r)

\* One launch at most reserves.
RowsStep ==
    \/ \A r \in Launches : RowPast(r)
    \/ \E l \in Launches : RowReserved(l) /\ \A r \in Launches \ {l} : RowPast(r)

\* A launch is at risk from its reservation on, and not with a released one.
RiskStep(r) ==
    r \notin escaped' /\ pc'[r] \in AtRisk =>
        \/ RowReserved(r)
        \/ pc[r] \in AtRisk /\ (RowClosed(r) => terminal'[r].kind = "reconciled")

Forward == clock <= clock' /\ escaped \subseteq escaped'

LedgerStep == RowsStep /\ Forward /\ \A r \in Launches : RiskStep(r)

\* A step that leaves the rows alone and puts no launch at risk.
LEMMA QuietStep ==
    ASSUME TypeOK, UNCHANGED <<reservedAt, terminal, settled>>, Forward,
           \A r \in Launches : pc'[r] \in AtRisk => pc[r] \in AtRisk
    PROVE  LedgerStep
<1>1. \A r \in Launches : RowKept(r) BY DEF RowKept
<1>2. \A r \in Launches : ~ RowClosed(r)
  BY DEF RowClosed, Live
<1>3. \A r \in Launches : RiskStep(r) BY <1>2 DEF RiskStep
<1>4. QED BY <1>1, <1>3 DEF LedgerStep, RowsStep, RowPast

\* A reserve call leaves the rows of the others alone, or folds them away.
LEMMA AppendStep ==
    ASSUME TypeOK, Readable, NEW l \in Launches, NEW to,
           NEW rows \in [Launches -> Times \cup {Never}],
           \A r \in Launches \ {l} : rows[r] = reservedAt[r],
           NoCompact(l, rows, to) \/ Compact(l, rows, to),
           UNCHANGED settled
    PROVE  \A r \in Launches \ {l} : RowPast(r) /\ ~ RowClosed(r)
<1> SUFFICES ASSUME NEW r \in Launches \ {l} PROVE RowPast(r) /\ ~ RowClosed(r)
  OBVIOUS
<1>1. \/ reservedAt'[r] = rows[r] /\ terminal'[r] = terminal[r]
      \/ /\ r \in Reserved \ Live
         /\ reservedAt'[r] = Never
         /\ terminal'[r] = Open
  BY AppendRows
<1>2. RowPast(r) BY <1>1 DEF RowPast, RowKept, RowFolded
<1>3. ~ RowClosed(r) BY <1>1, OpenType DEF RowClosed, Live
<1>4. QED BY <1>2, <1>3

\* An admitted launch reserves, or its row is lost and it escapes.
LEMMA AdmitStep ==
    ASSUME TypeOK, Fresh, NEW l \in Launches, Admit(l)
    PROVE  LedgerStep
<1> DEFINE rows == IF torn THEN reservedAt ELSE [reservedAt EXCEPT ![l] = clock]
<1>1. rows \in [Launches -> Times \cup {Never}] BY DEF TypeOK
<1>2. NoCompact(l, rows, "admitted") \/ Compact(l, rows, "admitted")
  BY DEF Admit
<1>3. \A r \in Launches \ {l} : rows[r] = reservedAt[r] BY DEF TypeOK
<1>4. /\ Readable /\ settled' = settled /\ clock' = clock /\ pc[l] = "asking"
      /\ Fits(l, asked[l])
      /\ escaped' = IF torn THEN escaped \cup {l} ELSE escaped
  BY DEF Admit
<1>5. reservedAt[l] = Never /\ terminal[l].kind = "none" BY <1>4, OpenType DEF Fresh
<1>6. torn => rows = reservedAt OBVIOUS
<1>7. ~ torn => rows[l] = clock BY DEF TypeOK
<1> HIDE DEF rows
<1>8. \A r \in Launches \ {l} : RowPast(r) /\ ~ RowClosed(r)
  BY <1>1, <1>2, <1>3, <1>4, AppendStep
<1>9. l \notin Reserved BY <1>5 DEF Reserved
<1>10. reservedAt'[l] = rows[l] /\ terminal'[l] = terminal[l]
  BY <1>1, <1>2, <1>9, AppendRows
<1>11. Forward BY <1>4 DEF Forward, TypeOK, Times
<1>12. \A r \in Launches \ {l} : RiskStep(r)
  <2>1. \A r \in Launches \ {l} : pc'[r] = pc[r] BY <1>2, AppendPC DEF TypeOK
  <2>2. QED BY <1>8, <2>1 DEF RiskStep
<1>13. CASE torn
  <2>1. RowKept(l) BY <1>4, <1>6, <1>10, <1>13 DEF RowKept
  <2>2. RiskStep(l) BY <1>4, <1>13 DEF RiskStep
  <2>3. QED BY <1>8, <1>11, <1>12, <2>1, <2>2 DEF LedgerStep, RowsStep, RowPast
<1>14. CASE ~ torn
  <2>1. clock # Never BY DEF TypeOK, Times, Never
  <2>2. RowReserved(l) BY <1>4, <1>7, <1>10, <1>14, <2>1 DEF RowReserved
  <2>3. RiskStep(l) BY <2>2 DEF RiskStep
  <2>4. QED BY <1>8, <1>11, <1>12, <2>2, <2>3 DEF LedgerStep, RowsStep
<1>15. QED BY <1>13, <1>14

\* A denied launch leaves no row.
LEMMA DenyStep ==
    ASSUME TypeOK, Fresh, NEW l \in Launches, Deny(l)
    PROVE  LedgerStep
<1>1. NoCompact(l, reservedAt, "stopped") \/ Compact(l, reservedAt, "stopped")
  BY DEF Deny
<1>2. Readable /\ UNCHANGED <<settled, clock, escaped>> /\ pc[l] = "asking"
  BY DEF Deny
<1>3. reservedAt \in [Launches -> Times \cup {Never}] BY DEF TypeOK
<1>4. \A r \in Launches \ {l} : RowPast(r) /\ ~ RowClosed(r)
  BY <1>1, <1>2, <1>3, AppendStep
<1>5. l \notin Reserved BY <1>2 DEF Fresh, Reserved
<1>6. RowKept(l) BY <1>1, <1>2, <1>3, <1>5, AppendRows DEF RowKept
<1>7. pc' = [pc EXCEPT ![l] = "stopped"] BY <1>1, AppendPC
<1>8. \A r \in Launches : RiskStep(r)
  BY <1>4, <1>7 DEF RiskStep, TypeOK, AtRisk
<1>9. Forward BY <1>2 DEF Forward, TypeOK, Times
<1>10. QED BY <1>4, <1>6, <1>8, <1>9 DEF LedgerStep, RowsStep, RowPast

\* A reserve call that raises may have written its row.
LEMMA RaiseStep ==
    ASSUME TypeOK, Fresh, NEW l \in Launches, ReserveRaises(l)
    PROVE  LedgerStep
<1>1. /\ pc[l] = "asking" /\ pc' = [pc EXCEPT ![l] = "stopped"]
      /\ UNCHANGED <<terminal, settled, clock, escaped>>
  BY DEF ReserveRaises
<1>2. Forward BY <1>1 DEF Forward, TypeOK, Times
<1>3. CASE reservedAt' = reservedAt
  <2>1. \A r \in Launches : pc'[r] \in AtRisk => pc[r] \in AtRisk
    BY <1>1 DEF TypeOK, AtRisk
  <2>2. QED BY <1>1, <1>2, <1>3, <2>1, QuietStep
<1>4. CASE reservedAt' # reservedAt
  <2>1. Readable /\ Fits(l, asked[l]) /\ reservedAt' = [reservedAt EXCEPT ![l] = clock]
    BY <1>4 DEF ReserveRaises
  <2>2. clock # Never BY DEF TypeOK, Times, Never
  <2>3. RowReserved(l) BY <1>1, <2>1, <2>2 DEF RowReserved, TypeOK
  <2>4. \A r \in Launches \ {l} : RowKept(r) BY <1>1, <2>1 DEF RowKept, TypeOK
  <2>5. \A r \in Launches : ~ RowClosed(r) BY <1>1 DEF RowClosed, Live
  <2>6. \A r \in Launches : RiskStep(r)
    BY <1>1, <2>3, <2>5 DEF RiskStep, TypeOK
  <2>7. QED BY <1>2, <2>3, <2>4, <2>6 DEF LedgerStep, RowsStep, RowPast
<1>5. QED BY <1>3, <1>4

\* The owner closes its own reservation and leaves the launches at risk, or
\* gives its allowance up.
LEMMA CloseStep ==
    ASSUME TypeOK, NEW l \in Launches, NEW kind \in {"released", "reconciled"},
           NEW charge \in Nat, kind = "reconciled" => charge <= Declared[l],
           Close(l, kind, charge),
           \A r \in Launches \ {l} : pc'[r] = pc[r],
           pc'[l] \notin AtRisk \/ l \in escaped',
           clock' = clock, escaped \subseteq escaped'
    PROVE  LedgerStep
<1>1. \A r \in Launches \ {l} : RowKept(r) /\ ~ RowClosed(r)
  <2> SUFFICES ASSUME NEW r \in Launches \ {l} PROVE RowKept(r) /\ ~ RowClosed(r)
    OBVIOUS
  <2>1. reservedAt' = reservedAt /\ terminal'[r] = terminal[r] /\ settled'[r] = settled[r]
    BY CloseRows, ZenonT(40)
  <2>2. QED BY <2>1 DEF RowKept, RowClosed, Live
<1>2. RowKept(l) \/ RowClosed(l)
  <2>1. reservedAt' = reservedAt BY CloseRows
  <2>2. CASE terminal'[l] = terminal[l] /\ settled'[l] = settled[l]
    BY <2>1, <2>2 DEF RowKept
  <2>3. CASE /\ Readable /\ l \in Live
             /\ terminal'[l] = [kind |-> kind, charge |-> charge, at |-> clock]
             /\ settled'[l] = IF settled[l].kind = "none"
                                THEN terminal'[l] ELSE settled[l]
    <3>1. terminal'[l].kind = kind /\ terminal'[l].charge = charge BY <2>3
    <3>2. QED BY <2>1, <2>3, <3>1 DEF RowClosed
  <2>4. QED BY <2>2, <2>3, CloseRows
<1>3. \A r \in Launches : RiskStep(r) BY <1>1 DEF RiskStep
<1>4. Forward BY DEF Forward, TypeOK, Times
<1>5. QED BY <1>1, <1>2, <1>3, <1>4 DEF LedgerStep, RowsStep, RowPast

\* Recovery closes live reservations, by a charge within their allowance.
LEMMA RecoverStep ==
    ASSUME TypeOK, NoOveruse, NEW c \in Recoverers, Recover(c)
    PROVE  LedgerStep
<1>1. UNCHANGED <<pc, clock, escaped>> BY DEF Recover, runVars
<1>2. ASSUME NEW r \in Launches
      PROVE  /\ RowKept(r) \/ RowClosed(r)
             /\ RowClosed(r) => terminal'[r].kind = "reconciled"
  <2>1. reservedAt' = reservedAt BY RecoverRows
  <2>2. CASE terminal'[r] = terminal[r] /\ settled'[r] = settled[r]
    BY <2>1, <2>2 DEF RowKept, RowClosed, Live
  <2>3. CASE /\ r \in Due(c) /\ Readable
             /\ terminal'[r] = RecoveryTerminal(c, r)
             /\ settled'[r] = IF settled[r].kind = "none"
                                THEN RecoveryTerminal(c, r) ELSE settled[r]
    <3>1. terminal'[r].kind = "reconciled" BY <2>3 DEF RecoveryTerminal
    <3>2. terminal'[r].charge <= Declared[r]
      <4>1. CASE Resolved(c, r)
        <5>1. known[c].results[r] \in Reports BY <4>1 DEF Resolved, TypeOK
        <5>2. QED BY <2>3, <4>1, <5>1, ChargeDeclared DEF RecoveryTerminal
      <4>2. CASE ~ Resolved(c, r)
        BY <2>3, <4>2 DEF RecoveryTerminal, NoOveruse
      <4>3. QED BY <4>1, <4>2
    <3>3. r \in Live BY <2>3 DEF Due
    <3>4. settled'[r] = IF settled[r].kind = "none" THEN terminal'[r] ELSE settled[r]
      BY <2>3
    <3>5. QED BY <2>1, <2>3, <3>1, <3>2, <3>3, <3>4 DEF RowClosed
  <2>4. QED BY <2>2, <2>3, RecoverRows
<1>3. \A r \in Launches : RiskStep(r) BY <1>1, <1>2 DEF RiskStep
<1>4. Forward BY <1>1 DEF Forward, TypeOK, Times
<1>5. QED BY <1>2, <1>3, <1>4 DEF LedgerStep, RowsStep, RowPast

\* So every step is of this kind.
LEMMA NextStep == NoOveruse /\ TypeInv /\ Fresh /\ [Next]_vars => LedgerStep
<1> SUFFICES ASSUME NoOveruse, TypeOK, ResultsDurable, Fresh, [Next]_vars
             PROVE  LedgerStep
  BY DEF TypeInv
<1>1. ASSUME NEW l \in Launches, Ask(l) \/ Launch(l) PROVE LedgerStep
  <2>1. UNCHANGED <<reservedAt, terminal, settled, clock, escaped>>
    BY <1>1 DEF Ask, Launch, ledgerVars
  <2>2. \A r \in Launches : pc'[r] \in AtRisk => pc[r] \in AtRisk
    BY <1>1 DEF Ask, Launch, TypeOK, AtRisk
  <2>3. Forward BY <2>1 DEF Forward, TypeOK, Times
  <2>4. QED BY <2>1, <2>2, <2>3, QuietStep
<1>2. ASSUME NEW l \in Launches, Cancel(l) PROVE LedgerStep
  BY <1>2, CloseStep DEF Cancel, TypeOK, AtRisk
<1>3. ASSUME NEW l \in Launches, ReconcileRun(l) PROVE LedgerStep
  <2>1. result[l] \in Reports BY <1>3 DEF ReconcileRun, ResultsDurable, TypeOK
  <2>2. ChargeFor(l, result[l]) \in Nat /\ ChargeFor(l, result[l]) <= Declared[l]
    BY <2>1, ChargeType, ChargeDeclared
  <2>3. QED BY <1>3, <2>2, CloseStep DEF ReconcileRun, TypeOK, AtRisk
<1>4. ASSUME NEW l \in Launches, NEW u \in Reports, ReconcilePhase(l, u)
      PROVE  LedgerStep
  <2>1. ChargeFor(l, u) \in Nat /\ ChargeFor(l, u) <= Declared[l]
    BY ChargeType, ChargeDeclared
  <2>2. QED BY <1>4, <2>1, CloseStep DEF ReconcilePhase, TypeOK, AtRisk
<1>5. ASSUME NEW l \in Launches, NEW u \in Reports, RecordResult(l, u)
      PROVE  LedgerStep
  <2>1. UNCHANGED <<reservedAt, terminal, settled, clock, escaped>>
    BY <1>5 DEF RecordResult, ledgerVars
  <2>2. \A r \in Launches : pc'[r] \in AtRisk => pc[r] \in AtRisk
    BY <1>5 DEF RecordResult, TypeOK, AtRisk
  <2>3. Forward BY <2>1 DEF Forward, TypeOK, Times
  <2>4. QED BY <2>1, <2>2, <2>3, QuietStep
<1>6. ASSUME NEW l \in Launches, Interrupt(l) PROVE LedgerStep
  <2>1. clock' = clock BY <1>6 DEF Interrupt
  <2>2. CASE /\ Close(l, "released", 0) /\ pc' = [pc EXCEPT ![l] = "interrupted"]
             /\ escaped' = escaped \cup {l}
    BY <2>1, <2>2, CloseStep DEF TypeOK
  <2>3. CASE pc' = [pc EXCEPT ![l] = "abandoned"] /\ UNCHANGED <<ledgerVars, escaped>>
    <3>1. \A r \in Launches : pc'[r] \in AtRisk => pc[r] \in AtRisk
      BY <1>6, <2>3 DEF Interrupt, TypeOK, AtRisk
    <3>2. Forward BY <2>1, <2>3 DEF Forward, TypeOK, Times
    <3>3. QED BY <2>3, <3>1, <3>2, QuietStep DEF ledgerVars
  <2>4. QED BY <1>6, <2>2, <2>3 DEF Interrupt
<1>7. CASE UNCHANGED <<ledgerVars, pc, escaped>> /\ clock' \in {clock, clock + 1}
  <2>1. Forward BY <1>7 DEF Forward, TypeOK, Times
  <2>2. QED BY <1>7, <2>1, QuietStep DEF ledgerVars
<1>8. ASSUME NEW c \in Recoverers, ReadResults(c) PROVE LedgerStep
  BY <1>7, <1>8 DEF ReadResults, runVars
<1>9. ASSUME NEW o \in Owners, OwnerDies(o) \/ PidReused(o) PROVE LedgerStep
  BY <1>7, <1>9 DEF OwnerDies, PidReused, runVars
<1>10. CASE Tick \/ UNCHANGED vars BY <1>7, <1>10 DEF Tick, vars, runVars
<1>11. QED
  BY <1>1, <1>2, <1>3, <1>4, <1>5, <1>6, <1>8, <1>9, <1>10,
     AdmitStep, DenyStep, RaiseStep, RecoverStep DEF Next, LaunchStep, RecoveryStep

-----------------------------------------------------------------------------
(* What the cap rests on *)

\* A reserve call is answered for a moment that is not in the future.
AskedPast == \A l \in Launches : pc[l] = "asking" => asked[l] <= clock

\* A terminal row is behind its reserved row.
RowsReserved == \A l \in Launches : terminal[l].kind # "none" => l \in Reserved

\* The ledger holds the allowance of every launch that may still use it.
AtRiskLive ==
    \A l \in Launches \ escaped :
        pc[l] \in AtRisk /\ settled[l].kind # "reconciled" => l \in Live

\* What was folded away does not count for a window any more.
FoldedOld ==
    \A l \in Launches, m \in Limits :
        checkpoint.folded[l] # NotFolded /\ Window[m] # 0 =>
            settled[l].kind = "reconciled" /\ ~ InWindow(settled[l].at, m, clock)

RowsInv == AskedPast /\ RowsReserved /\ AtRiskLive /\ FoldedOld

LEMMA InitRows == Init => RowsInv
<1> SUFFICES ASSUME Init PROVE RowsInv
  OBVIOUS
<1>1. AskedPast BY DEF Init, AskedPast
<1>2. RowsReserved BY OpenType DEF Init, RowsReserved
<1>3. AtRiskLive BY DEF Init, AtRiskLive, AtRisk
<1>4. FoldedOld BY DEF Init, FoldedOld, NoCheckpoint
<1>5. QED BY <1>1, <1>2, <1>3, <1>4 DEF RowsInv

\* The clock only moves on after it was read.
LEMMA NextAsked ==
    ASSUME TypeOK, TypeOK', AskedPast, LedgerStep, [Next]_vars
    PROVE  AskedPast'
<1>0. /\ clock \in Int /\ clock' \in Int /\ clock <= clock' /\ 0 <= clock'
      /\ \A l \in Launches : asked[l] \in Int
  BY DEF LedgerStep, Forward, TypeOK, Times
<1> USE DEF AskedPast
<1>1. ASSUME UNCHANGED <<pc, asked>> PROVE AskedPast'
  BY <1>0, <1>1
<1>2. ASSUME NEW l \in Launches, Ask(l) PROVE AskedPast'
  BY <1>0, <1>2 DEF Ask, TypeOK
<1>3. ASSUME NEW l \in Launches, NEW to \in LaunchPCs \ {"asking"},
             pc' = [pc EXCEPT ![l] = to],
             asked' = asked \/ asked' = [asked EXCEPT ![l] = 0]
      PROVE  AskedPast'
  <2>1. ASSUME NEW r \in Launches, pc'[r] = "asking" PROVE asked'[r] <= clock'
    <3>1. r # l /\ pc[r] = "asking" BY <1>3, <2>1 DEF TypeOK
    <3>2. asked'[r] = asked[r] BY <1>3, <3>1 DEF TypeOK
    <3>3. QED BY <1>0, <3>1, <3>2
  <2>2. QED BY <2>1
<1>4. ASSUME NEW l \in Launches, Admit(l) \/ Deny(l) PROVE AskedPast'
  <2>1. \E to \in {"admitted", "stopped"} : pc' = [pc EXCEPT ![l] = to]
    BY <1>4, AppendPC DEF Admit, Deny
  <2>2. asked' = [asked EXCEPT ![l] = 0] BY <1>4 DEF Admit, Deny
  <2>3. QED BY <1>3, <2>1, <2>2 DEF LaunchPCs
<1>5. ASSUME NEW l \in Launches,
             ReserveRaises(l) \/ Launch(l) \/ Cancel(l) \/ ReconcileRun(l) \/ Interrupt(l)
      PROVE  AskedPast'
  BY <1>3, <1>5
     DEF ReserveRaises, Launch, Cancel, ReconcileRun, Interrupt, LaunchPCs
<1>6. ASSUME NEW l \in Launches, NEW u \in Reports,
             RecordResult(l, u) \/ ReconcilePhase(l, u)
      PROVE  AskedPast'
  BY <1>3, <1>6 DEF RecordResult, ReconcilePhase, LaunchPCs
<1>7. ASSUME NEW c \in Recoverers, ReadResults(c) \/ Recover(c) PROVE AskedPast'
  BY <1>1, <1>7 DEF ReadResults, Recover, runVars
<1>8. ASSUME NEW o \in Owners, OwnerDies(o) \/ PidReused(o) PROVE AskedPast'
  BY <1>1, <1>8 DEF OwnerDies, PidReused, runVars
<1>9. CASE Tick \/ UNCHANGED vars BY <1>1, <1>9 DEF Tick, vars, runVars
<1>10. QED
  BY <1>2, <1>4, <1>5, <1>6, <1>7, <1>8, <1>9 DEF Next, LaunchStep, RecoveryStep

\* A reserved row goes only with its terminal row.
LEMMA NextReserved ==
    ASSUME TypeOK, RowsReserved, LedgerStep
    PROVE  RowsReserved'
<1> SUFFICES ASSUME NEW r \in Launches, terminal'[r].kind # "none"
             PROVE  reservedAt'[r] # Never
  BY DEF RowsReserved, Reserved
<1>1. RowPast(r) \/ RowReserved(r) BY DEF LedgerStep, RowsStep
<1>2. QED
  BY <1>1, OpenType DEF RowPast, RowKept, RowFolded, RowClosed, RowReserved,
     RowsReserved, Reserved, Live

\* What closes the reservation of a launch at risk also charges it.
LEMMA NextAtRisk ==
    ASSUME TypeOK, Fresh, Charged, AtRiskLive, LedgerStep
    PROVE  AtRiskLive'
<1> SUFFICES ASSUME NEW r \in Launches, r \notin escaped', pc'[r] \in AtRisk,
                    settled'[r].kind # "reconciled"
             PROVE  reservedAt'[r] # Never /\ terminal'[r].kind = "none"
  BY DEF AtRiskLive, Live, Reserved
<1>1. r \notin escaped BY DEF LedgerStep, Forward
<1>2. CASE RowReserved(r)
  BY <1>2, OpenType DEF RowReserved, Fresh
<1>3. CASE ~ RowReserved(r)
  <2>1. RowPast(r) BY <1>3 DEF LedgerStep, RowsStep
  <2>2. pc[r] \in AtRisk /\ (RowClosed(r) => terminal'[r].kind = "reconciled")
    BY <1>3 DEF LedgerStep, RiskStep
  <2>3. CASE RowClosed(r)
    <3>1. settled[r].kind = "none"
      BY <2>3 DEF RowClosed, Charged, LiveUnsettled
    <3>2. QED BY <2>2, <2>3, <3>1 DEF RowClosed
  <2>4. CASE ~ RowClosed(r)
    <3>1. settled'[r] = settled[r] BY <2>1, <2>4 DEF RowPast, RowKept, RowFolded
    <3>2. r \in Live BY <1>1, <2>2, <3>1 DEF AtRiskLive
    <3>3. RowKept(r) BY <2>1, <2>4, <3>2 DEF RowPast, RowFolded
    <3>4. QED BY <3>2, <3>3 DEF RowKept, Live, Reserved
  <2>5. QED BY <2>3, <2>4
<1>4. QED BY <1>2, <1>3

\* What closed a reservation stays what closed it.
LEMMA SettledStays ==
    ASSUME TypeOK, LedgerStep, NEW r \in Launches, settled[r].kind # "none"
    PROVE  settled'[r] = settled[r]
<1>1. RowPast(r) \/ RowReserved(r) BY DEF LedgerStep, RowsStep
<1>2. QED BY <1>1 DEF RowPast, RowKept, RowFolded, RowClosed, RowReserved

\* Time only moves a record out of a window.
LEMMA WindowMoves ==
    ASSUME TypeOK, NEW at \in Times, NEW m \in Limits, NEW t \in Times,
           NEW u \in Times, t <= u, InWindow(at, m, u)
    PROVE  InWindow(at, m, t)
BY AmountsAssumption DEF InWindow, Times, AmountsAssumption

\* The windows of finitely many caps have a longest.
LEMMA FiniteMax ==
    ASSUME NEW S, IsFiniteSet(S), S \subseteq Int, S # {}
    PROVE  \E x \in S : \A y \in S : x >= y
<1> DEFINE T == {s \in SUBSET S : s # {} => \E x \in s : \A y \in s : x >= y}
<1>1. ASSUME NEW s \in SUBSET S, \A u \in SUBSET s : u # s => u \in T
      PROVE  s \in T
  <2> SUFFICES ASSUME s # {} PROVE \E x \in s : \A y \in s : x >= y
    OBVIOUS
  <2>1. PICK a \in s : TRUE OBVIOUS
  <2>2. CASE s \ {a} = {} BY <2>1, <2>2
  <2>3. CASE s \ {a} # {}
    <3>1. s \ {a} \in T BY <1>1, <2>1
    <3>2. PICK b \in s \ {a} : \A y \in s \ {a} : b >= y BY <2>3, <3>1
    <3>3. CASE a >= b
      <4>1. \A y \in s : a >= y BY <3>2, <3>3
      <4>2. QED BY <2>1, <4>1
    <3>4. CASE ~ (a >= b)
      <4>1. \A y \in s : b >= y BY <3>2, <3>4
      <4>2. QED BY <3>2, <4>1
    <3>5. QED BY <3>3, <3>4
  <2>4. QED BY <2>2, <2>3
<1>2. T = SUBSET S
  <2>1. T \in SUBSET (SUBSET S) OBVIOUS
  <2> HIDE DEF T
  <2>2. QED BY <1>1, <2>1, SubsetsInduction
<1>3. QED BY <1>2

\* Compaction folds what is outside every window.
LEMMA FoldBeforeWindows ==
    ASSUME NEW t \in Times, NEW m \in Limits
    PROVE  FoldBefore(t) \in Int /\ FoldBefore(t) <= t - Window[m]
<1> DEFINE S == {0} \cup {Window[n] : n \in Limits}
<1>1. S \subseteq Nat BY AmountsAssumption DEF AmountsAssumption
<1>2. IsFiniteSet(S)
  <2>1. IsFiniteSet({Window[n] : n \in Limits})
    <3> DEFINE T == {Window[n] : n \in Limits}
    <3>1. Window \in Surjection(Limits, T)
      BY AmountsAssumption DEF Surjection, AmountsAssumption
    <3>2. QED BY <3>1, LaunchesAssumption, FS_Surjection DEF LaunchesAssumption
  <2>2. IsFiniteSet({0}) BY FS_Singleton
  <2>3. QED BY <2>1, <2>2, FS_Union
<1>3. Window[m] \in S OBVIOUS
<1> HIDE DEF S
<1>4. \E x \in S : \A y \in S : x >= y
  <2>1. S \subseteq Int /\ S # {} BY <1>1, <1>3
  <2>2. QED BY <1>2, <2>1, FiniteMax
<1>5. Max(S) \in S /\ Max(S) >= Window[m]
  BY <1>3, <1>4 DEF Max
<1>6. FoldBefore(t) = t - Max(S) BY DEF FoldBefore, S
<1>7. Max(S) \in Nat /\ Window[m] \in Nat BY <1>1, <1>3, <1>5
<1> HIDE DEF FoldBefore, Max
<1>8. t \in Int BY DEF Times
<1>9. QED BY <1>5, <1>6, <1>7, <1>8

LEMMA AppendCheckpoint ==
    ASSUME NEW l \in Launches, NEW to, NEW rows,
           NoCompact(l, rows, to) \/ Compact(l, rows, to)
    PROVE  \/ checkpoint' = checkpoint
           \/ checkpoint' = NextCheckpoint(Foldable(asked[l]))
BY DEF NoCompact, Compact

LEMMA CloseCheckpoint ==
    ASSUME NEW l, NEW kind, NEW charge, Close(l, kind, charge)
    PROVE  checkpoint' = checkpoint
BY DEF Close, ledgerVars

\* Only a reserve call that can read the ledger compacts it.
LEMMA CheckpointStep ==
    ASSUME [Next]_vars
    PROVE  \/ checkpoint' = checkpoint
           \/ \E l \in Launches : /\ pc[l] = "asking" /\ Readable
                                  /\ checkpoint' = NextCheckpoint(Foldable(asked[l]))
<1>1. ASSUME NEW l \in Launches, Admit(l) \/ Deny(l)
      PROVE  \/ checkpoint' = checkpoint
             \/ /\ pc[l] = "asking" /\ Readable
                /\ checkpoint' = NextCheckpoint(Foldable(asked[l]))
  BY <1>1, AppendCheckpoint DEF Admit, Deny
<1>2. ASSUME NEW l \in Launches,
             Ask(l) \/ ReserveRaises(l) \/ Launch(l) \/ Cancel(l) \/ ReconcileRun(l)
                \/ Interrupt(l)
      PROVE  checkpoint' = checkpoint
  BY <1>2, CloseCheckpoint
     DEF Ask, ReserveRaises, Launch, Cancel, ReconcileRun, Interrupt, ledgerVars
<1>3. ASSUME NEW l \in Launches, NEW u \in Reports,
             RecordResult(l, u) \/ ReconcilePhase(l, u)
      PROVE  checkpoint' = checkpoint
  BY <1>3, CloseCheckpoint DEF RecordResult, ReconcilePhase, ledgerVars
<1>4. ASSUME NEW c \in Recoverers, ReadResults(c) \/ Recover(c)
      PROVE  checkpoint' = checkpoint
  BY <1>4 DEF ReadResults, Recover, CloseAll, ledgerVars
<1>5. ASSUME NEW o \in Owners, OwnerDies(o) \/ PidReused(o)
      PROVE  checkpoint' = checkpoint
  BY <1>5 DEF OwnerDies, PidReused, ledgerVars
<1>6. CASE Tick \/ UNCHANGED vars BY <1>6 DEF Tick, vars, ledgerVars
<1>7. QED
  BY <1>1, <1>2, <1>3, <1>4, <1>5, <1>6 DEF Next, LaunchStep, RecoveryStep

\* A record is folded when it is outside every window, and stays outside.
LEMMA NextFolded ==
    ASSUME TypeOK, Charged, AskedPast, FoldedOld, LedgerStep, TypeOK', [Next]_vars
    PROVE  FoldedOld'
<1> SUFFICES ASSUME NEW r \in Launches, NEW m \in Limits,
                    checkpoint'.folded[r] # NotFolded, Window[m] # 0
             PROVE  /\ settled'[r].kind = "reconciled"
                    /\ ~ InWindow(settled'[r].at, m, clock')
  BY DEF FoldedOld, InWindow
<1>1. clock \in Times /\ clock' \in Times /\ clock <= clock'
  BY DEF TypeOK, LedgerStep, Forward
<1>2. settled[r].at \in Times BY DEF TypeOK, Terminals
<1>3. ASSUME settled[r].kind = "reconciled", ~ InWindow(settled[r].at, m, clock)
      PROVE  /\ settled'[r].kind = "reconciled"
             /\ ~ InWindow(settled'[r].at, m, clock')
  <2>1. settled'[r] = settled[r] BY <1>3, SettledStays
  <2>2. QED BY <1>1, <1>2, <1>3, <2>1, WindowMoves
<1>4. CASE checkpoint.folded[r] # NotFolded
  BY <1>3, <1>4 DEF FoldedOld
<1>5. CASE checkpoint.folded[r] = NotFolded
  <2>1. PICK l \in Launches : /\ pc[l] = "asking" /\ Readable
                              /\ checkpoint' = NextCheckpoint(Foldable(asked[l]))
    BY <1>5, CheckpointStep
  <2>2. r \in Foldable(asked[l]) /\ terminal[r].kind = "reconciled"
    BY <1>5, <2>1 DEF NextCheckpoint
  <2>3. terminal[r] = settled[r]
    <3>1. ChargeKept(r) BY <2>1 DEF Charged
    <3>2. settled[r].charge \in Nat BY DEF TypeOK, Terminals
    <3>3. QED BY <1>5, <2>2, <3>1, <3>2, OpenType DEF ChargeKept, NotFolded
  <2>4. asked[l] \in Times /\ asked[l] <= clock BY <2>1 DEF AskedPast, TypeOK
  <2>5. FoldBefore(asked[l]) \in Int /\ FoldBefore(asked[l]) <= asked[l] - Window[m]
    BY <2>4, FoldBeforeWindows
  <2>6. settled[r].at < FoldBefore(asked[l]) BY <2>2, <2>3 DEF Foldable
  <2> HIDE DEF FoldBefore
  <2>7. Window[m] \in Nat BY AmountsAssumption DEF AmountsAssumption
  <2>8. ~ (settled[r].at >= clock - Window[m])
    BY <1>1, <1>2, <2>4, <2>5, <2>6, <2>7 DEF Times
  <2>9. ~ InWindow(settled[r].at, m, clock) BY <2>8 DEF InWindow
  <2>10. QED BY <1>3, <2>2, <2>3, <2>9
<1>6. QED BY <1>4, <1>5

LEMMA NextRows ==
    ASSUME TypeInv, Fresh, Charged, RowsInv, LedgerStep, [Next]_vars
    PROVE  RowsInv'
<1>1. TypeOK' /\ TypeOK BY NextType DEF TypeInv
<1>2. QED BY <1>1, NextAsked, NextReserved, NextAtRisk, NextFolded DEF RowsInv

-----------------------------------------------------------------------------
(* No cap is exceeded *)

\* What the ledger must hold against cap m for a launch: its charge once it is
\* charged, its whole allowance as long as its reservation is live. It is more
\* than Taken: recovery may still charge a launch that never started, whose
\* reserved row was written by a reserve call that raised.
Owed(l, m) ==
    IF settled[l].kind = "reconciled"
      THEN IF InWindow(settled[l].at, m, clock) THEN settled[l].charge ELSE 0
      ELSE IF l \in Live THEN Declared[l] ELSE 0

Debtors(m) == Covered[m] \ escaped
Debts(m) == [l \in Debtors(m) |-> Owed(l, m)]

OwedInCap == \A m \in Limits : Sum(Debts(m), Debtors(m)) <= Cap[m]

LEMMA OwedType ==
    ASSUME TypeOK, NEW l \in Launches, NEW m \in Limits
    PROVE  Owed(l, m) \in Nat /\ Taken(l, m) \in Nat
BY AmountsAssumption DEF Owed, Taken, TypeOK, Terminals, AmountsAssumption

LEMMA DebtorsFinite ==
    ASSUME NEW m \in Limits, NEW S \in SUBSET Covered[m]
    PROVE  S \subseteq Launches /\ IsFiniteSet(S)
BY LaunchesAssumption, FS_Subset DEF LaunchesAssumption

\* A cap counts everything that is owed, as long as the ledger can be read.
LEMMA OwedCounted ==
    ASSUME TypeOK, Charged, RowsInv, Readable,
           NEW l \in Launches, NEW m \in Limits, NEW t \in Times, t <= clock
    PROVE  /\ Counted(l, m, t) + CountedFolded(l, m) \in Nat
           /\ Owed(l, m) <= Counted(l, m, t) + CountedFolded(l, m)
<1>1. Counted(l, m, t) \in Nat
  BY AmountsAssumption DEF Counted, TypeOK, Terminals, AmountsAssumption
<1>2. CountedFolded(l, m) \in Nat
  BY DEF CountedFolded, TypeOK, Checkpoints
<1>3. Owed(l, m) \in Nat BY OwedType
<1>4. CASE settled[l].kind = "reconciled" /\ InWindow(settled[l].at, m, clock)
  <2>1. Owed(l, m) = settled[l].charge BY <1>4 DEF Owed
  <2>2. settled[l].charge \in Nat /\ settled[l].at \in Times BY DEF TypeOK, Terminals
  <2>3. CASE terminal[l] = settled[l]
    <3>1. l \in Reserved \ Live
      BY <1>4, <2>3 DEF RowsInv, RowsReserved, Live
    <3>2. InWindow(terminal[l].at, m, t)
      BY <1>4, <2>2, <2>3, WindowMoves DEF TypeOK
    <3>3. Counted(l, m, t) = settled[l].charge
      BY <1>4, <2>3, <3>1, <3>2 DEF Counted
    <3>4. QED BY <1>1, <1>2, <2>1, <2>2, <3>3
  <2>4. CASE checkpoint.folded[l] = settled[l].charge
    <3>1. checkpoint.folded[l] # NotFolded BY <2>2, <2>4 DEF NotFolded
    <3>2. Window[m] = 0 BY <1>4, <3>1 DEF RowsInv, FoldedOld
    <3>3. CountedFolded(l, m) = settled[l].charge
      BY <2>4, <3>1, <3>2 DEF CountedFolded
    <3>4. QED BY <1>1, <1>2, <2>1, <2>2, <3>3
  <2>5. QED BY <1>4, <2>3, <2>4 DEF Charged, ChargeKept
<1>5. CASE settled[l].kind # "reconciled" /\ l \in Live
  <2>1. Owed(l, m) = Declared[l] /\ Counted(l, m, t) = Declared[l]
    BY <1>5 DEF Owed, Counted
  <2>2. QED BY <1>1, <1>2, <2>1
<1>6. CASE Owed(l, m) = 0 BY <1>1, <1>2, <1>6
<1>7. QED BY <1>1, <1>2, <1>4, <1>5, <1>6 DEF Owed

\* A launch is really taking no more than the ledger holds for it.
LEMMA TakenOwed ==
    ASSUME TypeOK, AtRiskLive, NEW l \in Launches \ escaped, NEW m \in Limits
    PROVE  Taken(l, m) <= Owed(l, m)
<1>1. Taken(l, m) \in Nat /\ Owed(l, m) \in Nat BY OwedType
<1>2. Taken(l, m) = 0 \/ Taken(l, m) = Owed(l, m)
  BY DEF Taken, Owed, AtRiskLive
<1>3. QED BY <1>1, <1>2

\* Without a new reservation a launch never owes more than before.
LEMMA OwedShrinks ==
    ASSUME TypeOK, TypeOK', Charged, LedgerStep,
           NEW r \in Launches, RowPast(r), NEW m \in Limits
    PROVE  Owed(r, m)' <= Owed(r, m)
<1>1. Owed(r, m) \in Nat BY OwedType
<1>2. Declared[r] \in Nat BY AmountsAssumption DEF AmountsAssumption
<1>3. clock \in Times /\ clock' \in Times /\ clock <= clock' /\ settled[r].at \in Times
  BY DEF TypeOK, Terminals, LedgerStep, Forward
<1>4. CASE settled[r].kind = "reconciled"
  <2>1. settled'[r] = settled[r] BY <1>4, SettledStays
  <2>2. InWindow(settled[r].at, m, clock') => InWindow(settled[r].at, m, clock)
    BY <1>3, WindowMoves
  <2>3. Owed(r, m)' = Owed(r, m) \/ Owed(r, m)' = 0
    BY <1>4, <2>1, <2>2 DEF Owed, InWindow
  <2>4. QED BY <1>1, <2>3
<1>5. CASE settled[r].kind # "reconciled" /\ RowKept(r)
  <2>1. Owed(r, m)' = Owed(r, m) BY <1>5 DEF Owed, RowKept, Live, Reserved
  <2>2. QED BY <1>1, <2>1
<1>6. CASE settled[r].kind # "reconciled" /\ RowFolded(r)
  <2>1. Owed(r, m)' = 0 BY <1>6 DEF Owed, RowFolded, Live, Reserved
  <2>2. QED BY <1>1, <2>1
<1>7. CASE settled[r].kind # "reconciled" /\ RowClosed(r)
  <2>1. settled[r].kind = "none" /\ settled'[r] = terminal'[r]
    BY <1>7 DEF RowClosed, Charged, LiveUnsettled
  <2>2. Owed(r, m) = Declared[r] BY <1>7 DEF Owed, RowClosed
  <2>3. Owed(r, m)' \in {0, terminal'[r].charge}
    BY <1>7, <2>1 DEF Owed, RowClosed, Live, InWindow
  <2>4. settled'[r].kind = "reconciled" => terminal'[r].charge <= Declared[r]
    BY <1>7, <2>1 DEF RowClosed
  <2>5. settled'[r].kind # "reconciled" => Owed(r, m)' = 0
    BY <1>7 DEF Owed, RowClosed, Live
  <2>6. QED BY <1>2, <2>2, <2>3, <2>4, <2>5
<1>8. QED BY <1>4, <1>5, <1>6, <1>7 DEF RowPast

\* So the sum of what is owed does not grow either.
LEMMA DebtsShrink ==
    ASSUME TypeOK, TypeOK', Charged, LedgerStep, NEW m \in Limits,
           NEW S \in SUBSET Debtors(m), NEW T \in SUBSET S,
           T \subseteq Debtors(m)', \A r \in T : RowPast(r)
    PROVE  Sum(Debts(m)', T) <= Sum(Debts(m), S)
<1>1. S \subseteq Launches /\ IsFiniteSet(S)
  BY DebtorsFinite DEF Debtors
<1>2. \A r \in S : Debts(m)[r] = Owed(r, m) /\ Owed(r, m) \in Nat
  BY <1>1, OwedType DEF Debts
<1>3. \A r \in T : /\ Debts(m)'[r] = Owed(r, m)' /\ Owed(r, m)' \in Nat
                   /\ Owed(r, m)' <= Owed(r, m)
  <2>1. \A r \in T : Debts(m)'[r] = Owed(r, m)' BY DEF Debts
  <2>2. \A r \in Launches : Owed(r, m)' \in Nat
    BY AmountsAssumption DEF Owed, TypeOK, Terminals, AmountsAssumption
  <2>3. \A r \in T : Owed(r, m)' <= Owed(r, m) BY <1>1, OwedShrinks
  <2>4. QED BY <1>1, <2>1, <2>2, <2>3
<1>4. \A r \in S : Debts(m)[r] \in Nat BY <1>2
<1>5. \A r \in T : Debts(m)'[r] \in Nat /\ Debts(m)'[r] <= Debts(m)[r]
  BY <1>2, <1>3
<1>6. QED BY <1>1, <1>4, <1>5, SumMonotone

\* A reserve call that fits leaves room for its whole allowance.
LEMMA FitsOwed ==
    ASSUME TypeOK, Charged, RowsInv, Readable, NEW l \in Launches,
           pc[l] = "asking", Fits(l, asked[l]), NEW m \in Limits, l \in Covered[m]
    PROVE  Sum(Debts(m), Debtors(m)) + Declared[l] <= Cap[m]
<1> DEFINE g == [r \in Covered[m] |-> Counted(r, m, asked[l]) + CountedFolded(r, m)]
<1>1. Consumption(m, asked[l]) = Sum(g, Covered[m])
  BY DEF Consumption, SumFunction, Sum
<1>2. asked[l] \in Times /\ asked[l] <= clock
  BY DEF RowsInv, AskedPast, TypeOK
<1>3. Covered[m] \subseteq Launches /\ IsFiniteSet(Covered[m]) BY DebtorsFinite
<1>4. \A r \in Covered[m] : g[r] \in Nat /\ Owed(r, m) \in Nat /\ Owed(r, m) <= g[r]
  BY <1>2, <1>3, OwedCounted, OwedType
<1>5. \A r \in Debtors(m) : Debts(m)[r] = Owed(r, m) /\ r \in Covered[m]
  BY DEF Debts, Debtors
<1>6. Debtors(m) \subseteq Covered[m] BY DEF Debtors
<1> HIDE DEF g
<1>7. Sum(Debts(m), Debtors(m)) <= Sum(g, Covered[m])
  BY <1>3, <1>4, <1>5, <1>6, SumMonotone
<1>8. Sum(g, Covered[m]) \in Nat BY <1>3, <1>4, SumNat
<1>9. Sum(Debts(m), Debtors(m)) \in Nat
  <2>1. IsFiniteSet(Debtors(m)) BY <1>6, DebtorsFinite
  <2>2. \A r \in Debtors(m) : Debts(m)[r] \in Nat BY <1>4, <1>5
  <2>3. QED BY <2>1, <2>2, SumNat
<1>10. Consumption(m, asked[l]) + Declared[l] <= Cap[m] BY DEF Fits
<1>11. Declared[l] \in Nat /\ Cap[m] \in Nat
  BY AmountsAssumption DEF AmountsAssumption
<1>12. QED BY <1>1, <1>7, <1>8, <1>9, <1>10, <1>11

\* Every step keeps what is owed within the cap.
LEMMA NextOwed ==
    ASSUME TypeOK, TypeOK', Fresh, Charged, RowsInv, OwedInCap, LedgerStep
    PROVE  OwedInCap'
<1> SUFFICES ASSUME NEW m \in Limits
             PROVE  Sum(Debts(m)', Debtors(m)') <= Cap[m]
  BY DEF OwedInCap
<1> DEFINE D == Debtors(m)'
<1>1. D \subseteq Debtors(m) /\ D \subseteq Covered[m]
  BY DEF LedgerStep, Forward, Debtors
<1>2. D \subseteq Launches /\ IsFiniteSet(D) BY <1>1, DebtorsFinite
<1>3. Sum(Debts(m), Debtors(m)) <= Cap[m] BY DEF OwedInCap
<1>4. \A r \in D : Debts(m)'[r] = Owed(r, m)' /\ Owed(r, m)' \in Nat
  <2>1. \A r \in D : Debts(m)'[r] = Owed(r, m)' BY DEF Debts
  <2>2. \A r \in Launches : Owed(r, m)' \in Nat
    BY AmountsAssumption DEF Owed, TypeOK, Terminals, AmountsAssumption
  <2>3. QED BY <1>2, <2>1, <2>2
<1>5. Cap[m] \in Nat BY AmountsAssumption DEF AmountsAssumption
<1>6. Sum(Debts(m), Debtors(m)) \in Nat
  <2>1. Debtors(m) \subseteq Covered[m] BY DEF Debtors
  <2>2. IsFiniteSet(Debtors(m)) /\ Debtors(m) \subseteq Launches
    BY <2>1, DebtorsFinite
  <2>3. \A r \in Debtors(m) : Debts(m)[r] \in Nat BY <2>2, OwedType DEF Debts
  <2>4. QED BY <2>2, <2>3, SumNat
<1>7. CASE \A r \in D : RowPast(r)
  <2>1. Sum(Debts(m)', D) <= Sum(Debts(m), Debtors(m))
    BY <1>1, <1>7, DebtsShrink
  <2>2. Sum(Debts(m)', D) \in Nat BY <1>2, <1>4, SumNat
  <2>3. QED BY <1>3, <1>5, <1>6, <2>1, <2>2
<1>8. CASE ~ \A r \in D : RowPast(r)
  <2>1. PICK l \in D : RowReserved(l) /\ \A r \in Launches \ {l} : RowPast(r)
    BY <1>2, <1>8 DEF LedgerStep, RowsStep
  <2>2. l \in Covered[m] /\ l \in Launches BY <1>1, <1>2
  <2>3. Sum(Debts(m), Debtors(m)) + Declared[l] <= Cap[m]
    BY <2>1, <2>2, FitsOwed DEF RowReserved
  <2>4. Owed(l, m)' <= Declared[l]
    <3>1. settled'[l].kind = "none"
      BY <2>1, <2>2 DEF RowReserved, Fresh
    <3>2. Declared[l] \in Nat BY <2>2, AmountsAssumption DEF AmountsAssumption
    <3>3. QED BY <3>1, <3>2 DEF Owed
  <2>5. Sum(Debts(m)', D \ {l}) <= Sum(Debts(m), Debtors(m))
    <3>1. D \ {l} \in SUBSET Debtors(m) /\ D \ {l} \subseteq Debtors(m)' BY <1>1
    <3>2. \A r \in D \ {l} : RowPast(r) BY <1>2, <2>1
    <3>3. QED BY <3>1, <3>2, DebtsShrink
  <2>6. Sum(Debts(m)', D) = Debts(m)'[l] + Sum(Debts(m)', D \ {l})
    BY <1>2, <1>4, SumRemove
  <2>7. Sum(Debts(m)', D \ {l}) \in Nat
    <3>1. IsFiniteSet(D \ {l}) BY <1>2, FS_Subset
    <3>2. \A r \in D \ {l} : Debts(m)'[r] \in Nat BY <1>4
    <3>3. QED BY <3>1, <3>2, SumNat
  <2>8. Debts(m)'[l] = Owed(l, m)' /\ Owed(l, m)' \in Nat BY <1>4
  <2>9. Declared[l] \in Nat BY <2>2, AmountsAssumption DEF AmountsAssumption
  <2> HIDE DEF D
  <2>10. Sum(Debts(m)', D) <= Cap[m]
    BY <1>5, <1>6, <2>3, <2>4, <2>5, <2>6, <2>7, <2>8, <2>9
  <2>11. QED BY <2>10 DEF D
<1>9. QED BY <1>7, <1>8

\* Nothing is owed at first.
LEMMA InitOwed == Init => OwedInCap
<1> SUFFICES ASSUME Init, NEW m \in Limits
             PROVE  Sum(Debts(m), Debtors(m)) <= Cap[m]
  BY DEF OwedInCap
<1>1. Debtors(m) \subseteq Launches /\ IsFiniteSet(Debtors(m))
  BY DebtorsFinite DEF Debtors
<1>2. \A r \in Debtors(m) : Debts(m)[r] = 0
  BY <1>1, OpenType DEF Init, Debts, Owed, Live, Reserved
<1>3. Sum(Debts(m), Debtors(m)) = 0
  <2> DEFINE D == Debtors(m)
             zero == {s \in SUBSET D : Sum(Debts(m), s) = 0}
  <2>1. ASSUME NEW s \in SUBSET D, \A u \in SUBSET s : u # s => u \in zero
        PROVE  s \in zero
    <3>1. IsFiniteSet(s) BY <1>1, FS_Subset
    <3>2. CASE s = {}
      <4>1. Sum(Debts(m), s) = 0 BY <3>1, <3>2, SumPicks
      <4>2. QED BY <4>1
    <3>3. CASE s # {}
      <4>1. /\ Pick(s) \in s
            /\ Sum(Debts(m), s) = Debts(m)[Pick(s)] + Sum(Debts(m), s \ {Pick(s)})
        BY <3>1, <3>3, SumPicks
      <4>2. Sum(Debts(m), s \ {Pick(s)}) = 0 BY <2>1, <4>1
      <4>3. Debts(m)[Pick(s)] = 0 BY <1>2, <4>1
      <4>4. QED BY <4>1, <4>2, <4>3
    <3>4. QED BY <3>2, <3>3
  <2>2. zero = SUBSET D
    <3>1. zero \in SUBSET (SUBSET D) OBVIOUS
    <3> HIDE DEF zero, D
    <3>2. IsFiniteSet(D) BY <1>1 DEF D
    <3>3. QED BY <2>1, <3>1, <3>2, SubsetsInduction
  <2>3. D \in zero BY <2>2
  <2>4. QED BY <2>3
<1>4. QED BY <1>3, AmountsAssumption DEF AmountsAssumption

\* No cap is ever exceeded by what the launches it covers have really taken,
\* for any caps and windows, however many supervisors ask at once, and whatever
\* is recovered, folded away, torn or left behind, provided that no launch uses
\* more than it declared; launches whose allowance the ledger lost excepted.
THEOREM CapKept == NoOveruse /\ Spec => []CapRespected
<1> DEFINE Inv == TypeInv /\ Fresh /\ Charged /\ RowsInv /\ OwedInCap
<1>1. Init => Inv BY InitType, InitFreshBacked, InitCharged, InitRows, InitOwed
<1>2. NoOveruse /\ Inv /\ [Next]_vars => Inv'
  <2> SUFFICES ASSUME NoOveruse, Inv, [Next]_vars PROVE Inv'
    OBVIOUS
  <2>1. TypeInv' /\ Fresh' /\ Charged' BY NextTypeInv, NextFresh, NextCharged
  <2>2. LedgerStep BY NextStep
  <2>3. RowsInv' BY <2>2, NextRows
  <2>4. OwedInCap' BY <2>1, <2>2, NextOwed DEF TypeInv
  <2>5. QED BY <2>1, <2>3, <2>4
<1>3. Inv => CapRespected
  <2> SUFFICES ASSUME Inv, NEW m \in Limits
               PROVE  TakenBy(Launches \ escaped, m) <= Cap[m]
    BY DEF CapRespected
  <2> DEFINE D == Covered[m] \cap (Launches \ escaped)
             h == [l \in D |-> Taken(l, m)]
  <2>1. D = Debtors(m) /\ D \subseteq Launches \ escaped /\ IsFiniteSet(D)
    BY DebtorsFinite DEF Debtors
  <2>2. TakenBy(Launches \ escaped, m) = Sum(h, D)
    BY DEF TakenBy, SumFunction, Sum
  <2>3. TypeOK /\ AtRiskLive BY DEF TypeInv, RowsInv
  <2>4. \A l \in D : /\ h[l] = Taken(l, m) /\ Debts(m)[l] = Owed(l, m)
                     /\ Taken(l, m) \in Nat /\ Owed(l, m) \in Nat
                     /\ Taken(l, m) <= Owed(l, m)
    BY <2>1, <2>3, TakenOwed, OwedType DEF Debts
  <2>5. Sum(Debts(m), D) <= Cap[m] BY <2>1 DEF OwedInCap
  <2> HIDE DEF h, D
  <2>6. Sum(h, D) <= Sum(Debts(m), D) BY <2>1, <2>4, SumMonotone
  <2>7. Sum(h, D) \in Nat /\ Sum(Debts(m), D) \in Nat BY <2>1, <2>4, SumNat
  <2>8. Cap[m] \in Nat BY AmountsAssumption DEF AmountsAssumption
  <2>9. QED BY <2>2, <2>5, <2>6, <2>7, <2>8
<1>4. CASE NoOveruse BY <1>1, <1>2, <1>3, <1>4, PTL DEF Spec
<1>5. QED BY <1>4
=============================================================================
