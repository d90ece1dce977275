------------------------ MODULE ResourceSchedulerProofs ------------------------
(***************************************************************************)
(* Proofs about ResourceScheduler: type correctness, that runs that may    *)
(* still make progress have disjoint domains, that an invocation keeps its *)
(* limits, and that its tasks do not refuse each other, for any number of  *)
(* supervisors, tasks, domains, jobs and limits.                           *)
(***************************************************************************)
EXTENDS ResourceScheduler, Integers, FiniteSetTheorems, TLAPS

-----------------------------------------------------------------------------
(* Conflict domains *)

\* Who is in whose way does not depend on who asks.
LEMMA OverlapSymmetric == \A d, e : Overlap(d, e) <=> Overlap(e, d)
  BY DEF Overlap, PathsOverlap

-----------------------------------------------------------------------------
(* The inductive invariant *)

\* Threads belong to loops that are not over; a loop that recovers a run has
\* its thread, and one that dispatches recovers none.
SlotInv ==
    \A s \in Supervisors :
        /\ \A t \in Tasks : slot[s][t].pc # "none" => Alive(s)
        /\ loop[s].pc = "loop" => loop[s].task = NoOne
        /\ loop[s].pc = "recovering" =>
               loop[s].task \in Tasks /\ slot[s][loop[s].task].pc # "none"

\* A thread past the acquisition holds the lock of its task, and the worker of
\* an invocation that is there has its thread.
HoldInv ==
    /\ \A s \in Supervisors, t \in Tasks :
           slot[s][t].pc \in {"locked", "running"} => lock[t] = s
    /\ \A t \in worker : Alive(lock[t]) => slot[lock[t]][t].pc = "running"

\* What the holder of the scheduler lock has found out stays true until it
\* gives it back.
ClearInv ==
    flock.task \in Tasks /\ flock.cleared =>
        \A u \in Tasks \ {flock.task} : Live(u) =>
            IF flock.by = NoOne
            THEN ~Overlap(Wider[flock.task], claim[u])
            ELSE Domain[flock.task].known \/ claim[u].known
                     => ~Overlap(Domain[flock.task], claim[u])

\* Runs in flight are set against both limits before they are counted.
CountInv ==
    \A s \in Supervisors :
        LET l == loop[s]
        IN  /\ Bound(l.completed + Cardinality(InFlight(s)), MaxTasks[s])
            /\ Bound(l.results - l.recoveries + Cardinality(InFlight(s) \ {l.task}),
                     MaxSlices[s])

\* Two tasks that may be in one invocation at once.
Beside(t, u) ==
    ~Overlap(Domain[t], Domain[u]) \/ (~Domain[t].known /\ ~Domain[u].known)

PairInv ==
    \A s \in Supervisors, t, u \in Tasks :
        t # u /\ t \in InFlight(s) /\ (u \in InFlight(s) \/ (lock[u] = s /\ claim[u] = Domain[u]))
        => Beside(t, u)

IInv ==
    /\ TypeOK
    /\ SlotInv
    /\ HoldInv
    /\ ClearInv
    /\ DomainsDisjoint
    /\ CountInv
    /\ PairInv
    /\ NeverInItsOwnWay

-----------------------------------------------------------------------------
(* Types *)

LoopType ==
    [pc : {"loop", "recovering", "aborting", "over"},
     task : Tasks \cup {NoOne}, attempt : Nat,
     skipped : SUBSET Tasks, cooling : SUBSET Tasks,
     restarts : [Tasks -> Nat],
     results : Nat, recoveries : Nat, completed : Nat, stopping : BOOLEAN]

SlotType ==
    [pc : {"none", "queued", "scheduling", "locked", "running", "ended"},
     enforce : BOOLEAN, out : Outcomes \cup {"none", "refused"}]

LEMMA FreshType == Fresh \in LoopType /\ Gone \in LoopType /\ NoSlot \in SlotType
  BY DEF Fresh, Gone, NoSlot, LoopType, SlotType

LEMMA CountedType ==
    ASSUME TypeOK, NEW s \in Supervisors
    PROVE  /\ Counted(s) \in LoopType
           /\ Counted(s) = [loop[s] EXCEPT !.results = loop[s].results + 1]
<1>1. loop[s] \in LoopType BY DEF TypeOK, LoopType
<1>2. loop[s].results + 1 \in Nat BY <1>1 DEF LoopType
<1>3. QED BY <1>1, <1>2 DEF Counted, LoopType

LEMMA DoneType ==
    ASSUME NEW s \in Supervisors, NEW t \in Tasks, NEW l \in LoopType
    PROVE  Done(s, t, l) \in LoopType
<1>1. (l.stopping \/ Enough(s, l.completed + 1)) \in BOOLEAN OBVIOUS
<1>2. [l.restarts EXCEPT ![t] = 0] \in [Tasks -> Nat] BY DEF LoopType
<1>3. l.completed + 1 \in Nat /\ l.cooling \ {t} \in SUBSET Tasks BY DEF LoopType
<1>4. Done(s, t, l) = [l EXCEPT !.pc = "loop", !.task = NoOne, !.attempt = 0,
                               !.completed = l.completed + 1,
                               !.stopping = l.stopping \/ Enough(s, l.completed + 1),
                               !.restarts = [l.restarts EXCEPT ![t] = 0],
                               !.cooling = l.cooling \ {t}]
  BY DEF Done, LoopType
<1>5. QED BY <1>1, <1>2, <1>3, <1>4, ZenonT(40) DEF LoopType

LEMMA OverType ==
    ASSUME NEW t \in Tasks, NEW l \in LoopType, NEW failure \in BOOLEAN
    PROVE  Over(t, l, failure) \in LoopType
  BY Assumption DEF Over, LoopType, Assumption

-----------------------------------------------------------------------------
(* What a step of the loop does *)

FlightsOf(f) == {t \in Tasks : f[t].pc # "none"}

Counts(s, l, f) ==
    /\ Bound(l.completed + Cardinality(FlightsOf(f)), MaxTasks[s])
    /\ Bound(l.results - l.recoveries + Cardinality(FlightsOf(f) \ {l.task}), MaxSlices[s])

\* A loop and its threads as the steps of the loop leave them.
Sound(s, l, f) ==
    /\ l \in LoopType /\ f \in [Tasks -> SlotType]
    /\ l.attempt <= MaxRestarts[s]
    /\ l.pc = "loop" => l.task = NoOne
    /\ l.pc = "recovering" => l.task \in Tasks /\ f[l.task].pc # "none"
    /\ l.pc = "over" => FlightsOf(f) = {}
    /\ Counts(s, l, f)

\* The loop leaves a thread alone that is at work.
Busy == {"scheduling", "locked", "running"}
Spares(s, f) ==
    \A t \in Tasks : f[t].pc \in Busy \/ slot[s][t].pc \in Busy => f[t] = slot[s][t]

Effect(s, l, f) ==
    /\ Sound(s, l, f)
    /\ Spares(s, f)

LEMMA BoundDown ==
    ASSUME NEW a \in Int, NEW b \in Int, NEW most \in Nat, a <= b, Bound(b, most)
    PROVE  Bound(a, most)
  BY DEF Bound

LEMMA FlightsFinite ==
    ASSUME NEW f
    PROVE  /\ FlightsOf(f) \subseteq Tasks
           /\ IsFiniteSet(FlightsOf(f))
           /\ Cardinality(FlightsOf(f)) \in Nat
<1>1. IsFiniteSet(Tasks) BY Assumption DEF Assumption
<1>2. FlightsOf(f) \subseteq Tasks BY DEF FlightsOf
<1>3. IsFiniteSet(FlightsOf(f)) BY <1>1, <1>2, FS_Subset
<1>4. QED BY <1>2, <1>3, FS_CardinalityType

LEMMA SoundNow ==
    ASSUME IInv, NEW s \in Supervisors
    PROVE  Sound(s, loop[s], slot[s]) /\ FlightsOf(slot[s]) = InFlight(s)
<1>1. FlightsOf(slot[s]) = InFlight(s) BY DEF FlightsOf, InFlight
<1>2. loop[s] \in LoopType /\ slot[s] \in [Tasks -> SlotType]
      /\ loop[s].attempt <= MaxRestarts[s]
  BY DEF IInv, TypeOK, LoopType, SlotType
<1>3. Counts(s, loop[s], slot[s])
  BY <1>1 DEF IInv, CountInv, Counts
<1>4. loop[s].pc = "over" => FlightsOf(slot[s]) = {}
  BY DEF IInv, SlotInv, Alive, FlightsOf
<1>5. QED BY <1>1, <1>2, <1>3, <1>4 DEF IInv, SlotInv, Sound

\* A thread that has ended is taken out of flight with one result more ...
LEMMA TakenEffect ==
    ASSUME IInv, NEW s \in Supervisors, NEW t \in Tasks, slot[s][t].pc = "ended",
           loop[s].task \in {NoOne, t},
           NEW l \in LoopType, l.attempt <= MaxRestarts[s],
           l.pc \in {"loop", "aborting"}, l.pc = "loop" => l.task = NoOne,
           l.task \in {NoOne, loop[s].task},
           l.completed <= loop[s].completed + 1,
           l.results - l.recoveries
             <= loop[s].results - loop[s].recoveries
                + (IF loop[s].task = t THEN 0 ELSE 1)
    PROVE  Effect(s, l, [slot[s] EXCEPT ![t] = NoSlot])
<1> DEFINE f == [slot[s] EXCEPT ![t] = NoSlot]
<1>1. Sound(s, loop[s], slot[s]) BY SoundNow
<1>2. f \in [Tasks -> SlotType] BY <1>1, FreshType DEF Sound
<1>3. Spares(s, f) BY <1>1 DEF Spares, Busy, NoSlot, Sound
<1>4. FlightsOf(f) = FlightsOf(slot[s]) \ {t} /\ t \in FlightsOf(slot[s])
  BY <1>1 DEF FlightsOf, NoSlot, Sound
<1>5. Cardinality(FlightsOf(f)) = Cardinality(FlightsOf(slot[s])) - 1
  BY <1>4, FlightsFinite, FS_RemoveElement
<1>6. NoOne \notin FlightsOf(f) /\ NoOne \notin FlightsOf(slot[s])
  BY Assumption, FlightsFinite DEF Assumption
<1>7. FlightsOf(f) \ {l.task} = FlightsOf(f)
  BY <1>4, <1>6
<1>8. FlightsOf(slot[s]) \ {loop[s].task}
        = IF loop[s].task = t THEN FlightsOf(f) ELSE FlightsOf(slot[s])
  BY <1>4, <1>6
<1>9. /\ Cardinality(FlightsOf(slot[s])) \in Nat /\ Cardinality(FlightsOf(f)) \in Nat
      /\ MaxTasks[s] \in Nat /\ MaxSlices[s] \in Nat
      /\ l.completed \in Nat /\ l.results \in Nat /\ l.recoveries \in Nat
      /\ loop[s].completed \in Nat /\ loop[s].results \in Nat
      /\ loop[s].recoveries \in Nat
  BY <1>1, FlightsFinite, Assumption DEF Assumption, LoopType, Sound
<1>10. Bound(l.completed + Cardinality(FlightsOf(f)), MaxTasks[s])
  BY <1>1, <1>5, <1>9 DEF Sound, Counts, Bound
<1>11. Bound(l.results - l.recoveries + Cardinality(FlightsOf(f) \ {l.task}), MaxSlices[s])
  <2>1. Bound(loop[s].results - loop[s].recoveries
              + Cardinality(FlightsOf(slot[s]) \ {loop[s].task}), MaxSlices[s])
    BY <1>1 DEF Sound, Counts
  <2>2. Cardinality(FlightsOf(slot[s]) \ {loop[s].task})
          = IF loop[s].task = t THEN Cardinality(FlightsOf(f))
                                ELSE Cardinality(FlightsOf(f)) + 1
    <3>1. CASE loop[s].task = t BY <1>8, <3>1
    <3>2. CASE loop[s].task # t
      <4>1. Cardinality(FlightsOf(slot[s]) \ {loop[s].task}) = Cardinality(FlightsOf(slot[s]))
        BY <1>8, <3>2
      <4>2. QED BY <1>5, <1>9, <3>2, <4>1
    <3>3. QED BY <3>1, <3>2
  <2>3. l.results - l.recoveries + Cardinality(FlightsOf(f))
          <= loop[s].results - loop[s].recoveries
             + Cardinality(FlightsOf(slot[s]) \ {loop[s].task})
    BY <1>9, <2>2
  <2>4. Cardinality(FlightsOf(slot[s]) \ {loop[s].task}) \in Int BY <1>9, <2>2
  <2>5. Bound(l.results - l.recoveries + Cardinality(FlightsOf(f)), MaxSlices[s])
    BY <1>9, <2>1, <2>3, <2>4, BoundDown
  <2>6. QED BY <1>7, <2>5
<1>12. QED BY <1>2, <1>3, <1>10, <1>11 DEF Effect, Sound, Counts

\* ... or makes way for a recovery of its run.
LEMMA QueuedEffect ==
    ASSUME IInv, NEW s \in Supervisors, NEW t \in Tasks, slot[s][t].pc = "ended",
           loop[s].task \in {NoOne, t},
           NEW l \in LoopType, l.attempt <= MaxRestarts[s],
           l.pc = "recovering", l.task = t,
           l.completed = loop[s].completed,
           l.results - l.recoveries
             <= loop[s].results - loop[s].recoveries
                + (IF loop[s].task = t THEN 0 ELSE 1)
    PROVE  Effect(s, l, [slot[s] EXCEPT ![t] = [NoSlot EXCEPT !.pc = "queued"]])
<1> DEFINE q == [NoSlot EXCEPT !.pc = "queued"]
           f == [slot[s] EXCEPT ![t] = q]
<1>1. Sound(s, loop[s], slot[s]) BY SoundNow
<1>2. q \in SlotType /\ q.pc = "queued" BY DEF NoSlot, SlotType
<1>3. f \in [Tasks -> SlotType] BY <1>1, <1>2 DEF Sound
<1>4. Spares(s, f) BY <1>1, <1>2 DEF Spares, Busy, Sound
<1>5. FlightsOf(f) = FlightsOf(slot[s]) /\ t \in FlightsOf(slot[s])
  BY <1>1, <1>2 DEF FlightsOf, Sound
<1>6. NoOne \notin FlightsOf(slot[s])
  BY Assumption, FlightsFinite DEF Assumption
<1>7. Cardinality(FlightsOf(slot[s]) \ {t}) = Cardinality(FlightsOf(slot[s])) - 1
  BY <1>5, FlightsFinite, FS_RemoveElement
<1>8. FlightsOf(slot[s]) \ {loop[s].task}
        = IF loop[s].task = t THEN FlightsOf(slot[s]) \ {t} ELSE FlightsOf(slot[s])
  BY <1>6
<1>9. /\ Cardinality(FlightsOf(slot[s])) \in Nat
      /\ MaxTasks[s] \in Nat /\ MaxSlices[s] \in Nat
      /\ l.completed \in Nat /\ l.results \in Nat /\ l.recoveries \in Nat
      /\ loop[s].completed \in Nat /\ loop[s].results \in Nat
      /\ loop[s].recoveries \in Nat
  BY <1>1, FlightsFinite, Assumption DEF Assumption, LoopType, Sound
<1>10. Bound(l.completed + Cardinality(FlightsOf(f)), MaxTasks[s])
  BY <1>1, <1>5 DEF Sound, Counts
<1>11. Bound(l.results - l.recoveries + Cardinality(FlightsOf(f) \ {l.task}), MaxSlices[s])
  <2>1. Bound(loop[s].results - loop[s].recoveries
              + Cardinality(FlightsOf(slot[s]) \ {loop[s].task}), MaxSlices[s])
    BY <1>1 DEF Sound, Counts
  <2>2. Cardinality(FlightsOf(slot[s]) \ {loop[s].task})
          = IF loop[s].task = t THEN Cardinality(FlightsOf(slot[s]) \ {t})
                                ELSE Cardinality(FlightsOf(slot[s]) \ {t}) + 1
    <3>1. CASE loop[s].task = t BY <1>8, <3>1
    <3>2. CASE loop[s].task # t
      <4>1. Cardinality(FlightsOf(slot[s]) \ {loop[s].task}) = Cardinality(FlightsOf(slot[s]))
        BY <1>8, <3>2
      <4>2. QED BY <1>7, <1>9, <3>2, <4>1
    <3>3. QED BY <3>1, <3>2
  <2>3. l.results - l.recoveries + Cardinality(FlightsOf(slot[s]) \ {t})
          <= loop[s].results - loop[s].recoveries
             + Cardinality(FlightsOf(slot[s]) \ {loop[s].task})
    BY <1>7, <1>9, <2>2
  <2>4. /\ Cardinality(FlightsOf(slot[s]) \ {loop[s].task}) \in Int
        /\ Cardinality(FlightsOf(slot[s]) \ {t}) \in Int
    BY <1>7, <1>9, <2>2
  <2>5. Bound(l.results - l.recoveries + Cardinality(FlightsOf(slot[s]) \ {t}), MaxSlices[s])
    BY <1>9, <2>1, <2>3, <2>4, BoundDown
  <2>6. QED BY <1>5, <2>5
<1>12. f[l.task].pc # "none" BY <1>1, <1>2 DEF Sound
<1>13. QED BY <1>3, <1>4, <1>10, <1>11, <1>12 DEF Effect, Sound, Counts

Leaves(s) ==
    \E l, f :
        /\ Effect(s, l, f)
        /\ loop' = [loop EXCEPT ![s] = l]
        /\ slot' = [slot EXCEPT ![s] = f]
        /\ UNCHANGED <<flock, lock, claim, worker, left, selfRefused>>

LEMMA DoneFields ==
    ASSUME NEW s \in Supervisors, NEW t \in Tasks, NEW l \in LoopType
    PROVE  LET d == Done(s, t, l)
           IN  /\ d.pc = "loop" /\ d.task = NoOne /\ d.attempt = 0
               /\ d.completed = l.completed + 1
               /\ d.results = l.results /\ d.recoveries = l.recoveries
  BY DEF Done, LoopType

LEMMA OverFields ==
    ASSUME NEW t \in Tasks, NEW l \in LoopType, NEW failure \in BOOLEAN
    PROVE  LET d == Over(t, l, failure)
           IN  /\ d.pc = "loop" /\ d.task = NoOne /\ d.attempt = 0
               /\ d.completed = l.completed
               /\ d.results = l.results /\ d.recoveries = l.recoveries
  BY DEF Over, LoopType

\* The steps that count a future of the loop itself.
LEMMA FutureLeaves ==
    ASSUME IInv, NEW s \in Supervisors, NEW t \in Tasks,
           \/ PassOver(s, t) \/ Complete(s, t) \/ Pause(s, t) \/ Restart(s, t)
           \/ RestartsSpent(s, t) \/ Fail(s, t) \/ Block(s, t) \/ Unrecovered(s, t)
    PROVE  Leaves(s)
<1>1. /\ loop[s].pc = "loop" /\ loop[s].task = NoOne /\ slot[s][t].pc = "ended"
      /\ slot' = [slot EXCEPT ![s][t] = NoSlot]
  BY DEF PassOver, Complete, Pause, Restart, RestartsSpent, Fail, Block, Unrecovered,
     Ended, Taken, IInv, SlotInv
<1>2. t # NoOne /\ MaxRestarts[s] \in Nat BY Assumption DEF Assumption
<1>3. loop[s] \in LoopType /\ slot[s] \in [Tasks -> SlotType] /\ s \in DOMAIN slot
      /\ loop[s].attempt <= MaxRestarts[s]
  BY DEF IInv, TypeOK, LoopType, SlotType
<1>4. slot' = [slot EXCEPT ![s] = [slot[s] EXCEPT ![t] = NoSlot]]
  BY <1>1, <1>3
<1>5. /\ loop[s].results \in Nat /\ loop[s].recoveries \in Nat
      /\ loop[s].completed \in Nat
  BY <1>3 DEF LoopType
<1> DEFINE counted == [loop[s] EXCEPT !.results = loop[s].results + 1]
<1>6. counted = Counted(s) /\ counted \in LoopType
  BY CountedType DEF IInv
<1>7. /\ counted.pc = "loop" /\ counted.task = NoOne
      /\ counted.attempt = loop[s].attempt /\ counted.completed = loop[s].completed
      /\ counted.results = loop[s].results + 1
      /\ counted.recoveries = loop[s].recoveries
  BY <1>1, <1>3 DEF LoopType
<1> HIDE DEF counted
<1>8. ASSUME NEW l \in LoopType, l.pc = "loop", l.task = NoOne,
             l.attempt <= MaxRestarts[s], l.completed <= loop[s].completed + 1,
             l.results <= loop[s].results + 1, l.recoveries = loop[s].recoveries,
             Counters(s, l)
      PROVE  Leaves(s)
  <2>1. l.results \in Nat BY DEF LoopType
  <2>2. l.results - l.recoveries
          <= loop[s].results - loop[s].recoveries + (IF loop[s].task = t THEN 0 ELSE 1)
    BY <1>1, <1>2, <1>5, <1>8, <2>1
  <2>3. Effect(s, l, [slot[s] EXCEPT ![t] = NoSlot])
    BY <1>1, <1>8, <2>2, TakenEffect
  <2>4. QED BY <1>4, <1>8, <2>3 DEF Leaves, Counters
<1>9. CASE PassOver(s, t)
  <2> DEFINE l == [loop[s] EXCEPT !.skipped = loop[s].skipped \cup {t}]
  <2>1. /\ l \in LoopType /\ l.pc = "loop" /\ l.task = NoOne
        /\ l.attempt = loop[s].attempt /\ l.completed = loop[s].completed
        /\ l.results = loop[s].results /\ l.recoveries = loop[s].recoveries
    BY <1>1, <1>3 DEF LoopType
  <2>2. Counters(s, l) BY <1>9 DEF PassOver
  <2> HIDE DEF l
  <2>3. QED BY <1>3, <1>5, <1>8, <2>1, <2>2
<1>10. CASE Complete(s, t)
  <2>1. Counters(s, Done(s, t, counted)) BY <1>6, <1>10 DEF Complete
  <2>2. QED BY <1>2, <1>5, <1>6, <1>7, <1>8, <2>1, DoneType, DoneFields
<1>11. CASE Pause(s, t)
  <2> DEFINE l == [counted EXCEPT !.stopping = TRUE]
  <2>1. /\ l \in LoopType /\ l.pc = "loop" /\ l.task = NoOne
        /\ l.attempt = loop[s].attempt /\ l.completed = loop[s].completed
        /\ l.results = loop[s].results + 1 /\ l.recoveries = loop[s].recoveries
    BY <1>6, <1>7 DEF LoopType
  <2>2. Counters(s, l) BY <1>6, <1>11 DEF Pause
  <2> HIDE DEF l
  <2>3. QED BY <1>3, <1>5, <1>8, <2>1, <2>2
<1>12. CASE Restart(s, t)
  <2> DEFINE l == [counted EXCEPT !.cooling = counted.cooling \cup {t},
                                  !.restarts = [counted.restarts EXCEPT ![t] = @ + 1]]
  <2>1. [counted.restarts EXCEPT ![t] = @ + 1] \in [Tasks -> Nat]
    BY <1>6 DEF LoopType
  <2>2. /\ l \in LoopType /\ l.pc = "loop" /\ l.task = NoOne
        /\ l.attempt = loop[s].attempt /\ l.completed = loop[s].completed
        /\ l.results = loop[s].results + 1 /\ l.recoveries = loop[s].recoveries
    BY <1>6, <1>7, <2>1 DEF LoopType
  <2>3. Counters(s, l)
    <3>1. [counted EXCEPT !.cooling = @ \cup {t}, !.restarts[t] = @ + 1] = l
      BY <1>6 DEF LoopType
    <3>2. QED BY <1>6, <1>12, <3>1 DEF Restart
  <2> HIDE DEF l
  <2>4. QED BY <1>3, <1>5, <1>8, <2>2, <2>3
<1>13. CASE RestartsSpent(s, t) \/ Fail(s, t) \/ Block(s, t) \/ Unrecovered(s, t)
  <2>1. PICK failure \in BOOLEAN : Counters(s, Over(t, counted, failure))
    BY <1>6, <1>13 DEF RestartsSpent, Fail, Block, Unrecovered
  <2>2. QED BY <1>2, <1>5, <1>6, <1>7, <1>8, <2>1, OverType, OverFields
<1>14. QED BY <1>9, <1>10, <1>11, <1>12, <1>13

\* The steps of a recovery that the loop drives.
LEMMA RecoveryLeaves ==
    ASSUME IInv, NEW s \in Supervisors, NEW t \in Tasks,
           RecoveryEnds(s, t)
    PROVE  Leaves(s)
<1> DEFINE out == slot[s][t].out
           counted == [Counted(s) EXCEPT !.recoveries = @ + 1]
<1>1. /\ loop[s].pc = "recovering" /\ loop[s].task = t
      /\ slot[s][t].pc = "ended" /\ t # NoOne
  BY Assumption DEF RecoveryEnds, Recovering, Assumption
<1>2. loop[s] \in LoopType /\ slot[s] \in [Tasks -> SlotType] /\ s \in DOMAIN slot
      /\ loop[s].attempt <= MaxRestarts[s] /\ MaxRestarts[s] \in Nat
  BY Assumption DEF IInv, TypeOK, LoopType, SlotType, Assumption
<1>3. /\ loop[s].results \in Nat /\ loop[s].recoveries \in Nat
      /\ loop[s].completed \in Nat /\ loop[s].attempt \in Nat
  BY <1>2 DEF LoopType
<1>4. Counted(s) \in LoopType /\ Counted(s) = [loop[s] EXCEPT !.results = loop[s].results + 1]
  BY CountedType DEF IInv
<1>5. counted \in LoopType
  <2>1. Counted(s).recoveries + 1 \in Nat BY <1>4 DEF LoopType
  <2>2. QED BY <1>4, <2>1 DEF LoopType
<1>6. /\ counted.pc = "recovering" /\ counted.task = t
      /\ counted.attempt = loop[s].attempt /\ counted.completed = loop[s].completed
      /\ counted.results = loop[s].results + 1
      /\ counted.recoveries = loop[s].recoveries + 1
  BY <1>1, <1>2, <1>4 DEF LoopType
<1>7. /\ out # "raised"
      /\ IF out = "unknown" /\ loop[s].attempt < MaxRestarts[s]
         THEN /\ Counters(s, [counted EXCEPT !.attempt = @ + 1])
              /\ slot' = [slot EXCEPT ![s][t] = [NoSlot EXCEPT !.pc = "queued"]]
         ELSE /\ Taken(s, t)
              /\ CASE out = "completed" -> Counters(s, Done(s, t, counted))
                   [] out = "refused" -> Counters(s, Over(t, loop[s], TRUE))
                   [] out = "unknown" ->
                          Counters(s, Over(t, [counted EXCEPT !.results = @ + 1,
                                                              !.recoveries = @ + 1], TRUE))
                   [] OTHER -> Counters(s, Over(t, counted, out \in {"failed", "transient"}))
  BY DEF RecoveryEnds
<1> HIDE DEF counted, out
<1>8. ASSUME NEW l \in LoopType, l.pc = "loop", l.task = NoOne, l.attempt = 0,
             l.completed <= loop[s].completed + 1,
             l.results - l.recoveries <= loop[s].results - loop[s].recoveries,
             Counters(s, l), Taken(s, t)
      PROVE  Leaves(s)
  <2>1. Effect(s, l, [slot[s] EXCEPT ![t] = NoSlot])
    <3>1. l.results - l.recoveries
            <= loop[s].results - loop[s].recoveries + (IF loop[s].task = t THEN 0 ELSE 1)
      BY <1>1, <1>3, <1>8
    <3>2. l.attempt <= MaxRestarts[s] BY <1>2, <1>8
    <3>3. QED BY <1>1, <1>8, <3>1, <3>2, TakenEffect
  <2>2. slot' = [slot EXCEPT ![s] = [slot[s] EXCEPT ![t] = NoSlot]]
    BY <1>2, <1>8 DEF Taken
  <2>3. QED BY <1>8, <2>1, <2>2 DEF Leaves, Counters
<1>9. CASE out = "unknown" /\ loop[s].attempt < MaxRestarts[s]
  <2> DEFINE l == [counted EXCEPT !.attempt = counted.attempt + 1]
             q == [NoSlot EXCEPT !.pc = "queued"]
  <2>1. /\ l \in LoopType /\ l.pc = "recovering" /\ l.task = t
        /\ l.attempt = loop[s].attempt + 1 /\ l.completed = loop[s].completed
        /\ l.results = loop[s].results + 1
        /\ l.recoveries = loop[s].recoveries + 1
    <3>1. counted.attempt + 1 \in Nat BY <1>3, <1>6
    <3>2. QED BY <1>5, <1>6, <3>1 DEF LoopType
  <2>2. Counters(s, l) /\ slot' = [slot EXCEPT ![s][t] = q]
    <3>1. [counted EXCEPT !.attempt = @ + 1] = l BY <1>5 DEF LoopType
    <3>2. QED BY <1>7, <1>9, <3>1
  <2>3. slot' = [slot EXCEPT ![s] = [slot[s] EXCEPT ![t] = q]]
    BY <1>2, <2>2
  <2> HIDE DEF l
  <2>4. Effect(s, l, [slot[s] EXCEPT ![t] = q])
    <3>1. l.attempt <= MaxRestarts[s] BY <1>2, <1>3, <1>9, <2>1
    <3>2. l.results - l.recoveries
            <= loop[s].results - loop[s].recoveries + (IF loop[s].task = t THEN 0 ELSE 1)
      BY <1>1, <1>3, <2>1
    <3>3. QED BY <1>1, <2>1, <3>1, <3>2, QueuedEffect
  <2>5. QED BY <2>2, <2>3, <2>4 DEF Leaves, Counters
<1>10. ASSUME ~(out = "unknown" /\ loop[s].attempt < MaxRestarts[s])
       PROVE  Leaves(s)
  <2>1. Taken(s, t) BY <1>7, <1>10
  <2>2. CASE out = "completed"
    <3>1. Counters(s, Done(s, t, counted)) BY <1>7, <2>2
    <3>2. LET d == Done(s, t, counted)
          IN  /\ d \in LoopType /\ d.pc = "loop" /\ d.task = NoOne /\ d.attempt = 0
              /\ d.completed = loop[s].completed + 1
              /\ d.results = loop[s].results + 1
              /\ d.recoveries = loop[s].recoveries + 1
      BY <1>5, <1>6, DoneType, DoneFields
    <3>3. QED BY <1>3, <1>8, <2>1, <3>1, <3>2
  <2>3. CASE out = "refused"
    <3>1. PICK failure \in BOOLEAN : Counters(s, Over(t, loop[s], failure))
      BY <1>7, <2>3
    <3>2. LET d == Over(t, loop[s], failure)
          IN  /\ d \in LoopType /\ d.pc = "loop" /\ d.task = NoOne /\ d.attempt = 0
              /\ d.completed = loop[s].completed
              /\ d.results = loop[s].results /\ d.recoveries = loop[s].recoveries
      BY <1>2, OverType, OverFields
    <3>3. QED BY <1>3, <1>8, <2>1, <3>1, <3>2
  <2>4. CASE out = "unknown"
    <3> DEFINE l == [counted EXCEPT !.results = counted.results + 1,
                                    !.recoveries = counted.recoveries + 1]
    <3>1. /\ l \in LoopType /\ l.completed = loop[s].completed
          /\ l.results = loop[s].results + 2 /\ l.recoveries = loop[s].recoveries + 2
      <4>1. counted.results + 1 \in Nat /\ counted.recoveries + 1 \in Nat
        BY <1>3, <1>6
      <4>2. /\ counted.results + 1 = loop[s].results + 2
            /\ counted.recoveries + 1 = loop[s].recoveries + 2
        BY <1>3, <1>6
      <4>3. QED BY <1>5, <1>6, <4>1, <4>2 DEF LoopType
    <3>2. \E failure \in BOOLEAN : Counters(s, Over(t, l, failure))
      <4>1. [counted EXCEPT !.results = @ + 1, !.recoveries = @ + 1] = l
        BY <1>5 DEF LoopType
      <4>2. QED BY <1>7, <1>10, <2>4, <4>1
    <3> HIDE DEF l
    <3>3. PICK failure \in BOOLEAN : Counters(s, Over(t, l, failure)) BY <3>2
    <3>4. LET d == Over(t, l, failure)
          IN  /\ d \in LoopType /\ d.pc = "loop" /\ d.task = NoOne /\ d.attempt = 0
              /\ d.completed = loop[s].completed
              /\ d.results = loop[s].results + 2
              /\ d.recoveries = loop[s].recoveries + 2
      BY <3>1, OverType, OverFields
    <3>5. QED BY <1>3, <1>8, <2>1, <3>3, <3>4
  <2>5. CASE out \notin {"completed", "refused", "unknown"}
    <3> DEFINE failure == out \in {"failed", "transient"}
    <3>1. Counters(s, Over(t, counted, failure)) BY <1>7, <2>5
    <3>2. failure \in BOOLEAN OBVIOUS
    <3> HIDE DEF failure
    <3>3. LET d == Over(t, counted, failure)
          IN  /\ d \in LoopType /\ d.pc = "loop" /\ d.task = NoOne /\ d.attempt = 0
              /\ d.completed = loop[s].completed
              /\ d.results = loop[s].results + 1
              /\ d.recoveries = loop[s].recoveries + 1
      BY <1>5, <1>6, <3>2, OverType, OverFields
    <3>4. QED BY <1>3, <1>8, <2>1, <3>1, <3>3
  <2>6. QED BY <2>2, <2>3, <2>4, <2>5
<1>11. QED BY <1>9, <1>10

\* The others: a cooldown passes, a recovery begins, an exception ends the loop.
LEMMA OtherLeaves ==
    ASSUME IInv, NEW s \in Supervisors, NEW t \in Tasks,
           CoolsDown(s, t) \/ Recover(s, t) \/ Abort(s, t)
    PROVE  Leaves(s)
<1>1. loop[s] \in LoopType /\ slot[s] \in [Tasks -> SlotType] /\ s \in DOMAIN slot
      /\ slot \in [Supervisors -> [Tasks -> SlotType]]
      /\ loop[s].attempt <= MaxRestarts[s] /\ MaxRestarts[s] \in Nat
  BY Assumption DEF IInv, TypeOK, LoopType, SlotType, Assumption
<1>2. /\ loop[s].results \in Nat /\ loop[s].recoveries \in Nat
      /\ loop[s].completed \in Nat
  BY <1>1 DEF LoopType
<1>3. Sound(s, loop[s], slot[s]) /\ FlightsOf(slot[s]) = InFlight(s) BY SoundNow
<1>4. CASE CoolsDown(s, t)
  <2> DEFINE l == [loop[s] EXCEPT !.cooling = loop[s].cooling \ {t}]
  <2>1. /\ l \in LoopType /\ l.pc = "loop" /\ l.task = loop[s].task
        /\ l.attempt = loop[s].attempt /\ l.completed = loop[s].completed
        /\ l.results = loop[s].results /\ l.recoveries = loop[s].recoveries
    BY <1>1, <1>4 DEF LoopType, CoolsDown
  <2>2. Counters(s, l) /\ slot' = slot /\ loop[s].pc = "loop" BY <1>4 DEF CoolsDown
  <2> HIDE DEF l
  <2>3. Effect(s, l, slot[s])
    BY <1>3, <2>1, <2>2 DEF Effect, Sound, Counts, Spares
  <2>4. slot' = [slot EXCEPT ![s] = slot[s]] BY <1>1, <2>2
  <2>5. QED BY <2>2, <2>3, <2>4 DEF Leaves, Counters
<1>5. CASE Recover(s, t)
  <2> DEFINE counted == [loop[s] EXCEPT !.results = loop[s].results + 1]
             l == [counted EXCEPT !.pc = "recovering", !.task = t, !.attempt = 1]
             q == [NoSlot EXCEPT !.pc = "queued"]
  <2>1. counted \in LoopType /\ counted = Counted(s)
    BY CountedType DEF IInv
  <2>2. /\ l \in LoopType /\ l.pc = "recovering" /\ l.task = t
        /\ l.attempt = 1 /\ l.completed = loop[s].completed
        /\ l.results = loop[s].results + 1 /\ l.recoveries = loop[s].recoveries
    BY <1>1, <1>2, <2>1 DEF LoopType
  <2>3. /\ Counters(s, l) /\ slot' = [slot EXCEPT ![s][t] = q]
        /\ loop[s].pc = "loop" /\ slot[s][t].pc = "ended" /\ MaxRestarts[s] > 0
    BY <1>5, <2>1 DEF Recover, Ended
  <2>4. loop[s].task = NoOne /\ t # NoOne
    BY <2>3, Assumption DEF IInv, SlotInv, Assumption
  <2>5. slot' = [slot EXCEPT ![s] = [slot[s] EXCEPT ![t] = q]]
    BY <1>1, <2>3
  <2> HIDE DEF l
  <2>6. l.results - l.recoveries
          <= loop[s].results - loop[s].recoveries + (IF loop[s].task = t THEN 0 ELSE 1)
    BY <1>2, <2>2, <2>4
  <2>7. l.attempt <= MaxRestarts[s] BY <1>1, <2>2, <2>3
  <2>8. Effect(s, l, [slot[s] EXCEPT ![t] = q])
    BY <2>2, <2>3, <2>4, <2>6, <2>7, QueuedEffect
  <2>9. QED BY <2>3, <2>5, <2>8 DEF Leaves, Counters
<1>6. CASE Abort(s, t)
  <2> DEFINE l == [loop[s] EXCEPT !.pc = "aborting"]
  <2>1. /\ l \in LoopType /\ l.pc = "aborting" /\ l.task = loop[s].task
        /\ l.attempt = loop[s].attempt /\ l.completed = loop[s].completed
        /\ l.results = loop[s].results /\ l.recoveries = loop[s].recoveries
    BY <1>1 DEF LoopType
  <2>2. /\ Counters(s, l) /\ slot' = [slot EXCEPT ![s][t] = NoSlot]
        /\ slot[s][t].pc = "ended"
    BY <1>6 DEF Abort, Taken
  <2>3. loop[s].task \in {NoOne, t}
    BY <1>6 DEF Abort, Recovering, IInv, SlotInv
  <2>4. slot' = [slot EXCEPT ![s] = [slot[s] EXCEPT ![t] = NoSlot]]
    BY <1>1, <2>2
  <2> HIDE DEF l
  <2>5. /\ l.completed <= loop[s].completed + 1
        /\ l.results - l.recoveries
             <= loop[s].results - loop[s].recoveries
                + (IF loop[s].task = t THEN 0 ELSE 1)
    BY <1>2, <2>1
  <2>6. Effect(s, l, [slot[s] EXCEPT ![t] = NoSlot])
    BY <1>1, <2>1, <2>2, <2>3, <2>5, TakenEffect
  <2>7. QED BY <2>2, <2>4, <2>6 DEF Leaves, Counters
<1>7. QED BY <1>4, <1>5, <1>6

\* The loop ends with no thread at work.
LEMMA EndLeaves ==
    ASSUME IInv, NEW s \in Supervisors, LoopEnds(s)
    PROVE  Leaves(s)
<1> DEFINE f == [u \in Tasks |-> NoSlot]
<1>1. slot[s] \in [Tasks -> SlotType] BY DEF IInv, TypeOK, SlotType
<1>2. f \in [Tasks -> SlotType] /\ FlightsOf(f) = {}
  BY FreshType DEF FlightsOf, NoSlot
<1>3. Spares(s, f)
  BY <1>1 DEF Spares, Busy, NoSlot, LoopEnds, InFlight
<1>4. /\ Gone.pc = "over" /\ Gone.attempt = 0 /\ Gone.completed = 0
      /\ Gone.results = 0 /\ Gone.recoveries = 0
  BY DEF Gone, Fresh
<1>5. Cardinality(FlightsOf(f)) = 0 /\ FlightsOf(f) \ {Gone.task} = {}
  BY <1>2, FS_EmptySet
<1>6. Counts(s, Gone, f)
  <2>1. Cardinality(FlightsOf(f) \ {Gone.task}) = 0 BY <1>5, FS_EmptySet
  <2>2. QED BY <1>4, <1>5, <2>1, Assumption DEF Counts, Bound, Assumption
<1>7. Gone.attempt <= MaxRestarts[s] BY <1>4, Assumption DEF Assumption
<1>8. Effect(s, Gone, f)
  BY <1>2, <1>3, <1>4, <1>6, <1>7, FreshType DEF Effect, Sound
<1>9. QED BY <1>8 DEF Leaves, LoopEnds, Counters

\* A dispatch takes what fits.
LEMMA DispatchLeaves ==
    ASSUME IInv, NEW s \in Supervisors, Dispatch(s)
    PROVE  Leaves(s)
<1>1. loop[s] \in LoopType /\ slot[s] \in [Tasks -> SlotType] /\ s \in DOMAIN slot
      /\ loop \in [Supervisors -> LoopType]
  BY DEF IInv, TypeOK, LoopType, SlotType
<1>2. PICK batch \in Batches(Candidates(s)) :
         /\ Fits(s, Cardinality(batch))
         /\ slot' = [slot EXCEPT ![s] = [t \in Tasks |->
                IF t \in batch
                THEN [pc |-> "queued", out |-> "none",
                      enforce |-> PolicyOn(Declared(Candidates(s)))]
                ELSE @[t]]]
  BY DEF Dispatch
<1>3. PICK on \in BOOLEAN : on = PolicyOn(Declared(Candidates(s)))
  BY DEF PolicyOn
<1> DEFINE q == [pc |-> "queued", out |-> "none", enforce |-> on]
           f == [t \in Tasks |-> IF t \in batch THEN q ELSE slot[s][t]]
<1>4. slot' = [slot EXCEPT ![s] = f] BY <1>1, <1>2, <1>3
<1>5. q \in SlotType /\ q.pc = "queued" BY DEF SlotType
<1>6. f \in [Tasks -> SlotType] BY <1>1, <1>5
<1>7. batch \subseteq Tasks \ InFlight(s)
  BY <1>2 DEF Batches, Candidates, Snapshot, Ready
<1>8. Spares(s, f) BY <1>5, <1>7 DEF Spares, Busy, InFlight
<1>9. FlightsOf(f) = InFlight(s) \cup batch
  BY <1>5, <1>7 DEF FlightsOf, InFlight
<1> HIDE DEF f, q
<1>10. Cardinality(FlightsOf(f)) = Cardinality(InFlight(s)) + Cardinality(batch)
  <2>1. IsFiniteSet(InFlight(s)) /\ IsFiniteSet(batch)
    <3>1. IsFiniteSet(Tasks) BY Assumption DEF Assumption
    <3>2. batch \subseteq Tasks /\ InFlight(s) \subseteq Tasks BY <1>7 DEF InFlight
    <3>3. QED BY <3>1, <3>2, FS_Subset
  <2>2. Cardinality(InFlight(s) \cup batch)
          = Cardinality(InFlight(s)) + Cardinality(batch) - Cardinality(InFlight(s) \cap batch)
    BY <2>1, FS_Union
  <2>3. InFlight(s) \cap batch = {} BY <1>7
  <2>4. Cardinality(InFlight(s) \cap batch) = 0 BY <2>3, FS_EmptySet
  <2>5. Cardinality(InFlight(s)) \in Nat /\ Cardinality(batch) \in Nat
    BY <2>1, FS_CardinalityType
  <2>6. Cardinality(InFlight(s) \cup batch) = Cardinality(InFlight(s)) + Cardinality(batch)
    BY <2>2, <2>4, <2>5
  <2>7. QED BY <1>9, <2>6
<1>11. loop[s].pc = "loop" /\ loop[s].task = NoOne
  BY DEF Dispatch, IInv, SlotInv
<1>12. FlightsOf(f) \ {loop[s].task} = FlightsOf(f)
  BY <1>11, FlightsFinite, Assumption DEF Assumption
<1>13. Counts(s, loop[s], f)
  <2>1. /\ loop[s].results \in Nat /\ loop[s].recoveries \in Nat
        /\ loop[s].completed \in Nat
    BY <1>1 DEF LoopType
  <2>2. MaxTasks[s] \in Nat /\ MaxSlices[s] \in Nat
    BY Assumption DEF Assumption
  <2>3. Cardinality(FlightsOf(f)) \in Nat BY FlightsFinite
  <2>4. /\ MaxSlices[s] > 0 => loop[s].results + Cardinality(FlightsOf(f)) <= MaxSlices[s]
        /\ MaxTasks[s] > 0 => loop[s].completed + Cardinality(FlightsOf(f)) <= MaxTasks[s]
    <3>1. /\ MaxSlices[s] > 0 => loop[s].results + (Cardinality(InFlight(s)) + Cardinality(batch))
                                  <= MaxSlices[s]
          /\ MaxTasks[s] > 0 => loop[s].completed + (Cardinality(InFlight(s)) + Cardinality(batch))
                                 <= MaxTasks[s]
      <4>1. Cardinality(InFlight(s)) \in Nat BY SoundNow, FlightsFinite
      <4>2. IsFiniteSet(batch)
        BY <1>7, FS_Subset, Assumption DEF Assumption
      <4>3. Cardinality(batch) \in Nat BY <4>2, FS_CardinalityType
      <4>4. QED BY <1>2, <2>1, <4>1, <4>3 DEF Fits
    <3>2. QED BY <1>10, <3>1
  <2>5. Bound(loop[s].completed + Cardinality(FlightsOf(f)), MaxTasks[s])
    BY <2>1, <2>2, <2>3, <2>4 DEF Bound
  <2>6. Bound(loop[s].results - loop[s].recoveries + Cardinality(FlightsOf(f)), MaxSlices[s])
    BY <2>1, <2>2, <2>3, <2>4 DEF Bound
  <2>7. QED BY <1>12, <2>5, <2>6 DEF Counts
<1>14. Effect(s, loop[s], f)
  <2>1. loop[s].attempt <= MaxRestarts[s] BY DEF IInv, TypeOK
  <2>2. QED BY <1>1, <1>6, <1>8, <1>11, <1>13, <2>1 DEF Effect, Sound
<1>15. loop' = [loop EXCEPT ![s] = loop[s]]
  BY <1>1 DEF Dispatch
<1>16. UNCHANGED <<flock, lock, claim, worker, left, selfRefused>> BY DEF Dispatch
<1>17. QED BY <1>4, <1>14, <1>15, <1>16 DEF Leaves

\* What a dispatch adds is clear of what it finds.
LEMMA DispatchPairs ==
    ASSUME IInv, NEW s \in Supervisors, Dispatch(s)
    PROVE  PairInv'
<1>1. slot \in [Supervisors -> [Tasks -> SlotType]]
  BY DEF IInv, TypeOK, SlotType
<1>2. PICK batch \in Batches(Candidates(s)) :
         slot' = [slot EXCEPT ![s] = [t \in Tasks |->
                IF t \in batch
                THEN [pc |-> "queued", out |-> "none",
                      enforce |-> PolicyOn(Declared(Candidates(s)))]
                ELSE @[t]]]
  BY DEF Dispatch
<1>3. batch \subseteq Candidates(s) BY <1>2 DEF Batches
<1>4. \A t \in Tasks : t \in InFlight(s)' => t \in InFlight(s) \/ t \in batch
  BY <1>1, <1>2 DEF InFlight
<1>5. \A r \in Supervisors \ {s} : InFlight(r)' = InFlight(r)
  BY <1>1, <1>2 DEF InFlight
<1>6. lock' = lock /\ claim' = claim BY DEF Dispatch
<1>7. ASSUME NEW t \in batch, NEW u \in batch, t # u PROVE Beside(t, u)
  <2>1. CASE PolicyOn(Declared(Candidates(s)))
    <3>1. ClearOf(t, Declared(batch \ {t})) BY <1>2, <2>1 DEF Batches
    <3>2. Domain[u] \in Declared(batch \ {t}) BY <1>7 DEF Declared
    <3>3. QED BY <3>1, <3>2 DEF ClearOf, Beside
  <2>2. CASE ~PolicyOn(Declared(Candidates(s)))
    <3>1. Domain[t] \in Declared(Candidates(s)) /\ Domain[u] \in Declared(Candidates(s))
      BY <1>3 DEF Declared
    <3>2. QED BY <2>2, <3>1 DEF PolicyOn, Beside
  <2>3. QED BY <2>1, <2>2
<1>8. ASSUME NEW t \in batch, NEW u \in InFlight(s) PROVE Beside(t, u) /\ Beside(u, t)
  <2>1. Domain[u] \in Declared(InFlight(s)) BY DEF Declared
  <2>2. t \in Candidates(s) /\ t \in Snapshot(s) BY <1>3 DEF Candidates
  <2>3. CASE PolicyOn(Declared(Snapshot(s) \cup InFlight(s)))
    <3>1. ~Overlap(Domain[t], Domain[u]) BY <2>1, <2>2, <2>3 DEF Candidates, ClearOf
    <3>2. QED BY <3>1, OverlapSymmetric DEF Beside
  <2>4. CASE ~PolicyOn(Declared(Snapshot(s) \cup InFlight(s)))
    <3>1. /\ Domain[t] \in Declared(Snapshot(s) \cup InFlight(s))
          /\ Domain[u] \in Declared(Snapshot(s) \cup InFlight(s))
      BY <2>2 DEF Declared
    <3>2. QED BY <2>4, <3>1 DEF PolicyOn, Beside
  <2>5. QED BY <2>3, <2>4
<1>9. ASSUME NEW t \in batch, NEW u \in Tasks, lock[u] = s, claim[u] = Domain[u]
      PROVE  Beside(t, u)
  <2>1. Live(u)
    BY <1>9, Assumption DEF Live, Alive, Dispatch, Assumption
  <2>2. claim[u] \in Active({}) BY <2>1 DEF Active
  <2>3. t \in Snapshot(s) /\ t \in Ready(s) BY <1>3 DEF Candidates, Snapshot
  <2>4. CASE PolicyOn(Declared(Ready(s)) \cup Active({}))
    <3>1. ClearOf(t, Active({})) BY <2>3, <2>4 DEF Snapshot
    <3>2. QED BY <1>9, <2>2, <3>1 DEF ClearOf, Beside
  <2>5. CASE ~PolicyOn(Declared(Ready(s)) \cup Active({}))
    <3>1. Domain[t] \in Declared(Ready(s)) BY <2>3 DEF Declared
    <3>2. QED BY <1>9, <2>2, <2>5, <3>1 DEF PolicyOn, Beside
  <2>6. QED BY <2>4, <2>5
<1>10. ASSUME NEW r \in Supervisors, NEW t \in Tasks, NEW u \in Tasks,
              t # u, t \in InFlight(r)',
              u \in InFlight(r)' \/ (lock[u] = r /\ claim[u] = Domain[u])
       PROVE  Beside(t, u)
  <2>1. CASE r # s BY <1>5, <1>10, <2>1 DEF IInv, PairInv
  <2>2. CASE r = s
    <3>1. t \in InFlight(s) \/ t \in batch BY <1>4, <1>10, <2>2
    <3>2. u \in InFlight(s) \/ u \in batch \/ (lock[u] = s /\ claim[u] = Domain[u])
      BY <1>4, <1>10, <2>2
    <3>3. CASE t \in InFlight(s) /\ u \notin batch
      BY <1>10, <3>2, <3>3 DEF IInv, PairInv
    <3>4. CASE t \in batch
      BY <1>7, <1>8, <1>9, <1>10, <3>2, <3>4
    <3>5. CASE t \in InFlight(s) /\ u \in batch BY <1>8, <3>5
    <3>6. QED BY <3>1, <3>3, <3>4, <3>5
  <2>3. QED BY <2>1, <2>2
<1>11. QED BY <1>6, <1>10 DEF PairInv, Beside

-----------------------------------------------------------------------------
(* Who may make progress *)

\* No run comes to life, and what the holder of the scheduler lock has found
\* is not touched.
Shrinks ==
    /\ \A u \in Tasks : Live(u)' => Live(u) /\ claim'[u] = claim[u]
    /\ flock' = flock \/ ~flock'.cleared

LEMMA ShrinksKeeps ==
    ASSUME IInv, Shrinks
    PROVE  ClearInv' /\ DomainsDisjoint'
<1>1. DomainsDisjoint' BY DEF IInv, DomainsDisjoint, Shrinks
<1>2. ClearInv' BY DEF IInv, ClearInv, Shrinks
<1>3. QED BY <1>1, <1>2

LEMMA LoopStepAlive ==
    ASSUME NEW s \in Supervisors, LoopStep(s)
    PROVE  Alive(s)
  BY DEF LoopStep, Alive, Dispatch, LoopEnds, PassOver, Complete, Pause, Restart, RestartsSpent,
     CoolsDown, Fail, Block, Recover, Unrecovered, RecoveryEnds, Recovering, Abort, Ended

LEMMA LeavesKeeps ==
    ASSUME IInv, NEW s \in Supervisors, Alive(s), Leaves(s)
    PROVE  /\ TypeOK' /\ SlotInv' /\ HoldInv' /\ ClearInv'
           /\ DomainsDisjoint' /\ CountInv' /\ NeverInItsOwnWay'
<1>1. PICK l, f : /\ Effect(s, l, f)
                  /\ loop' = [loop EXCEPT ![s] = l]
                  /\ slot' = [slot EXCEPT ![s] = f]
                  /\ UNCHANGED <<flock, lock, claim, worker, left, selfRefused>>
  BY DEF Leaves
<1>2. loop \in [Supervisors -> LoopType] /\ slot \in [Supervisors -> [Tasks -> SlotType]]
  BY DEF IInv, TypeOK, LoopType, SlotType
<1>3. Sound(s, l, f) /\ Spares(s, f) BY <1>1 DEF Effect
<1>4. loop'[s] = l /\ slot'[s] = f BY <1>1, <1>2
<1>5. \A r \in Supervisors \ {s} : loop'[r] = loop[r] /\ slot'[r] = slot[r]
  BY <1>1, <1>2
<1>6. loop' \in [Supervisors -> LoopType] /\ slot' \in [Supervisors -> [Tasks -> SlotType]]
  BY <1>1, <1>2, <1>3 DEF Sound
<1>7. \A r \in Supervisors : Alive(r)' => Alive(r)
  BY <1>5 DEF Alive
<1>8. TypeOK'
  <2>1. \A r \in Supervisors : loop'[r].attempt <= MaxRestarts[r]
    BY <1>3, <1>4, <1>5 DEF Sound, IInv, TypeOK
  <2>2. \A r \in Supervisors, t \in Tasks :
           slot'[r][t].pc = "scheduling" <=> flock.by = r /\ flock.task = t
    <3>1. \A r \in Supervisors, t \in Tasks :
             slot[r][t].pc = "scheduling" <=> flock.by = r /\ flock.task = t
      BY DEF IInv, TypeOK
    <3>2. \A t \in Tasks : f[t].pc = "scheduling" <=> slot[s][t].pc = "scheduling"
      BY <1>3 DEF Spares, Busy
    <3>3. QED BY <1>4, <1>5, <3>1, <3>2
  <2>3. flock' = flock /\ lock' = lock /\ claim' = claim /\ worker' = worker /\ left' = left
        /\ selfRefused' = selfRefused
    BY <1>1
  <2>4. QED BY <1>6, <2>1, <2>2, <2>3 DEF IInv, TypeOK, LoopType, SlotType
<1>9. SlotInv'
  <2>1. ASSUME NEW r \in Supervisors
        PROVE  /\ \A t \in Tasks : slot'[r][t].pc # "none" => Alive(r)'
               /\ loop'[r].pc = "loop" => loop'[r].task = NoOne
               /\ loop'[r].pc = "recovering" =>
                      loop'[r].task \in Tasks /\ slot'[r][loop'[r].task].pc # "none"
    <3>1. CASE r # s
      BY <1>5, <3>1 DEF IInv, SlotInv, Alive
    <3>2. CASE r = s
      <4>1. \A t \in Tasks : f[t].pc # "none" => Alive(s)'
        BY <1>3, <1>4 DEF Sound, FlightsOf, Alive, LoopType
      <4>2. QED BY <1>3, <1>4, <3>2, <4>1 DEF Sound
    <3>3. QED BY <3>1, <3>2
  <2>2. QED BY <2>1 DEF SlotInv
<1>10. HoldInv'
  <2>1. ASSUME NEW r \in Supervisors, NEW t \in Tasks, slot'[r][t].pc \in {"locked", "running"}
        PROVE  lock[t] = r
    BY <1>3, <1>4, <1>5, <2>1 DEF Spares, Busy, IInv, HoldInv
  <2>2. ASSUME NEW t \in worker, Alive(lock[t])' PROVE slot'[lock[t]][t].pc = "running"
    <3>1. t \in Tasks /\ lock[t] \in Supervisors
      BY DEF IInv, TypeOK
    <3>2. Alive(lock[t])
      BY <1>1, <1>7, <2>2, <3>1 DEF Alive
    <3>3. slot[lock[t]][t].pc = "running"
      BY <3>2 DEF IInv, HoldInv
    <3>4. QED BY <1>3, <1>4, <1>5, <3>1, <3>3 DEF Spares, Busy
  <2>3. lock' = lock /\ worker' = worker BY <1>1
  <2>4. QED BY <2>1, <2>2, <2>3 DEF HoldInv, Alive
<1>11. Shrinks
  <2>1. ASSUME NEW u \in Tasks, Live(u)' PROVE Live(u)
    <3>1. lock'[u] = lock[u] /\ worker' = worker BY <1>1
    <3>2. lock[u] \in Supervisors BY <2>1, <3>1 DEF Live, IInv, TypeOK
    <3>3. QED BY <1>7, <2>1, <3>1, <3>2 DEF Live, Alive
  <2>2. QED BY <1>1, <2>1 DEF Shrinks
<1>12. CountInv'
  <2>1. ASSUME NEW r \in Supervisors
        PROVE  Counts(r, loop'[r], slot'[r])
    BY <1>3, <1>4, <1>5, SoundNow DEF Sound
  <2>2. \A r \in Supervisors : InFlight(r)' = FlightsOf(slot'[r])
    BY DEF InFlight, FlightsOf
  <2>3. QED BY <2>1, <2>2 DEF CountInv, Counts
<1>13. NeverInItsOwnWay' BY <1>1 DEF IInv, NeverInItsOwnWay
<1>14. QED BY <1>8, <1>9, <1>10, <1>11, <1>12, <1>13, ShrinksKeeps

\* A step of the loop but a dispatch puts nothing in flight.
LEMMA LoopPairs ==
    ASSUME IInv, NEW s \in Supervisors, LoopStep(s), ~Dispatch(s)
    PROVE  PairInv'
<1>1. slot \in [Supervisors -> [Tasks -> SlotType]]
  BY DEF IInv, TypeOK, SlotType
<1>2. lock' = lock /\ claim' = claim
  BY DEF LoopStep, LoopEnds, PassOver, Complete, Pause, Restart, RestartsSpent,
     CoolsDown, Fail, Block, Recover, Unrecovered, RecoveryEnds, Abort, Counters
<1>3. \/ slot' = slot
      \/ slot' = [slot EXCEPT ![s] = [t \in Tasks |-> NoSlot]]
      \/ \E t \in Tasks : slot' = [slot EXCEPT ![s][t] = NoSlot]
      \/ \E t \in Tasks : /\ slot[s][t].pc = "ended"
                          /\ slot' = [slot EXCEPT ![s][t] = [NoSlot EXCEPT !.pc = "queued"]]
  BY DEF LoopStep, LoopEnds, PassOver, Complete, Pause, Restart, RestartsSpent,
     CoolsDown, Fail, Block, Recover, Unrecovered, RecoveryEnds, Abort, Taken, Ended
<1>4. \A r \in Supervisors, t \in Tasks : t \in InFlight(r)' => t \in InFlight(r)
  BY <1>1, <1>3 DEF InFlight, NoSlot
<1>5. QED BY <1>2, <1>4 DEF IInv, PairInv, Beside

LEMMA LoopStepKeeps ==
    ASSUME IInv, NEW s \in Supervisors, LoopStep(s)
    PROVE  IInv'
<1>1. Leaves(s)
  <2>1. ASSUME Dispatch(s) PROVE Leaves(s) BY <2>1, DispatchLeaves
  <2>2. ASSUME LoopEnds(s) PROVE Leaves(s) BY <2>2, EndLeaves
  <2>3. ASSUME NEW t \in Tasks,
               \/ PassOver(s, t) \/ Complete(s, t) \/ Pause(s, t) \/ Restart(s, t)
               \/ RestartsSpent(s, t) \/ Fail(s, t) \/ Block(s, t) \/ Unrecovered(s, t)
        PROVE  Leaves(s)
    BY <2>3, FutureLeaves
  <2>4. ASSUME NEW t \in Tasks, RecoveryEnds(s, t) PROVE Leaves(s)
    BY <2>4, RecoveryLeaves
  <2>5. ASSUME NEW t \in Tasks, CoolsDown(s, t) \/ Recover(s, t) \/ Abort(s, t)
        PROVE  Leaves(s)
    BY <2>5, OtherLeaves
  <2>6. QED BY <2>1, <2>2, <2>3, <2>4, <2>5 DEF LoopStep
<1>2. PairInv' BY DispatchPairs, LoopPairs
<1>3. QED BY <1>1, <1>2, LoopStepAlive, LeavesKeeps DEF IInv

-----------------------------------------------------------------------------
(* The steps of a thread *)

\* A thread takes a step and stays in flight.
Moves(s, t, q) ==
    /\ q \in SlotType /\ q.pc # "none" /\ slot[s][t].pc # "none"
    /\ slot' = [slot EXCEPT ![s][t] = q]
    /\ loop' = loop

\* Nobody comes to hold a lock but the thread that moves, and no claim becomes
\* what its task declares.
Locks(s, t) ==
    \A u \in Tasks : \/ lock'[u] = lock[u] /\ claim'[u] = claim[u]
                     \/ lock'[u] = NoOne
                     \/ u = t /\ lock'[u] = s

LEMMA MovesFields ==
    ASSUME IInv, NEW s \in Supervisors, NEW t \in Tasks, NEW q, Moves(s, t, q)
    PROVE  /\ slot' \in [Supervisors -> [Tasks -> SlotType]]
           /\ slot'[s][t] = q
           /\ \A r \in Supervisors, u \in Tasks : r # s \/ u # t => slot'[r][u] = slot[r][u]
           /\ \A r \in Supervisors : InFlight(r)' = InFlight(r)
           /\ \A r \in Supervisors : Alive(r)' <=> Alive(r)
           /\ Alive(s) /\ t \in InFlight(s)
<1>1. slot \in [Supervisors -> [Tasks -> SlotType]]
  BY DEF IInv, TypeOK, SlotType
<1>2. slot' = [slot EXCEPT ![s] = [slot[s] EXCEPT ![t] = q]]
  BY <1>1 DEF Moves
<1>3. slot' \in [Supervisors -> [Tasks -> SlotType]]
  BY <1>1, <1>2 DEF Moves
<1>4. slot'[s][t] = q BY <1>1, <1>2
<1>5. \A r \in Supervisors, u \in Tasks : r # s \/ u # t => slot'[r][u] = slot[r][u]
  BY <1>1, <1>2
<1>6. \A r \in Supervisors, u \in Tasks : slot'[r][u].pc = "none" <=> slot[r][u].pc = "none"
  BY <1>4, <1>5 DEF Moves
<1>7. \A r \in Supervisors : InFlight(r)' = InFlight(r)
  BY <1>6 DEF InFlight
<1>8. \A r \in Supervisors : Alive(r)' <=> Alive(r)
  BY DEF Moves, Alive
<1>9. Alive(s) /\ t \in InFlight(s)
  BY DEF Moves, IInv, SlotInv, InFlight
<1>10. QED BY <1>3, <1>4, <1>5, <1>7, <1>8, <1>9

LEMMA MovesKeeps ==
    ASSUME IInv, NEW s \in Supervisors, NEW t \in Tasks, NEW q, Moves(s, t, q), Locks(s, t)
    PROVE  SlotInv' /\ CountInv' /\ PairInv'
<1>1. loop' = loop BY DEF Moves
<1>2. \A r \in Supervisors : /\ InFlight(r)' = InFlight(r)
                             /\ Alive(r)' <=> Alive(r)
  BY MovesFields
<1>3. SlotInv'
  <2>1. \A r \in Supervisors, u \in Tasks : slot'[r][u].pc = "none" <=> slot[r][u].pc = "none"
    BY MovesFields DEF Moves
  <2>2. QED BY <1>1, <1>2, <2>1 DEF IInv, SlotInv
<1>4. CountInv' BY <1>1, <1>2 DEF IInv, CountInv
<1>5. PairInv'
  <2>1. ASSUME NEW r \in Supervisors, NEW u \in Tasks, NEW v \in Tasks,
               u # v, u \in InFlight(r),
               v \in InFlight(r) \/ (lock'[v] = r /\ claim'[v] = Domain[v])
        PROVE  Beside(u, v)
    <3>1. v \in InFlight(r) \/ (lock[v] = r /\ claim[v] = Domain[v])
      <4>1. t \in InFlight(s) BY MovesFields
      <4>2. r # NoOne BY Assumption DEF Assumption
      <4>3. QED BY <2>1, <4>1, <4>2 DEF Locks
    <3>2. QED BY <2>1, <3>1 DEF IInv, PairInv
  <2>2. QED BY <1>2, <2>1 DEF PairInv, Beside
<1>6. QED BY <1>3, <1>4, <1>5

\* The steps before the lock of the task is taken, which change the scheduler
\* lock and the thread alone.
Waits(s, t, q) ==
    /\ Moves(s, t, q)
    /\ slot[s][t].pc \in {"queued", "scheduling"} /\ q.pc \notin {"locked", "running"}
    /\ flock' \in [by : Supervisors \cup {NoOne}, task : Tasks \cup {NoOne}, cleared : BOOLEAN]
    /\ \A r \in Supervisors, u \in Tasks :
           slot'[r][u].pc = "scheduling" <=> flock'.by = r /\ flock'.task = u
    /\ UNCHANGED <<lock, claim, worker, left>>

LEMMA WaitsKeeps ==
    ASSUME IInv, NEW s \in Supervisors, NEW t \in Tasks, NEW q, Waits(s, t, q),
           ~selfRefused'
    PROVE  /\ selfRefused' \in BOOLEAN => TypeOK'
           /\ SlotInv' /\ HoldInv' /\ CountInv' /\ PairInv'
           /\ flock' = flock \/ ~flock'.cleared => ClearInv'
           /\ DomainsDisjoint'
<1>1. Moves(s, t, q) BY DEF Waits
<1>2. /\ lock' = lock /\ claim' = claim /\ worker' = worker /\ left' = left /\ loop' = loop
  BY DEF Waits, Moves
<1>3. SlotInv' /\ CountInv' /\ PairInv'
  <2>1. Locks(s, t) BY <1>2 DEF Locks
  <2>2. QED BY <1>1, <2>1, MovesKeeps
<1>4. selfRefused' \in BOOLEAN => TypeOK'
  <2>1. slot' \in [Supervisors -> [Tasks -> SlotType]] BY <1>1, MovesFields
  <2>2. QED BY <1>2, <2>1 DEF Waits, IInv, TypeOK, SlotType
<1>5. HoldInv'
  <2>1. \A r \in Supervisors, u \in Tasks :
           /\ slot'[r][u].pc \in {"locked", "running"} => slot[r][u].pc \in {"locked", "running"}
           /\ slot[r][u].pc = "running" => slot'[r][u].pc = "running"
    BY <1>1, MovesFields DEF Waits
  <2>2. \A r \in Supervisors : Alive(r)' <=> Alive(r) BY <1>1, MovesFields
  <2>3. \A u \in worker : u \in Tasks /\ lock[u] \in Supervisors
    BY DEF IInv, TypeOK
  <2>4. ASSUME NEW u \in worker, Alive(lock[u])' PROVE slot'[lock[u]][u].pc = "running"
    <3>1. Alive(lock[u]) BY <1>2, <2>4 DEF Alive
    <3>2. QED BY <2>1, <2>3, <3>1 DEF IInv, HoldInv
  <2>5. QED BY <1>2, <2>1, <2>4 DEF IInv, HoldInv, Alive
<1>6. \A u \in Tasks : Live(u)' => Live(u)
  BY <1>2 DEF Live, Alive
<1>7. DomainsDisjoint' BY <1>2, <1>6 DEF IInv, DomainsDisjoint
<1>8. flock' = flock \/ ~flock'.cleared => ClearInv'
  BY <1>2, <1>6 DEF IInv, ClearInv
<1>9. QED BY <1>3, <1>4, <1>5, <1>7, <1>8

LEMMA ThreadForm ==
    ASSUME IInv, NEW s \in Supervisors, NEW t \in Tasks,
           NEW pc \in {"scheduling", "locked", "running"}, Thread(s, t, pc),
           slot[s][t].pc # "none", loop' = loop
    PROVE  \E q : Moves(s, t, q) /\ q.pc = pc
<1> DEFINE q == [slot[s][t] EXCEPT !.pc = pc]
<1>1. slot \in [Supervisors -> [Tasks -> SlotType]]
  BY DEF IInv, TypeOK, SlotType
<1>2. q \in SlotType /\ q.pc = pc BY <1>1 DEF SlotType
<1>3. slot' = [slot EXCEPT ![s][t] = q] BY <1>1 DEF Thread
<1> HIDE DEF q
<1>4. QED BY <1>2, <1>3 DEF Moves

LEMMA EndForm ==
    ASSUME IInv, NEW s \in Supervisors, NEW t \in Tasks,
           NEW out \in Outcomes \cup {"refused"}, Ends(s, t, out),
           slot[s][t].pc # "none", loop' = loop
    PROVE  \E q : Moves(s, t, q) /\ q.pc = "ended"
<1> DEFINE q == [slot[s][t] EXCEPT !.pc = "ended", !.out = out]
<1>1. slot \in [Supervisors -> [Tasks -> SlotType]]
  BY DEF IInv, TypeOK, SlotType
<1>2. out \in Outcomes \cup {"none", "refused"} /\ slot[s][t] \in SlotType BY <1>1
<1>3. q \in SlotType /\ q.pc = "ended" BY <1>2 DEF SlotType
<1>4. slot' = [slot EXCEPT ![s][t] = q] BY <1>1 DEF Ends
<1> HIDE DEF q
<1>5. QED BY <1>3, <1>4 DEF Moves

LEMMA FlockNow ==
    ASSUME IInv
    PROVE  /\ flock \in [by : Supervisors \cup {NoOne}, task : Tasks \cup {NoOne}, cleared : BOOLEAN]
           /\ \A r \in Supervisors, u \in Tasks :
                  slot[r][u].pc = "scheduling" <=> flock.by = r /\ flock.task = u
           /\ Free \in [by : Supervisors \cup {NoOne}, task : Tasks \cup {NoOne}, cleared : BOOLEAN]
           /\ Free.by = NoOne /\ Free.task = NoOne /\ ~Free.cleared
           /\ NoOne \notin Supervisors /\ NoOne \notin Tasks
  BY Assumption DEF IInv, TypeOK, Free, Assumption

\* A refusal for nothing but tasks of one's own cannot be.
LEMMA NotItsOwn ==
    ASSUME IInv, NEW s \in Supervisors, NEW t \in Tasks, slot[s][t].pc # "none",
           Rivals(s, t) # {}
    PROVE  \E u \in Rivals(s, t) :
               ~(/\ u # t /\ lock[u] = s /\ claim[u] = Domain[u]
                 /\ Domain[t].known \/ Domain[u].known)
<1>1. SUFFICES ASSUME \A u \in Rivals(s, t) :
                          /\ u # t /\ lock[u] = s /\ claim[u] = Domain[u]
                          /\ Domain[t].known \/ Domain[u].known
               PROVE  FALSE
  OBVIOUS
<1>2. PICK u \in Rivals(s, t) : TRUE OBVIOUS
<1>3. /\ u \in Tasks /\ u # t /\ lock[u] = s /\ claim[u] = Domain[u]
      /\ Domain[t].known \/ Domain[u].known
      /\ Overlap(Domain[t], Domain[u])
  BY <1>1, <1>2 DEF Rivals
<1>4. Beside(t, u) BY <1>3 DEF IInv, PairInv, InFlight
<1>5. QED BY <1>3, <1>4 DEF Beside

LEMMA TakeFlockKeeps ==
    ASSUME IInv, NEW s \in Supervisors, NEW t \in Tasks, TakeFlock(s, t)
    PROVE  IInv'
<1>1. PICK q : Moves(s, t, q) /\ q.pc = "scheduling"
  BY ThreadForm DEF TakeFlock
<1>2. /\ flock' = [by |-> s, task |-> t, cleared |-> FALSE] /\ flock = Free
      /\ slot[s][t].pc = "queued"
  BY DEF TakeFlock
<1>3. \A r \in Supervisors, u \in Tasks :
         slot'[r][u].pc = "scheduling" <=> flock'.by = r /\ flock'.task = u
  BY <1>1, <1>2, MovesFields, FlockNow
<1>4. flock' \in [by : Supervisors \cup {NoOne}, task : Tasks \cup {NoOne}, cleared : BOOLEAN]
  BY <1>2
<1>5. selfRefused' = selfRefused /\ ~selfRefused /\ selfRefused \in BOOLEAN
  BY DEF TakeFlock, IInv, NeverInItsOwnWay, TypeOK
<1>6. Waits(s, t, q) BY <1>1, <1>2, <1>3, <1>4 DEF Waits, TakeFlock
<1>7. ~flock'.cleared BY <1>2
<1>8. QED BY <1>5, <1>6, <1>7, WaitsKeeps DEF IInv, NeverInItsOwnWay

LEMMA FlockTimesOutKeeps ==
    ASSUME IInv, NEW s \in Supervisors, NEW t \in Tasks, FlockTimesOut(s, t)
    PROVE  IInv'
<1>1. PICK out \in {"raised", "refused"} : Ends(s, t, out)
  BY DEF FlockTimesOut
<1>2. PICK q : Moves(s, t, q) /\ q.pc = "ended"
  <2>1. slot[s][t].pc # "none" /\ loop' = loop BY DEF FlockTimesOut
  <2>2. out \in Outcomes \cup {"refused"} BY DEF Outcomes
  <2>3. QED BY <1>1, <2>1, <2>2, EndForm
<1>3. flock' = flock /\ slot[s][t].pc = "queued" BY DEF FlockTimesOut
<1>4. \A r \in Supervisors, u \in Tasks :
         slot'[r][u].pc = "scheduling" <=> flock'.by = r /\ flock'.task = u
  BY <1>2, <1>3, MovesFields, FlockNow
<1>5. selfRefused' = selfRefused /\ ~selfRefused /\ selfRefused \in BOOLEAN
  BY DEF FlockTimesOut, IInv, NeverInItsOwnWay, TypeOK
<1>6. Waits(s, t, q) BY <1>2, <1>3, <1>4, FlockNow DEF Waits, FlockTimesOut
<1>7. QED BY <1>3, <1>5, <1>6, WaitsKeeps DEF IInv, NeverInItsOwnWay

LEMMA RefusedKeeps ==
    ASSUME IInv, NEW s \in Supervisors, NEW t \in Tasks,
           ConflictRefused(s, t) \/ LockHeld(s, t)
    PROVE  IInv'
<1>1. /\ slot[s][t].pc = "scheduling" /\ flock' = Free /\ Ends(s, t, "refused")
      /\ UNCHANGED <<loop, lock, claim, worker, left>>
  BY DEF ConflictRefused, LockHeld
<1>2. PICK q : Moves(s, t, q) /\ q.pc = "ended"
  BY <1>1, EndForm
<1>3. \A r \in Supervisors, u \in Tasks :
         slot'[r][u].pc = "scheduling" <=> flock'.by = r /\ flock'.task = u
  BY <1>1, <1>2, MovesFields, FlockNow
<1>4. ~selfRefused' /\ selfRefused' \in BOOLEAN
  <2>1. ~selfRefused /\ selfRefused \in BOOLEAN BY DEF IInv, NeverInItsOwnWay, TypeOK
  <2>2. CASE LockHeld(s, t) BY <2>1, <2>2 DEF LockHeld
  <2>3. CASE ConflictRefused(s, t)
    <3>1. PICK note \in BOOLEAN :
             note <=> \A u \in Rivals(s, t) :
                          /\ u # t /\ lock[u] = s /\ claim[u] = Domain[u]
                          /\ Domain[t].known \/ Domain[u].known
      OBVIOUS
    <3>2. ~note BY <1>1, <2>3, <3>1, NotItsOwn DEF ConflictRefused
    <3>3. selfRefused' = (selfRefused \/ \A u \in Rivals(s, t) :
             /\ u # t /\ lock[u] = s /\ claim[u] = Domain[u]
             /\ Domain[t].known \/ Domain[u].known)
      BY <2>3 DEF ConflictRefused
    <3>4. QED BY <2>1, <3>1, <3>2, <3>3, Zenon
  <2>4. QED BY <2>2, <2>3
<1>5. Waits(s, t, q) BY <1>1, <1>2, <1>3, FlockNow DEF Waits
<1>6. ~flock'.cleared BY <1>1, FlockNow
<1>7. QED BY <1>4, <1>5, <1>6, WaitsKeeps DEF IInv, NeverInItsOwnWay

\* Who is cleared has no rival among the runs that may make progress.
LEMMA ConflictClearedKeeps ==
    ASSUME IInv, NEW s \in Supervisors, NEW t \in Tasks, ConflictCleared(s, t)
    PROVE  IInv'
<1>1. /\ slot[s][t].pc = "scheduling" /\ Rivals(s, t) = {}
      /\ flock' = [flock EXCEPT !.cleared = TRUE]
      /\ UNCHANGED <<loop, slot, lock, claim, worker, left, selfRefused>>
  BY DEF ConflictCleared
<1>2. flock.by = s /\ flock.task = t BY <1>1, FlockNow
<1>3. /\ flock' \in [by : Supervisors \cup {NoOne}, task : Tasks \cup {NoOne}, cleared : BOOLEAN]
      /\ flock'.by = s /\ flock'.task = t
  BY <1>1, <1>2, FlockNow
<1>4. TypeOK' BY <1>1, <1>2, <1>3 DEF IInv, TypeOK
<1>5. ClearInv'
  <2>1. ASSUME NEW u \in Tasks \ {t}, Live(u), Domain[t].known \/ claim[u].known
        PROVE  ~Overlap(Domain[t], claim[u])
    <3>1. claim[u] \in Active({}) BY <2>1 DEF Active
    <3>2. Enforced(s, t) BY <2>1, <3>1 DEF Enforced, PolicyOn
    <3>3. QED BY <1>1, <2>1, <3>2 DEF Rivals
  <2>2. \A u \in Tasks : Live(u)' <=> Live(u) BY <1>1 DEF Live, Alive
  <2>3. QED BY <1>1, <1>3, <2>1, <2>2, FlockNow DEF ClearInv
<1>6. SlotInv' /\ HoldInv' /\ CountInv' /\ NeverInItsOwnWay'
  BY <1>1 DEF IInv, SlotInv, HoldInv, CountInv, NeverInItsOwnWay, Alive, InFlight
<1>7. DomainsDisjoint' BY <1>1 DEF IInv, DomainsDisjoint, Live, Alive
<1>8. PairInv' BY <1>1 DEF IInv, PairInv, InFlight, Beside
<1>9. QED BY <1>4, <1>5, <1>6, <1>7, <1>8 DEF IInv

\* The steps after the scheduler lock is given back leave it alone.
LEMMA FlockAlone ==
    ASSUME IInv, NEW s \in Supervisors, NEW t \in Tasks, NEW q, Moves(s, t, q),
           slot[s][t].pc # "scheduling", q.pc # "scheduling", flock' = flock
    PROVE  \A r \in Supervisors, u \in Tasks :
               slot'[r][u].pc = "scheduling" <=> flock'.by = r /\ flock'.task = u
  BY MovesFields, FlockNow

\* A worker is the running thread's, as long as the invocation of it is there.
LEMMA WorkerRuns ==
    ASSUME IInv, NEW s \in Supervisors, NEW t \in Tasks, Alive(s), lock[t] = s, t \in worker
    PROVE  slot[s][t].pc = "running"
  BY DEF IInv, HoldInv

\* The types of the variables that are about tasks.
TaskTypes ==
    /\ lock \in [Tasks -> Supervisors \cup {NoOne}]
    /\ claim = [t \in Tasks |-> claim[t]]
    /\ \A t \in Tasks : claim[t] \in {Domain[t], Wider[t]}
    /\ worker \subseteq {t \in Tasks : lock[t] # NoOne}
    /\ left \in [Tasks -> Nat]
    /\ selfRefused \in BOOLEAN

LEMMA TaskTypesNow == IInv => TaskTypes /\ ~selfRefused
  BY DEF IInv, TypeOK, TaskTypes, NeverInItsOwnWay

\* The steps of a thread about its task lock, up to what is particular to each.
Holds(s, t, q) ==
    /\ Moves(s, t, q) /\ Locks(s, t) /\ lock[t] \in {NoOne, s}
    /\ flock' \in [by : Supervisors \cup {NoOne}, task : Tasks \cup {NoOne}, cleared : BOOLEAN]
    /\ \A r \in Supervisors, u \in Tasks :
           slot'[r][u].pc = "scheduling" <=> flock'.by = r /\ flock'.task = u
    /\ TaskTypes' /\ selfRefused' = selfRefused
    /\ q.pc \in {"locked", "running"} => lock'[t] = s
    /\ \A u \in Tasks \ {t} : lock'[u] = lock[u] /\ claim'[u] = claim[u]
    /\ worker' \subseteq worker \cup {t}
    /\ t \in worker' => lock'[t] = s /\ q.pc = "running"

LEMMA HoldsKeeps ==
    ASSUME IInv, NEW s \in Supervisors, NEW t \in Tasks, NEW q, Holds(s, t, q)
    PROVE  /\ TypeOK' /\ SlotInv' /\ HoldInv' /\ CountInv' /\ PairInv' /\ NeverInItsOwnWay'
           /\ \A u \in Tasks \ {t} : Live(u)' => Live(u)
<1>1. Moves(s, t, q) /\ loop' = loop BY DEF Holds, Moves
<1>2. SlotInv' /\ CountInv' /\ PairInv' BY <1>1, MovesKeeps DEF Holds
<1>3. NeverInItsOwnWay' BY TaskTypesNow DEF Holds, NeverInItsOwnWay
<1>4. TypeOK'
  <2>1. slot' \in [Supervisors -> [Tasks -> SlotType]] BY <1>1, MovesFields
  <2>2. QED BY <1>1, <2>1 DEF Holds, TaskTypes, IInv, TypeOK, SlotType
<1>5. \A r \in Supervisors : Alive(r)' <=> Alive(r) BY <1>1, MovesFields
<1>6. HoldInv'
  <2>1. ASSUME NEW r \in Supervisors, NEW u \in Tasks, slot'[r][u].pc \in {"locked", "running"}
        PROVE  lock'[u] = r
    <3>1. CASE r = s /\ u = t BY <1>1, <2>1, <3>1, MovesFields DEF Holds
    <3>2. CASE u # t
      BY <1>1, <2>1, <3>2, MovesFields DEF Holds, IInv, HoldInv
    <3>3. CASE u = t /\ r # s
      <4>1. lock[t] = r /\ slot[r][t].pc \in {"locked", "running"}
        BY <1>1, <2>1, <3>3, MovesFields DEF IInv, HoldInv
      <4>2. QED BY <3>3, <4>1, FlockNow DEF Holds
    <3>4. QED BY <3>1, <3>2, <3>3
  <2>2. ASSUME NEW u \in worker', Alive(lock[u])' PROVE slot'[lock'[u]][u].pc = "running"
    <3>1. u \in Tasks /\ lock'[u] \in Supervisors
      BY DEF Holds, TaskTypes
    <3>2. Alive(lock'[u]) BY <1>1, <2>2 DEF Alive
    <3>3. CASE u = t BY <1>1, <2>2, <3>3, MovesFields DEF Holds
    <3>4. CASE u # t
      <4>1. lock'[u] = lock[u] /\ u \in worker BY <3>1, <3>4 DEF Holds
      <4>2. slot[lock[u]][u].pc = "running" BY <3>1, <3>2, <4>1, WorkerRuns
      <4>3. QED BY <1>1, <3>1, <3>4, <4>1, <4>2, MovesFields
    <3>5. QED BY <3>3, <3>4
  <2>3. QED BY <2>1, <2>2 DEF HoldInv
<1>7. ASSUME NEW u \in Tasks \ {t}, Live(u)' PROVE Live(u)
  BY <1>1, <1>7 DEF Holds, Live, Alive
<1>8. QED BY <1>2, <1>3, <1>4, <1>6, <1>7

\* The task lock goes to who is clear of the runs that may make progress.
LEMMA AcquireKeeps ==
    ASSUME IInv, NEW s \in Supervisors, NEW t \in Tasks, Acquire(s, t)
    PROVE  IInv'
<1>1. /\ slot[s][t].pc = "scheduling" /\ flock.cleared /\ lock[t] = NoOne
      /\ lock' = [lock EXCEPT ![t] = s] /\ claim' = [claim EXCEPT ![t] = Domain[t]]
      /\ flock' = Free /\ Thread(s, t, "locked")
      /\ UNCHANGED <<loop, worker, left, selfRefused>>
  BY DEF Acquire
<1>2. PICK q : Moves(s, t, q) /\ q.pc = "locked"
  BY <1>1, ThreadForm
<1>3. flock.by = s /\ flock.task = t /\ s # NoOne BY <1>1, FlockNow
<1>4. TaskTypes BY TaskTypesNow
<1>5. /\ lock'[t] = s /\ claim'[t] = Domain[t]
      /\ \A u \in Tasks \ {t} : lock'[u] = lock[u] /\ claim'[u] = claim[u]
  BY <1>1, <1>4 DEF TaskTypes
<1>6. \A r \in Supervisors, u \in Tasks :
         slot'[r][u].pc = "scheduling" <=> flock'.by = r /\ flock'.task = u
  BY <1>1, <1>2, <1>3, MovesFields, FlockNow
<1>7. t \notin worker BY <1>1, <1>4 DEF TaskTypes
<1>8. TaskTypes'
  <2>1. lock' \in [Tasks -> Supervisors \cup {NoOne}] BY <1>1, <1>4 DEF TaskTypes
  <2>2. claim' = [u \in Tasks |-> claim'[u]] BY <1>1, <1>4 DEF TaskTypes
  <2>3. \A u \in Tasks : claim'[u] \in {Domain[u], Wider[u]} BY <1>4, <1>5 DEF TaskTypes
  <2>4. worker' \subseteq {u \in Tasks : lock'[u] # NoOne}
    BY <1>1, <1>3, <1>4, <1>5 DEF TaskTypes
  <2>5. QED BY <1>1, <1>4, <2>1, <2>2, <2>3, <2>4 DEF TaskTypes
<1>9. Holds(s, t, q)
  <2>1. Locks(s, t) BY <1>5 DEF Locks
  <2>2. QED BY <1>1, <1>2, <1>5, <1>6, <1>7, <1>8, <2>1, FlockNow DEF Holds
<1>10. ClearInv' BY <1>1, FlockNow DEF ClearInv
<1>11. \A u \in Tasks \ {t} : Live(u)' => Live(u) BY <1>9, HoldsKeeps
<1>12. DomainsDisjoint'
  <2>1. ASSUME NEW u \in Tasks \ {t}, Live(u)', Domain[t].known \/ claim[u].known
        PROVE  ~Overlap(Domain[t], claim[u]) /\ ~Overlap(claim[u], Domain[t])
    <3>1. ~Overlap(Domain[t], claim[u])
      BY <1>1, <1>3, <1>11, <2>1 DEF IInv, ClearInv
    <3>2. QED BY <3>1, OverlapSymmetric
  <2>2. ASSUME NEW u \in Tasks, NEW v \in Tasks, u # v, Live(u)', Live(v)',
               claim'[u].known \/ claim'[v].known
        PROVE  ~Overlap(claim'[u], claim'[v])
    <3>1. CASE u = t BY <1>5, <2>1, <2>2, <3>1
    <3>2. CASE v = t BY <1>5, <2>1, <2>2, <3>2
    <3>3. CASE u # t /\ v # t
      BY <1>5, <1>11, <2>2, <3>3 DEF IInv, DomainsDisjoint
    <3>4. QED BY <3>1, <3>2, <3>3
  <2>3. QED BY <2>2 DEF DomainsDisjoint
<1>13. QED BY <1>9, <1>10, <1>12, HoldsKeeps DEF IInv

\* A run that begins or ends.
LEMMA RunKeeps ==
    ASSUME IInv, NEW s \in Supervisors, NEW t \in Tasks, NEW q, Holds(s, t, q),
           lock[t] = s, flock' = flock,
           lock'[t] = NoOne \/ claim'[t] = claim[t]
    PROVE  IInv'
<1>1. Live(t) BY MovesFields, FlockNow DEF Holds, Live
<1>2. Shrinks
  <2>1. \A u \in Tasks \ {t} : Live(u)' => Live(u) /\ claim'[u] = claim[u]
    BY HoldsKeeps DEF Holds
  <2>2. Live(t)' => claim'[t] = claim[t] BY DEF Live
  <2>3. QED BY <1>1, <2>1, <2>2 DEF Shrinks
<1>3. QED BY <1>2, ShrinksKeeps, HoldsKeeps DEF IInv

LEMMA UnlocksTypes ==
    ASSUME IInv, NEW t \in Tasks, Unlocks(t)
    PROVE  /\ lock' \in [Tasks -> Supervisors \cup {NoOne}]
           /\ claim' = [u \in Tasks |-> claim'[u]]
           /\ \A u \in Tasks : claim'[u] \in {Domain[u], Wider[u]}
           /\ lock'[t] = NoOne
           /\ \A u \in Tasks \ {t} : lock'[u] = lock[u] /\ claim'[u] = claim[u]
<1>1. TaskTypes BY TaskTypesNow
<1>2. QED BY <1>1 DEF TaskTypes, Unlocks

LEMMA LaunchKeeps ==
    ASSUME IInv, NEW s \in Supervisors, NEW t \in Tasks, Launch(s, t)
    PROVE  IInv'
<1>1. /\ slot[s][t].pc = "locked" /\ worker' = worker \cup {t}
      /\ Thread(s, t, "running")
      /\ UNCHANGED <<loop, flock, lock, claim, left, selfRefused>>
  BY DEF Launch
<1>2. PICK q : Moves(s, t, q) /\ q.pc = "running"
  BY <1>1, ThreadForm
<1>3. lock[t] = s BY <1>1 DEF IInv, HoldInv
<1>4. TaskTypes' BY <1>1, <1>3, TaskTypesNow, FlockNow DEF TaskTypes
<1>5. \A r \in Supervisors, u \in Tasks :
         slot'[r][u].pc = "scheduling" <=> flock'.by = r /\ flock'.task = u
  BY <1>1, <1>2, FlockAlone
<1>6. Holds(s, t, q)
  <2>1. Locks(s, t) BY <1>1 DEF Locks
  <2>2. QED BY <1>1, <1>2, <1>3, <1>4, <1>5, <2>1, FlockNow DEF Holds
<1>7. QED BY <1>1, <1>3, <1>6, RunKeeps

LEMMA EndKeeps ==
    ASSUME IInv, NEW s \in Supervisors, NEW t \in Tasks,
           \/ LaunchRefused(s, t) \/ ActivationRefused(s, t)
           \/ \E out \in Endings[t] : Finish(s, t, out)
    PROVE  IInv'
<1>1. PICK out \in Outcomes \cup {"refused"} : Ends(s, t, out)
  <2>1. Endings[t] \subseteq Outcomes BY Assumption DEF Assumption
  <2>2. "raised" \in Outcomes BY DEF Outcomes
  <2>3. QED BY <2>1, <2>2 DEF LaunchRefused, ActivationRefused, Finish
<1>2. /\ slot[s][t].pc \in {"locked", "running"}
      /\ Unlocks(t) \/ UNCHANGED <<lock, claim>>
      /\ UNCHANGED <<loop, flock, selfRefused>>
      /\ IF slot[s][t].pc = "running" THEN worker' = worker \ {t} ELSE worker' = worker
  BY DEF LaunchRefused, ActivationRefused, Finish
<1>3. left' \in [Tasks -> Nat]
  <2>1. left \in [Tasks -> Nat] BY TaskTypesNow DEF TaskTypes
  <2>2. [left EXCEPT ![t] = IF @ = 0 THEN 0 ELSE @ - 1] \in [Tasks -> Nat]
    <3>1. (IF left[t] = 0 THEN 0 ELSE left[t] - 1) \in Nat BY <2>1
    <3>2. QED BY <2>1, <3>1
  <2>3. left' \in {left, [left EXCEPT ![t] = IF @ = 0 THEN 0 ELSE @ - 1]}
    BY DEF LaunchRefused, ActivationRefused, Finish
  <2>4. QED BY <2>1, <2>2, <2>3
<1>4. PICK q : Moves(s, t, q) /\ q.pc = "ended"
  BY <1>1, <1>2, EndForm
<1>5. lock[t] = s BY <1>2 DEF IInv, HoldInv
<1>6. t \notin worker'
  <2>1. CASE slot[s][t].pc = "running" BY <1>2, <2>1
  <2>2. CASE slot[s][t].pc # "running"
    <3>1. Alive(s) BY <1>4, MovesFields
    <3>2. QED BY <1>2, <1>5, <2>2, <3>1, WorkerRuns
  <2>3. QED BY <2>1, <2>2
<1>7. /\ lock' \in [Tasks -> Supervisors \cup {NoOne}]
      /\ claim' = [u \in Tasks |-> claim'[u]]
      /\ \A u \in Tasks : claim'[u] \in {Domain[u], Wider[u]}
      /\ lock'[t] = NoOne \/ (lock'[t] = lock[t] /\ claim'[t] = claim[t])
      /\ \A u \in Tasks \ {t} : lock'[u] = lock[u] /\ claim'[u] = claim[u]
  BY <1>2, UnlocksTypes, TaskTypesNow DEF TaskTypes
<1>8. TaskTypes'
  BY <1>2, <1>3, <1>6, <1>7, TaskTypesNow DEF TaskTypes
<1>9. \A r \in Supervisors, u \in Tasks :
         slot'[r][u].pc = "scheduling" <=> flock'.by = r /\ flock'.task = u
  BY <1>2, <1>4, FlockAlone
<1>10. Holds(s, t, q)
  <2>1. Locks(s, t) BY <1>7 DEF Locks
  <2>2. QED BY <1>2, <1>4, <1>5, <1>6, <1>7, <1>8, <1>9, <2>1, FlockNow DEF Holds
<1>11. QED BY <1>2, <1>5, <1>7, <1>10, RunKeeps

LEMMA ThreadStepKeeps ==
    ASSUME IInv, NEW s \in Supervisors, NEW t \in Tasks, ThreadStep(s, t)
    PROVE  IInv'
<1>1. CASE TakeFlock(s, t) BY <1>1, TakeFlockKeeps
<1>2. CASE FlockTimesOut(s, t) BY <1>2, FlockTimesOutKeeps
<1>3. CASE ConflictRefused(s, t) \/ LockHeld(s, t) BY <1>3, RefusedKeeps
<1>4. CASE ConflictCleared(s, t) BY <1>4, ConflictClearedKeeps
<1>5. CASE Acquire(s, t) BY <1>5, AcquireKeeps
<1>6. CASE Launch(s, t) BY <1>6, LaunchKeeps
<1>7. CASE \/ LaunchRefused(s, t) \/ ActivationRefused(s, t)
           \/ \E out \in Endings[t] : Finish(s, t, out)
  BY <1>7, EndKeeps
<1>8. QED BY <1>1, <1>2, <1>3, <1>4, <1>5, <1>6, <1>7 DEF ThreadStep

-----------------------------------------------------------------------------
(* Widening a scope *)

\* What a widening leaves alone.
Still == UNCHANGED <<loop, slot, lock, worker, left, selfRefused>>

LEMMA StillKeeps ==
    ASSUME IInv, Still,
           flock' \in [by : Supervisors \cup {NoOne}, task : Tasks \cup {NoOne}, cleared : BOOLEAN],
           flock.by = NoOne, flock'.by = NoOne,
           claim' = [u \in Tasks |-> claim'[u]],
           \A u \in Tasks : claim'[u] \in {claim[u], Wider[u]}
    PROVE  /\ TypeOK' /\ SlotInv' /\ HoldInv' /\ CountInv' /\ PairInv' /\ NeverInItsOwnWay'
           /\ \A u \in Tasks : Live(u)' <=> Live(u)
<1>1. TypeOK'
  <2>1. TaskTypes' BY TaskTypesNow DEF TaskTypes, Still
  <2>2. \A r \in Supervisors, u \in Tasks :
           slot'[r][u].pc = "scheduling" <=> flock'.by = r /\ flock'.task = u
    BY FlockNow DEF Still
  <2>3. QED BY <2>1, <2>2 DEF Still, TaskTypes, IInv, TypeOK
<1>2. SlotInv' /\ HoldInv' /\ CountInv' /\ NeverInItsOwnWay'
  BY DEF Still, IInv, SlotInv, HoldInv, CountInv, NeverInItsOwnWay, Alive, InFlight
<1>3. PairInv'
  <2>1. ASSUME NEW r \in Supervisors, NEW u \in Tasks, NEW v \in Tasks,
               u # v, u \in InFlight(r),
               v \in InFlight(r) \/ (lock[v] = r /\ claim'[v] = Domain[v])
        PROVE  Beside(u, v)
    <3>1. v \in InFlight(r) \/ (lock[v] = r /\ claim[v] = Domain[v])
      BY <2>1, TaskTypesNow DEF TaskTypes
    <3>2. QED BY <2>1, <3>1 DEF IInv, PairInv
  <2>2. QED BY <2>1 DEF Still, PairInv, InFlight, Beside
<1>4. \A u \in Tasks : Live(u)' <=> Live(u) BY DEF Still, Live, Alive
<1>5. QED BY <1>1, <1>2, <1>3, <1>4

LEMMA WidenTakesKeeps ==
    ASSUME IInv, NEW t \in Tasks, WidenTakes(t) PROVE IInv'
<1>1. /\ flock = Free /\ flock' = [by |-> NoOne, task |-> t, cleared |-> FALSE]
      /\ claim' = claim /\ Still
  BY DEF WidenTakes, Still
<1>2. /\ TypeOK' /\ SlotInv' /\ HoldInv' /\ CountInv' /\ PairInv' /\ NeverInItsOwnWay'
      /\ \A u \in Tasks : Live(u)' <=> Live(u)
  BY <1>1, StillKeeps, FlockNow, TaskTypesNow DEF TaskTypes
<1>3. Shrinks BY <1>1, <1>2 DEF Shrinks
<1>4. QED BY <1>2, <1>3, ShrinksKeeps DEF IInv

LEMMA WidenFailsKeeps ==
    ASSUME IInv, NEW t \in Tasks, WidenFails(t) PROVE IInv'
<1>1. flock.by = NoOne /\ flock' = Free /\ claim' = claim /\ Still
  BY DEF WidenFails, Widening, Still
<1>2. /\ TypeOK' /\ SlotInv' /\ HoldInv' /\ CountInv' /\ PairInv' /\ NeverInItsOwnWay'
      /\ \A u \in Tasks : Live(u)' <=> Live(u)
  BY <1>1, StillKeeps, FlockNow, TaskTypesNow DEF TaskTypes
<1>3. Shrinks BY <1>1, <1>2, FlockNow DEF Shrinks
<1>4. QED BY <1>2, <1>3, ShrinksKeeps DEF IInv

\* The scope that is cleared is one that no run that may make progress is in.
LEMMA WidenClearedKeeps ==
    ASSUME IInv, NEW t \in Tasks, WidenCleared(t) PROVE IInv'
<1>1. /\ flock.by = NoOne /\ flock.task = t /\ flock' = [flock EXCEPT !.cleared = TRUE]
      /\ claim' = claim /\ Still
      /\ \A d \in Active({t}) : ~Overlap(Wider[t], d)
  BY DEF WidenCleared, Widening, Still
<1>2. /\ flock' \in [by : Supervisors \cup {NoOne}, task : Tasks \cup {NoOne}, cleared : BOOLEAN]
      /\ flock'.by = NoOne /\ flock'.task = t
  BY <1>1, FlockNow
<1>3. /\ TypeOK' /\ SlotInv' /\ HoldInv' /\ CountInv' /\ PairInv' /\ NeverInItsOwnWay'
      /\ \A u \in Tasks : Live(u)' <=> Live(u)
  BY <1>1, <1>2, StillKeeps, TaskTypesNow DEF TaskTypes
<1>4. ClearInv'
  <2>1. \A u \in Tasks \ {t} : Live(u) => claim[u] \in Active({t}) BY DEF Active
  <2>2. QED BY <1>1, <1>2, <1>3, <2>1 DEF ClearInv
<1>5. DomainsDisjoint' BY <1>1, <1>3 DEF IInv, DomainsDisjoint
<1>6. QED BY <1>3, <1>4, <1>5 DEF IInv

LEMMA WidenPublishesKeeps ==
    ASSUME IInv, NEW t \in Tasks, WidenPublishes(t) PROVE IInv'
<1>1. /\ flock.by = NoOne /\ flock.task = t /\ flock.cleared /\ flock' = Free
      /\ claim' = [claim EXCEPT ![t] = Wider[t]] /\ Still
  BY DEF WidenPublishes, Widening, Still
<1>2. /\ claim'[t] = Wider[t] /\ claim' = [u \in Tasks |-> claim'[u]]
      /\ \A u \in Tasks \ {t} : claim'[u] = claim[u]
  BY <1>1, TaskTypesNow DEF TaskTypes
<1>3. /\ TypeOK' /\ SlotInv' /\ HoldInv' /\ CountInv' /\ PairInv' /\ NeverInItsOwnWay'
      /\ \A u \in Tasks : Live(u)' <=> Live(u)
  BY <1>1, <1>2, StillKeeps, FlockNow
<1>4. ClearInv' BY <1>1, FlockNow DEF ClearInv
<1>5. DomainsDisjoint'
  <2>1. ASSUME NEW u \in Tasks \ {t}, Live(u)
        PROVE  ~Overlap(Wider[t], claim[u]) /\ ~Overlap(claim[u], Wider[t])
    BY <1>1, <2>1, OverlapSymmetric DEF IInv, ClearInv
  <2>2. ASSUME NEW u \in Tasks, NEW v \in Tasks, u # v, Live(u), Live(v),
               claim'[u].known \/ claim'[v].known
        PROVE  ~Overlap(claim'[u], claim'[v])
    <3>1. CASE u = t BY <1>2, <2>1, <2>2, <3>1
    <3>2. CASE v = t BY <1>2, <2>1, <2>2, <3>2
    <3>3. CASE u # t /\ v # t
      BY <1>2, <2>2, <3>3 DEF IInv, DomainsDisjoint
    <3>4. QED BY <3>1, <3>2, <3>3
  <2>3. QED BY <1>3, <2>2 DEF DomainsDisjoint
<1>6. QED BY <1>3, <1>4, <1>5 DEF IInv

-----------------------------------------------------------------------------
(* Death and what it leaves behind *)

LEMMA DiesKeeps ==
    ASSUME IInv, NEW s \in Supervisors, Dies(s) PROVE IInv'
<1> DEFINE f == [t \in Tasks |-> NoSlot]
<1>1. /\ loop' = [loop EXCEPT ![s] = Gone] /\ slot' = [slot EXCEPT ![s] = f]
      /\ flock' = IF flock.by = s THEN Free ELSE flock
      /\ UNCHANGED <<lock, claim, worker, left, selfRefused>>
  BY DEF Dies
<1>2. loop \in [Supervisors -> LoopType] /\ slot \in [Supervisors -> [Tasks -> SlotType]]
  BY DEF IInv, TypeOK, LoopType, SlotType
<1>3. /\ loop'[s] = Gone /\ slot'[s] = f
      /\ \A r \in Supervisors \ {s} : loop'[r] = loop[r] /\ slot'[r] = slot[r]
  BY <1>1, <1>2
<1>4. f \in [Tasks -> SlotType] /\ \A t \in Tasks : f[t].pc = "none"
  BY FreshType DEF NoSlot
<1> HIDE DEF f
<1>5. /\ Gone.pc = "over" /\ Gone.attempt = 0 /\ Gone.completed = 0
      /\ Gone.results = 0 /\ Gone.recoveries = 0
  BY DEF Gone, Fresh
<1>6. loop' \in [Supervisors -> LoopType] /\ slot' \in [Supervisors -> [Tasks -> SlotType]]
  BY <1>1, <1>2, <1>4, FreshType
<1>7. ~Alive(s)' /\ \A r \in Supervisors : Alive(r)' => Alive(r)
  BY <1>3, <1>5 DEF Alive
<1>8. TypeOK'
  <2>1. \A r \in Supervisors : loop'[r].attempt <= MaxRestarts[r]
    <3>1. MaxRestarts[s] \in Nat BY Assumption DEF Assumption
    <3>2. loop'[s].attempt <= MaxRestarts[s] BY <1>3, <1>5, <3>1
    <3>3. \A r \in Supervisors : loop[r].attempt <= MaxRestarts[r] BY DEF IInv, TypeOK
    <3>4. QED BY <1>3, <3>2, <3>3
  <2>2. \A r \in Supervisors, u \in Tasks :
           slot'[r][u].pc = "scheduling" <=> flock'.by = r /\ flock'.task = u
    <3>1. ASSUME NEW u \in Tasks
          PROVE  slot'[s][u].pc = "scheduling" <=> flock'.by = s /\ flock'.task = u
      BY <1>1, <1>3, <1>4, FlockNow
    <3>2. ASSUME NEW r \in Supervisors \ {s}, NEW u \in Tasks
          PROVE  slot'[r][u].pc = "scheduling" <=> flock'.by = r /\ flock'.task = u
      BY <1>1, <1>3, FlockNow
    <3>3. QED BY <3>1, <3>2
  <2>3. flock' \in [by : Supervisors \cup {NoOne}, task : Tasks \cup {NoOne}, cleared : BOOLEAN]
    BY <1>1, FlockNow
  <2>4. TaskTypes' BY <1>1, TaskTypesNow DEF TaskTypes
  <2>5. QED BY <1>6, <2>1, <2>2, <2>3, <2>4 DEF TaskTypes, TypeOK, LoopType, SlotType
<1>9. SlotInv'
  <2>1. ASSUME NEW r \in Supervisors \ {s}
        PROVE  Alive(r)' <=> Alive(r)
    BY <1>3 DEF Alive
  <2>2. QED BY <1>3, <1>4, <1>5, <2>1 DEF IInv, SlotInv
<1>10. HoldInv'
  <2>1. ASSUME NEW r \in Supervisors, NEW u \in Tasks, slot'[r][u].pc \in {"locked", "running"}
        PROVE  lock[u] = r
    BY <1>3, <1>4, <2>1 DEF IInv, HoldInv
  <2>2. ASSUME NEW u \in worker, Alive(lock[u])' PROVE slot'[lock[u]][u].pc = "running"
    <3>1. u \in Tasks /\ lock[u] \in Supervisors BY DEF IInv, TypeOK
    <3>2. lock[u] # s /\ Alive(lock[u])
      BY <1>1, <1>3, <1>5, <2>2, <3>1 DEF Alive
    <3>3. slot[lock[u]][u].pc = "running" BY <3>1, <3>2, WorkerRuns
    <3>4. QED BY <1>3, <3>1, <3>2, <3>3
  <2>3. QED BY <1>1, <2>1, <2>2 DEF HoldInv, Alive
<1>11. Shrinks
  <2>1. ASSUME NEW u \in Tasks, Live(u)' PROVE Live(u)
    <3>1. lock[u] \in Supervisors BY <1>1, <2>1 DEF Live, IInv, TypeOK
    <3>2. QED BY <1>1, <1>7, <2>1, <3>1 DEF Live, Alive
  <2>2. QED BY <1>1, <2>1, FlockNow DEF Shrinks
<1>12. \A r \in Supervisors : InFlight(r)' = IF r = s THEN {} ELSE InFlight(r)
  BY <1>3, <1>4 DEF InFlight
<1>13. CountInv'
  <2>1. Cardinality(InFlight(s)') = 0 /\ Cardinality(InFlight(s)' \ {Gone.task}) = 0
    <3>1. InFlight(s)' = {} /\ InFlight(s)' \ {Gone.task} = {} BY <1>12
    <3>2. QED BY <3>1, FS_EmptySet
  <2>2. /\ Bound(loop'[s].completed + Cardinality(InFlight(s)'), MaxTasks[s])
        /\ Bound(loop'[s].results - loop'[s].recoveries
                 + Cardinality(InFlight(s)' \ {loop'[s].task}), MaxSlices[s])
    BY <1>3, <1>5, <2>1, Assumption DEF Bound, Assumption
  <2>3. QED BY <1>3, <1>12, <2>2 DEF IInv, CountInv
<1>14. PairInv' BY <1>1, <1>12 DEF IInv, PairInv, Beside
<1>15. NeverInItsOwnWay' BY <1>1 DEF IInv, NeverInItsOwnWay
<1>16. QED BY <1>8, <1>9, <1>10, <1>11, <1>13, <1>14, <1>15, ShrinksKeeps DEF IInv

LEMMA OrphanEndsKeeps ==
    ASSUME IInv, NEW t \in Tasks, OrphanEnds(t) PROVE IInv'
<1>1. worker' = worker \ {t} /\ UNCHANGED <<loop, slot, flock, lock, claim, left, selfRefused>>
  BY DEF OrphanEnds
<1>2. TypeOK' BY <1>1 DEF IInv, TypeOK
<1>3. SlotInv' /\ HoldInv' /\ CountInv' /\ NeverInItsOwnWay'
  BY <1>1 DEF IInv, SlotInv, HoldInv, CountInv, NeverInItsOwnWay, Alive, InFlight
<1>4. PairInv' BY <1>1 DEF IInv, PairInv, InFlight, Beside
<1>5. Shrinks BY <1>1 DEF Shrinks, Live, Alive
<1>6. QED BY <1>2, <1>3, <1>4, <1>5, ShrinksKeeps DEF IInv

LEMMA RecoverLockKeeps ==
    ASSUME IInv, NEW t \in Tasks, RecoverLock(t) PROVE IInv'
<1>1. /\ lock[t] # NoOne /\ ~Live(t) /\ Unlocks(t)
      /\ UNCHANGED <<loop, slot, flock, worker, left, selfRefused>>
  BY DEF RecoverLock
<1>2. lock[t] \in Supervisors /\ ~Alive(lock[t]) /\ t \notin worker
  BY <1>1 DEF Live, IInv, TypeOK
<1>3. TypeOK'
  <2>1. TaskTypes' BY <1>1, <1>2, UnlocksTypes, TaskTypesNow DEF TaskTypes
  <2>2. QED BY <1>1, <2>1 DEF TaskTypes, IInv, TypeOK
<1>4. SlotInv' /\ CountInv' /\ NeverInItsOwnWay'
  BY <1>1 DEF IInv, SlotInv, CountInv, NeverInItsOwnWay, Alive, InFlight
<1>5. HoldInv'
  <2>1. ASSUME NEW r \in Supervisors, NEW u \in Tasks, slot[r][u].pc \in {"locked", "running"}
        PROVE  lock'[u] = r
    <3>1. lock[u] = r /\ Alive(r) BY <2>1 DEF IInv, HoldInv, SlotInv
    <3>2. u # t BY <1>2, <3>1
    <3>3. QED BY <1>1, <3>1, <3>2, UnlocksTypes
  <2>2. ASSUME NEW u \in worker, Alive(lock'[u]) PROVE slot[lock'[u]][u].pc = "running"
    <3>1. u \in Tasks /\ u # t BY <1>2 DEF IInv, TypeOK
    <3>2. lock'[u] = lock[u] BY <1>1, <3>1, UnlocksTypes
    <3>3. QED BY <2>2, <3>2 DEF IInv, HoldInv
  <2>3. QED BY <1>1, <2>1, <2>2 DEF HoldInv, Alive
<1>6. PairInv'
  <2>1. \A u \in Tasks : lock'[u] # NoOne => lock'[u] = lock[u] /\ claim'[u] = claim[u]
    BY <1>1, UnlocksTypes
  <2>2. \A r \in Supervisors : r # NoOne /\ InFlight(r)' = InFlight(r)
    BY <1>1, FlockNow DEF InFlight
  <2>3. QED BY <2>1, <2>2 DEF IInv, PairInv, Beside
<1>7. Shrinks
  <2>1. \A u \in Tasks : Live(u)' => u # t BY <1>1, UnlocksTypes DEF Live
  <2>2. QED BY <1>1, <2>1, UnlocksTypes DEF Shrinks, Live, Alive
<1>8. QED BY <1>3, <1>4, <1>5, <1>6, <1>7, ShrinksKeeps DEF IInv

-----------------------------------------------------------------------------
(* The theorems *)

LEMMA Initially == Init => IInv
<1> SUFFICES ASSUME Init PROVE IInv OBVIOUS
<1>1. /\ loop = [s \in Supervisors |-> Fresh]
      /\ slot = [s \in Supervisors |-> [t \in Tasks |-> NoSlot]]
      /\ flock = Free /\ lock = [t \in Tasks |-> NoOne]
      /\ claim = [t \in Tasks |-> Domain[t]]
      /\ worker = {} /\ left = Slices /\ selfRefused = FALSE
  BY DEF Init
<1>2. /\ Fresh.pc = "loop" /\ Fresh.task = NoOne /\ Fresh.attempt = 0
      /\ Fresh.completed = 0 /\ Fresh.results = 0 /\ Fresh.recoveries = 0
  BY DEF Fresh
<1>3. NoSlot.pc = "none" BY DEF NoSlot
<1>4. Free.by = NoOne /\ Free.task = NoOne /\ Free.cleared = FALSE
  BY DEF Free
<1>5. NoOne \notin Supervisors /\ NoOne \notin Tasks BY Assumption DEF Assumption
<1>6. TypeOK
  <2>1. loop \in [Supervisors -> LoopType] /\ slot \in [Supervisors -> [Tasks -> SlotType]]
    BY <1>1, FreshType
  <2>2. \A s \in Supervisors : loop[s].attempt <= MaxRestarts[s]
    BY <1>1, <1>2, Assumption DEF Assumption
  <2>3. flock \in [by : Supervisors \cup {NoOne}, task : Tasks \cup {NoOne}, cleared : BOOLEAN]
    BY <1>1 DEF Free
  <2>4. \A s \in Supervisors, t \in Tasks :
           slot[s][t].pc = "scheduling" <=> flock.by = s /\ flock.task = t
    BY <1>1, <1>3, <1>4, <1>5
  <2>5. left \in [Tasks -> Nat] BY <1>1, Assumption DEF Assumption
  <2>6. QED BY <1>1, <2>1, <2>2, <2>3, <2>4, <2>5 DEF TypeOK, LoopType, SlotType
<1>7. SlotInv BY <1>1, <1>2, <1>3 DEF SlotInv
<1>8. HoldInv BY <1>1, <1>3 DEF HoldInv
<1>9. ClearInv BY <1>1, <1>4 DEF ClearInv
<1>10. DomainsDisjoint BY <1>1 DEF DomainsDisjoint, Live
<1>11. \A s \in Supervisors : InFlight(s) = {} BY <1>1, <1>3 DEF InFlight
<1>12. CountInv
  <2>1. ASSUME NEW s \in Supervisors
        PROVE  Cardinality(InFlight(s)) = 0 /\ Cardinality(InFlight(s) \ {loop[s].task}) = 0
    <3>1. InFlight(s) = {} /\ InFlight(s) \ {loop[s].task} = {} BY <1>11
    <3>2. QED BY <3>1, FS_EmptySet
  <2>2. ASSUME NEW s \in Supervisors
        PROVE  /\ Bound(loop[s].completed + Cardinality(InFlight(s)), MaxTasks[s])
               /\ Bound(loop[s].results - loop[s].recoveries
                        + Cardinality(InFlight(s) \ {loop[s].task}), MaxSlices[s])
    <3>1. MaxTasks[s] \in Nat /\ MaxSlices[s] \in Nat BY Assumption DEF Assumption
    <3>2. loop[s] = Fresh BY <1>1
    <3>3. QED BY <1>2, <2>1, <3>1, <3>2 DEF Bound
  <2>3. QED BY <2>2 DEF CountInv
<1>13. PairInv BY <1>11 DEF PairInv
<1>14. QED BY <1>1, <1>6, <1>7, <1>8, <1>9, <1>10, <1>12, <1>13 DEF IInv, NeverInItsOwnWay

LEMMA NextKeeps == IInv /\ [Next]_vars => IInv'
<1> SUFFICES ASSUME IInv, [Next]_vars PROVE IInv' OBVIOUS
<1>1. CASE UNCHANGED vars
  <2>1. TypeOK' BY <1>1 DEF vars, IInv, TypeOK
  <2>2. SlotInv' /\ HoldInv' /\ CountInv' /\ NeverInItsOwnWay'
    BY <1>1 DEF vars, IInv, SlotInv, HoldInv, CountInv, NeverInItsOwnWay, Alive, InFlight
  <2>3. PairInv' BY <1>1 DEF vars, IInv, PairInv, InFlight, Beside
  <2>4. ClearInv' BY <1>1 DEF vars, IInv, ClearInv, Live, Alive
  <2>5. DomainsDisjoint' BY <1>1 DEF vars, IInv, DomainsDisjoint, Live, Alive
  <2>6. QED BY <2>1, <2>2, <2>3, <2>4, <2>5 DEF IInv
<1>2. ASSUME NEW s \in Supervisors, Step(s) PROVE IInv'
  BY <1>2, LoopStepKeeps, ThreadStepKeeps DEF Step
<1>3. ASSUME NEW s \in Supervisors, Dies(s) PROVE IInv' BY <1>3, DiesKeeps
<1>4. ASSUME NEW t \in Tasks,
             WidenTakes(t) \/ WidenStep(t) \/ OrphanEnds(t) \/ RecoverLock(t)
      PROVE  IInv'
  BY <1>4, WidenTakesKeeps, WidenClearedKeeps, WidenPublishesKeeps, WidenFailsKeeps,
     OrphanEndsKeeps, RecoverLockKeeps DEF WidenStep
<1>5. QED BY <1>1, <1>2, <1>3, <1>4 DEF Next

THEOREM Invariant == Spec => []IInv
  BY Initially, NextKeeps, PTL DEF Spec

\* Every variable has its type, the scheduler lock is held by the thread that
\* schedules, or for a widening, and every worker's task is locked.
THEOREM TypeCorrect == Spec => []TypeOK
<1>1. IInv => TypeOK BY DEF IInv
<1>2. QED BY <1>1, Invariant, PTL

\* Whoever schedules, widens, dies or recovers a lock: two runs that may still
\* make progress have no domain in common, if one of them declares any.
THEOREM DisjointKept == Spec => []DomainsDisjoint
<1>1. IInv => DomainsDisjoint BY DEF IInv
<1>2. QED BY <1>1, Invariant, PTL

\* In whatever order its futures end, an invocation keeps to --max-tasks and
\* --max-slices.
THEOREM LimitsHeld == Spec => []LimitsKept
<1>1. IInv => LimitsKept
  <2>1. SUFFICES ASSUME IInv, NEW s \in Supervisors
                 PROVE  Bound(loop[s].completed, MaxTasks[s])
    BY DEF IInv, CountInv, LimitsKept
  <2>2. Bound(loop[s].completed + Cardinality(InFlight(s)), MaxTasks[s])
    BY <2>1 DEF IInv, CountInv
  <2>3. Cardinality(InFlight(s)) \in Nat /\ loop[s] \in LoopType
    BY <2>1, SoundNow, FlightsFinite DEF Sound
  <2>4. loop[s].completed \in Nat /\ MaxTasks[s] \in Nat
    BY <2>3, Assumption DEF LoopType, Assumption
  <2>5. QED BY <2>2, <2>3, <2>4, BoundDown
<1>2. QED BY <1>1, Invariant, PTL

\* The lock step never refuses a task for another of its own invocation alone,
\* unless neither declares a domain or the other's scope was widened.
THEOREM NeverSelfRefused == Spec => []NeverInItsOwnWay
<1>1. IInv => NeverInItsOwnWay BY DEF IInv
<1>2. QED BY <1>1, Invariant, PTL

=============================================================================
