--------------------------- MODULE AutopilotStop ---------------------------
(***************************************************************************)
(* The processes of an autopilot: detached supervisors that hold the       *)
(* singleton lock one at a time, the run-until-done children they launch,  *)
(* the guarded worker of each child, and the operator commands that start, *)
(* stop and recover a supervisor (autopilot.py, worker_guard.py, and the   *)
(* launch of a worker in runner.py).                                       *)
(*                                                                         *)
(* A process is identified by its birth, never by its pid: every member of *)
(* Supervisors, Children and Workers is one process that is born at most   *)
(* once. The pid of one that is gone may be taken by a stranger, a process *)
(* this installation never started; `strangers' is the set of those pids.  *)
(* A worker stands for its guard and the tree the guard contains, and a    *)
(* child runs one task, on one worker.                                     *)
(***************************************************************************)
EXTENDS Naturals, FiniteSets, Sequences

CONSTANTS
    Supervisors,    \* runs of the autopilot, each one detached process
    Children,       \* run-until-done processes
    Stoppers,       \* invocations of `autopilot stop'
    Mortal,         \* the processes that may be killed from outside
    Reusable,       \* the processes whose pid a stranger may take once they are gone
    NoOne

ASSUME AutopilotAssumption ==
    /\ IsFiniteSet(Supervisors) /\ IsFiniteSet(Children)
    /\ Supervisors \cap Children = {}
    /\ NoOne \notin Supervisors \cup Children

VARIABLES
    sup,        \* sup[s]: where supervisor s is, and whether it is frozen or signalled
    starter,    \* starter[s]: the `autopilot start' that launched s
    child,      \* child[k]: state of the process k
    worker,     \* worker[k]: state of the worker of k
    strangers,  \* processes that are gone and whose pid a stranger has
    hit,        \* a signal reached a stranger
    singleton,  \* holder of the supervisor lock
    started,    \* supervisors with an autopilot_supervisor_started record
    childRec,   \* childRec[s]: the autopilot_child_started records of s
    announced,  \* children with a run_supervisor_started record and no exit record
    lock,       \* lock[k]: the task lock of the run of k
    result,     \* result[k]: the report or the result on record for that run
    stop        \* stop[o]: the progress of the stop command o

procs == <<sup, starter, child, worker, strangers, hit>>
records == <<singleton, started, childRec, announced, lock, result>>
vars == <<procs, records, stop>>

---------------------------------------------------------------------------
(* Processes. *)

\* A supervisor runs from its launch to its exit; the loop is the part of
\* that in which it dispatches.
Running(s) == sup[s].pc \notin {"off", "gone"}
InLoop(s) == sup[s].pc \in {"cycle", "launched", "waiting"}

\* The processes of this model, each with a role.
Sup(s) == <<"supervisor", s>>
Child(k) == <<"child", k>>
Worker(k) == <<"worker", k>>
Procs == {Sup(s) : s \in Supervisors} \cup {Child(k) : k \in Children}
             \cup {Worker(k) : k \in Children}

Alive(p) ==
    CASE p[1] = "supervisor" -> Running(p[2])
      [] p[1] = "child" -> child[p[2]] = "live"
      [] p[1] = "worker" -> worker[p[2]] \in {"gated", "working"}

Born(p) ==
    CASE p[1] = "supervisor" -> sup[p[2]].pc # "off"
      [] p[1] = "child" -> child[p[2]] # "none"
      [] p[1] = "worker" -> worker[p[2]] # "none"

\* A dead child stays a zombie, with its pid and its birth, while the
\* supervisor that waits for it has not collected it.
Zombie(p) ==
    /\ p[1] = "child" /\ Born(p) /\ ~Alive(p)
    /\ \E s \in Supervisors : Running(s) /\ sup[s].kid = p[2]

\* pid_exists looks at the pid alone; the birth identity tells the process.
BirthMatches(p) == Alive(p) \/ Zombie(p)
PidExists(p) == BirthMatches(p) \/ p \in strangers

Recycle(p) ==
    /\ p \in Reusable /\ p \notin strangers
    /\ Born(p) /\ ~Alive(p) /\ ~Zombie(p)
    /\ strangers' = strangers \cup {p}
    /\ UNCHANGED <<sup, starter, child, worker, hit, records, stop>>

---------------------------------------------------------------------------
(* The supervisor: run_autopilot. *)

NotBorn == [pc |-> "off", kid |-> NoOne, frozen |-> FALSE, term |-> FALSE]
Idle == [pc |-> "idle", target |-> NoOne, pass |-> 1, seen |-> {}, roots |-> {},
         fds |-> {}, kin |-> {}, wrong |-> FALSE, owned |-> {}, quiesced |-> FALSE]

Init ==
    /\ sup = [s \in Supervisors |-> NotBorn]
    /\ starter = [s \in Supervisors |-> "none"]
    /\ child = [k \in Children |-> "none"]
    /\ worker = [k \in Children |-> "none"]
    /\ strangers = {}
    /\ hit = FALSE
    /\ singleton = NoOne
    /\ started = {}
    /\ childRec = [s \in Supervisors |-> <<>>]
    /\ announced = {}
    /\ lock = [k \in Children |-> "free"]
    /\ result = [k \in Children |-> "none"]
    /\ stop = [o \in Stoppers |-> Idle]

Step(s, pc) == sup' = [sup EXCEPT ![s].pc = pc]
Gone(s) == sup' = [sup EXCEPT ![s] = [NotBorn EXCEPT !.pc = "gone"]]

\* A frozen process takes no step; a pending termination is delivered before
\* the next one once the handlers are enabled.
MaySup(s, pc) == sup[s].pc = pc /\ ~sup[s].frozen
Undisturbed(s, pc) == MaySup(s, pc) /\ ~sup[s].term

\* The supervisor looks at the lock and then acquires it; both refuse when it
\* is held, whoever holds it and however stale it is.
BootRefused(s) ==
    /\ MaySup(s, "booting") /\ singleton # NoOne
    /\ Gone(s)
    /\ UNCHANGED <<starter, child, worker, strangers, hit, records, stop>>

BootAcquires(s) ==
    /\ MaySup(s, "booting") /\ singleton = NoOne
    /\ singleton' = s
    /\ Step(s, "holding")
    /\ UNCHANGED <<starter, child, worker, strangers, hit,
                   started, childRec, announced, lock, result, stop>>

\* The termination handlers are enabled, and a signal that came before is
\* delivered, ahead of the started record.
Enable(s) ==
    /\ MaySup(s, "holding")
    /\ IF sup[s].term
       THEN Step(s, "unwinding") /\ UNCHANGED started
       ELSE Step(s, "cycle") /\ started' = started \cup {s}
    /\ UNCHANGED <<starter, child, worker, strangers, hit,
                   singleton, childRec, announced, lock, result, stop>>

\* collect_external_run_supervisor: the newest record of a pid decides, and
\* the pid need only exist.
ExternalRuns == \E k \in announced : PidExists(Child(k))

\* Mutant: the supervisor forgets which child it waits for.
LaunchChild_Forgotten(s, k) ==
    /\ Undisturbed(s, "cycle") /\ child[k] = "none" /\ ~ExternalRuns
    /\ child' = [child EXCEPT ![k] = "live"]
    /\ Step(s, "launched")
    /\ UNCHANGED <<starter, worker, strangers, hit, records, stop>>

\* launch_run_until_done: the child runs before it is recorded by on_start.
LaunchChild(s, k) ==
    /\ Undisturbed(s, "cycle") /\ child[k] = "none" /\ ~ExternalRuns
    /\ child' = [child EXCEPT ![k] = "live"]
    /\ sup' = [sup EXCEPT ![s].pc = "launched", ![s].kid = k]
    /\ UNCHANGED <<starter, worker, strangers, hit, records, stop>>

RecordChild(s) ==
    /\ Undisturbed(s, "launched")
    /\ childRec' = [childRec EXCEPT ![s] = Append(@, sup[s].kid)]
    /\ Step(s, "waiting")
    /\ UNCHANGED <<starter, child, worker, strangers, hit,
                   singleton, started, announced, lock, result, stop>>

CollectChild(s) ==
    /\ Undisturbed(s, "waiting") /\ child[sup[s].kid] = "dead"
    /\ sup' = [sup EXCEPT ![s].pc = "cycle", ![s].kid = NoOne]
    /\ UNCHANGED <<starter, child, worker, strangers, hit, records, stop>>

\* A bound or an idle cycle in drain mode ends the loop.
LoopEnds(s) ==
    /\ Undisturbed(s, "cycle")
    /\ Step(s, "finishing")
    /\ UNCHANGED <<starter, child, worker, strangers, hit, records, stop>>

\* AutopilotTerminationRequested is raised wherever the supervisor is. Only
\* process.wait has a handler that terminates the child; raised on the way to
\* it, or in the cleanup of a loop that ended by itself, it takes the rest of
\* that code with it.
TermDelivered(s) ==
    /\ ~sup[s].frozen /\ sup[s].term
    /\ sup[s].pc \in {"cycle", "launched", "waiting", "finishing"}
    /\ sup' = [sup EXCEPT ![s].pc = IF @ = "finishing" THEN "gone" ELSE "unwinding",
                          ![s].kid = NoOne]
    /\ child' = IF sup[s].pc = "waiting"
                THEN [child EXCEPT ![sup[s].kid] = "dead"] ELSE child
    /\ UNCHANGED <<starter, worker, strangers, hit, records, stop>>

\* release_autopilot: the lock is released by its own run only.
ReleaseSingleton(s) ==
    /\ sup[s].pc \in {"finishing", "unwinding"} /\ ~sup[s].frozen
    /\ sup[s].pc = "finishing" => ~sup[s].term
    /\ singleton' = IF singleton = s THEN NoOne ELSE singleton
    /\ Gone(s)
    /\ UNCHANGED <<starter, child, worker, strangers, hit,
                   started, childRec, announced, lock, result, stop>>

\* A supervisor is killed and releases nothing.
SupervisorKilled(s) ==
    /\ s \in Mortal /\ Running(s)
    /\ Gone(s)
    /\ UNCHANGED <<starter, child, worker, strangers, hit, records, stop>>

SupervisorStep(s) ==
    \/ BootRefused(s) \/ BootAcquires(s) \/ Enable(s)
    \/ \E k \in Children : LaunchChild(s, k)
    \/ RecordChild(s) \/ CollectChild(s) \/ LoopEnds(s)
    \/ TermDelivered(s) \/ ReleaseSingleton(s)

---------------------------------------------------------------------------
(* `autopilot start': start_detached_autopilot. *)

Starter(s, state) == starter' = [starter EXCEPT ![s] = state]

\* An existing lock, whatever its state, is not started over.
StartDetached(s) ==
    /\ starter[s] = "none" /\ sup[s].pc = "off" /\ singleton = NoOne
    /\ Starter(s, "verifying") /\ Step(s, "booting")
    /\ UNCHANGED <<child, worker, strangers, hit, records, stop>>

\* The lock names the child and the child has recorded that its handlers are
\* live.
StartVerified(s) ==
    /\ starter[s] = "verifying"
    /\ singleton = s /\ s \in started /\ Running(s)
    /\ Starter(s, "done")
    /\ UNCHANGED <<sup, child, worker, strangers, hit, records, stop>>

\* The candidate exited, another one holds the lock, or the time is up: the
\* candidate is interrupted. Before its handlers are installed that kills it.
StartUnverified(s) ==
    /\ starter[s] = "verifying"
    /\ Starter(s, "cleaning")
    /\ sup' = IF ~Running(s) THEN sup
              ELSE IF sup[s].pc = "booting"
                   THEN [sup EXCEPT ![s] = [NotBorn EXCEPT !.pc = "gone"]]
                   ELSE [sup EXCEPT ![s].term = TRUE]
    /\ UNCHANGED <<child, worker, strangers, hit, records, stop>>

\* cleanup_detached_candidate kills what did not exit in time.
CandidateKilled(s) ==
    /\ starter[s] = "cleaning" /\ Running(s)
    /\ Gone(s)
    /\ UNCHANGED <<starter, child, worker, strangers, hit, records, stop>>

\* Mutant: the lock is released while the candidate still unwinds.
CandidateCleaned_Early(s) ==
    /\ starter[s] = "cleaning"
    /\ Starter(s, "done")
    /\ singleton' = IF singleton = s THEN NoOne ELSE singleton
    /\ UNCHANGED <<sup, child, worker, strangers, hit,
                   started, childRec, announced, lock, result, stop>>

\* and releases the lock the candidate left behind.
CandidateCleaned(s) ==
    /\ starter[s] = "cleaning" /\ ~Running(s)
    /\ Starter(s, "done")
    /\ singleton' = IF singleton = s THEN NoOne ELSE singleton
    /\ UNCHANGED <<sup, child, worker, strangers, hit,
                   started, childRec, announced, lock, result, stop>>

StarterStep(s) ==
    \/ StartVerified(s) \/ StartUnverified(s)
    \/ CandidateKilled(s) \/ CandidateCleaned(s)

---------------------------------------------------------------------------
(* The child, run-until-done, and its worker. The child has no handler for  *)
(* SIGTERM: one that is signalled is dead.                                  *)

Live(k) == child[k] = "live"
Lock(k, state) == lock' = [lock EXCEPT ![k] = state]

\* run_until_done appends its run_supervisor_started record before all else.
Announce(k) ==
    /\ Live(k) /\ k \notin announced
    /\ announced' = announced \cup {k}
    /\ UNCHANGED <<procs, singleton, started, childRec, lock, result, stop>>

\* The task is locked, and run_streaming_command starts the guard, which waits
\* at the launch gate.
StartGuard(k) ==
    /\ Live(k) /\ k \in announced /\ lock[k] = "free"
    /\ Lock(k, "held")
    /\ worker' = [worker EXCEPT ![k] = "gated"]
    /\ UNCHANGED <<sup, starter, child, strangers, hit,
                   singleton, started, childRec, announced, result, stop>>

\* record_worker_pid writes the worker's pid and birth to the task lock.
PublishWorker(k) ==
    /\ Live(k) /\ lock[k] = "held"
    /\ Lock(k, "identified")
    /\ UNCHANGED <<procs, singleton, started, childRec, announced, result, stop>>

\* Then the gate opens and the guard runs the command.
OpenGate(k) ==
    /\ Live(k) /\ lock[k] = "identified" /\ worker[k] = "gated"
    /\ worker' = [worker EXCEPT ![k] = "working"]
    /\ UNCHANGED <<sup, starter, child, strangers, hit, records, stop>>

\* A guard whose parent is gone reads the end of the gate.
GuardSeesEof(k) ==
    /\ worker[k] = "gated" /\ ~Live(k)
    /\ worker' = [worker EXCEPT ![k] = "dead"]
    /\ UNCHANGED <<sup, starter, child, strangers, hit, records, stop>>

\* The command ends, by itself or by a signal it was sent.
WorkerEnds(k) ==
    /\ worker[k] = "working"
    /\ worker' = [worker EXCEPT ![k] = "dead"]
    /\ UNCHANGED <<sup, starter, child, strangers, hit, records, stop>>

WorkerReports(k) ==
    /\ worker[k] = "working" /\ result[k] = "none"
    /\ result' = [result EXCEPT ![k] = "reported"]
    /\ UNCHANGED <<procs, singleton, started, childRec, announced, lock, stop>>

\* The result is recorded and the lock is released, unless the settlement of
\* the task fails; without a report it may be unknown, which is not terminal.
RecordResult(k) ==
    /\ Live(k) /\ lock[k] = "identified" /\ worker[k] = "dead"
    /\ \/ result[k] \in {"none", "reported"} /\ result' = [result EXCEPT ![k] = "final"]
       \/ result[k] = "none" /\ result' = [result EXCEPT ![k] = "unknown"]
    /\ UNCHANGED <<procs, singleton, started, childRec, announced, lock, stop>>

ReleaseTask(k) ==
    /\ Live(k) /\ lock[k] = "identified" /\ result[k] \in {"final", "unknown"}
    /\ Lock(k, "released")
    /\ UNCHANGED <<procs, singleton, started, childRec, announced, result, stop>>

ChildExits(k) ==
    /\ Live(k) /\ k \in announced
    /\ lock[k] \in {"free", "released"} \/ result[k] \in {"final", "unknown"}
    /\ child' = [child EXCEPT ![k] = "dead"]
    /\ announced' = announced \ {k}
    /\ UNCHANGED <<sup, starter, worker, strangers, hit,
                   singleton, started, childRec, lock, result, stop>>

ChildKilled(k) ==
    /\ k \in Mortal /\ Live(k)
    /\ child' = [child EXCEPT ![k] = "dead"]
    /\ UNCHANGED <<sup, starter, worker, strangers, hit, records, stop>>

ChildStep(k) ==
    \/ Announce(k) \/ StartGuard(k) \/ PublishWorker(k)
    \/ OpenGate(k) \/ GuardSeesEof(k) \/ WorkerReports(k) \/ WorkerEnds(k)
    \/ RecordResult(k) \/ ReleaseTask(k) \/ ChildExits(k)

---------------------------------------------------------------------------
(* `autopilot stop': stop_detached_autopilot. *)

At(o, pc) == stop[o].pc = pc
Target(o) == stop[o].target
Goto(o, pc) == stop' = [stop EXCEPT ![o].pc = pc]

\* Every return after the supervisor was frozen and before it was sent its
\* SIGTERM resumes it.
Freezes(o) == stop[o].quiesced /\ stop[o].pc \in {"signalling", "leaves", "draining",
                  "rescanning", "rooted", "opening", "ending", "killed"}

\* Mutant: a stop that is refused leaves the supervisor frozen.
Blocked_NoResume(o) ==
    /\ stop' = [stop EXCEPT ![o] = [Idle EXCEPT !.pc = "blocked"]]
    /\ UNCHANGED sup

Blocked(o) ==
    /\ stop' = [stop EXCEPT ![o] = [Idle EXCEPT !.pc = "blocked"]]
    /\ sup' = IF Freezes(o)
              THEN [sup EXCEPT ![Target(o)].frozen = FALSE] ELSE sup

\* The lock is read; a holder whose pid exists is to be stopped, one without
\* is a matter of stale recovery. The holder must have a started record.
StopLooks(o) ==
    /\ At(o, "idle") /\ singleton # NoOne
    /\ stop' = [stop EXCEPT ![o].target = singleton,
                            ![o].pc = IF ~PidExists(Sup(singleton)) THEN "recovering"
                                      ELSE IF singleton \in started THEN "found"
                                      ELSE "blocked"]
    /\ UNCHANGED <<procs, records>>

\* The pidfd pins whatever has the pid, and the birth is compared after that.
OpenSupervisor(o) ==
    /\ At(o, "found")
    /\ Goto(o, IF BirthMatches(Sup(Target(o))) THEN "opened" ELSE "blocked")
    /\ UNCHANGED <<procs, records>>

\* The children the run recorded, the last of them, and the workers that a
\* task lock names and whose pid exists.
Recorded(s) == {childRec[s][i] : i \in DOMAIN childRec[s]}
LastChild(s) ==
    {k \in Recorded(s) : k = childRec[s][Len(childRec[s])] /\ PidExists(Child(k))}
Identified == {k \in Children : lock[k] = "identified" /\ PidExists(Worker(k))}

\* collect_owned_stop_roots refuses when a process it would have to signal
\* cannot be told by its birth, or a live worker belongs to no recorded child.
RootsRefused(s) ==
    \/ \E k \in LastChild(s) : ~BirthMatches(Child(k))
    \/ \E k \in Identified : k \notin Recorded(s) \/ ~BirthMatches(Worker(k))

RootsOf(s) == {Child(k) : k \in LastChild(s)} \cup {Worker(k) : k \in Identified}

\* The first look and the second one, after the supervisor was frozen.
Looking(o) == At(o, "opened") \/ At(o, "rescanning")

CollectRoots(o) ==
    /\ Looking(o)
    /\ IF RootsRefused(Target(o))
       THEN Blocked(o)
       ELSE /\ stop' = [stop EXCEPT
                   ![o].roots = RootsOf(Target(o)),
                   ![o].seen = IF At(o, "opened") THEN Recorded(Target(o)) ELSE @,
                   ![o].pass = IF At(o, "opened") THEN 1 ELSE 2,
                   ![o].pc = IF RootsOf(Target(o)) # {} THEN "rooted"
                             ELSE IF At(o, "opened") THEN "quiescing" ELSE "ending"]
            /\ UNCHANGED sup
    /\ UNCHANGED <<starter, child, worker, strangers, hit, records>>

\* drain_owned_process_tree takes a snapshot of what there is below the roots;
\* a guard that is not published yet is below its child. When nothing of it
\* is there any more the drain is complete, and the supervisor is not frozen.
Snapshot(o) ==
    LET present == {p \in stop[o].roots : BirthMatches(p)}
    IN  present \cup {Worker(k) : k \in {j \in Children : Child(j) \in present /\ Live(j)
                                                          /\ Alive(Worker(j))}}

TakeSnapshot(o) ==
    /\ At(o, "rooted")
    /\ stop' = [stop EXCEPT
           ![o].fds = Snapshot(o), ![o].roots = {},
           ![o].owned = @ \cup {k \in Children : Worker(k) \in stop[o].roots \cap Snapshot(o)},
           ![o].kin = {k \in Children : Worker(k) \in Snapshot(o) /\ Live(k)},
           ![o].pc = IF Snapshot(o) # {} THEN "opening"
                     ELSE IF stop[o].pass = 1 THEN "rescanning" ELSE "ending"]
    /\ UNCHANGED <<procs, records>>

\* Mutant: births are not compared after the pidfds are opened.
IdentityChanged_BirthIgnored(o) ==
    \E k \in stop[o].kin : Alive(Worker(k)) /\ ~Live(k)

\* A pidfd is opened on the pid of every candidate and its identity compared:
\* one that is gone is drained already, a stranger stops the stop, and so does
\* a worker that lost its parent since the snapshot.
IdentityChanged(o) ==
    \/ stop[o].fds \cap strangers # {}
    \/ \E k \in stop[o].kin : Alive(Worker(k)) /\ ~Live(k)

OpenCandidates(o) ==
    /\ At(o, "opening")
    /\ IF IdentityChanged(o)
       THEN Blocked(o)
       ELSE /\ stop' = [stop EXCEPT
                   ![o].wrong = stop[o].fds \cap strangers # {}, ![o].kin = {},
                   ![o].pc = IF stop[o].pass = 1 THEN "quiescing" ELSE "signalling"]
            /\ UNCHANGED sup
    /\ UNCHANGED <<starter, child, worker, strangers, hit, records>>

\* quiesce_supervisor: SIGSTOP, and a wait until the kernel shows it stopped.
Quiesce(o) ==
    /\ At(o, "quiescing")
    /\ stop' = [stop EXCEPT ![o].pc = IF @ = "quiescing" /\ stop[o].fds # {}
                                      THEN "signalling" ELSE "rescanning",
                            ![o].quiesced = TRUE]
    /\ sup' = [sup EXCEPT ![Target(o)].frozen = Running(Target(o))]
    /\ UNCHANGED <<starter, child, worker, strangers, hit, records>>

\* SIGTERM through the pidfds, the workers before the children. A gated guard
\* dies of it; a command may take its time, and ends by WorkerEnds.
SignalWorkers(o) ==
    /\ At(o, "signalling")
    /\ Goto(o, "leaves")
    /\ worker' = [k \in Children |->
                     IF Worker(k) \in stop[o].fds /\ worker[k] = "gated"
                     THEN "dead" ELSE worker[k]]
    /\ hit' = (hit \/ stop[o].wrong)
    /\ UNCHANGED <<sup, starter, child, strangers, records>>

SignalChildren(o) ==
    /\ At(o, "leaves")
    /\ Goto(o, "draining")
    /\ child' = [k \in Children |->
                    IF Child(k) \in stop[o].fds /\ Live(k) THEN "dead" ELSE child[k]]
    /\ UNCHANGED <<sup, starter, worker, strangers, hit, records>>

\* Mutant: no second look after the first drain.
Drained_Once(o) ==
    /\ At(o, "draining") /\ \A p \in stop[o].fds : ~Alive(p)
    /\ stop' = [stop EXCEPT ![o].fds = {}, ![o].pc = "ending"]
    /\ UNCHANGED <<procs, records>>

\* The retained pidfds show every exit. The records are read again after the
\* first drain, now that the supervisor cannot start anything.
Drained(o) ==
    /\ At(o, "draining") /\ \A p \in stop[o].fds : ~Alive(p)
    /\ stop' = [stop EXCEPT ![o].fds = {},
                            ![o].pc = IF stop[o].pass = 1 THEN "rescanning" ELSE "ending"]
    /\ UNCHANGED <<procs, records>>

\* SIGTERM is left pending on the frozen supervisor, which is then resumed.
EndSupervisor(o) ==
    /\ At(o, "ending")
    /\ Goto(o, "waiting")
    /\ sup' = [sup EXCEPT
           ![Target(o)].term = @ \/ Running(Target(o)),
           ![Target(o)].frozen = IF stop[o].quiesced THEN FALSE ELSE @]
    /\ UNCHANGED <<starter, child, worker, strangers, hit, records>>

\* The pidfd shows the exit and the lock is not the supervisor's any more.
SupervisorGone(o) ==
    /\ At(o, "waiting") /\ ~Running(Target(o)) /\ singleton # Target(o)
    /\ Goto(o, "reconciling")
    /\ UNCHANGED <<procs, records>>

\* reconcile_drained_workers: a drained worker that filed no report and has no
\* terminal result gets one.
RecordTerminated(o, k) ==
    /\ At(o, "reconciling") /\ k \in stop[o].owned
    /\ lock[k] = "identified" /\ result[k] \in {"none", "unknown"}
    /\ result' = [result EXCEPT ![k] = "terminated"]
    /\ UNCHANGED <<procs, singleton, started, childRec, announced, lock, stop>>

\* Mutant: the lock is released whether or not there is a result.
ReleaseDrained_First(o, k) ==
    /\ At(o, "reconciling") /\ k \in stop[o].owned /\ lock[k] = "identified"
    /\ Lock(k, "released")
    /\ UNCHANGED <<procs, singleton, started, childRec, announced, result, stop>>

\* Then its task lock is released.
ReleaseDrained(o, k) ==
    /\ At(o, "reconciling") /\ k \in stop[o].owned /\ lock[k] = "identified"
    /\ result[k] \in {"reported", "final", "terminated"}
    /\ Lock(k, "released")
    /\ UNCHANGED <<procs, singleton, started, childRec, announced, result, stop>>

StopSucceeds(o) ==
    /\ At(o, "reconciling") /\ \A k \in stop[o].owned : lock[k] # "identified"
    /\ Goto(o, "stopped")
    /\ UNCHANGED <<procs, records>>

\* The deadline passes, the operator interrupts a wait or a backend fails.
GivesUp(o) ==
    /\ stop[o].pc \in {"opened", "rooted", "opening", "signalling", "leaves", "draining",
                       "rescanning", "ending", "waiting", "reconciling"}
    /\ Blocked(o)
    /\ UNCHANGED <<starter, child, worker, strangers, hit, records>>

\* `autopilot stop --recover-stale' with the run and the token on record here.
RecoverStale(o) ==
    /\ At(o, "recovering")
    /\ IF singleton = Target(o) /\ ~PidExists(Sup(Target(o)))
       THEN singleton' = NoOne /\ stop' = [stop EXCEPT ![o] = [Idle EXCEPT !.pc = "recovered"]]
       ELSE UNCHANGED singleton /\ stop' = [stop EXCEPT ![o] = [Idle EXCEPT !.pc = "blocked"]]
    /\ UNCHANGED <<procs, started, childRec, announced, lock, result>>

\* The stop command itself is killed.
StopKilled(o) ==
    /\ o \in Mortal
    /\ stop[o].pc \notin {"idle", "blocked", "stopped", "recovered", "killed"}
    /\ stop' = [stop EXCEPT ![o] = IF Freezes(o)
                                    THEN [Idle EXCEPT !.pc = "killed", !.quiesced = TRUE,
                                                      !.target = Target(o)]
                                    ELSE [Idle EXCEPT !.pc = "killed"]]
    /\ UNCHANGED <<procs, records>>

StopStep(o) ==
    \/ StopLooks(o) \/ OpenSupervisor(o) \/ CollectRoots(o) \/ TakeSnapshot(o)
    \/ OpenCandidates(o) \/ Quiesce(o) \/ SignalWorkers(o) \/ SignalChildren(o)
    \/ Drained(o) \/ EndSupervisor(o) \/ SupervisorGone(o)
    \/ \E k \in Children : RecordTerminated(o, k) \/ ReleaseDrained(o, k)
    \/ StopSucceeds(o) \/ GivesUp(o) \/ RecoverStale(o)

Next ==
    \/ \E s \in Supervisors : StartDetached(s) \/ StarterStep(s)
                              \/ SupervisorStep(s) \/ SupervisorKilled(s)
    \/ \E k \in Children : ChildStep(k) \/ ChildKilled(k)
    \/ \E o \in Stoppers : StopStep(o) \/ StopKilled(o)
    \/ \E p \in Procs : Recycle(p)

Spec == Init /\ [][Next]_vars

---------------------------------------------------------------------------
(* Properties. *)

SupStates == {"off", "booting", "holding", "cycle", "launched", "waiting",
              "finishing", "unwinding", "gone"}
StopStates == {"idle", "found", "opened", "rooted", "opening", "quiescing", "signalling",
               "leaves", "draining", "rescanning", "ending", "waiting", "reconciling",
               "stopped", "blocked", "recovering", "recovered", "killed"}

\* Every variable has its type, and no supervisor waits for nobody (run_autopilot,
\* stop_detached_autopilot).
TypeOK ==
    /\ sup \in [Supervisors -> [pc : SupStates, kid : Children \cup {NoOne},
                                frozen : BOOLEAN, term : BOOLEAN]]
    /\ \A s \in Supervisors : sup[s].pc \in {"launched", "waiting"} => sup[s].kid # NoOne
    /\ starter \in [Supervisors -> {"none", "verifying", "cleaning", "done"}]
    /\ child \in [Children -> {"none", "live", "dead"}]
    /\ worker \in [Children -> {"none", "gated", "working", "dead"}]
    /\ strangers \subseteq Procs /\ hit \in BOOLEAN
    /\ singleton \in Supervisors \cup {NoOne}
    /\ started \subseteq Supervisors
    /\ \A s \in Supervisors : Recorded(s) \subseteq Children
    /\ announced \subseteq Children
    /\ lock \in [Children -> {"free", "held", "identified", "released"}]
    /\ result \in [Children -> {"none", "reported", "unknown", "final", "terminated"}]
    /\ stop \in [Stoppers -> [pc : StopStates, target : Supervisors \cup {NoOne},
                              pass : {1, 2}, seen : SUBSET Children,
                              roots : SUBSET Procs, fds : SUBSET Procs,
                              kin : SUBSET Children, wrong : BOOLEAN,
                              owned : SUBSET Children, quiesced : BOOLEAN]]

\* Two supervisors never dispatch at once, whoever starts, stops and recovers
\* them (acquire_autopilot, recover_stale_autopilot, cleanup_detached_candidate).
OneSupervisor == \A s, t \in Supervisors : InLoop(s) /\ InLoop(t) => s = t

\* A stop that froze its supervisor and reports success leaves no recorded
\* child of the run, and no worker of the children it found recorded when it
\* began, whatever those started in the meantime (stop_verified_detached
\* _autopilot: the second pass).
StopDrains ==
    \A o \in Stoppers : At(o, "stopped") /\ stop[o].quiesced =>
        \A k \in Recorded(Target(o)) :
            ~Live(k) /\ (k \in stop[o].seen => worker[k] # "working")

\* A supervisor is frozen only while the stop that froze it goes on, unless
\* that command was killed: every way out of it resumes the supervisor
\* (quiesce_supervisor and the returns after it).
NotLeftFrozen ==
    \A s \in Supervisors : sup[s].frozen =>
        \E o \in Stoppers : Freezes(o) /\ Target(o) = s

\* No signal of a stop reaches a process this installation did not start,
\* although the pids of those it did may have been reused (drain_owned_process
\* _tree: pidfds verified before any signal).
OnlyOwnSignalled == ~hit

\* A stop that succeeds has accounted for every worker it drained: the run has
\* a result or a report, and its task lock is released
\* (reconcile_drained_workers).
StoppedRunsSettled ==
    \A o \in Stoppers : At(o, "stopped") =>
        \A k \in stop[o].owned :
            lock[k] = "released" /\ result[k] # "none"

=============================================================================
