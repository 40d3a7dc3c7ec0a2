------------------------ MODULE SchedulerProperties ------------------------
(***************************************************************************)
(* What the scheduler must get right, and what the repository says of it.  *)
(***************************************************************************)
EXTENDS Scheduler

InFlight == dispatched \ completed

-----------------------------------------------------------------------------
(* Safety. *)

\* The scheduler's books agree with the steps in flight: the counter, the
\* locks and exclusive resources held, the global flag. Each worker of the
\* pool is idle, or has one step in hand (queued, running, or reported and not
\* yet booked): none is leaked and none is given a second job.
Accounting ==
  /\ in_flight = Cardinality(InFlight)
  /\ held_locks = {Lock(i) : i \in {j \in InFlight : HoldsLock(j)}}
  /\ running_exclusive = {Resource(i) : i \in {j \in InFlight : IsExclusive(j)}}
  /\ global_running <=> \E i \in InFlight : IsGlobal(i)
  /\ \A w \in pool :
       Len(jobs[w]) + (IF working[w] = NoStep THEN 0 ELSE 1)
         + Cardinality({k \in DOMAIN done : done[k].worker = w})
       = IF w \in idle_workers THEN 0 ELSE 1

\* Steps that must be kept apart are never in flight together; in a
\* sequential play no two steps are.
MutualExclusion ==
  \A i, j \in InFlight : i # j => run.parallel /\ ~Conflict(i, j)

\* A step that was started, or may yet report an outcome of its own, had all
\* its dependencies complete, and in apply none of them failed or was not run.
DependenciesFirst ==
  \A i \in dispatched : report[i] # "NotRun" =>
    /\ Deps(i) \subseteq completed
    /\ run.mode = "Apply" =>
         \A d \in Deps(i) : ~BlocksDependents(report[d])

\* While the scheduler blocks on the done channel, a message is there or some
\* thread is still going to send one.
ReceiveReturns ==
  pc = "settle" /\ in_flight > 0 =>
    \/ done # <<>>
    \/ \E w \in Workers \ dead : jobs[w] # <<>> \/ working[w] # NoStep
    \/ \E i \in Steps : waiter[i] \in {"probing", "asleep"}

\* When the scheduler stops scanning, no step it could act on is left behind,
\* unless a global step is running.
WorkConserving ==
  pc = "settle" /\ ~global_running => \A i \in Steps : ~Actionable(i)

\* With nothing in flight every step has been dispatched: the guard against
\* a dependency that never completes never fires, and the scan never spins.
GuardNeverNeeded == pc = "settle" /\ in_flight = 0 => dispatched = Steps

\* The halt flag is up, and with it the cancel flag, exactly when some step
\* has a status that halts the run.
HaltExplained ==
  /\ halted <=> \E i \in Steps : Halts(run.mode, run.continueOnError, report[i])
  /\ cancelled <=> halted

\* No step silently falls out of a run: one that was not run is explained by
\* the halt or by a dependency, and the exit code of the run is not 0.
NotRunExplained ==
  \A i \in Steps : report[i] = "NotRun" =>
    /\ halted \/ Blocked(i)
    /\ pc = "end" => ExitCode(run.mode, {report[j] : j \in Steps}) # 0

\* The scheduler implements the abstract run of a play.
Status(i) ==
  IF report[i] # None THEN report[i]
  ELSE IF i \in dispatched THEN "running" ELSE "pending"

Abstract == INSTANCE PlayRun WITH status <- [i \in Steps |-> Status(i)]

ImplementsPlayRun == Abstract!Spec

-----------------------------------------------------------------------------
(* The inductive invariant behind the safety properties: where each step in *)
(* flight is held, and what the scheduler's books say of it.               *)

Loaded(w) == jobs[w] # <<>> \/ working[w] # NoStep
Carries(w, i) == jobs[w] = <<i>> \/ working[w] = i
Waits(i) == waiter[i] \in {"probing", "asleep", "dead"}
Reported(i) == \E k \in 1 .. Len(done) : done[k].idx = i

\* A worker has at most one step in hand, and none while it is idle.
WorkerHands ==
  /\ idle_workers \subseteq pool
  /\ \A w \in Workers :
       /\ jobs[w] = <<>> \/ \E i \in Steps : jobs[w] = <<i>>
       /\ Loaded(w) => w \in pool \ idle_workers
       /\ jobs[w] # <<>> => working[w] = NoStep
       /\ w \in dead => working[w] # NoStep
  /\ \A w \in pool : \/ w \in idle_workers
                      \/ Loaded(w)
                      \/ \E k \in 1 .. Len(done) : done[k].worker = w

\* A message is from the thread that ran its step, which has nothing in hand.
Messages ==
  /\ \A k \in 1 .. Len(done) :
       /\ done[k].idx \in InFlight
       /\ IF done[k].worker = NoWorker
          THEN IsWait(done[k].idx)
          ELSE /\ Kind(done[k].idx) = "run"
               /\ done[k].worker \in pool \ idle_workers
               /\ ~Loaded(done[k].worker)
  /\ \A k, l \in 1 .. Len(done) :
       k # l => /\ done[k].idx # done[l].idx
                /\ done[k].worker = done[l].worker => done[k].worker = NoWorker

\* A step in flight is held by exactly one worker, wait thread or message.
Custody ==
  /\ \A i \in InFlight : Reported(i) \/ Waits(i) \/ \E w \in Workers : Carries(w, i)
  /\ \A i \in Steps : Waits(i) =>
       i \in InFlight /\ Kind(i) = "wait" /\ ~Reported(i)
  /\ \A i \in Steps : \A w \in Workers : Carries(w, i) =>
       /\ i \in InFlight /\ Kind(i) = "run" /\ ~Reported(i)
       /\ \A v \in Workers : Carries(v, i) => v = w

Books ==
  /\ completed \subseteq dispatched
  /\ completed = {i \in Steps : report[i] # None}
  /\ in_flight = Cardinality(InFlight)
  /\ \A l \in Locks :
       l \in held_locks <=> \E i \in InFlight : HoldsLock(i) /\ Lock(i) = l
  /\ \A r \in Resources :
       r \in running_exclusive <=> \E i \in InFlight : IsExclusive(i) /\ Resource(i) = r
  /\ global_running <=> \E i \in InFlight : IsGlobal(i)

\* Each step in flight is in exactly one of a job channel, a worker's hand, a
\* wait thread or a message, and the books describe exactly those steps.
IInv == WorkerHands /\ Messages /\ Custody /\ Books /\ MutualExclusion

-----------------------------------------------------------------------------
(* Liveness. *)

\* If the wait steps' threads keep running, schedule returns, with a report
\* for every step.
Termination ==
  WaitersFair => <>(pc = "end" /\ \A i \in Steps : report[i] \in StepStatuses)

\* A halt reaches a wait step that is asleep: it reports NotRun without
\* another attempt, however far its deadline is.
HaltCutsWaits ==
  WaitersFair =>
    \A i \in Steps :
      (halted /\ waiter[i] = "asleep") ~> (report[i] = "NotRun")

\* Wait steps never starve the pool: whatever their threads do, a step whose
\* dependencies involve neither a wait nor a global step gets its report.
FreeOfWaits(i) ==
  \E S \in SUBSET Steps :
    /\ i \in S
    /\ \A j \in S : Deps(j) \subseteq S /\ ~IsWait(j) /\ ~IsGlobal(j)

WaitsDoNotStarve ==
  \A i \in Steps : (run.parallel /\ FreeOfWaits(i)) ~> (report[i] # None)
=============================================================================
