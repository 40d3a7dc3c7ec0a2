------------------------------ MODULE Scheduler ------------------------------
(***************************************************************************)
(* The dispatch phase of a play: fn schedule of src/src/engine/run.rs, its *)
(* pool of worker threads and the thread of each wait step.                *)
(*                                                                         *)
(* The scheduler thread scans the steps in declaration order, starts what  *)
(* may start, then blocks on the channel on which every thread reports.    *)
(* Its state is its own; threads meet only in the job channel of a worker, *)
(* the done channel and the cancel flag, so one step of the scan is one    *)
(* action.                                                                 *)
(***************************************************************************)
EXTENDS Play, Sequences, FiniteSets

CONSTANTS
  Workers,      \* the worker threads `--jobs` allows
  NoWorker,     \* the sender of a wait step's result
  MaxAttempts,  \* probe attempts a wait step has before its deadline
  MayPanic      \* whether a thread may die without reporting

ASSUME SchedulerAssumption ==
  /\ IsFiniteSet(Workers) /\ Workers # {} /\ NoWorker \notin Workers
  /\ MaxAttempts \in Nat \ {0}
  /\ MayPanic \in BOOLEAN

None == "none"   \* no report yet
NoStep == 0      \* a worker with no job in hand

VARIABLES
  pool,              \* the worker threads of this run
  pc,                \* the scheduler thread: "scan", "settle", "join", "end"
  cursor,            \* the scan's position
  progressed,        \* whether this pass over the steps changed anything
  dispatched,        \* steps dispatched or resolved
  completed,         \* steps with a final status
  report,            \* the reports built so far
  halted,
  in_flight,
  running_exclusive, \* resources held by an `exclusive` step
  held_locks,        \* lock groups held
  global_running,
  idle_workers,
  jobs,              \* job channel of each worker
  working,           \* the step each worker is running
  dead,              \* workers that panicked
  waiter,            \* the thread of each wait step
  attempt,           \* the number of its current probe attempt
  cancelled,         \* the flag a sleeping wait step wakes on
  done               \* done channel: <<step, worker, status>> in order

runVars == <<run, pool>>
scanVars == <<pc, cursor, progressed>>
bookVars == <<dispatched, completed, report, halted, in_flight,
              running_exclusive, held_locks, global_running, idle_workers>>
threadVars == <<jobs, working, dead, waiter, attempt>>
vars == <<runVars, scanVars, bookVars, threadVars, cancelled, done>>

Message == [idx : Steps, worker : Workers \cup {NoWorker},
            status : StepStatuses]

TypeOK ==
  /\ run \in Runs
  /\ pool \in SUBSET Workers
  /\ pc \in {"scan", "settle", "join", "end"}
  /\ cursor \in 1 .. N + 1
  /\ progressed \in BOOLEAN
  /\ dispatched \in SUBSET Steps
  /\ completed \in SUBSET Steps
  /\ report \in [Steps -> StepStatuses \cup {None}]
  /\ halted \in BOOLEAN
  /\ in_flight \in Nat
  /\ running_exclusive \in SUBSET Resources
  /\ held_locks \in SUBSET Locks
  /\ global_running \in BOOLEAN
  /\ idle_workers \in SUBSET Workers
  /\ jobs \in [Workers -> Seq(Steps)]
  /\ working \in [Workers -> Steps \cup {NoStep}]
  /\ dead \in SUBSET Workers
  /\ waiter \in [Steps -> {"none", "probing", "asleep", "gone", "dead"}]
  /\ attempt \in [Steps -> 0 .. MaxAttempts]
  /\ cancelled \in BOOLEAN
  /\ done \in Seq(Message)

Init ==
  /\ run \in Runs
  \* jobs.max(1) workers, or a single one in a sequential play.
  /\ pool \in IF run.parallel THEN {Workers} ELSE {{w} : w \in Workers}
  /\ pc = "scan" /\ cursor = 1 /\ progressed = FALSE
  /\ dispatched = {} /\ completed = {}
  /\ report = [i \in Steps |-> None]
  /\ halted = FALSE /\ in_flight = 0
  /\ running_exclusive = {} /\ held_locks = {} /\ global_running = FALSE
  /\ idle_workers = pool
  /\ jobs = [w \in Workers |-> <<>>]
  /\ working = [w \in Workers |-> NoStep]
  /\ dead = {}
  /\ waiter = [i \in Steps |-> "none"]
  /\ attempt = [i \in Steps |-> 0]
  /\ cancelled = FALSE
  /\ done = <<>>

-----------------------------------------------------------------------------
(* The scan. *)

Ready(i) == i \notin dispatched /\ Deps(i) \subseteq completed

\* Mutant: a dependency that was not run does not count as blocking.
BlockedByErrorOnly(i) ==
  run.mode = "Apply" /\ \E d \in Deps(i) : report[d] = "Error"

Blocked(i) ==
  /\ run.mode = "Apply"
  /\ \E d \in Deps(i) : BlocksDependents(report[d])

\* Mutant: a failed dependency blocks its dependents in a check as well.
ResolvedNotRunInCheck(i) ==
  halted \/ \E d \in Deps(i) : BlocksDependents(report[d])

\* Steps the scan settles on the spot, for want of anything to run.
ResolvedNotRun(i) == halted \/ Blocked(i)
Proceeds(i) == ~ResolvedNotRun(i)

\* A sequential play has one worker, but a wait step runs off the pool.
WaitAdmitted == ~global_running /\ (run.parallel \/ in_flight = 0)

\* Mutant: steps off the pool count against its size.
PoolAdmitsByCount ==
  WaitAdmitted /\ idle_workers # {} /\ in_flight < Cardinality(pool)

PoolAdmits == WaitAdmitted /\ idle_workers # {}

\* Mutant: a global step does not wait for the steps in flight.
ClassAdmitsGlobal(i) ==
  IsExclusive(i) => Resource(i) \notin running_exclusive

ClassAdmits(i) ==
  /\ IsExclusive(i) => Resource(i) \notin running_exclusive
  /\ IsGlobal(i) => in_flight = 0

\* Mutant: only exclusive steps take their lock.
LockAdmitsParallel(i) ==
  HoldsLock(i) /\ IsExclusive(i) => Lock(i) \notin held_locks

LockAdmits(i) == HoldsLock(i) => Lock(i) \notin held_locks

RunAdmitted(i) == PoolAdmits /\ ClassAdmits(i) /\ LockAdmits(i)

Actionable(i) ==
  /\ Ready(i)
  /\ \/ ResolvedNotRun(i)
     \/ Kind(i) \in {"skip", "fail"}
     \/ IsWait(i) /\ WaitAdmitted
     \/ Kind(i) = "run" /\ RunAdmitted(i)

\* The scan has reached step i, passing over the steps it cannot act on.
Turn(i) ==
  /\ pc = "scan" /\ cursor <= i
  /\ Actionable(i)
  /\ \A j \in cursor .. i - 1 : ~Actionable(j)

HaltedAfter(status) ==
  halted \/ Halts(run.mode, run.continueOnError, status)

\* Mutant: the halt is not passed on to the sleeping wait steps.
ForgetCancel(halting) == UNCHANGED cancelled

\* Once up, the flag stays up.
CancelIf(halting) == cancelled' = (cancelled \/ halting)

Advance(i) == cursor' = i + 1 /\ progressed' = TRUE /\ UNCHANGED pc

\* A step gets its report without running.
ResolveAs(i, status) ==
  /\ Advance(i)
  /\ dispatched' = dispatched \cup {i}
  /\ completed' = completed \cup {i}
  /\ report' = [report EXCEPT ![i] = status]
  /\ UNCHANGED <<runVars, in_flight, running_exclusive, held_locks,
                 global_running, idle_workers, threadVars, done>>

ResolveNotRun(i) ==
  /\ Turn(i) /\ ResolvedNotRun(i)
  /\ ResolveAs(i, "NotRun")
  /\ UNCHANGED <<halted, cancelled>>

ResolveSkip(i) ==
  /\ Turn(i) /\ Proceeds(i) /\ Kind(i) = "skip"
  /\ ResolveAs(i, "Skipped")
  /\ UNCHANGED <<halted, cancelled>>

ResolveFail(i) ==
  /\ Turn(i) /\ Proceeds(i) /\ Kind(i) = "fail"
  /\ ResolveAs(i, "Error")
  /\ halted' = HaltedAfter("Error")
  /\ CancelIf(halted')

\* A wait step gets a thread of its own; without a compiled probe its error
\* goes straight to the done channel.
DispatchWait(i) ==
  /\ Turn(i) /\ Proceeds(i) /\ IsWait(i)
  /\ Advance(i)
  /\ dispatched' = dispatched \cup {i}
  /\ in_flight' = in_flight + 1
  /\ IF Kind(i) = "wait"
     THEN /\ waiter' = [waiter EXCEPT ![i] = "probing"]
          /\ attempt' = [attempt EXCEPT ![i] = 1]
          /\ UNCHANGED done
     ELSE /\ done' = Append(done, [idx |-> i, worker |-> NoWorker,
                                   status |-> "Error"])
          /\ UNCHANGED <<waiter, attempt>>
  /\ UNCHANGED <<runVars, completed, report, halted, running_exclusive,
                 held_locks, global_running, idle_workers, jobs, working,
                 dead, cancelled>>

\* A resource step is sent to an idle worker (the workers are alike: which
\* one is left open). A global step ends the pass and the scan.
DispatchRun(i) ==
  /\ Turn(i) /\ Proceeds(i) /\ Kind(i) = "run"
  /\ dispatched' = dispatched \cup {i}
  /\ in_flight' = in_flight + 1
  /\ running_exclusive' = running_exclusive
                            \cup (IF IsExclusive(i) THEN {Resource(i)} ELSE {})
  /\ held_locks' = held_locks \cup (IF HoldsLock(i) THEN {Lock(i)} ELSE {})
  /\ global_running' = IsGlobal(i)
  /\ \E w \in idle_workers :
       /\ idle_workers' = idle_workers \ {w}
       /\ jobs' = [jobs EXCEPT ![w] = Append(@, i)]
  /\ cursor' = i + 1 /\ progressed' = TRUE
  /\ pc' = IF IsGlobal(i) THEN "settle" ELSE "scan"
  /\ UNCHANGED <<runVars, completed, report, halted, working, dead, waiter,
                 attempt, cancelled, done>>

\* The end of a pass: another one if this one changed anything, unless a
\* global step is running.
AnotherPass == progressed /\ ~global_running

EndPass ==
  /\ pc = "scan"
  /\ \A j \in cursor .. N : ~Actionable(j)
  /\ pc' = IF AnotherPass THEN "scan" ELSE "settle"
  /\ cursor' = 1 /\ progressed' = FALSE
  /\ UNCHANGED <<runVars, bookVars, threadVars, cancelled, done>>

\* Nothing is in flight. If a step is ready after all, scan again; otherwise
\* finish, reporting what is still pending as not run.
Settle ==
  /\ pc = "settle" /\ in_flight = 0
  /\ IF \E i \in Steps : Ready(i)
     THEN pc' = "scan" /\ UNCHANGED <<dispatched, completed, report>>
     ELSE /\ pc' = "join"
          /\ dispatched' = Steps
          /\ completed' = completed \cup (Steps \ dispatched)
          /\ report' = [i \in Steps |->
                          IF i \in dispatched THEN report[i] ELSE "NotRun"]
  /\ cursor' = 1 /\ progressed' = FALSE
  /\ UNCHANGED <<runVars, halted, in_flight, running_exclusive, held_locks,
                 global_running, idle_workers, threadVars, cancelled, done>>

\* Mutant: the lock of a finished step is not given back.
ReleaseAllButLock(i) ==
  /\ running_exclusive' = running_exclusive
                            \ (IF IsExclusive(i) THEN {Resource(i)} ELSE {})
  /\ global_running' = (global_running /\ ~IsGlobal(i))
  /\ UNCHANGED held_locks

\* What a finished step gives back.
Release(i) ==
  /\ running_exclusive' = running_exclusive
                            \ (IF IsExclusive(i) THEN {Resource(i)} ELSE {})
  /\ held_locks' = held_locks \ (IF HoldsLock(i) THEN {Lock(i)} ELSE {})
  /\ global_running' = (global_running /\ ~IsGlobal(i))

\* Something is in flight: block on the done channel, then book the result.
Receive ==
  /\ pc = "settle" /\ in_flight > 0 /\ done # <<>>
  /\ LET msg == Head(done)
     IN /\ in_flight' = in_flight - 1
        /\ idle_workers' = idle_workers \cup ({msg.worker} \ {NoWorker})
        /\ completed' = completed \cup {msg.idx}
        /\ Release(msg.idx)
        /\ halted' = HaltedAfter(msg.status)
        /\ report' = [report EXCEPT ![msg.idx] = msg.status]
  /\ CancelIf(halted')
  /\ done' = Tail(done)
  /\ pc' = "scan" /\ cursor' = 1 /\ progressed' = FALSE
  /\ UNCHANGED <<runVars, dispatched, threadVars>>

\* The job channels are closed and every thread is joined.
Join ==
  /\ pc = "join"
  /\ \A w \in Workers \ dead : jobs[w] = <<>> /\ working[w] = NoStep
  /\ \A i \in Steps : waiter[i] \in {"none", "gone", "dead"}
  /\ pc' = "end"
  /\ UNCHANGED <<runVars, cursor, progressed, bookVars, threadVars, cancelled,
                 done>>

-----------------------------------------------------------------------------
(* A worker thread: take a job, run the resource's lifecycle, report. *)

Send(i, w, status) ==
  done' = Append(done, [idx |-> i, worker |-> w, status |-> status])

WorkerTake(w) ==
  /\ working[w] = NoStep /\ jobs[w] # <<>>
  /\ working' = [working EXCEPT ![w] = Head(jobs[w])]
  /\ jobs' = [jobs EXCEPT ![w] = Tail(@)]
  /\ UNCHANGED <<runVars, scanVars, bookVars, dead, waiter, attempt, cancelled,
                 done>>

WorkerReport(w) ==
  /\ working[w] # NoStep /\ w \notin dead
  /\ \E s \in LifecycleStatuses(run.mode) : Send(working[w], w, s)
  /\ working' = [working EXCEPT ![w] = NoStep]
  /\ UNCHANGED <<runVars, scanVars, bookVars, jobs, dead, waiter, attempt,
                 cancelled>>

\* The thread unwinds in the middle of a step: nothing is sent.
WorkerPanic(w) ==
  /\ MayPanic /\ working[w] # NoStep /\ w \notin dead
  /\ dead' = dead \cup {w}
  /\ UNCHANGED <<runVars, scanVars, bookVars, jobs, working, waiter, attempt,
                 cancelled, done>>

-----------------------------------------------------------------------------
(* The thread of wait step i (module WaitStep details it, with its clock). *)

WaiterReport(i, status) ==
  /\ waiter' = [waiter EXCEPT ![i] = "gone"]
  /\ Send(i, NoWorker, status)
  /\ UNCHANGED <<runVars, scanVars, bookVars, jobs, working, dead, attempt,
                 cancelled>>

\* An attempt that ends the wait: the probe is ready, it failed fatally, its
\* mode is check, or the deadline has passed.
WaiterAnswer(i) ==
  /\ waiter[i] = "probing"
  /\ \E s \in WaitStatuses(run.mode) :
       /\ s = "AlreadyConfigured" => attempt[i] = 1
       /\ s = "Configured" => attempt[i] > 1
       /\ WaiterReport(i, s)

\* An attempt that does not: the thread sleeps before the next one.
WaiterSleep(i) ==
  /\ waiter[i] = "probing"
  /\ run.mode = "Apply" /\ attempt[i] < MaxAttempts
  /\ waiter' = [waiter EXCEPT ![i] = "asleep"]
  /\ UNCHANGED <<runVars, scanVars, bookVars, jobs, working, dead, attempt,
                 cancelled, done>>

\* The pause has elapsed and the run is not halted.
WaiterWake(i) ==
  /\ waiter[i] = "asleep" /\ ~cancelled
  /\ waiter' = [waiter EXCEPT ![i] = "probing"]
  /\ attempt' = [attempt EXCEPT ![i] = @ + 1]
  /\ UNCHANGED <<runVars, scanVars, bookVars, jobs, working, dead, cancelled,
                 done>>

\* The run was halted before the pause or during it.
WaiterCancelled(i) ==
  /\ waiter[i] = "asleep" /\ cancelled
  /\ WaiterReport(i, "NotRun")

WaiterPanic(i) ==
  /\ MayPanic /\ waiter[i] = "probing"
  /\ waiter' = [waiter EXCEPT ![i] = "dead"]
  /\ UNCHANGED <<runVars, scanVars, bookVars, jobs, working, dead, attempt,
                 cancelled, done>>

-----------------------------------------------------------------------------
Main ==
  \/ \E i \in Steps : \/ ResolveNotRun(i) \/ ResolveSkip(i) \/ ResolveFail(i)
                      \/ DispatchWait(i) \/ DispatchRun(i)
  \/ EndPass \/ Settle \/ Receive \/ Join

Worker(w) == WorkerTake(w) \/ WorkerReport(w)

Waiter(i) ==
  WaiterAnswer(i) \/ WaiterSleep(i) \/ WaiterWake(i) \/ WaiterCancelled(i)

Panic == (\E w \in Workers : WorkerPanic(w)) \/ (\E i \in Steps : WaiterPanic(i))

\* schedule has returned: nothing happens any more.
Returned == pc = "end" /\ UNCHANGED vars

Next ==
  \/ Main
  \/ \E w \in Workers : Worker(w)
  \/ \E i \in Steps : Waiter(i)
  \/ Panic
  \/ Returned

Spec == Init /\ [][Next]_vars

\* The scheduler and the workers keep running: a script that was called
\* returns. Nothing is assumed of the wait steps' threads.
Fairness == WF_vars(Main) /\ \A w \in Workers : WF_vars(Worker(w))

FairSpec == Spec /\ Fairness

\* A wait step's thread keeps running too: its probe returns, its pause ends.
WaitersFair == \A i \in Steps : WF_vars(Waiter(i))
=============================================================================
