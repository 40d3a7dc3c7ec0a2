--------------------------- MODULE SchedulerProofs ---------------------------
(***************************************************************************)
(* Proofs about the scheduler, for every play, pool size and mode: its     *)
(* books and its threads, then that it runs plays as PlayRun promises -    *)
(* nothing is started too early or left behind, whatever is not run has a  *)
(* reason, and every step is a step of the abstract run or a stutter.      *)
(***************************************************************************)
EXTENDS SchedulerProperties, FiniteSetTheorems, WellFoundedInduction, TLAPS

\* What the type invariant needs to be inductive: a thread sleeps only when
\* another attempt is allowed.
TypeInv ==
  /\ TypeOK
  /\ \A i \in Steps : waiter[i] = "asleep" => attempt[i] < MaxAttempts

LEMMA RunTyped ==
  ASSUME run \in Runs
  PROVE  /\ run.deps \in [Steps -> SUBSET Steps]
         /\ run.plan \in [Steps -> Plan]
         /\ run.parallel \in BOOLEAN
         /\ run.mode \in Modes
         /\ run.continueOnError \in BOOLEAN
  BY PlayAssumption DEF RunType

LEMMA StepsTyped == Steps \subseteq Nat /\ NoStep \notin Steps /\ IsFiniteSet(Steps)
<1>1. Steps \subseteq Nat /\ NoStep \notin Steps
  BY PlayAssumption DEF Steps, NoStep
<1>2. IsFiniteSet(Steps)
  BY PlayAssumption, FS_Interval DEF Steps
<1> QED BY <1>1, <1>2

LEMMA StatusesTyped ==
  ASSUME NEW mode \in Modes
  PROVE  /\ LifecycleStatuses(mode) \subseteq StepStatuses
         /\ WaitStatuses(mode) \subseteq StepStatuses
  BY DEF LifecycleStatuses, WaitStatuses, StepStatuses, Modes

LEMMA TypeInit == Init => TypeInv
<1> SUFFICES ASSUME Init PROVE TypeInv
  OBVIOUS
<1> USE PlayAssumption, SchedulerAssumption DEF Init
<1>1. pool \in SUBSET Workers /\ idle_workers \in SUBSET Workers
  OBVIOUS
<1>2. cursor \in 1 .. N + 1
  OBVIOUS
<1>3. jobs \in [Workers -> Seq(Steps)] /\ done \in Seq(Message)
  OBVIOUS
<1>4. attempt \in [Steps -> 0 .. MaxAttempts]
  OBVIOUS
<1>5. TypeOK
  BY <1>1, <1>2, <1>3, <1>4 DEF TypeOK, None, NoStep
<1>6. \A i \in Steps : waiter[i] # "asleep"
  OBVIOUS
<1> QED BY <1>5, <1>6 DEF TypeInv

-----------------------------------------------------------------------------
(* Type correctness, one lemma per group of actions. *)

LEMMA TypeResolve ==
  ASSUME TypeInv, NEW i \in Steps, NEW s \in StepStatuses, ResolveAs(i, s),
         halted' \in BOOLEAN, cancelled' \in BOOLEAN
  PROVE  TypeInv'
  BY PlayAssumption
     DEF TypeInv, TypeOK, ResolveAs, Advance, Steps, runVars, threadVars

LEMMA TypeDispatchWait ==
  ASSUME TypeInv, NEW i \in Steps, DispatchWait(i)
  PROVE  TypeInv'
<1> USE PlayAssumption, SchedulerAssumption
<1>1. done' \in Seq(Message)
  <2>1. CASE Kind(i) = "wait"
    BY <2>1 DEF TypeInv, TypeOK, DispatchWait
  <2>2. CASE Kind(i) # "wait"
    <3>1. [idx |-> i, worker |-> NoWorker, status |-> "Error"] \in Message
      BY DEF Message, StepStatuses
    <3>2. /\ done \in Seq(Message)
          /\ done' = Append(done, [idx |-> i, worker |-> NoWorker,
                                   status |-> "Error"])
      BY <2>2 DEF TypeInv, TypeOK, DispatchWait
    <3> QED BY <3>1, <3>2
  <2> QED BY <2>1, <2>2
<1>2. /\ attempt' \in [Steps -> 0 .. MaxAttempts]
      /\ waiter' \in [Steps -> {"none", "probing", "asleep", "gone", "dead"}]
      /\ \A j \in Steps : waiter'[j] = "asleep" => attempt'[j] < MaxAttempts
  <2>1. CASE Kind(i) = "wait"
    <3>1. /\ waiter' = [waiter EXCEPT ![i] = "probing"]
          /\ attempt' = [attempt EXCEPT ![i] = 1]
      BY <2>1 DEF DispatchWait
    <3> QED BY <3>1 DEF TypeInv, TypeOK
  <2>2. CASE Kind(i) # "wait"
    BY <2>2 DEF TypeInv, TypeOK, DispatchWait
  <2> QED BY <2>1, <2>2
<1>3. cursor' \in 1 .. N + 1 /\ in_flight' \in Nat /\ dispatched' \in SUBSET Steps
  BY DEF TypeInv, TypeOK, DispatchWait, Advance, Steps
<1> QED
  BY <1>1, <1>2, <1>3 DEF TypeInv, TypeOK, DispatchWait, Advance, runVars

LEMMA TypeDispatchRun ==
  ASSUME TypeInv, NEW i \in Steps, DispatchRun(i)
  PROVE  TypeInv'
<1> USE PlayAssumption
<1>1. /\ running_exclusive' \in SUBSET Resources
      /\ held_locks' \in SUBSET Locks
      /\ global_running' \in BOOLEAN
  BY RunTyped DEF TypeInv, TypeOK, DispatchRun, IsExclusive, IsGlobal, HoldsLock,
     Resource, Lock, Kind, Class, Plan
<1>2. jobs' \in [Workers -> Seq(Steps)] /\ idle_workers' \in SUBSET Workers
  BY DEF TypeInv, TypeOK, DispatchRun
<1>3. cursor' \in 1 .. N + 1 /\ in_flight' \in Nat /\ dispatched' \in SUBSET Steps
  BY DEF TypeInv, TypeOK, DispatchRun, Steps
<1> QED
  BY <1>1, <1>2, <1>3 DEF TypeInv, TypeOK, DispatchRun, runVars

LEMMA TypeReceive ==
  ASSUME TypeInv, Receive
  PROVE  TypeInv'
<1> DEFINE msg == Head(done)
<1>1. msg \in Message /\ done' \in Seq(Message)
  BY DEF TypeInv, TypeOK, Receive
<1>2. /\ in_flight' \in Nat
      /\ idle_workers' \in SUBSET Workers
      /\ completed' \in SUBSET Steps
      /\ report' \in [Steps -> StepStatuses \cup {None}]
  BY <1>1 DEF TypeInv, TypeOK, Receive, Message
<1>3. /\ running_exclusive' \in SUBSET Resources
      /\ held_locks' \in SUBSET Locks
      /\ global_running' \in BOOLEAN
  BY DEF TypeInv, TypeOK, Receive, Release
<1>4. halted' \in BOOLEAN /\ cancelled' \in BOOLEAN
  BY DEF TypeInv, TypeOK, Receive, HaltedAfter, CancelIf
<1>5. cursor' \in 1 .. N + 1
  BY PlayAssumption DEF Receive
<1> QED
  BY <1>1, <1>2, <1>3, <1>4, <1>5 DEF TypeInv, TypeOK, Receive, runVars, threadVars

LEMMA TypeMain ==
  ASSUME TypeInv, Main
  PROVE  TypeInv'
<1> USE PlayAssumption
<1>1. ASSUME NEW i \in Steps, ResolveNotRun(i) PROVE TypeInv'
  BY <1>1, TypeResolve DEF ResolveNotRun, TypeInv, TypeOK, StepStatuses
<1>2. ASSUME NEW i \in Steps, ResolveSkip(i) PROVE TypeInv'
  BY <1>2, TypeResolve DEF ResolveSkip, TypeInv, TypeOK, StepStatuses
<1>3. ASSUME NEW i \in Steps, ResolveFail(i) PROVE TypeInv'
  <2>1. halted' \in BOOLEAN /\ cancelled' \in BOOLEAN
    BY <1>3 DEF ResolveFail, TypeInv, TypeOK, HaltedAfter, CancelIf
  <2> QED BY <2>1, <1>3, TypeResolve DEF ResolveFail, StepStatuses
<1>4. CASE EndPass
  <2>1. cursor' \in 1 .. N + 1 /\ pc' \in {"scan", "settle", "join", "end"}
    BY <1>4 DEF EndPass
  <2> QED
    BY <2>1, <1>4 DEF EndPass, TypeInv, TypeOK, runVars, bookVars, threadVars
<1>5. CASE Settle
  <2>1. cursor' \in 1 .. N + 1 /\ pc' \in {"scan", "settle", "join", "end"}
    BY <1>5 DEF Settle
  <2>2. /\ dispatched' \in SUBSET Steps
        /\ completed' \in SUBSET Steps
        /\ report' \in [Steps -> StepStatuses \cup {None}]
    BY <1>5 DEF Settle, TypeInv, TypeOK, StepStatuses
  <2> QED
    BY <2>1, <2>2, <1>5 DEF Settle, TypeInv, TypeOK, runVars, threadVars
<1>6. CASE Join
  BY <1>6 DEF Join, TypeInv, TypeOK, runVars, bookVars, threadVars
<1> QED
  BY <1>1, <1>2, <1>3, <1>4, <1>5, <1>6, TypeDispatchWait, TypeDispatchRun,
     TypeReceive DEF Main

LEMMA TypeWorker ==
  ASSUME TypeInv, NEW w \in Workers, Worker(w) \/ WorkerPanic(w)
  PROVE  TypeInv'
<1>1. CASE WorkerTake(w)
  BY <1>1 DEF WorkerTake, TypeInv, TypeOK, runVars, scanVars, bookVars
<1>2. CASE WorkerReport(w)
  <2>1. done' \in Seq(Message)
    BY <1>2, RunTyped, StatusesTyped
       DEF WorkerReport, Send, Message, TypeInv, TypeOK
  <2> QED
    BY <2>1, <1>2 DEF WorkerReport, TypeInv, TypeOK, runVars, scanVars, bookVars
<1>3. CASE WorkerPanic(w)
  BY <1>3 DEF WorkerPanic, TypeInv, TypeOK, runVars, scanVars, bookVars
<1> QED
  BY <1>1, <1>2, <1>3 DEF Worker

LEMMA TypeWaiterReport ==
  ASSUME TypeInv, NEW i \in Steps, NEW s \in StepStatuses, WaiterReport(i, s)
  PROVE  TypeInv'
<1>1. done' \in Seq(Message)
  BY DEF WaiterReport, Send, Message, TypeInv, TypeOK
<1> QED
  BY <1>1 DEF WaiterReport, TypeInv, TypeOK, runVars, scanVars, bookVars

LEMMA TypeWaiter ==
  ASSUME TypeInv, NEW i \in Steps, Waiter(i) \/ WaiterPanic(i)
  PROVE  TypeInv'
<1>1. CASE WaiterAnswer(i)
  BY <1>1, TypeWaiterReport, RunTyped, StatusesTyped
     DEF WaiterAnswer, TypeInv, TypeOK
<1>2. CASE WaiterSleep(i)
  BY <1>2 DEF WaiterSleep, TypeInv, TypeOK, runVars, scanVars, bookVars
<1>3. CASE WaiterWake(i)
  BY <1>3, SchedulerAssumption
     DEF WaiterWake, TypeInv, TypeOK, runVars, scanVars, bookVars
<1>4. CASE WaiterCancelled(i)
  BY <1>4, TypeWaiterReport DEF WaiterCancelled, StepStatuses
<1>5. CASE WaiterPanic(i)
  BY <1>5 DEF WaiterPanic, TypeInv, TypeOK, runVars, scanVars, bookVars
<1> QED
  BY <1>1, <1>2, <1>3, <1>4, <1>5 DEF Waiter

\* Every step of the scheduler, of its workers and of its wait threads keeps
\* every variable in its type.
THEOREM TypeCorrect == Spec => []TypeOK
<1>1. TypeInv /\ [Next]_vars => TypeInv'
  <2>1. ASSUME TypeInv, UNCHANGED vars PROVE TypeInv'
    BY <2>1 DEF TypeInv, TypeOK, vars, runVars, scanVars, bookVars, threadVars
  <2> QED
    BY <2>1, TypeMain, TypeWorker, TypeWaiter DEF Next, Panic, Returned
<1>2. TypeInv => TypeOK
  BY DEF TypeInv
<1> QED
  BY <1>1, <1>2, TypeInit, PTL DEF Spec

-----------------------------------------------------------------------------
(* The inductive invariant. *)

LEMMA InFlightFinite ==
  ASSUME TypeOK
  PROVE  /\ InFlight \in SUBSET Steps
         /\ IsFiniteSet(InFlight)
         /\ Cardinality(InFlight) \in Nat
         /\ Cardinality(InFlight) = 0 <=> InFlight = {}
<1>1. InFlight \in SUBSET Steps
  BY DEF TypeOK, InFlight
<1> QED BY <1>1, StepsTyped, FS_Subset, FS_CardinalityType, FS_EmptySet

LEMMA PlayFrame ==
  ASSUME run' = run
  PROVE  /\ \A i \in Steps : /\ Kind(i)' = Kind(i)
                             /\ Lock(i)' = Lock(i)
                             /\ Resource(i)' = Resource(i)
                             /\ Deps(i)' = Deps(i)
                             /\ IsWait(i)' <=> IsWait(i)
                             /\ IsGlobal(i)' <=> IsGlobal(i)
                             /\ IsExclusive(i)' <=> IsExclusive(i)
                             /\ HoldsLock(i)' <=> HoldsLock(i)
         /\ \A i, j \in Steps : Conflict(i, j)' <=> Conflict(i, j)
  BY DEF Kind, Lock, Resource, Class, Deps, IsWait, IsGlobal, IsExclusive,
         HoldsLock, Conflict

LEMMA IInit == Init => IInv
<1> SUFFICES ASSUME Init PROVE IInv
  OBVIOUS
<1>1. InFlight = {} /\ Cardinality(InFlight) = 0
  BY FS_EmptySet DEF Init, InFlight
<1>2. WorkerHands
  BY DEF Init, WorkerHands, Loaded
<1>3. Messages /\ Custody /\ MutualExclusion
  BY <1>1, StepsTyped DEF Init, Messages, Custody, MutualExclusion, Waits, Carries,
     Reported, NoStep
<1>4. Books
  BY <1>1 DEF Init, Books, None
<1> QED BY <1>2, <1>3, <1>4 DEF IInv

\* A step that leaves the threads, the messages and the set of steps in
\* flight alone leaves custody and mutual exclusion alone.
LEMMA CustodyFrame ==
  ASSUME IInv, TypeOK, run' = run, pool' = pool, InFlight' = InFlight,
         idle_workers' = idle_workers, done' = done, UNCHANGED threadVars
  PROVE  (WorkerHands /\ Messages /\ Custody /\ MutualExclusion)'
<1>1. WorkerHands'
  BY DEF IInv, WorkerHands, Loaded, threadVars
<1>2. Messages'
  BY DEF IInv, Messages, Loaded, threadVars, Kind, IsWait
<1>3. Custody'
  BY DEF IInv, Custody, Waits, Carries, Reported, threadVars, Kind
<1>4. MutualExclusion'
  BY PlayFrame, InFlightFinite DEF IInv, MutualExclusion
<1> QED BY <1>1, <1>2, <1>3, <1>4

LEMMA IResolve ==
  ASSUME TypeOK, IInv, NEW i \in Steps, NEW s \in StepStatuses, Turn(i),
         ResolveAs(i, s)
  PROVE  IInv'
<1>1. i \notin dispatched
  BY DEF Turn, Actionable, Ready
<1>2. InFlight' = InFlight
  BY <1>1 DEF ResolveAs, InFlight
<1>3. (WorkerHands /\ Messages /\ Custody /\ MutualExclusion)'
  BY <1>2, CustodyFrame DEF ResolveAs, runVars
<1>4. /\ completed' \subseteq dispatched'
      /\ completed' = {j \in Steps : report'[j] # None}
  BY DEF IInv, Books, TypeOK, ResolveAs, StepStatuses, None
<1>5. Books'
  BY <1>2, <1>4, PlayFrame, InFlightFinite DEF IInv, Books, ResolveAs, runVars
<1> QED BY <1>3, <1>5 DEF IInv

LEMMA IEndPass ==
  ASSUME TypeOK, IInv, EndPass \/ Join
  PROVE  IInv'
<1>1. UNCHANGED <<runVars, bookVars, threadVars, done>>
  BY DEF EndPass, Join
<1>2. InFlight' = InFlight
  BY <1>1 DEF InFlight, bookVars
<1>3. (WorkerHands /\ Messages /\ Custody /\ MutualExclusion)'
  BY <1>1, <1>2, CustodyFrame DEF runVars, bookVars
<1>4. Books'
  BY <1>1, <1>2, PlayFrame, InFlightFinite DEF IInv, Books, runVars, bookVars
<1> QED BY <1>3, <1>4 DEF IInv

LEMMA ISettle ==
  ASSUME TypeOK, IInv, Settle
  PROVE  IInv'
<1>1. InFlight' = InFlight
  BY DEF TypeOK, Settle, InFlight
<1>2. (WorkerHands /\ Messages /\ Custody /\ MutualExclusion)'
  BY <1>1, CustodyFrame DEF Settle, runVars
<1>3. /\ completed' \subseteq dispatched'
      /\ completed' = {j \in Steps : report'[j] # None}
  <2>1. CASE \E j \in Steps : Ready(j)
    BY <2>1 DEF IInv, Books, Settle
  <2>2. CASE ~ \E j \in Steps : Ready(j)
    <3>1. /\ dispatched' = Steps
          /\ completed' = completed \cup (Steps \ dispatched)
          /\ report' = [j \in Steps |->
                          IF j \in dispatched THEN report[j] ELSE "NotRun"]
      BY <2>2 DEF Settle
    <3> QED BY <3>1 DEF IInv, Books, TypeOK, None
  <2> QED BY <2>1, <2>2
<1>4. Books'
  BY <1>1, <1>3, PlayFrame, InFlightFinite DEF IInv, Books, Settle, runVars
<1> QED BY <1>2, <1>4 DEF IInv

\* What one more step in flight does to the counter.
LEMMA OneMore ==
  ASSUME TypeOK, Books, NEW i \in Steps, i \notin dispatched,
         dispatched' = dispatched \cup {i}, completed' = completed,
         in_flight' = in_flight + 1
  PROVE  /\ i \notin InFlight /\ i \notin completed
         /\ InFlight' = InFlight \cup {i}
         /\ in_flight' = Cardinality(InFlight')
         /\ completed' \subseteq dispatched'
<1>1. i \notin InFlight /\ i \notin completed /\ InFlight' = InFlight \cup {i}
  BY DEF Books, InFlight
<1>2. Cardinality(InFlight \cup {i}) = Cardinality(InFlight) + 1
  BY <1>1, InFlightFinite, FS_AddElement
<1> QED BY <1>1, <1>2 DEF Books

\* A step that is let through while the scheduler's books are right is kept
\* apart from every step in flight.
LEMMA WaitKeptApart ==
  ASSUME TypeOK, Books, WaitAdmitted, NEW i \in Steps, IsWait(i),
         NEW j \in InFlight
  PROVE  run.parallel /\ ~Conflict(i, j) /\ ~Conflict(j, i)
<1>1. ~IsGlobal(j)
  BY DEF WaitAdmitted, Books
<1>2. run.parallel
  BY InFlightFinite DEF WaitAdmitted, Books
<1> QED BY <1>1, <1>2 DEF Conflict, IsWait, IsGlobal, IsExclusive, HoldsLock

LEMMA RunKeptApart ==
  ASSUME TypeOK, Books, NEW i \in Steps, Kind(i) = "run", RunAdmitted(i),
         NEW j \in InFlight
  PROVE  run.parallel /\ ~Conflict(i, j) /\ ~Conflict(j, i)
<1>1. ~IsGlobal(j) /\ ~IsGlobal(i) /\ run.parallel
  BY InFlightFinite DEF RunAdmitted, PoolAdmits, ClassAdmits, WaitAdmitted, Books
<1>2. j \in Steps /\ Resource(j) \in Resources /\ (HoldsLock(j) => Lock(j) \in Locks)
  BY InFlightFinite, RunTyped DEF TypeOK, Plan, Resource, HoldsLock, Lock, Kind
<1>3. ~(IsExclusive(i) /\ IsExclusive(j) /\ Resource(i) = Resource(j))
  BY <1>2 DEF RunAdmitted, ClassAdmits, Books
<1>4. ~(HoldsLock(i) /\ HoldsLock(j) /\ Lock(i) = Lock(j))
  BY <1>2 DEF RunAdmitted, LockAdmits, Books
<1> QED BY <1>1, <1>3, <1>4 DEF Conflict

LEMMA OneMoreApart ==
  ASSUME TypeOK, MutualExclusion, run' = run,
         NEW i \in Steps, InFlight' = InFlight \cup {i},
         \A j \in InFlight : run.parallel /\ ~Conflict(i, j) /\ ~Conflict(j, i)
  PROVE  MutualExclusion'
<1> SUFFICES ASSUME NEW j \in InFlight \cup {i}, NEW k \in InFlight \cup {i}, j # k
             PROVE  run.parallel /\ ~Conflict(j, k)
  <2>1. InFlight \cup {i} \subseteq Steps
    BY InFlightFinite
  <2> QED BY <2>1, PlayFrame DEF MutualExclusion
<1> QED BY DEF MutualExclusion

LEMMA IDispatchWait ==
  ASSUME TypeOK, IInv, NEW i \in Steps, DispatchWait(i)
  PROVE  IInv'
<1> USE DEF IInv
<1>1. /\ i \notin dispatched /\ IsWait(i) /\ WaitAdmitted
      /\ run' = run /\ pool' = pool
  BY DEF DispatchWait, Turn, Actionable, Ready, Proceeds, IsWait, runVars
<1>2. /\ i \notin InFlight /\ i \notin completed
      /\ InFlight' = InFlight \cup {i}
      /\ in_flight' = Cardinality(InFlight')
      /\ completed' \subseteq dispatched'
  BY <1>1, OneMore DEF DispatchWait
<1>3. MutualExclusion'
  BY <1>1, <1>2, WaitKeptApart, OneMoreApart
<1>4. Books'
  <2>1. ~HoldsLock(i) /\ ~IsExclusive(i) /\ ~IsGlobal(i)
    BY <1>1 DEF IsWait, HoldsLock, IsExclusive, IsGlobal
  <2> QED
    BY <1>1, <1>2, <2>1, PlayFrame, InFlightFinite DEF Books, DispatchWait
<1>5. ~Waits(i) /\ ~Reported(i) /\ \A w \in Workers : ~Carries(w, i)
  BY <1>2 DEF Custody, Messages, Reported
<1>6. CASE Kind(i) = "wait"
  <2>1. UNCHANGED <<done, jobs, working, dead, idle_workers>>
    BY <1>6 DEF DispatchWait
  <2>2. \A j \in Steps : Waits(j)' <=> (Waits(j) \/ j = i)
    BY <1>6 DEF DispatchWait, Waits, TypeOK
  <2>3. \A j \in Steps : Reported(j)' <=> Reported(j)
    BY <2>1 DEF Reported
  <2>4. \A w \in Workers : /\ Loaded(w)' <=> Loaded(w)
                           /\ \A j \in Steps : Carries(w, j)' <=> Carries(w, j)
    BY <2>1 DEF Loaded, Carries
  <2>5. WorkerHands'
    BY <1>1, <2>1 DEF WorkerHands, Loaded
  <2>6. Messages'
    BY <1>1, <1>2, <2>1 DEF Messages, Loaded, IsWait, Kind
  <2>7. Custody'
    <3>1. \A j \in Steps : Kind(j)' = Kind(j)
      BY <1>1, PlayFrame
    <3>2. InFlight' \subseteq Steps
      BY <1>2, InFlightFinite
    <3> QED
      BY <1>2, <1>5, <1>6, <2>2, <2>3, <2>4, <3>1, <3>2 DEF Custody
  <2> QED BY <1>3, <1>4, <2>5, <2>6, <2>7
<1>7. CASE Kind(i) = "noprobe"
  <2> DEFINE msg == [idx |-> i, worker |-> NoWorker, status |-> "Error"]
  <2>1. UNCHANGED <<waiter, jobs, working, dead, idle_workers>>
    BY <1>7 DEF DispatchWait
  <2>2. /\ done \in Seq(Message) /\ done' = Append(done, msg)
        /\ msg \in Message
    BY <1>7 DEF DispatchWait, TypeOK, Message, StepStatuses
  <2>3. /\ Len(done') = Len(done) + 1 /\ Len(done) \in Nat
        /\ \A k \in 1 .. Len(done) : done'[k] = done[k]
        /\ done'[Len(done) + 1] = msg
    BY <2>2
  <2>4. \A j \in Steps : Reported(j)' <=> (Reported(j) \/ j = i)
    BY <2>3 DEF Reported
  <2>5. \A j \in Steps : Waits(j)' <=> Waits(j)
    BY <2>1 DEF Waits
  <2>6. \A w \in Workers : /\ Loaded(w)' <=> Loaded(w)
                           /\ \A j \in Steps : Carries(w, j)' <=> Carries(w, j)
    BY <2>1 DEF Loaded, Carries
  <2>7. WorkerHands'
    BY <1>1, <2>1, <2>3 DEF WorkerHands, Loaded
  <2>8. Messages'
    <3>1. \A k \in 1 .. Len(done) : done[k].idx # i
      BY <1>5 DEF Reported
    <3> QED
      BY <1>1, <1>2, <2>1, <2>3, <3>1 DEF Messages, Loaded, IsWait, Kind
  <2>9. Custody'
    <3>1. \A j \in Steps : Kind(j)' = Kind(j)
      BY <1>1, PlayFrame
    <3>2. InFlight' \subseteq Steps
      BY <1>2, InFlightFinite
    <3> QED
      BY <1>2, <1>5, <1>7, <2>4, <2>5, <2>6, <3>1, <3>2 DEF Custody
  <2> QED BY <1>3, <1>4, <2>7, <2>8, <2>9
<1> QED BY <1>1, <1>6, <1>7 DEF IsWait

LEMMA IDispatchRun ==
  ASSUME TypeOK, IInv, NEW i \in Steps, DispatchRun(i)
  PROVE  IInv'
<1> USE DEF IInv
<1>1. /\ i \notin dispatched /\ Kind(i) = "run" /\ RunAdmitted(i)
      /\ run' = run /\ pool' = pool
  BY DEF DispatchRun, Turn, Actionable, Ready, Proceeds, IsWait, runVars
<1>2. /\ i \notin InFlight /\ i \notin completed
      /\ InFlight' = InFlight \cup {i}
      /\ in_flight' = Cardinality(InFlight')
      /\ completed' \subseteq dispatched'
  BY <1>1, OneMore DEF DispatchRun
<1>3. MutualExclusion'
  BY <1>1, <1>2, RunKeptApart, OneMoreApart
<1>4. Books'
  <2>1. \A l \in Locks : l \in held_locks' <=>
          \E j \in InFlight' : HoldsLock(j)' /\ Lock(j)' = l
    BY <1>1, <1>2, PlayFrame, InFlightFinite DEF Books, DispatchRun
  <2>2. \A r \in Resources : r \in running_exclusive' <=>
          \E j \in InFlight' : IsExclusive(j)' /\ Resource(j)' = r
    BY <1>1, <1>2, PlayFrame, InFlightFinite DEF Books, DispatchRun
  <2>3. global_running' <=> \E j \in InFlight' : IsGlobal(j)'
    <3>1. \A j \in InFlight : ~IsGlobal(j)
      BY <1>1 DEF Books, RunAdmitted, PoolAdmits, WaitAdmitted
    <3> QED
      BY <1>1, <1>2, <3>1, PlayFrame, InFlightFinite DEF DispatchRun
  <2> QED BY <1>2, <2>1, <2>2, <2>3 DEF Books, DispatchRun
<1>5. ~Waits(i) /\ ~Reported(i) /\ \A w \in Workers : ~Carries(w, i)
  BY <1>2 DEF Custody, Messages, Reported
<1>6. PICK w \in idle_workers : /\ idle_workers' = idle_workers \ {w}
                               /\ jobs' = [jobs EXCEPT ![w] = Append(@, i)]
  BY DEF DispatchRun
<1>7. UNCHANGED <<waiter, working, dead, done>>
  BY DEF DispatchRun
<1>8. w \in Workers /\ w \in pool /\ ~Loaded(w) /\ jobs[w] = <<>> /\ working[w] = NoStep
  BY <1>6 DEF TypeOK, WorkerHands, Loaded
<1>9. /\ jobs'[w] = <<i>>
      /\ \A v \in Workers \ {w} : jobs'[v] = jobs[v]
  BY <1>6, <1>8 DEF TypeOK
<1>10. \A k \in 1 .. Len(done) : done[k].worker # w
  <2>1. NoWorker # w
    BY <1>8, SchedulerAssumption
  <2> QED BY <1>6, <2>1 DEF Messages
<1>11. WorkerHands'
  <2>1. \A v \in Workers : Loaded(v)' <=> (Loaded(v) \/ v = w)
    BY <1>7, <1>9 DEF Loaded
  <2>2. idle_workers' \subseteq pool'
    BY <1>1, <1>6 DEF WorkerHands
  <2>3. ASSUME NEW v \in Workers
        PROVE  /\ jobs'[v] = <<>> \/ \E j \in Steps : jobs'[v] = <<j>>
               /\ Loaded(v)' => v \in pool' \ idle_workers'
               /\ jobs'[v] # <<>> => working'[v] = NoStep
               /\ v \in dead' => working'[v] # NoStep
    BY <1>1, <1>6, <1>7, <1>8, <1>9, <2>1 DEF WorkerHands
  <2>4. \A v \in pool : v \in Workers
    BY DEF TypeOK
  <2>5. \A v \in pool' : \/ v \in idle_workers'
                        \/ Loaded(v)'
                        \/ \E k \in 1 .. Len(done') : done'[k].worker = v
    BY <1>1, <1>6, <1>7, <2>1, <2>4 DEF WorkerHands
  <2> QED BY <2>2, <2>3, <2>5 DEF WorkerHands
<1>12. Messages'
  <2>1. \A v \in Workers : Loaded(v)' <=> (Loaded(v) \/ v = w)
    BY <1>7, <1>9 DEF Loaded
  <2>2. \A j \in Steps : Kind(j)' = Kind(j) /\ (IsWait(j)' <=> IsWait(j))
    BY <1>1, PlayFrame
  <2>3. InFlight \subseteq Steps /\ pool \subseteq Workers
    BY InFlightFinite DEF TypeOK
  <2> QED
    BY <1>1, <1>2, <1>6, <1>7, <1>10, <2>1, <2>2, <2>3 DEF Messages
<1>13. Custody'
  <2>1. \A j \in Steps : /\ Waits(j)' <=> Waits(j)
                         /\ Reported(j)' <=> Reported(j)
                         /\ Kind(j)' = Kind(j)
    BY <1>1, <1>7, PlayFrame DEF Waits, Reported
  <2>2. \A v \in Workers, j \in Steps :
          Carries(v, j)' <=> (Carries(v, j) \/ (v = w /\ j = i))
    BY <1>7, <1>8, <1>9, StepsTyped DEF Carries
  <2>3. InFlight' \subseteq Steps
    BY <1>2, InFlightFinite
  <2> QED BY <1>1, <1>2, <1>5, <1>8, <2>1, <2>2, <2>3 DEF Custody
<1> QED BY <1>3, <1>4, <1>11, <1>12, <1>13

LEMMA IReceive ==
  ASSUME TypeOK, IInv, Receive
  PROVE  IInv'
<1> DEFINE msg == Head(done)
           i == msg.idx
<1> USE DEF IInv
<1>1. /\ done \in Seq(Message) /\ done # <<>>
      /\ done' = Tail(done) /\ run' = run /\ pool' = pool
      /\ UNCHANGED <<dispatched, jobs, working, dead, waiter>>
  BY DEF Receive, TypeOK, runVars, threadVars
<1>2. /\ Len(done) \in Nat \ {0} /\ msg = done[1] /\ msg \in Message
      /\ Len(done') = Len(done) - 1
      /\ \A k \in 1 .. Len(done') : done'[k] = done[k + 1]
  BY <1>1
<1>3. /\ i \in Steps /\ i \in InFlight /\ msg.status \in StepStatuses
      /\ 1 \in 1 .. Len(done)
  <2>1. 1 \in 1 .. Len(done)
    BY <1>2
  <2>2. i \in Steps /\ msg.status \in StepStatuses
    BY <1>2 DEF Message
  <2> QED BY <1>2, <2>1, <2>2 DEF Messages
<1>4. completed' = completed \cup {i} /\ in_flight' = in_flight - 1
  BY DEF Receive
<1>5. InFlight' = InFlight \ {i}
  BY <1>1, <1>4 DEF InFlight
<1>6. \A k \in 1 .. Len(done') : /\ k + 1 \in 1 .. Len(done)
                                 /\ done[k + 1].idx # i
                                 /\ done[k + 1].worker = msg.worker => msg.worker = NoWorker
  <2>1. \A k \in 1 .. Len(done') : k + 1 \in 1 .. Len(done) /\ k + 1 # 1
    BY <1>2
  <2> QED BY <1>2, <1>3, <2>1 DEF Messages
<1>7. \A j \in Steps : Reported(j)' <=> Reported(j) /\ j # i
  <2>1. ASSUME NEW j \in Steps, Reported(j), j # i PROVE Reported(j)'
    <3>1. PICK k \in 1 .. Len(done) : done[k].idx = j
      BY <2>1 DEF Reported
    <3>2. k # 1
      BY <1>2, <2>1, <3>1
    <3>3. k - 1 \in 1 .. Len(done') /\ (k - 1) + 1 = k
      BY <1>2, <3>1, <3>2
    <3>4. done'[k - 1] = done[k]
      BY <1>2, <3>3
    <3> QED BY <3>1, <3>3, <3>4 DEF Reported
  <2>2. ASSUME NEW j \in Steps, Reported(j)' PROVE Reported(j) /\ j # i
    BY <1>2, <1>6, <2>2 DEF Reported
  <2> QED BY <2>1, <2>2
<1>8. idle_workers' = idle_workers \cup ({msg.worker} \ {NoWorker})
  BY DEF Receive
<1>9. \A w \in Workers : Loaded(w)' <=> Loaded(w)
  BY <1>1 DEF Loaded
<1>10. msg.worker = NoWorker \/ (msg.worker \in pool \ idle_workers /\ ~Loaded(msg.worker))
  BY <1>2, <1>3 DEF Messages
<1>11. WorkerHands'
  <2>1. idle_workers' \subseteq pool'
    BY <1>1, <1>8, <1>10 DEF WorkerHands
  <2>2. \A w \in Workers :
          /\ jobs'[w] = <<>> \/ \E j \in Steps : jobs'[w] = <<j>>
          /\ Loaded(w)' => w \in pool' \ idle_workers'
          /\ jobs'[w] # <<>> => working'[w] = NoStep
          /\ w \in dead' => working'[w] # NoStep
    BY <1>1, <1>8, <1>9, <1>10 DEF WorkerHands
  <2>3. ASSUME NEW w \in pool', w \notin idle_workers', ~Loaded(w)'
        PROVE  \E k \in 1 .. Len(done') : done'[k].worker = w
    <3>1. w \in Workers /\ w # NoWorker
      BY <1>1, SchedulerAssumption DEF TypeOK
    <3>2. PICK k \in 1 .. Len(done) : done[k].worker = w
      BY <1>1, <1>8, <1>9, <2>3, <3>1 DEF WorkerHands
    <3>3. k # 1
      BY <1>2, <1>8, <2>3, <3>1, <3>2
    <3>4. k - 1 \in 1 .. Len(done') /\ (k - 1) + 1 = k
      BY <1>2, <3>2, <3>3
    <3>5. done'[k - 1] = done[k]
      BY <1>2, <3>4
    <3> QED BY <3>2, <3>4, <3>5
  <2> QED BY <2>1, <2>2, <2>3 DEF WorkerHands
<1>12. Messages'
  <2>1. ASSUME NEW k \in 1 .. Len(done')
        PROVE  /\ done'[k].idx \in InFlight'
               /\ IF done'[k].worker = NoWorker
                  THEN run'.plan[done'[k].idx].kind \in {"wait", "noprobe"}
                  ELSE /\ run'.plan[done'[k].idx].kind = "run"
                       /\ done'[k].worker \in pool' \ idle_workers'
                       /\ jobs'[done'[k].worker] = <<>>
                       /\ working'[done'[k].worker] = NoStep
    <3>1. k + 1 \in 1 .. Len(done) /\ done'[k] = done[k + 1]
      BY <1>2, <1>6
    <3>2. /\ done'[k].idx \in InFlight /\ done'[k].idx # i
          /\ done'[k].worker = msg.worker => msg.worker = NoWorker
      BY <1>6, <3>1 DEF Messages
    <3>3. CASE done'[k].worker = NoWorker
      <4>1. IsWait(done[k + 1].idx)
        BY <3>1, <3>3 DEF Messages
      <4> QED BY <1>1, <1>5, <3>1, <3>2, <3>3, <4>1 DEF IsWait, Kind
    <3>4. CASE done'[k].worker # NoWorker
      <4>1. /\ Kind(done[k + 1].idx) = "run"
            /\ done[k + 1].worker \in pool \ idle_workers
            /\ ~Loaded(done[k + 1].worker)
        BY <3>1, <3>4 DEF Messages
      <4> QED
        BY <1>1, <1>5, <1>8, <3>1, <3>2, <3>4, <4>1 DEF Kind, Loaded
    <3> QED BY <3>3, <3>4
  <2>2. ASSUME NEW k \in 1 .. Len(done'), NEW l \in 1 .. Len(done'), k # l
        PROVE  /\ done'[k].idx # done'[l].idx
               /\ done'[k].worker = done'[l].worker => done'[k].worker = NoWorker
    <3>1. /\ k + 1 \in 1 .. Len(done) /\ done'[k] = done[k + 1]
          /\ l + 1 \in 1 .. Len(done) /\ done'[l] = done[l + 1]
      BY <1>2, <1>6
    <3>2. k + 1 # l + 1
      BY <1>2, <2>2
    <3> QED BY <3>1, <3>2 DEF Messages
  <2> QED BY <2>1, <2>2 DEF Messages, IsWait, Kind, Loaded
<1>13. Custody'
  <2>1. \A j \in Steps : Waits(j)' <=> Waits(j)
    BY <1>1 DEF Waits
  <2>2. \A j \in Steps, w \in Workers : Carries(w, j)' <=> Carries(w, j)
    BY <1>1 DEF Carries
  <2>3. Reported(i)
    BY <1>2, <1>3 DEF Reported
  <2>4. InFlight \subseteq Steps /\ \A j \in Steps : Kind(j)' = Kind(j)
    BY <1>1, InFlightFinite, PlayFrame
  <2> QED BY <1>3, <1>5, <1>7, <2>1, <2>2, <2>3, <2>4 DEF Custody
<1>14. MutualExclusion'
  BY <1>1, <1>5, PlayFrame, InFlightFinite DEF MutualExclusion
<1>15. Books'
  <2>1. completed' \subseteq dispatched' /\ completed' = {j \in Steps : report'[j] # None}
    <3>1. report' = [report EXCEPT ![i] = msg.status] /\ msg.status # None
      BY <1>3 DEF Receive, StepStatuses, None
    <3> QED BY <1>1, <1>3, <1>4, <3>1 DEF Books, TypeOK, InFlight
  <2>2. in_flight' = Cardinality(InFlight')
    <3>1. IsFiniteSet(InFlight)
      BY InFlightFinite
    <3>2. Cardinality(InFlight \ {i}) = Cardinality(InFlight) - 1
      BY <1>3, <3>1, FS_RemoveElement
    <3> QED BY <1>4, <1>5, <3>2 DEF Books
  <2>3. \A j \in InFlight' : j \in Steps /\ j # i /\ j \in InFlight /\ ~Conflict(i, j)
    BY <1>3, <1>5, InFlightFinite DEF MutualExclusion
  <2>4. \A l \in Locks : l \in held_locks' <=>
          \E j \in InFlight' : HoldsLock(j)' /\ Lock(j)' = l
    <3>1. held_locks' = held_locks \ (IF HoldsLock(i) THEN {Lock(i)} ELSE {})
      BY DEF Receive, Release
    <3>2. \A j \in InFlight' : ~(HoldsLock(i) /\ HoldsLock(j) /\ Lock(i) = Lock(j))
      BY <2>3 DEF Conflict
    <3> QED BY <1>1, <1>3, <1>5, <2>3, <3>1, <3>2, PlayFrame DEF Books
  <2>5. \A r \in Resources : r \in running_exclusive' <=>
          \E j \in InFlight' : IsExclusive(j)' /\ Resource(j)' = r
    <3>1. running_exclusive' = running_exclusive
                                 \ (IF IsExclusive(i) THEN {Resource(i)} ELSE {})
      BY DEF Receive, Release
    <3>2. \A j \in InFlight' : ~(IsExclusive(i) /\ IsExclusive(j) /\ Resource(i) = Resource(j))
      BY <2>3 DEF Conflict
    <3> QED BY <1>1, <1>3, <1>5, <2>3, <3>1, <3>2, PlayFrame DEF Books
  <2>6. global_running' <=> \E j \in InFlight' : IsGlobal(j)'
    <3>1. global_running' = (global_running /\ ~IsGlobal(i))
      BY DEF Receive, Release
    <3>2. \A j \in InFlight' : ~IsGlobal(i) /\ ~IsGlobal(j)
      BY <2>3 DEF Conflict
    <3> QED BY <1>1, <1>3, <1>5, <2>3, <3>1, <3>2, PlayFrame DEF Books
  <2> QED BY <2>1, <2>2, <2>4, <2>5, <2>6 DEF Books
<1> QED BY <1>11, <1>12, <1>13, <1>14, <1>15

\* A step of a thread does not touch the scheduler's books.
LEMMA ThreadFrame ==
  ASSUME TypeOK, IInv, UNCHANGED <<runVars, bookVars>>
  PROVE  Books' /\ MutualExclusion' /\ InFlight' = InFlight
<1>1. run' = run /\ InFlight' = InFlight
  BY DEF InFlight, bookVars, runVars
<1>2. Books'
  BY <1>1, PlayFrame, InFlightFinite DEF IInv, Books, runVars, bookVars
<1>3. MutualExclusion'
  BY <1>1, PlayFrame, InFlightFinite DEF IInv, MutualExclusion
<1> QED BY <1>1, <1>2, <1>3

\* What Send does to the done channel.
LEMMA Sent ==
  ASSUME TypeOK, NEW i \in Steps, NEW w \in Workers \cup {NoWorker},
         NEW s \in StepStatuses, Send(i, w, s)
  PROVE  /\ Len(done) \in Nat /\ Len(done') = Len(done) + 1
         /\ \A k \in 1 .. Len(done) : done'[k] = done[k]
         /\ done'[Len(done) + 1] = [idx |-> i, worker |-> w, status |-> s]
         /\ \A j \in Steps : Reported(j)' <=> (Reported(j) \/ j = i)
<1>1. [idx |-> i, worker |-> w, status |-> s] \in Message
  BY DEF Message
<1>2. /\ Len(done) \in Nat /\ Len(done') = Len(done) + 1
      /\ \A k \in 1 .. Len(done) : done'[k] = done[k]
      /\ done'[Len(done) + 1] = [idx |-> i, worker |-> w, status |-> s]
  BY <1>1 DEF TypeOK, Send
<1>3. \A j \in Steps : Reported(j)' <=> (Reported(j) \/ j = i)
  BY <1>2 DEF Reported
<1> QED BY <1>2, <1>3

LEMMA IWorkerTake ==
  ASSUME TypeOK, IInv, NEW w \in Workers, WorkerTake(w)
  PROVE  IInv'
<1> USE DEF IInv
<1>1. UNCHANGED <<runVars, bookVars, done, dead, waiter>>
  BY DEF WorkerTake
<1>2. PICK i \in Steps : jobs[w] = <<i>>
  BY DEF WorkerTake, WorkerHands
<1>3. /\ working' = [working EXCEPT ![w] = i] /\ working[w] = NoStep
      /\ jobs' = [jobs EXCEPT ![w] = <<>>]
      /\ i # NoStep
  BY <1>2, StepsTyped DEF WorkerTake
<1>4. \A v \in Workers : /\ Loaded(v)' <=> Loaded(v)
                         /\ \A j \in Steps : Carries(v, j)' <=> Carries(v, j)
  <2>1. /\ working'[w] = i /\ jobs'[w] = <<>>
        /\ \A v \in Workers \ {w} : working'[v] = working[v] /\ jobs'[v] = jobs[v]
    BY <1>3 DEF TypeOK
  <2>2. \A j \in Steps : <<j>> # <<>> /\ j # NoStep /\ (<<j>> = <<i>> <=> j = i)
    BY StepsTyped
  <2> QED BY <1>2, <1>3, <2>1, <2>2 DEF Loaded, Carries
<1>5. WorkerHands'
  BY <1>1, <1>2, <1>3, <1>4 DEF WorkerHands, TypeOK, runVars, bookVars
<1>6. Messages'
  <2>1. pool \subseteq Workers
    BY DEF TypeOK
  <2> QED
    BY <1>1, <1>4, <2>1, ThreadFrame DEF Messages, IsWait, Kind, runVars, bookVars
<1>7. Custody'
  <2>1. \A j \in Steps : /\ Waits(j)' <=> Waits(j)
                         /\ Reported(j)' <=> Reported(j)
                         /\ Kind(j)' = Kind(j)
    BY <1>1, PlayFrame DEF Waits, Reported, runVars
  <2> QED BY <1>1, <1>4, <2>1, ThreadFrame, InFlightFinite DEF Custody
<1> QED BY <1>1, <1>5, <1>6, <1>7, ThreadFrame

LEMMA IWorkerReport ==
  ASSUME TypeOK, IInv, NEW w \in Workers, WorkerReport(w)
  PROVE  IInv'
<1> DEFINE i == working[w]
<1> USE DEF IInv
<1>1. /\ UNCHANGED <<runVars, bookVars, jobs, dead, waiter>>
      /\ working' = [working EXCEPT ![w] = NoStep]
      /\ w \notin dead
  BY DEF WorkerReport
<1>2. i \in Steps /\ i # NoStep /\ jobs[w] = <<>> /\ w # NoWorker
  BY SchedulerAssumption DEF WorkerReport, TypeOK, WorkerHands
<1>3. PICK s \in StepStatuses : Send(i, w, s)
  BY RunTyped, StatusesTyped DEF WorkerReport, TypeOK
<1>4. /\ Len(done) \in Nat /\ Len(done') = Len(done) + 1
      /\ \A k \in 1 .. Len(done) : done'[k] = done[k]
      /\ done'[Len(done) + 1] = [idx |-> i, worker |-> w, status |-> s]
      /\ \A j \in Steps : Reported(j)' <=> (Reported(j) \/ j = i)
  BY <1>2, <1>3, Sent
<1>5. /\ i \in InFlight /\ Kind(i) = "run" /\ ~Reported(i) /\ ~Waits(i)
      /\ w \in pool \ idle_workers /\ Loaded(w)
      /\ \A v \in Workers : Carries(v, i) => v = w
  BY <1>2 DEF Custody, WorkerHands, Loaded, Carries
<1>6. \A k \in 1 .. Len(done) : done[k].worker # w /\ done[k].idx # i
  BY <1>2, <1>5 DEF Messages, Reported
<1>7. \A v \in Workers : /\ Loaded(v)' <=> (Loaded(v) /\ v # w)
                         /\ \A j \in Steps : Carries(v, j)' <=> (Carries(v, j) /\ v # w)
  <2>1. /\ working'[w] = NoStep /\ jobs'[w] = <<>>
        /\ \A v \in Workers \ {w} : working'[v] = working[v] /\ jobs'[v] = jobs[v]
    BY <1>1, <1>2 DEF TypeOK
  <2>2. \A j \in Steps : <<j>> # <<>> /\ j # NoStep
    BY StepsTyped
  <2> QED BY <2>1, <2>2 DEF Loaded, Carries
<1>8. WorkerHands'
  <2>1. ASSUME NEW v \in pool', v \notin idle_workers', ~Loaded(v)'
        PROVE  \E k \in 1 .. Len(done') : done'[k].worker = v
    <3>1. CASE v = w
      <4>1. Len(done) + 1 \in 1 .. Len(done')
        BY <1>4
      <4> QED BY <3>1, <4>1, <1>4
    <3>2. CASE v # w
      <4>1. v \in pool /\ v \in Workers /\ v \notin idle_workers /\ ~Loaded(v)
        BY <1>1, <1>7, <2>1, <3>2 DEF TypeOK, runVars, bookVars
      <4>2. PICK k \in 1 .. Len(done) : done[k].worker = v
        BY <4>1 DEF WorkerHands
      <4>3. k \in 1 .. Len(done')
        BY <1>4
      <4> QED BY <1>4, <4>2, <4>3
    <3> QED BY <3>1, <3>2
  <2>2. /\ idle_workers' \subseteq pool'
        /\ \A v \in Workers :
             /\ jobs'[v] = <<>> \/ \E j \in Steps : jobs'[v] = <<j>>
             /\ Loaded(v)' => v \in pool' \ idle_workers'
             /\ jobs'[v] # <<>> => working'[v] = NoStep
             /\ v \in dead' => working'[v] # NoStep
    BY <1>1, <1>2, <1>7 DEF WorkerHands, TypeOK, runVars, bookVars
  <2> QED BY <2>1, <2>2 DEF WorkerHands
<1>9. Messages'
  <2>1. /\ \A j \in Steps : Kind(j)' = Kind(j) /\ (IsWait(j)' <=> IsWait(j))
        /\ InFlight' = InFlight /\ InFlight \subseteq Steps
        /\ pool' = pool /\ idle_workers' = idle_workers /\ pool \subseteq Workers
    BY <1>1, PlayFrame, ThreadFrame, InFlightFinite DEF runVars, bookVars, TypeOK
  <2>2. \A k \in 1 .. Len(done') : k \in 1 .. Len(done) \/ k = Len(done) + 1
    BY <1>4
  <2> QED BY <1>2, <1>4, <1>5, <1>6, <1>7, <2>1, <2>2 DEF Messages
<1>10. Custody'
  <2>1. \A j \in Steps : Carries(w, j) => j = i
    BY <1>2 DEF Carries
  <2>2. \A j \in Steps : Kind(j)' = Kind(j)
    BY <1>1, PlayFrame DEF runVars
  <2>3. \A j \in Steps : Waits(j)' <=> Waits(j)
    BY <1>1 DEF Waits
  <2>4. InFlight' = InFlight /\ InFlight \subseteq Steps
    BY <1>1, ThreadFrame, InFlightFinite
  <2> QED BY <1>4, <1>5, <1>7, <2>1, <2>2, <2>3, <2>4 DEF Custody
<1> QED BY <1>1, <1>8, <1>9, <1>10, ThreadFrame

LEMMA IPanic ==
  ASSUME TypeOK, IInv, NEW w \in Workers, WorkerPanic(w)
  PROVE  IInv'
<1> USE DEF IInv
<1>1. /\ UNCHANGED <<runVars, bookVars, jobs, working, waiter, done>>
      /\ dead' = dead \cup {w} /\ working[w] # NoStep
  BY DEF WorkerPanic
<1>2. WorkerHands'
  BY <1>1 DEF WorkerHands, Loaded, runVars, bookVars
<1>3. Messages'
  BY <1>1, ThreadFrame DEF Messages, Loaded, IsWait, Kind, runVars, bookVars
<1>4. Custody'
  BY <1>1, ThreadFrame DEF Custody, Waits, Carries, Reported, Kind, runVars
<1> QED BY <1>1, <1>2, <1>3, <1>4, ThreadFrame

LEMMA IWaiterReport ==
  ASSUME TypeOK, IInv, NEW i \in Steps, NEW s \in StepStatuses,
         waiter[i] \in {"probing", "asleep"}, WaiterReport(i, s)
  PROVE  IInv'
<1> USE DEF IInv
<1>1. /\ UNCHANGED <<runVars, bookVars, jobs, working, dead>>
      /\ waiter' = [waiter EXCEPT ![i] = "gone"]
  BY DEF WaiterReport
<1>2. /\ Len(done) \in Nat /\ Len(done') = Len(done) + 1
      /\ \A k \in 1 .. Len(done) : done'[k] = done[k]
      /\ done'[Len(done) + 1] = [idx |-> i, worker |-> NoWorker, status |-> s]
      /\ \A j \in Steps : Reported(j)' <=> (Reported(j) \/ j = i)
  BY Sent DEF WaiterReport
<1>3. i \in InFlight /\ Kind(i) = "wait" /\ ~Reported(i)
  BY DEF Waits, Custody
<1>4. \A k \in 1 .. Len(done) : done[k].idx # i
  BY <1>3 DEF Reported
<1>5. \A v \in Workers : /\ Loaded(v)' <=> Loaded(v)
                         /\ \A j \in Steps : Carries(v, j)' <=> Carries(v, j)
  BY <1>1 DEF Loaded, Carries
<1>6. \A j \in Steps : Waits(j)' <=> (Waits(j) /\ j # i)
  BY <1>1 DEF TypeOK, Waits
<1>7. WorkerHands'
  <2>1. \A k \in 1 .. Len(done) : k \in 1 .. Len(done') /\ done'[k] = done[k]
    BY <1>2
  <2>2. \A v \in pool : v \in Workers
    BY DEF TypeOK
  <2> QED BY <1>1, <1>5, <2>1, <2>2 DEF WorkerHands, runVars, bookVars
<1>8. Messages'
  <2>1. /\ \A j \in Steps : Kind(j)' = Kind(j) /\ (IsWait(j)' <=> IsWait(j))
        /\ InFlight' = InFlight /\ InFlight \subseteq Steps
        /\ pool' = pool /\ idle_workers' = idle_workers /\ pool \subseteq Workers
    BY <1>1, PlayFrame, ThreadFrame, InFlightFinite DEF runVars, bookVars, TypeOK
  <2>2. \A k \in 1 .. Len(done') : k \in 1 .. Len(done) \/ k = Len(done) + 1
    BY <1>2
  <2>3. IsWait(i)
    BY <1>3 DEF IsWait
  <2> QED BY <1>2, <1>3, <1>4, <1>5, <2>1, <2>2, <2>3 DEF Messages
<1>9. Custody'
  <2>1. \A j \in Steps : Kind(j)' = Kind(j)
    BY <1>1, PlayFrame DEF runVars
  <2>2. InFlight' = InFlight /\ InFlight \subseteq Steps
    BY <1>1, ThreadFrame, InFlightFinite
  <2> QED BY <1>2, <1>3, <1>5, <1>6, <2>1, <2>2 DEF Custody
<1> QED BY <1>1, <1>7, <1>8, <1>9, ThreadFrame

LEMMA IWaiter ==
  ASSUME TypeOK, IInv, NEW i \in Steps, Waiter(i) \/ WaiterPanic(i)
  PROVE  IInv'
<1>1. CASE WaiterAnswer(i)
  BY <1>1, IWaiterReport, RunTyped, StatusesTyped DEF WaiterAnswer, TypeOK
<1>2. CASE WaiterCancelled(i)
  BY <1>2, IWaiterReport DEF WaiterCancelled, StepStatuses
<1>3. CASE WaiterSleep(i) \/ WaiterWake(i) \/ WaiterPanic(i)
  <2>1. UNCHANGED <<runVars, bookVars, jobs, working, dead, done>>
    BY <1>3 DEF WaiterSleep, WaiterWake, WaiterPanic
  <2>2. \A j \in Steps : Waits(j)' <=> Waits(j)
    BY <1>3 DEF WaiterSleep, WaiterWake, WaiterPanic, Waits, TypeOK
  <2>3. WorkerHands'
    BY <2>1 DEF IInv, WorkerHands, Loaded, runVars, bookVars
  <2>4. Messages'
    BY <2>1, ThreadFrame DEF IInv, Messages, Loaded, IsWait, Kind, runVars, bookVars
  <2>5. Custody'
    <3>1. \A j \in Steps : /\ Kind(j)' = Kind(j)
                           /\ Reported(j)' <=> Reported(j)
                           /\ \A w \in Workers : Carries(w, j)' <=> Carries(w, j)
      BY <2>1 DEF Carries, Reported, Kind, runVars
    <3>2. InFlight' = InFlight /\ InFlight \subseteq Steps
      BY <2>1, ThreadFrame, InFlightFinite
    <3> QED BY <2>2, <3>1, <3>2 DEF IInv, Custody
  <2> QED BY <2>1, <2>3, <2>4, <2>5, ThreadFrame DEF IInv
<1> QED BY <1>1, <1>2, <1>3 DEF Waiter

LEMMA INext ==
  ASSUME TypeOK, IInv, [Next]_vars
  PROVE  IInv'
<1>1. CASE Main
  <2>1. ASSUME NEW i \in Steps, ResolveNotRun(i) \/ ResolveSkip(i) \/ ResolveFail(i)
        PROVE  IInv'
    BY <2>1, IResolve DEF ResolveNotRun, ResolveSkip, ResolveFail, StepStatuses
  <2> QED
    BY <1>1, <2>1, IDispatchWait, IDispatchRun, IEndPass, ISettle, IReceive DEF Main
<1>2. CASE \E w \in Workers : Worker(w)
  BY <1>2, IWorkerTake, IWorkerReport DEF Worker
<1>3. CASE \E i \in Steps : Waiter(i)
  BY <1>3, IWaiter
<1>4. CASE Panic
  BY <1>4, IPanic, IWaiter DEF Panic
<1>5. CASE UNCHANGED vars
  <2>1. UNCHANGED <<runVars, bookVars, threadVars, done>>
    BY <1>5 DEF vars
  <2>2. (WorkerHands /\ Messages /\ Custody /\ MutualExclusion)'
    BY <2>1, CustodyFrame, ThreadFrame DEF runVars, bookVars
  <2> QED BY <2>1, <2>2, ThreadFrame DEF IInv
<1> QED BY <1>1, <1>2, <1>3, <1>4, <1>5 DEF Next, Returned

\* In every reachable state each step in flight is held by exactly one worker,
\* wait thread or message, and the scheduler's books describe those steps.
THEOREM Inductive == Spec => []IInv
<1>1. TypeOK /\ IInv /\ [Next]_vars => IInv'
  BY INext
<1> QED BY <1>1, IInit, TypeCorrect, PTL DEF Spec

\* Two steps in flight never hold the same lock, are never both exclusive on
\* one resource, and a global step is in flight alone, whatever the play, the
\* number of workers, the mode and the threads that die.
THEOREM KeptApart == Spec => []MutualExclusion
<1>1. IInv => MutualExclusion
  BY DEF IInv
<1> QED BY <1>1, Inductive, PTL

-----------------------------------------------------------------------------
(* Consequences. *)

\* A worker of the pool is accounted for once: idle, loaded, or the sender of
\* exactly one message that is not booked yet.
LEMMA WorkerBooked ==
  ASSUME TypeOK, IInv, NEW w \in pool
  PROVE  Len(jobs[w]) + (IF working[w] = NoStep THEN 0 ELSE 1)
           + Cardinality({k \in DOMAIN done : done[k].worker = w})
         = IF w \in idle_workers THEN 0 ELSE 1
<1> DEFINE sent == {k \in DOMAIN done : done[k].worker = w}
<1>1. /\ w \in Workers /\ w # NoWorker
      /\ DOMAIN done = 1 .. Len(done) /\ Len(done) \in Nat
      /\ \A i \in Steps : Len(<<i>>) = 1 /\ <<i>> # <<>>
  BY SchedulerAssumption DEF TypeOK
<1>2. Len(<<>>) = 0
  OBVIOUS
<1>3. CASE Loaded(w)
  <2>1. w \notin idle_workers
    BY <1>1, <1>3 DEF IInv, WorkerHands
  <2>2. sent = {}
    BY <1>1, <1>3 DEF IInv, Messages
  <2>3. Cardinality(sent) = 0
    BY <2>2, FS_EmptySet
  <2>4. CASE jobs[w] # <<>>
    <3>1. Len(jobs[w]) = 1 /\ working[w] = NoStep
      BY <1>1, <2>4 DEF IInv, WorkerHands
    <3> QED BY <2>1, <2>3, <3>1
  <2>5. CASE jobs[w] = <<>>
    BY <1>2, <1>3, <2>1, <2>3, <2>5 DEF Loaded
  <2> QED BY <2>4, <2>5
<1>4. CASE ~Loaded(w) /\ w \in idle_workers
  <2>1. sent = {}
    BY <1>1, <1>4 DEF IInv, Messages
  <2>2. Cardinality(sent) = 0
    BY <2>1, FS_EmptySet
  <2>3. Len(jobs[w]) = 0 /\ working[w] = NoStep
    BY <1>2, <1>4 DEF Loaded
  <2> QED BY <1>4, <2>2, <2>3
<1>5. CASE ~Loaded(w) /\ w \notin idle_workers
  <2>1. PICK k \in 1 .. Len(done) : done[k].worker = w
    BY <1>5 DEF IInv, WorkerHands
  <2>2. sent = {k}
    BY <1>1, <2>1 DEF IInv, Messages
  <2>3. Cardinality(sent) = 1
    BY <2>2, FS_Singleton
  <2>4. Len(jobs[w]) = 0 /\ working[w] = NoStep
    BY <1>2, <1>5 DEF Loaded
  <2> QED BY <1>5, <2>3, <2>4
<1> QED BY <1>3, <1>4, <1>5

\* The counter, the locks, the exclusive resources, the global flag and the
\* list of idle workers always agree with the steps in flight.
THEOREM BooksAgree == Spec => []Accounting
<1>1. TypeOK /\ IInv => Accounting
  <2> SUFFICES ASSUME TypeOK, IInv PROVE Accounting
    OBVIOUS
  <2>1. /\ InFlight \subseteq Steps
        /\ \A i \in InFlight : /\ Resource(i) \in Resources
                               /\ HoldsLock(i) => Lock(i) \in Locks
    BY InFlightFinite, RunTyped DEF TypeOK, Plan, Resource, HoldsLock, Lock, Kind
  <2>2. held_locks = {Lock(i) : i \in {j \in InFlight : HoldsLock(j)}}
    BY <2>1 DEF TypeOK, IInv, Books
  <2>3. running_exclusive = {Resource(i) : i \in {j \in InFlight : IsExclusive(j)}}
    BY <2>1 DEF TypeOK, IInv, Books
  <2> QED BY <2>2, <2>3, WorkerBooked DEF Accounting, IInv, Books
<1> QED BY <1>1, TypeCorrect, Inductive, PTL

\* If no thread dies without reporting, the scheduler never blocks on a
\* channel on which nothing will arrive.
THEOREM NeverStuck == ASSUME ~MayPanic PROVE Spec => []ReceiveReturns
<1> DEFINE Alive == dead = {} /\ \A i \in Steps : waiter[i] # "dead"
<1>1. Init => Alive
  BY DEF Init
<1>2. TypeOK /\ Alive /\ [Next]_vars => Alive'
  BY DEF Next, Main, Worker, Waiter, Panic, Returned, ResolveNotRun, ResolveSkip,
         ResolveFail, ResolveAs, DispatchWait, DispatchRun, EndPass, Settle, Receive,
         Join, WorkerTake, WorkerReport, WorkerPanic, WaiterAnswer, WaiterReport,
         WaiterSleep, WaiterWake, WaiterCancelled, WaiterPanic, vars, threadVars, TypeOK
<1>3. TypeOK /\ IInv /\ Alive => ReceiveReturns
  <2> SUFFICES ASSUME TypeOK, IInv, Alive, in_flight > 0, done = <<>>
               PROVE  \/ \E w \in Workers \ dead : jobs[w] # <<>> \/ working[w] # NoStep
                      \/ \E i \in Steps : waiter[i] \in {"probing", "asleep"}
    BY DEF ReceiveReturns
  <2>1. PICK i \in InFlight : TRUE
    BY InFlightFinite DEF IInv, Books
  <2>2. i \in Steps /\ i # NoStep /\ <<i>> # <<>> /\ ~Reported(i)
    BY InFlightFinite, StepsTyped DEF Reported
  <2>3. CASE Waits(i)
    BY <2>2, <2>3 DEF Waits
  <2>4. CASE \E w \in Workers : Carries(w, i)
    BY <2>2, <2>4 DEF Carries
  <2> QED BY <2>1, <2>2, <2>3, <2>4 DEF IInv, Custody
<1> QED BY <1>1, <1>2, <1>3, TypeCorrect, Inductive, PTL DEF Spec

-----------------------------------------------------------------------------
(* What follows from the graph being acyclic. *)

\* A non-empty set of steps has one whose dependencies are all outside it.
LEMMA FirstOf ==
  ASSUME run \in Runs, NEW S \in SUBSET Steps, S # {}
  PROVE  \E i \in S : Deps(i) \cap S = {}
<1>1. PICK rank \in [Steps -> Steps] :
        \A i \in Steps : \A d \in Deps(i) : rank[d] < rank[i]
  BY PlayAssumption DEF Acyclic, Deps
<1> DEFINE R == {rank[i] : i \in S}
<1>2. R # {} /\ R \subseteq Nat
  BY StepsTyped
<1>3. PICK n \in R : \A m \in R : ~(<<m, n>> \in OpToRel(<, Nat))
  <2> HIDE DEF R
  <2> QED BY <1>2, NatLessThanWellFounded, WFMin, Zenon
<1>4. \A m \in R : ~(m < n)
  BY <1>2, <1>3 DEF OpToRel
<1>5. PICK i \in S : rank[i] = n
  OBVIOUS
<1>6. \A d \in Deps(i) \cap S : rank[d] \in R /\ rank[d] < n
  BY <1>1, <1>5
<1> QED BY <1>4, <1>5, <1>6

-----------------------------------------------------------------------------
(* No pass leaves a step behind. *)

\* The scan is at its start unless this pass changed something; there are
\* workers to run steps.
ScanInv == (progressed \/ cursor = 1) /\ pool # {} /\ WorkConserving

LEMMA ActionableFrame ==
  ASSUME UNCHANGED <<runVars, bookVars>>
  PROVE  \A i \in Steps : Actionable(i)' <=> Actionable(i)
  BY DEF runVars, bookVars, Actionable, Ready, ResolvedNotRun, Blocked, WaitAdmitted,
         RunAdmitted, PoolAdmits, ClassAdmits, LockAdmits, Deps, Kind, Class, Resource,
         Lock, IsWait, IsGlobal, IsExclusive, HoldsLock

LEMMA ScanStep ==
  ASSUME TypeOK, ScanInv, [Next]_vars
  PROVE  ScanInv'
<1> USE DEF ScanInv, WorkConserving, runVars
<1>1. CASE UNCHANGED <<runVars, bookVars, scanVars>>
  BY <1>1, ActionableFrame DEF scanVars, bookVars
<1>2. ASSUME NEW i \in Steps,
             ResolveNotRun(i) \/ ResolveSkip(i) \/ ResolveFail(i) \/ DispatchWait(i)
      PROVE  ScanInv'
  BY <1>2 DEF ResolveNotRun, ResolveSkip, ResolveFail,
              ResolveAs, DispatchWait, Advance, Turn
<1>3. ASSUME NEW i \in Steps, DispatchRun(i) PROVE ScanInv'
  BY <1>3 DEF DispatchRun
<1>4. CASE EndPass
  <2>1. UNCHANGED <<runVars, bookVars>> /\ cursor' = 1
    BY <1>4 DEF EndPass
  <2>2. ASSUME pc' = "settle", ~global_running PROVE \A i \in Steps : ~Actionable(i)
    BY <1>4, <2>2 DEF EndPass, AnotherPass, Steps
  <2> QED BY <2>1, <2>2, ActionableFrame DEF bookVars
<1>5. CASE Settle \/ Receive
  BY <1>5 DEF Settle, Receive
<1>6. CASE Join
  BY <1>6 DEF Join
<1>7. CASE Panic \/ (\E w \in Workers : Worker(w)) \/ (\E i \in Steps : Waiter(i))
  <2>1. UNCHANGED <<runVars, bookVars, scanVars>>
    BY <1>7 DEF Panic, Worker, Waiter, WorkerTake, WorkerReport, WorkerPanic,
                WaiterAnswer, WaiterReport, WaiterSleep, WaiterWake, WaiterCancelled,
                WaiterPanic
  <2> QED BY <1>1, <2>1
<1>8. CASE UNCHANGED vars
  BY <1>1, <1>8 DEF vars
<1> QED BY <1>2, <1>3, <1>4, <1>5, <1>6, <1>7, <1>8 DEF Next, Main, Returned

LEMMA Scanning == Spec => []ScanInv
<1>1. Init => ScanInv
  BY SchedulerAssumption DEF Init, ScanInv, WorkConserving
<1>2. TypeOK /\ ScanInv /\ [Next]_vars => ScanInv'
  BY ScanStep
<1> QED BY <1>1, <1>2, TypeCorrect, PTL DEF Spec

\* When a pass ends the scan, no step that could be acted on is left, unless a
\* global step is running.
THEOREM NothingLeftBehind == Spec => []WorkConserving
<1>1. ScanInv => WorkConserving
  BY DEF ScanInv
<1> QED BY <1>1, Scanning, PTL

\* With nothing in flight every step is admitted, so only a step that waits for
\* another such step can be left, and some step waits for none.
LEMMA AllDispatched ==
  ASSUME TypeOK, IInv, ScanInv, pc = "settle", in_flight = 0
  PROVE  dispatched = Steps
<1>1. InFlight = {} /\ completed = dispatched
  BY InFlightFinite DEF IInv, Books, InFlight
<1>2. ~global_running /\ held_locks = {} /\ running_exclusive = {}
  BY <1>1 DEF IInv, Books, TypeOK
<1>3. PICK w \in pool : w \in idle_workers
  <2>1. \A v \in Workers : ~Loaded(v)
    <3>1. \A v \in Workers, i \in Steps : ~Carries(v, i)
      BY <1>1 DEF IInv, Custody
    <3> QED BY <3>1 DEF IInv, WorkerHands, Loaded, Carries, TypeOK
  <2>2. Len(done) \in Nat /\ 1 .. Len(done) = {}
    BY <1>1 DEF IInv, Messages, TypeOK
  <2> QED BY <2>1, <2>2 DEF IInv, WorkerHands, ScanInv, TypeOK
<1> DEFINE Missing == Steps \ dispatched
<1>4. ASSUME Missing # {} PROVE FALSE
  <2>1. PICK i \in Missing : Deps(i) \cap Missing = {}
    BY <1>4, FirstOf DEF TypeOK
  <2>2. Ready(i)
    BY <1>1, <2>1, RunTyped DEF Ready, Deps, TypeOK
  <2>3. Kind(i) \in Kinds
    BY RunTyped DEF TypeOK, Kind, Plan
  <2>4. RunAdmitted(i) /\ WaitAdmitted
    BY <1>2, <1>3 DEF RunAdmitted, PoolAdmits, WaitAdmitted, ClassAdmits, LockAdmits
  <2>5. Actionable(i)
    BY <2>2, <2>3, <2>4 DEF Actionable, Kinds, IsWait
  <2> QED BY <1>2, <2>5 DEF ScanInv, WorkConserving
<1> QED BY <1>4 DEF TypeOK

\* The guard against a step whose dependencies never complete never fires, and
\* the scheduler never finishes with a step it has not looked at.
THEOREM GuardIsNeverNeeded == Spec => []GuardNeverNeeded
<1>1. TypeOK /\ IInv /\ ScanInv => GuardNeverNeeded
  BY AllDispatched DEF GuardNeverNeeded
<1> QED BY <1>1, Scanning, TypeCorrect, Inductive, PTL

-----------------------------------------------------------------------------
(* What a step of the scheduler does to the fate of the play's steps.       *)

\* The status a step may end with when it has run.
Results(i) ==
  IF Kind(i) = "run" THEN LifecycleStatuses(run.mode)
  ELSE WaitStatuses(run.mode) \cup (IF halted THEN {"NotRun"} ELSE {})

\* The status a step may get without running.
Verdict(i, s) ==
  \/ s = "NotRun" /\ ResolvedNotRun(i)
  \/ s = "Skipped" /\ Kind(i) = "skip" /\ Proceeds(i)
  \/ s = "Error" /\ Kind(i) = "fail" /\ Proceeds(i)

FateKept == UNCHANGED <<dispatched, completed, report, halted, cancelled>>

Reports(i, s) ==
  /\ report' = [report EXCEPT ![i] = s]
  /\ completed' = completed \cup {i}
  /\ halted' = HaltedAfter(s)
  /\ cancelled' = (cancelled \/ halted')

Resolved(i, s) ==
  Ready(i) /\ Verdict(i, s) /\ Reports(i, s) /\ dispatched' = dispatched \cup {i}

Started(i) ==
  /\ Ready(i) /\ Proceeds(i)
  /\ Kind(i) = "run" \/ IsWait(i)
  /\ \A j \in InFlight : run.parallel /\ ~Conflict(i, j)
  /\ dispatched' = dispatched \cup {i}
  /\ UNCHANGED <<completed, report, halted, cancelled>>

Ended(i, s) ==
  i \in InFlight /\ s \in Results(i) /\ Reports(i, s) /\ UNCHANGED dispatched

Fate ==
  /\ run' = run
  /\ \/ FateKept
     \/ \E i \in Steps : \/ Started(i)
                          \/ \E s \in StepStatuses : Resolved(i, s) \/ Ended(i, s)

\* A message carries a status its step may end with.
Answers ==
  \A k \in 1 .. Len(done) : done[k].status \in Results(done[k].idx)

\* A step that was not run is so for a reason.
NotRunCaused == \A i \in Steps : report[i] = "NotRun" => halted \/ Blocked(i)

FateInv == Answers /\ HaltExplained /\ DependenciesFirst /\ NotRunCaused

LEMMA FateStep ==
  ASSUME TypeOK, IInv, ScanInv, Answers, HaltExplained, [Next]_vars
  PROVE  Fate
<1>1. ASSUME NEW i \in Steps, ResolveNotRun(i) \/ ResolveSkip(i) \/ ResolveFail(i)
      PROVE  Fate
  <2>1. Ready(i) /\ run' = run /\ dispatched' = dispatched \cup {i}
    BY <1>1 DEF ResolveNotRun, ResolveSkip, ResolveFail, ResolveAs, Turn, Actionable, runVars
  <2>2. CASE ResolveNotRun(i)
    <3>1. Resolved(i, "NotRun")
      BY <2>1, <2>2 DEF ResolveNotRun, ResolveAs, Resolved, Verdict, Reports, HaltedAfter,
                        Halts, HaltExplained, TypeOK
    <3> QED BY <2>1, <3>1 DEF Fate, StepStatuses
  <2>3. CASE ResolveSkip(i)
    <3>1. Resolved(i, "Skipped")
      BY <2>1, <2>3 DEF ResolveSkip, ResolveAs, Resolved, Verdict, Reports, HaltedAfter,
                        Halts, HaltExplained, TypeOK
    <3> QED BY <2>1, <3>1 DEF Fate, StepStatuses
  <2>4. CASE ResolveFail(i)
    <3>1. Resolved(i, "Error")
      BY <2>1, <2>4 DEF ResolveFail, ResolveAs, Resolved, Verdict, Reports, CancelIf
    <3> QED BY <2>1, <3>1 DEF Fate, StepStatuses
  <2> QED BY <1>1, <2>2, <2>3, <2>4
<1>2. ASSUME NEW i \in Steps, DispatchWait(i) PROVE Fate
  <2>1. WaitAdmitted
    BY <1>2 DEF DispatchWait, Turn, Actionable, Proceeds, IsWait
  <2>2. Started(i)
    BY <1>2, <2>1, WaitKeptApart DEF IInv, DispatchWait, Started, Turn, Actionable
  <2> QED BY <1>2, <2>2 DEF Fate, DispatchWait, runVars
<1>3. ASSUME NEW i \in Steps, DispatchRun(i) PROVE Fate
  <2>1. RunAdmitted(i)
    BY <1>3 DEF DispatchRun, Turn, Actionable, Proceeds, IsWait
  <2>2. Started(i)
    BY <1>3, <2>1, RunKeptApart DEF IInv, DispatchRun, Started, Turn, Actionable
  <2> QED BY <1>3, <2>2 DEF Fate, DispatchRun, runVars
<1>4. CASE Settle
  <2>1. dispatched = Steps
    BY <1>4, AllDispatched DEF Settle
  <2>2. \A i \in Steps : ~Ready(i)
    BY <2>1 DEF Ready
  <2>3. /\ dispatched' = Steps /\ completed' = completed
        /\ report' = [i \in Steps |-> report[i]]
        /\ UNCHANGED <<run, halted, cancelled>>
    BY <1>4, <2>1, <2>2 DEF Settle, runVars, TypeOK
  <2>4. report' = report
    BY <2>3 DEF TypeOK
  <2> QED BY <2>1, <2>3, <2>4 DEF Fate, FateKept
<1>5. CASE Receive
  <2> DEFINE msg == Head(done)
  <2>1. Len(done) \in Nat \ {0} /\ msg = done[1] /\ msg \in Message
    BY <1>5 DEF Receive, TypeOK
  <2>2. /\ msg.idx \in InFlight /\ msg.status \in Results(msg.idx)
        /\ msg.idx \in Steps /\ msg.status \in StepStatuses
    BY <2>1 DEF IInv, Messages, Answers, Message
  <2>3. Reports(msg.idx, msg.status) /\ UNCHANGED <<run, dispatched>>
    BY <1>5 DEF Receive, Reports, CancelIf, runVars
  <2> QED BY <2>2, <2>3 DEF Fate, Ended
<1>6. CASE EndPass \/ Join
  BY <1>6 DEF EndPass, Join, Fate, FateKept, runVars, bookVars
<1>7. CASE Panic \/ (\E w \in Workers : Worker(w)) \/ (\E i \in Steps : Waiter(i))
  BY <1>7 DEF Panic, Worker, Waiter, WorkerTake, WorkerReport, WorkerPanic,
              WaiterAnswer, WaiterReport, WaiterSleep, WaiterWake, WaiterCancelled,
              WaiterPanic, Fate, FateKept, runVars, bookVars
<1>8. CASE UNCHANGED vars
  BY <1>8 DEF vars, runVars, bookVars, Fate, FateKept
<1> QED BY <1>1, <1>2, <1>3, <1>4, <1>5, <1>6, <1>7, <1>8 DEF Next, Main, Returned

\* A report is final, and so is what follows from it.
LEMMA FateLasts ==
  ASSUME TypeOK, IInv, Fate
  PROVE  /\ completed \subseteq completed' /\ dispatched \subseteq dispatched'
         /\ \A i \in completed : report'[i] = report[i]
         /\ halted => halted'
         /\ \A i \in Steps : report[i] # None <=> i \in completed
         /\ \A i \in Steps : Blocked(i) => Blocked(i)'
<1>1. /\ completed \subseteq completed' /\ dispatched \subseteq dispatched'
      /\ \A i \in completed : report'[i] = report[i]
      /\ halted => halted'
  BY DEF Fate, FateKept, Started, Resolved, Ended, Reports, HaltedAfter, IInv, Books,
         InFlight, Ready, TypeOK
<1>2. \A i \in Steps : report[i] # None <=> i \in completed
  BY DEF IInv, Books
<1>3. ASSUME NEW i \in Steps, Blocked(i) PROVE Blocked(i)'
  <2>1. PICK d \in Deps(i) : BlocksDependents(report[d])
    BY <1>3 DEF Blocked
  <2>2. d \in Steps /\ d \in completed
    BY <1>2, <2>1, RunTyped DEF Deps, TypeOK, BlocksDependents, None
  <2> QED BY <1>1, <1>3, <2>1, <2>2 DEF Blocked, Fate, Deps
<1> QED BY <1>1, <1>2, <1>3

LEMMA HaltStep ==
  ASSUME TypeOK, IInv, HaltExplained, Fate
  PROVE  HaltExplained'
<1> DEFINE H(s) == Halts(run.mode, run.continueOnError, s)
<1>1. run' = run
  BY DEF Fate
<1>2. CASE FateKept \/ \E i \in Steps : Started(i)
  BY <1>1, <1>2 DEF FateKept, Started, HaltExplained
<1>3. ASSUME NEW i \in Steps, NEW s \in StepStatuses, Resolved(i, s) \/ Ended(i, s)
      PROVE  HaltExplained'
  <2>1. Reports(i, s) /\ report[i] = None
    BY <1>3 DEF Resolved, Ended, IInv, Books, InFlight, Ready
  <2>2. ~H(None)
    BY DEF Halts, None
  <2>3. (\E j \in Steps : H(report'[j])) <=> H(s) \/ \E j \in Steps : H(report[j])
    BY <2>1, <2>2 DEF Reports, TypeOK
  <2> QED BY <1>1, <2>1, <2>3 DEF HaltExplained, Reports, HaltedAfter
<1> QED BY <1>2, <1>3 DEF Fate

LEMMA DependenciesStep ==
  ASSUME TypeOK, IInv, DependenciesFirst, Fate
  PROVE  DependenciesFirst'
<1> SUFFICES ASSUME NEW i \in dispatched', report'[i] # "NotRun"
             PROVE  /\ Deps(i) \subseteq completed'
                    /\ run.mode = "Apply" =>
                         \A d \in Deps(i) : ~BlocksDependents(report'[d])
  BY DEF DependenciesFirst, Fate, Deps
<1>1. CASE i \in dispatched /\ report[i] # "NotRun"
  BY <1>1, FateLasts DEF DependenciesFirst
<1>2. CASE i \notin dispatched
  <2>1. Ready(i) /\ ~Blocked(i)
    BY <1>2 DEF Fate, FateKept, Started, Resolved, Ended, Proceeds, ResolvedNotRun,
                Verdict, Reports, TypeOK
  <2> QED BY <2>1, FateLasts DEF Ready, Blocked
<1>3. CASE i \in dispatched /\ report[i] = "NotRun"
  <2>1. i \in completed
    BY <1>3, FateLasts DEF TypeOK, None
  <2> QED BY <1>3, <2>1, FateLasts
<1> QED BY <1>1, <1>2, <1>3

LEMMA NotRunStep ==
  ASSUME TypeOK, IInv, NotRunCaused, Fate
  PROVE  NotRunCaused'
<1> SUFFICES ASSUME NEW i \in Steps, report'[i] = "NotRun"
             PROVE  halted' \/ Blocked(i)'
  BY DEF NotRunCaused
<1>1. CASE report[i] = "NotRun"
  BY <1>1, FateLasts DEF NotRunCaused
<1>2. CASE report[i] # "NotRun"
  <2>1. halted \/ Blocked(i)
    <3>1. "NotRun" \notin LifecycleStatuses(run.mode) \cup WaitStatuses(run.mode)
      BY DEF LifecycleStatuses, WaitStatuses
    <3> QED
      BY <1>2, <3>1 DEF Fate, FateKept, Started, Resolved, Ended, Verdict, Reports,
                        Results, ResolvedNotRun, TypeOK
  <2> QED BY <2>1, FateLasts
<1> QED BY <1>1, <1>2

LEMMA AnswersStep ==
  ASSUME TypeOK, IInv, Answers, HaltExplained, Fate, [Next]_vars
  PROVE  Answers'
<1>1. /\ run' = run /\ (halted => halted')
      /\ \A i \in Steps : Results(i) \subseteq Results(i)'
  BY FateLasts DEF Fate, Results, Kind
<1>2. \A k \in 1 .. Len(done) : done[k].idx \in Steps
  <2>1. \A k \in 1 .. Len(done) : done[k] \in Message
    BY DEF TypeOK
  <2> QED BY <2>1 DEF Message
<1>3. CASE done' = done
  BY <1>1, <1>2, <1>3 DEF Answers
<1>4. ASSUME NEW i \in Steps, NEW w \in Workers \cup {NoWorker}, NEW s \in StepStatuses,
             Send(i, w, s), s \in Results(i)
      PROVE  Answers'
  <2>1. /\ Len(done) \in Nat /\ Len(done') = Len(done) + 1
        /\ \A k \in 1 .. Len(done) : done'[k] = done[k]
        /\ done'[Len(done) + 1] = [idx |-> i, worker |-> w, status |-> s]
    BY <1>4, Sent
  <2> SUFFICES ASSUME NEW k \in 1 .. Len(done')
               PROVE  (done[k].status \in Results(done[k].idx))'
    BY DEF Answers
  <2>2. CASE k \in 1 .. Len(done)
    BY <1>1, <1>2, <2>1, <2>2 DEF Answers
  <2>3. CASE k = Len(done) + 1
    BY <1>1, <1>4, <2>1, <2>3
  <2> QED BY <2>1, <2>2, <2>3
<1>5. CASE Receive
  <2>1. Len(done) \in Nat \ {0} /\ done' = Tail(done)
    BY <1>5 DEF Receive, TypeOK
  <2>2. /\ Len(done') = Len(done) - 1
        /\ \A k \in 1 .. Len(done') : done'[k] = done[k + 1] /\ k + 1 \in 1 .. Len(done)
    BY <2>1 DEF TypeOK
  <2> QED BY <1>1, <1>2, <2>1, <2>2 DEF Answers
<1>6. ASSUME NEW i \in Steps, DispatchWait(i) PROVE Answers'
  <2>1. CASE Kind(i) = "wait"
    BY <1>3, <1>6, <2>1 DEF DispatchWait
  <2>2. CASE Kind(i) # "wait"
    <3>1. Send(i, NoWorker, "Error")
      BY <1>6, <2>2 DEF DispatchWait, Send
    <3>2. "Error" \in Results(i)
      BY <1>6, <2>2 DEF DispatchWait, IsWait, Results, WaitStatuses, LifecycleStatuses
    <3> QED BY <1>4, <3>1, <3>2 DEF StepStatuses
  <2> QED BY <2>1, <2>2
<1>7. ASSUME NEW w \in Workers, WorkerReport(w) PROVE Answers'
  <2>1. PICK s \in LifecycleStatuses(run.mode) : Send(working[w], w, s)
    BY <1>7 DEF WorkerReport
  <2>2. working[w] \in Steps /\ Kind(working[w]) = "run"
    BY <1>7 DEF WorkerReport, TypeOK, IInv, Custody, Carries
  <2>3. s \in StepStatuses
    BY StatusesTyped, RunTyped DEF TypeOK
  <2> QED BY <1>4, <2>1, <2>2, <2>3 DEF Results
<1>8. ASSUME NEW i \in Steps, NEW s, WaiterReport(i, s), waiter[i] \in {"probing", "asleep"},
             s \in WaitStatuses(run.mode) \/ (s = "NotRun" /\ cancelled)
      PROVE  Answers'
  <2>1. Kind(i) = "wait"
    BY <1>8 DEF IInv, Custody, Waits
  <2>2. s \in Results(i) /\ s \in StepStatuses
    BY <1>8, <2>1, StatusesTyped, RunTyped DEF Results, HaltExplained, TypeOK, StepStatuses
  <2> QED BY <1>4, <1>8, <2>2 DEF WaiterReport
<1>9. ASSUME NEW i \in Steps, Waiter(i) PROVE Answers'
  <2>1. CASE WaiterSleep(i) \/ WaiterWake(i)
    BY <1>3, <2>1 DEF WaiterSleep, WaiterWake
  <2>2. CASE WaiterAnswer(i) \/ WaiterCancelled(i)
    BY <1>8, <2>2 DEF WaiterAnswer, WaiterCancelled
  <2> QED BY <1>9, <2>1, <2>2 DEF Waiter
<1>10. CASE \/ \E i \in Steps : \/ ResolveNotRun(i) \/ ResolveSkip(i)
                               \/ ResolveFail(i) \/ DispatchRun(i)
            \/ EndPass \/ Settle \/ Join \/ (\E w \in Workers : WorkerTake(w)) \/ Panic
            \/ UNCHANGED vars
  BY <1>3, <1>10 DEF ResolveNotRun, ResolveSkip, ResolveFail, ResolveAs, DispatchRun,
     EndPass, Settle, Join, WorkerTake, Panic, WorkerPanic, WaiterPanic, vars
<1> QED
  BY <1>5, <1>6, <1>7, <1>9, <1>10 DEF Next, Main, Worker, Returned

LEMMA Fated == Spec => []FateInv
<1>1. Init => FateInv
  BY DEF Init, FateInv, Answers, HaltExplained, Halts, DependenciesFirst, NotRunCaused,
         None
<1>2. TypeOK /\ IInv /\ ScanInv /\ FateInv /\ [Next]_vars => FateInv'
  BY FateStep, HaltStep, DependenciesStep, NotRunStep, AnswersStep DEF FateInv
<1> QED BY <1>1, <1>2, Scanning, TypeCorrect, Inductive, PTL DEF Spec

\* No step starts, or reports an outcome of its own, before its dependencies have
\* ended, and in apply none of them failed or was not run.
THEOREM InOrder == Spec => []DependenciesFirst
<1>1. FateInv => DependenciesFirst
  BY DEF FateInv
<1> QED BY <1>1, Fated, PTL

\* The halt flag and the cancel flag are up exactly when some step has reported
\* a status that halts the run.
THEOREM HaltIsExplained == Spec => []HaltExplained
<1>1. FateInv => HaltExplained
  BY DEF FateInv
<1> QED BY <1>1, Fated, PTL

\* No step drops out of a run in silence: the halt or a dependency explains each
\* step that was not run, and the exit code of the run is not 0.
THEOREM NothingDropsOut == Spec => []NotRunExplained
<1>1. TypeOK /\ FateInv => NotRunExplained
  <2> SUFFICES ASSUME TypeOK, FateInv, NEW i \in Steps, report[i] = "NotRun"
               PROVE  /\ halted \/ Blocked(i)
                      /\ ExitCode(run.mode, {report[j] : j \in Steps}) # 0
    BY DEF NotRunExplained
  <2>1. halted \/ Blocked(i)
    BY DEF FateInv, NotRunCaused
  <2>2. CASE halted
    BY <2>2, RunTyped DEF FateInv, HaltExplained, Halts, ExitCode, TypeOK
  <2>3. CASE ~halted
    <3> DEFINE S == {j \in Steps : report[j] = "NotRun"}
    <3>1. PICK j \in S : Deps(j) \cap S = {}
      BY FirstOf DEF TypeOK
    <3>2. Blocked(j)
      BY <2>3 DEF FateInv, NotRunCaused
    <3>3. PICK d \in Deps(j) : report[d] = "Error"
      BY <3>1, <3>2, RunTyped DEF Blocked, BlocksDependents, Deps, TypeOK
    <3>4. d \in Steps
      BY RunTyped DEF Deps, TypeOK
    <3> QED BY <2>1, <3>3, <3>4 DEF ExitCode
  <2> QED BY <2>1, <2>2, <2>3
<1> QED BY <1>1, Fated, TypeCorrect, PTL

-----------------------------------------------------------------------------
(* The refinement. *)

\* The abstract run's view of a reachable state.
LEMMA AbstractView ==
  ASSUME TypeOK, IInv, HaltExplained
  PROVE  /\ Abstract!Halted <=> halted
         /\ \A i \in Steps : Abstract!Blocked(i) <=> Blocked(i)
         /\ \A i \in Steps : Abstract!Ready(i) <=> Ready(i)
         /\ \A i \in Steps : Status(i) = "running" <=> i \in InFlight
<1>1. /\ Abstract!Steps = Steps
      /\ \A i \in Steps : Abstract!Deps(i) = Deps(i) /\ Deps(i) \subseteq Steps
  BY RunTyped DEF Abstract!Steps, Steps, Abstract!Deps, Deps, TypeOK
<1>2. \A i \in Steps :
        /\ report[i] \in StepStatuses \cup {None}
        /\ report[i] # None <=> i \in completed
        /\ Status(i) \in StepStatuses <=> i \in completed
        /\ Status(i) = "running" <=> i \in InFlight
        /\ Status(i) = "pending" <=> i \notin dispatched
        /\ i \in completed => Status(i) = report[i]
  BY DEF Status, IInv, Books, InFlight, TypeOK, None, StepStatuses
<1>3. Abstract!Halted <=> halted
  BY <1>1, <1>2 DEF Abstract!Halted, Abstract!Halts, HaltExplained, Halts, StepStatuses,
                    None
<1>4. ASSUME NEW i \in Steps
      PROVE  /\ Abstract!Blocked(i) <=> Blocked(i)
             /\ Abstract!Ready(i) <=> Ready(i)
  <2>1. \A d \in run.deps[i] :
          /\ d \in Steps
          /\ Status(d) \in {"Error", "NotRun"} <=> report[d] \in {"Error", "NotRun"}
          /\ Status(d) \in StepStatuses <=> d \in completed
    BY <1>1, <1>2 DEF StepStatuses, None, Deps
  <2>2. Abstract!Blocked(i) <=> Blocked(i)
    BY <2>1 DEF Abstract!Blocked, Blocked, Abstract!BlocksDependents,
                BlocksDependents, Abstract!Deps, Deps
  <2>3. Abstract!Ready(i) <=> Ready(i)
    BY <1>2, <2>1 DEF Abstract!Ready, Ready, Abstract!Final, Abstract!Deps, Deps,
                      Abstract!StepStatuses, StepStatuses
  <2> QED BY <2>2, <2>3
<1>5. \A i \in Steps : Abstract!Blocked(i) <=> Blocked(i)
  BY <1>4
<1>6. \A i \in Steps : Abstract!Ready(i) <=> Ready(i)
  BY <1>4
<1>7. \A i \in Steps : Status(i) = "running" <=> i \in InFlight
  BY <1>2
<1> QED BY <1>3, <1>5, <1>6, <1>7

LEMMA AbstractInit == Init => Abstract!Init
<1> SUFFICES ASSUME Init PROVE Abstract!Init
  OBVIOUS
<1>1. \A i \in Steps : Status(i) = "pending"
  BY DEF Init, Status
<1> QED BY <1>1 DEF Init, Abstract!Init, Abstract!Steps, Steps

\* The abstract run looks at the same play.
LEMMA AbstractPlay ==
  /\ Abstract!Steps = Steps
  /\ \A i \in Steps : Abstract!Kind(i) = Kind(i) /\ (Abstract!IsWait(i) <=> IsWait(i))
  /\ \A i, j \in Steps : Abstract!Conflict(i, j) <=> Conflict(i, j)
<1>1. \A i \in Steps : Abstract!Kind(i) = Kind(i) /\ (Abstract!IsWait(i) <=> IsWait(i))
  BY DEF Abstract!Kind, Kind, Abstract!IsWait, IsWait
<1>2. \A i, j \in Steps : Abstract!Conflict(i, j) <=> Conflict(i, j)
  BY DEF Abstract!Conflict, Conflict, Abstract!IsGlobal, IsGlobal, Abstract!IsExclusive,
         IsExclusive, Abstract!HoldsLock, HoldsLock, Abstract!Lock, Lock, Abstract!Kind,
         Kind, Abstract!Class, Class, Abstract!Resource, Resource
<1> QED BY <1>1, <1>2 DEF Abstract!Steps, Steps

\* Every step of the scheduler is a step of the abstract run, or changes nothing
\* that the abstract run sees.
LEMMA AbstractStep ==
  ASSUME TypeOK, IInv, HaltExplained, Fate
  PROVE  [Abstract!Next]_(Abstract!vars)
<1> DEFINE st == [i \in Steps |-> Status(i)]
<1>1. run' = run
  BY DEF Fate
<1>2. CASE FateKept
  <2>1. \A i \in Steps : Status(i)' = Status(i)
    BY <1>2 DEF FateKept, Status
  <2> QED BY <1>1, <2>1 DEF Abstract!vars
<1>3. ASSUME NEW i \in Steps, Started(i)
      PROVE  Abstract!Start(i)
  <2>1. st' = [st EXCEPT ![i] = "running"]
    BY <1>3 DEF Started, Status, Ready, IInv, Books, None
  <2>2. Abstract!MayRun(i)
    BY <1>3, AbstractView DEF Started, Proceeds, ResolvedNotRun, Abstract!MayRun
  <2>3. Abstract!Kind(i) = "run" \/ Abstract!IsWait(i)
    BY <1>3, AbstractPlay DEF Started
  <2>4. \A j \in Steps : st[j] = "running" => run.parallel /\ ~Abstract!Conflict(i, j)
    BY <1>3, AbstractView, AbstractPlay DEF Started
  <2> QED BY <1>1, <2>1, <2>2, <2>3, <2>4, AbstractPlay DEF Abstract!Start
<1>4. ASSUME NEW i \in Steps, NEW s \in StepStatuses, Reports(i, s),
             dispatched' = dispatched \cup {i}
      PROVE  st' = [st EXCEPT ![i] = s]
  BY <1>4 DEF Reports, Status, StepStatuses, None, TypeOK
<1>5. ASSUME NEW i \in Steps, NEW s \in StepStatuses, Ended(i, s)
      PROVE  Abstract!Finish(i)
  <2>1. st' = [st EXCEPT ![i] = s] /\ st[i] = "running"
    BY <1>4, <1>5, AbstractView DEF Ended, InFlight
  <2>2. s \in Abstract!Outcomes(i)
    BY <1>5, AbstractView, AbstractPlay
       DEF Ended, Results, Abstract!Outcomes, Abstract!LifecycleStatuses, LifecycleStatuses,
           Abstract!WaitStatuses, WaitStatuses
  <2> QED BY <1>1, <2>1, <2>2 DEF Abstract!Finish
<1>6. ASSUME NEW i \in Steps, NEW s \in StepStatuses, Resolved(i, s)
      PROVE  Abstract!Resolve(i)
  <2>1. st' = [st EXCEPT ![i] = s] /\ Abstract!Ready(i)
    BY <1>4, <1>6, AbstractView DEF Resolved
  <2>2. \/ (Abstract!Halted \/ Abstract!Blocked(i)) /\ s = "NotRun"
        \/ Abstract!MayRun(i) /\ Abstract!Kind(i) = "skip" /\ s = "Skipped"
        \/ Abstract!MayRun(i) /\ Abstract!Kind(i) = "fail" /\ s = "Error"
    BY <1>6, <2>1, AbstractView, AbstractPlay
       DEF Resolved, Verdict, Proceeds, ResolvedNotRun, Abstract!MayRun
  <2> QED
    BY <1>1, <2>1, <2>2 DEF Abstract!Resolve, Abstract!StepStatuses, StepStatuses
<1> QED
  BY <1>2, <1>3, <1>5, <1>6, AbstractPlay DEF Fate, Abstract!Next

\* The scheduler, with its scan, books, channels and threads, runs every play as
\* the abstract specification PlayRun promises.
THEOREM Implements == Spec => ImplementsPlayRun
<1>1. TypeOK /\ IInv /\ ScanInv /\ FateInv /\ [Next]_vars => [Abstract!Next]_(Abstract!vars)
  BY FateStep, AbstractStep DEF FateInv
<1> QED
  BY <1>1, AbstractInit, Fated, Scanning, TypeCorrect, Inductive, PTL
     DEF Spec, ImplementsPlayRun, Abstract!Spec
=============================================================================
