------------------------------- MODULE PlayRun -------------------------------
(***************************************************************************)
(* What the execution of a play promises, with no scheduler in sight: each *)
(* step is pending, then running, then has its final status for good. A    *)
(* step starts only when its dependencies have ended (well, in apply),     *)
(* nothing it conflicts with is running and nothing has halted the run.    *)
(* Module Scheduler implements this specification.                         *)
(***************************************************************************)
EXTENDS Play

VARIABLE status  \* "pending", "running" or the final status of each step

vars == <<run, status>>

TypeOK ==
  /\ run \in Runs
  /\ status \in [Steps -> {"pending", "running"} \cup StepStatuses]

Final(i) == status[i] \in StepStatuses

Halted == \E i \in Steps : Halts(run.mode, run.continueOnError, status[i])

Blocked(i) ==
  /\ run.mode = "Apply"
  /\ \E d \in Deps(i) : BlocksDependents(status[d])

Ready(i) == status[i] = "pending" /\ \A d \in Deps(i) : Final(d)

MayRun(i) == Ready(i) /\ ~Halted /\ ~Blocked(i)

Init ==
  /\ run \in Runs
  /\ status = [i \in Steps |-> "pending"]

\* A resource step or a wait step starts.
Start(i) ==
  /\ MayRun(i)
  /\ Kind(i) = "run" \/ IsWait(i)
  /\ \A j \in Steps :
       status[j] = "running" => run.parallel /\ ~Conflict(i, j)
  /\ status' = [status EXCEPT ![i] = "running"]
  /\ UNCHANGED run

\* A running step ends. Only a wait step can be cut short, by a halt.
Outcomes(i) ==
  IF Kind(i) = "run" THEN LifecycleStatuses(run.mode)
  ELSE WaitStatuses(run.mode) \cup (IF Halted THEN {"NotRun"} ELSE {})

Finish(i) ==
  /\ status[i] = "running"
  /\ \E s \in Outcomes(i) : status' = [status EXCEPT ![i] = s]
  /\ UNCHANGED run

\* A step gets its final status without ever starting.
Resolve(i) ==
  /\ Ready(i)
  /\ \E s \in StepStatuses :
       /\ \/ (Halted \/ Blocked(i)) /\ s = "NotRun"
          \/ MayRun(i) /\ Kind(i) = "skip" /\ s = "Skipped"
          \/ MayRun(i) /\ Kind(i) = "fail" /\ s = "Error"
       /\ status' = [status EXCEPT ![i] = s]
  /\ UNCHANGED run

Next == \E i \in Steps : Start(i) \/ Finish(i) \/ Resolve(i)

Spec == Init /\ [][Next]_vars
=============================================================================
