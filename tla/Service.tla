------------------------------ MODULE Service ------------------------------
(***************************************************************************)
(* Starting, stopping and restarting a service together with those that    *)
(* depend on it (src/src/hostapi/service.rs): stop_tree, restart_tree, and *)
(* drive, which every one of their steps is.                               *)
(*                                                                         *)
(* The Service Control Manager is not the program's: it refuses, services  *)
(* take their time, fall back, or crash, and somebody else may start and   *)
(* stop them meanwhile.                                                    *)
(***************************************************************************)
EXTENDS Naturals, Sequences, FiniteSets, Functions

CONSTANTS
  Chain,           \* the service, one that depends on it, one on that, ...
  InitialStates    \* of the services when the call is made

States == {"stopped", "start_pending", "stop_pending", "running",
           "continue_pending", "pause_pending", "paused"}

ASSUME ServiceAssumption ==
  /\ Chain \in Seq(Range(Chain)) /\ Chain # << >> /\ IsInjective(Chain)
  /\ InitialStates \subseteq States

VARIABLES
  scm,    \* the services, as the control manager has them
  tree    \* the call

serviceVars == << scm, tree >>

Services == Range(Chain)
Name == Head(Chain)
Dependents(s) == {Chain[j] : j \in {k \in DOMAIN Chain : \E i \in 1 .. k - 1 : Chain[i] = s}}
Dependencies(s) == {t \in Services : s \in Dependents(t)}

ServiceOps == [op : {"start", "stop"}, dependents : {FALSE}]
              \cup [op : {"stop_with", "restart"}, dependents : BOOLEAN]

ServiceOff == scm = << >> /\ tree = << >>

\* locked: the name cannot be opened with stop rights. touched: the services
\* that crashed or that somebody else started or stopped.
ServiceInit ==
  /\ \E state \in [Services -> InitialStates], locked \in BOOLEAN :
       scm = [state |-> state, locked |-> locked, touched |-> {}]
  /\ \E call \in ServiceOps :
       tree = [phase |-> "begin", op |-> call.op, dependents |-> call.dependents]

(* ------------------------------------------------- the control manager *)

Settled == [start_pending |-> {"running", "stopped"}, stop_pending |-> {"stopped", "running"},
            continue_pending |-> {"running", "paused"}, pause_pending |-> {"paused", "running"}]

\* What the step under way drives its services to.
Target == IF tree.step \in {"dependents", "name"} THEN "stopped" ELSE "running"

\* The services of a step that are left are stopped in the order
\* EnumDependentServicesW lists them in, the reverse of start order, and
\* started in the reverse of that.
Current ==
  CHOOSE s \in tree.todo :
    IF Target = "stopped" THEN Dependents(s) \cap tree.todo = {}
                          ELSE Dependencies(s) \cap tree.todo = {}

\* The service a converge is under way for.
Driven == IF tree.phase \in {"observe", "act"} THEN {Current} ELSE {}

\* A service settles. That one comes to a stop which nobody is waiting for
\* is no more the call's doing than a crash is.
Settles(s) ==
  /\ scm.state[s] \in DOMAIN Settled
  /\ \E state \in Settled[scm.state[s]] :
       scm' = [scm EXCEPT !.state[s] = state,
                 !.touched = IF state = "stopped" /\ s \notin Driven THEN @ \cup {s} ELSE @]
  /\ tree' = tree

\* A crash, or somebody else at work; once in a call.
Interferes(s) ==
  /\ scm.touched = {}
  /\ \E state \in IF scm.state[s] = "stopped" THEN {"start_pending"} ELSE {"stop_pending", "stopped"} :
       scm' = [scm EXCEPT !.state[s] = state, !.touched = {s}]
  /\ tree' = tree

\* Starting a service starts what it depends on first.
Startable(s) ==
  /\ scm.state[s] = "stopped"
  /\ \A t \in Dependencies(s) : scm.state[t] # "stop_pending"

Accepted(s, action) ==
  CASE action = "start" ->
         /\ Startable(s)
         /\ scm' = [scm EXCEPT !.state = [t \in Services |->
                       IF t = s \/ (t \in Dependencies(s) /\ @[t] = "stopped")
                       THEN "start_pending" ELSE @[t]]]
    [] action = "continue" ->
         scm.state[s] = "paused" /\ scm' = [scm EXCEPT !.state[s] = "continue_pending"]
    [] action = "stop" ->
         /\ scm.state[s] \in {"running", "paused"} /\ (s = Name => ~scm.locked)
         /\ \A t \in Dependents(s) : scm.state[t] = "stopped"
         /\ scm' = [scm EXCEPT !.state[s] = "stop_pending"]

(* ---------------------------------------------------------------- drive *)

Plan(target, state) ==
  CASE target = state -> "done"
    [] target = "running" /\ state = "stopped" -> "start"
    [] target = "running" /\ state = "paused" -> "continue"
    [] target = "stopped" /\ state \in {"running", "paused"} -> "stop"
    [] OTHER -> "wait"

Planned == Plan(Target, scm.state[Current])

\* A converge for the next of todo.
Begin(t) == [t EXCEPT !.phase = "observe", !.acted = FALSE, !.pending = FALSE]

\* The state is read; the action it calls for is taken in a step of its own.
Decide ==
  /\ tree.phase = "observe" /\ Planned \notin {"done", "wait"} /\ ~tree.acted
  /\ tree' = [tree EXCEPT !.phase = "act", !.action = Planned]
  /\ scm' = scm

Act ==
  /\ tree.phase = "act"
  /\ Accepted(Current, tree.action)
  /\ tree' = [tree EXCEPT !.phase = "observe", !.acted = TRUE]

\* Nothing to do but to look again later.
Poll ==
  /\ tree.phase = "observe"
  /\ \/ Planned = "wait"
     \/ Planned # "done" /\ tree.acted /\ ~tree.pending
  /\ tree' = [tree EXCEPT !.pending = @ \/ (Planned = "wait" /\ tree.acted)]
  /\ scm' = scm

Converged == tree.phase = "observe" /\ Planned = "done" /\ scm' = scm

\* The time is up, the service went back to where it was, or the control
\* manager refuses, for whatever reason.
Failed ==
  /\ \/ tree.phase = "observe" /\ Planned # "done" /\ (tree.acted \/ Planned = "wait")
     \/ tree.phase = "act"
  /\ scm' = scm

(* ---------------------------------------------------- stop and restart *)

\* Of the dependents, those not stopped; none where they are not asked for.
Running(state) == {d \in Services \ {Name} : state[d] # "stopped"}

\* A mutant of Restoring: the error is reported and that is it.
RestoringNothing(t, failed) == [t EXCEPT !.phase = "error", !.named = @ \cup failed]

\* The name again, when its dependents are stopped; or started, what is left.
Restoring(t, failed) ==
  LET start == [t EXCEPT !.step = "restore", !.named = @ \cup failed, !.todo = t.stopped]
  IN IF t.stopped = {} THEN [start EXCEPT !.phase = "error"] ELSE Begin(start)

\* start and stop are a converge; a tree takes a snapshot of the dependents
\* and, where any is to be stopped, tries to open the name with stop rights.
BeginCall ==
  /\ tree.phase = "begin"
  /\ scm' = scm
  /\ LET running == IF tree.dependents THEN Running(scm.state) ELSE {}
         call == [op |-> tree.op, dependents |-> tree.dependents, snapshot |-> scm.state,
                  phase |-> "observe", step |-> "dependents", todo |-> {}, stopped |-> {},
                  named |-> {}, acted |-> FALSE, pending |-> FALSE, action |-> ""]
     IN \/ tree.op = "start" /\ tree' = [call EXCEPT !.step = "start", !.todo = {Name}]
        \/ /\ tree.op # "start" /\ running = {}
           /\ tree' = [call EXCEPT !.step = "name", !.todo = {Name}]
        \/ /\ tree.op # "start" /\ running # {} /\ scm.locked
           /\ tree' = [call EXCEPT !.phase = "error"]
        \/ /\ tree.op # "start" /\ running # {} /\ ~scm.locked
           /\ tree' = [call EXCEPT !.todo = running]

DependentStopped ==
  /\ Converged /\ tree.step = "dependents"
  /\ LET next == [tree EXCEPT !.stopped = @ \cup {Current}, !.todo = @ \ {Current}]
     IN tree' = Begin(IF next.todo = {}
                      THEN [next EXCEPT !.step = "name", !.todo = {Name}] ELSE next)

StopFailed ==
  /\ Failed /\ tree.step \in {"dependents", "name"}
  /\ tree' = Restoring(tree, {Current})

NameStopped ==
  /\ Converged /\ tree.step = "name"
  /\ tree' = IF tree.op = "restart"
             THEN Begin([tree EXCEPT !.step = "start", !.todo = {Name}])
             ELSE [tree EXCEPT !.phase = "ok"]

\* A mutant of ToStartAgain: all of those enumerated.
ToStartAll(t) == IF t.dependents THEN Services \ {Name} ELSE {}

\* The dependents a restart starts again once the name runs.
ToStartAgain(t) == t.stopped

\* The name is started, or one more of the dependents.
Started ==
  /\ Converged /\ tree.step \in {"start", "again"}
  /\ LET todo == IF tree.step = "start" THEN ToStartAgain(tree) ELSE tree.todo \ {Current}
     IN tree' = IF todo = {} THEN [tree EXCEPT !.phase = "ok"]
                ELSE Begin([tree EXCEPT !.step = "again", !.todo = todo])

StartFailed ==
  /\ Failed /\ tree.step \in {"start", "again"}
  /\ tree' = [tree EXCEPT !.phase = "error", !.named = @ \cup {Current}]

\* A restored dependent, or one that would not start, which is named.
Restored ==
  /\ tree.step = "restore"
  /\ \E named \in {{}, {Current}} :
       /\ IF named = {} THEN Converged ELSE Failed
       /\ LET next == [tree EXCEPT !.todo = @ \ {Current}, !.named = @ \cup named]
          IN tree' = IF next.todo = {} THEN [next EXCEPT !.phase = "error"] ELSE Begin(next)

Underway == tree.phase \in {"observe", "act"}

ServiceNext ==
  /\ tree # << >>
  /\ \/ \E s \in Services : tree.phase \notin {"ok", "error"} /\ (Settles(s) \/ Interferes(s))
     \/ BeginCall
     \/ Underway /\ (\/ Decide \/ Act \/ Poll \/ DependentStopped \/ StopFailed
                     \/ NameStopped \/ Started \/ StartFailed \/ Restored)

-----------------------------------------------------------------------------
(* Nobody answers for a service that somebody else starts or stops          *)
(* meanwhile; the others hold to what follows.                             *)

ReturnedWith(phase) == tree # << >> /\ tree.phase = phase
WasUp == {s \in Services \ {Name} : tree.snapshot[s] # "stopped"}

\* A stop that fails leaves no dependent stopped without saying so: it was
\* started again, or the error names it (mod-service.wcl: "the dependents
\* already stopped are started again, and the Err names any that would not
\* start").
NoneLeftStopped ==
  ReturnedWith("error") /\ tree.dependents /\ tree.step \notin {"start", "again"} =>
    \A s \in WasUp \ scm.touched : scm.state[s] # "stopped" \/ s \in tree.named

\* A restart that succeeds has the service running and its dependents as
\* they were: those that were up run, and one that was stopped stays so
\* ("A dependent that was already stopped stays stopped"), unless one that
\* was up needs it.
RestartPutsBack ==
  ReturnedWith("ok") /\ tree.op = "restart" =>
    /\ Name \notin scm.touched => scm.state[Name] = "running"
    /\ tree.dependents => \A s \in WasUp \ scm.touched : scm.state[s] = "running"
    /\ \A s \in Services \ (WasUp \cup scm.touched \cup {Name}) :
         scm.state[s] = "stopped" \/ Dependents(s) \cap (WasUp \cup scm.touched) # {}
=============================================================================
