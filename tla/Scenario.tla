------------------------------ MODULE Scenario ------------------------------
(***************************************************************************)
(* A scenario script and one machine of its lab (src/src/hostapi/          *)
(* testlab.rs over testlab/guest.rs and testlab/vmlab.rs): the machine is  *)
(* brought up when it is first named, awaited until its agent is steady,   *)
(* given the config-weave binary before its first run, and every run and   *)
(* every script gets a working directory of its own.                       *)
(*                                                                         *)
(* The guest is not the program's: its agent starts late and may restart   *)
(* once soon after, transfers break off, and the binary may be built for   *)
(* another architecture.                                                   *)
(***************************************************************************)
EXTENDS Naturals, Sequences, FiniteSets

CONSTANT MaxScenarioCalls   \* bound on what the script calls

ASSUME ScenarioAssumption == MaxScenarioCalls \in Nat

VARIABLES
  guest,     \* the machine: its agent, and what has been copied into it
  machine,   \* its entry in LabState.machines; << >> while there is none
  script     \* the call the script is in

scenarioVars == << guest, machine, script >>

ScenarioCalls == 1 .. MaxScenarioCalls
ScenarioOps == {"machine", "exec", "powershell", "reboot", "wait_ready", "run"}

ScenarioOff == guest = << >> /\ machine = << >> /\ script = << >>

\* runs: the binary is one for this guest. work: by directory, the calls that
\* copied into it.
ScenarioInit ==
  /\ \E runs \in BOOLEAN :
       guest = [agent |-> "off", answers |-> 0, restless |-> FALSE, binary |-> "none",
                runs |-> runs, work |-> [n \in ScenarioCalls |-> {}]]
  /\ machine = << >>
  /\ script = [no |-> 0, op |-> "none", step |-> "idle", streak |-> 0, late |-> FALSE,
               ready |-> FALSE]

(* ------------------------------------------------------------ the guest *)

\* The agent of a machine that has booted; a restless one will restart when
\* it has answered once, or before.
AgentStarts ==
  /\ guest.agent = "booting"
  /\ \E restless \in BOOLEAN : guest' = [guest EXCEPT !.agent = "up", !.restless = restless]
  /\ UNCHANGED << machine, script >>

Answered(g) == g.agent = "up" /\ guest' = [g EXCEPT !.answers = IF @ < 2 THEN @ + 1 ELSE @]

Unanswered(g) ==
  \/ g.agent = "up" /\ g.restless /\ g.answers <= 1
     /\ guest' = [g EXCEPT !.answers = 0, !.restless = FALSE]
  \/ g.agent # "up" /\ guest' = g

Unsteady == guest.agent # "up" \/ (guest.restless /\ guest.answers <= 1)

(* -------------------------------------------------------- getting ready *)

Goes(step) == script' = [script EXCEPT !.step = step, !.streak = 0, !.late = FALSE]

\* ready: the last the script was told of the machine is that it is ready.
Returns(ready) == script' = [script EXCEPT !.step = "idle", !.streak = 0, !.late = FALSE,
                                           !.ready = ready]
Ends == Returns(script.ready)

\* VmlabLab::machine: `up` starts the machine unless it is up; it may fail,
\* or be killed at its deadline, with the machine started or not.
Up ==
  /\ script.step = "up"
  /\ \E agent \in IF guest.agent = "off" THEN {"off", "booting"} ELSE {guest.agent} :
       /\ guest' = [guest EXCEPT !.agent = agent]
       /\ \/ agent # "off" /\ Goes("ready")
          \/ Ends
  /\ machine' = machine

\* A restart verb that fails may have restarted the machine all the same.
Restart ==
  /\ script.step = "restart"
  /\ \/ /\ guest' = [guest EXCEPT !.agent = "booting", !.answers = 0]
        /\ \/ script' = [script EXCEPT !.step = "ready", !.ready = FALSE, !.late = FALSE]
           \/ Returns(FALSE)
     \/ guest' = guest /\ Returns(FALSE)
  /\ machine' = machine

\* wait_ready_inner polls osinfo, which any agent answers.
Ready ==
  /\ script.step = "ready"
  /\ \/ guest.agent = "up" /\ (IF script.op = "wait_ready" THEN Ends ELSE Goes("steady"))
     \/ guest.agent # "up" /\ script.late /\ Ends
     \/ script.op = "machine" /\ Ends      \* its OS cannot be told
  /\ UNCHANGED << guest, machine >>

\* A mutant of Streak: one answer will do.
StreakOfOne == 1

\* AGENT_STEADY_STREAK.
Streak == 3

\* await_steady_agent: Streak answers in a row; any failure starts again, and
\* the deadline is looked at after each.
Steady ==
  /\ script.step = "steady"
  /\ \/ /\ Answered(guest) /\ script.streak + 1 = Streak
        /\ Returns(TRUE)
        /\ machine' = IF script.op = "machine" THEN [prepared |-> FALSE, counter |-> 0] ELSE machine
     \/ /\ \E streak \in {0, script.streak + 1} :
             /\ IF streak = 0 THEN Unanswered(guest) ELSE streak < Streak /\ Answered(guest)
             /\ IF script.late THEN Ends ELSE script' = [script EXCEPT !.streak = streak]
        /\ machine' = machine

DeadlinePasses ==
  /\ script.step \in {"ready", "steady"} /\ ~script.late
  /\ script' = [script EXCEPT !.late = TRUE]
  /\ UNCHANGED << guest, machine >>

(* ------------------------------------------------------------- the calls *)

\* Another call. A machine that has an entry is not brought up again; one
\* without one can be asked for nothing.
Call ==
  /\ script.step = "idle" /\ script.no < MaxScenarioCalls
  /\ \E op \in IF machine = << >> THEN {"machine"} ELSE ScenarioOps :
       script' = [script EXCEPT !.no = @ + 1, !.op = op, !.step =
                    CASE op = "machine" -> IF machine = << >> THEN "up" ELSE "idle"
                      [] op = "exec" -> "exec"
                      [] op = "powershell" -> "work"
                      [] op = "reboot" -> "restart"
                      [] op = "wait_ready" -> "ready"
                      [] op = "run" -> IF machine.prepared THEN "work" ELSE "copy"]
  /\ UNCHANGED << guest, machine >>

\* machine.exec, and the exec of a script that has been copied in.
Exec ==
  /\ script.step = "exec"
  /\ \/ Answered(guest) \/ Unanswered(guest)
  /\ IF script.op = "powershell" THEN Goes("cleanup") ELSE Ends
  /\ machine' = machine

\* ensure_prepared and prepare: the binary is copied in (and made executable,
\* as well as that goes) ...
CopyBinary ==
  /\ script.step = "copy"
  /\ \/ Answered([guest EXCEPT !.binary = "whole"]) /\ Goes("smoke")
     \/ /\ \E left \in {guest.binary, "partial"} :
             LET g == [guest EXCEPT !.binary = left] IN Answered(g) \/ Unanswered(g)
        /\ Ends
  /\ machine' = machine

\* ... and has to say its version.
Smoked == guest.binary = "whole" /\ guest.runs

Smoke ==
  /\ script.step = "smoke"
  /\ \/ /\ Smoked /\ Answered(guest)
        /\ machine' = [machine EXCEPT !.prepared = TRUE]
        /\ Goes("work")
     \/ /\ Answered(guest) \/ Unanswered(guest)
        /\ machine' = machine
        /\ Ends

\* A mutant of Bump: a machine has one working directory.
BumpOnce(m) == [m EXCEPT !.counter = 1]

\* bump: the working directory's number, spent whether it is used or not.
Bump(m) == [m EXCEPT !.counter = @ + 1]

\* What is synthesized for the run may be no playbook at all, which fails the
\* call first; the directory is made.
Work ==
  /\ script.step = "work"
  /\ \/ /\ machine' = Bump(machine)
        /\ \/ Answered(guest) /\ Goes("stage")
           \/ (Answered(guest) \/ Unanswered(guest)) /\ Ends
     \/ script.op = "run" /\ Ends /\ UNCHANGED << guest, machine >>

Directory == machine.counter

\* The playbook, or the script, is copied into the directory, over what is
\* there. Where the copy breaks off, some of it may have arrived. A script is
\* removed even then.
Staged(g) == [g EXCEPT !.work[Directory] = @ \cup {script.no}]

StageFails == IF script.op = "powershell" THEN Goes("cleanup") ELSE Ends

Stage ==
  /\ script.step = "stage"
  /\ \/ Answered(Staged(guest)) /\ Goes(IF script.op = "powershell" THEN "exec" ELSE "apply")
     \/ \E g \in {guest, Staged(guest)} : (Answered(g) \/ Unanswered(g)) /\ StageFails
  /\ machine' = machine

\* config-weave runs over the playbook, or __gather does: there is a report
\* to read, or the call fails.
Apply ==
  /\ script.step = "apply"
  /\ Answered(guest) \/ Unanswered(guest)
  /\ Ends
  /\ machine' = machine

\* The script file is removed, or a warning says that it could not be.
CleanUpScript ==
  /\ script.step = "cleanup"
  /\ \/ Answered([guest EXCEPT !.work[Directory] = @ \ {script.no}])
     \/ Answered(guest) \/ Unanswered(guest)
  /\ Ends
  /\ machine' = machine

ScenarioNext ==
  /\ script # << >>
  /\ \/ AgentStarts \/ Up \/ Restart \/ Ready \/ Steady \/ DeadlinePasses
     \/ Call \/ Exec \/ CopyBinary \/ Smoke \/ Work \/ Stage \/ Apply \/ CleanUpScript

-----------------------------------------------------------------------------
\* config-weave is only run where it has been shown to, and over the call's
\* own playbook: one that a call before it left behind, whole or in part, is
\* not in the directory.
RunsItsOwn ==
  script # << >> /\ script.step = "apply" =>
    /\ guest.binary = "whole" /\ guest.runs
    /\ guest.work[Directory] = {script.no}

\* When machine or reboot has come back well, no call meets an agent that is
\* still to restart (guest.rs: "right after a boot or an agent refresh the
\* agent can answer once and then drop the next exec").
ReadyIsSteady == script # << >> /\ script.ready => ~Unsteady
=============================================================================
