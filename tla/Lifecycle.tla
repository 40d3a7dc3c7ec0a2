------------------------------ MODULE Lifecycle ------------------------------
(***************************************************************************)
(* What a resource step does on a worker: check, apply, re-check (fn       *)
(* run_lifecycle of src/src/engine/run.rs), on several threads at once and *)
(* over two runs of the same play against one target machine.              *)
(*                                                                         *)
(* A step wants one setting of the target to have one value; a setting     *)
(* stands for all that a step's scripts look at and change. The scripts    *)
(* are external: a check may fail or ask for a reboot; an apply may leave  *)
(* any value behind, half way to the wanted one too, and may fail, ask for *)
(* a reboot or claim a success it did not have.                            *)
(***************************************************************************)
EXTENDS Naturals, StepStatus

CONSTANTS
  Steps, Settings, Values,
  Plays  \* the plays considered

PlayType == [mode : Modes, setting : [Steps -> Settings],
             wants : [Steps -> Values], locked : BOOLEAN]

ASSUME LifecycleAssumption == Plays \subseteq PlayType

NoStatus == "none"

VARIABLES
  play,
  target,   \* the settings of the machine
  stage,    \* of each step: "pending", "checking", "applying", "rechecking", "over"
  status,   \* what each step reported in this run
  before    \* what it reported in the run before; "none" in the first run

lifecycleVars == <<play, target, stage, status, before>>

Stages == {"pending", "checking", "applying", "rechecking", "over"}

LifecycleTypeOK ==
  /\ play \in Plays
  /\ target \in [Settings -> Values]
  /\ stage \in [Steps -> Stages]
  /\ status \in [Steps -> LifecycleStatuses(play.mode) \cup {NoStatus}]
  /\ before \in [Steps -> LifecycleStatuses(play.mode) \cup {NoStatus}]

LifecycleInit ==
  /\ play \in Plays
  /\ target \in [Settings -> Values]
  /\ stage = [i \in Steps |-> "pending"]
  /\ status = [i \in Steps |-> NoStatus]
  /\ before = [i \in Steps |-> NoStatus]

Busy(i) == stage[i] \in {"checking", "applying", "rechecking"}

AsWanted(i) == target[play.setting[i]] = play.wants[i]

-----------------------------------------------------------------------------
(* The scripts. *)

\* A failure of the virtual machine and an Err of the script are one result.
CheckResults(i) ==
  {IF AsWanted(i) THEN "AlreadyConfigured" ELSE "NotConfigured",
   "RebootRequired", "Err"}

\* The value an apply leaves behind, with what it returns. Nothing ties the two:
\* call_apply looks at the answer alone.
ApplyEffects == Values \X {"Success", "RebootRequired", "Err"}

-----------------------------------------------------------------------------
(* The lifecycle. *)

Report(i, s) ==
  /\ stage' = [stage EXCEPT ![i] = "over"]
  /\ status' = [status EXCEPT ![i] = s]

GoOn(i, p) == stage' = [stage EXCEPT ![i] = p] /\ UNCHANGED status

\* Mutant: nobody keeps two steps of one setting apart.
AnyTime(i) == TRUE

\* Steps that share a lock are kept apart by the scheduler.
MayStart(i) ==
  play.locked => ~\E j \in Steps : Busy(j) /\ play.setting[j] = play.setting[i]

Start(i) ==
  /\ stage[i] = "pending" /\ MayStart(i)
  /\ GoOn(i, "checking")
  /\ UNCHANGED <<play, target, before>>

Applies == play.mode = "Apply"

Check(i) ==
  /\ stage[i] = "checking"
  /\ \E c \in CheckResults(i) :
       \/ c = "Err" /\ Report(i, "Error")
       \/ c \in {"AlreadyConfigured", "RebootRequired"} /\ Report(i, c)
       \/ c = "NotConfigured" /\ ~Applies /\ Report(i, c)
       \/ c = "NotConfigured" /\ Applies /\ GoOn(i, "applying")
  /\ UNCHANGED <<play, target, before>>

Apply(i) ==
  /\ stage[i] = "applying"
  /\ \E e \in ApplyEffects :
       /\ target' = [target EXCEPT ![play.setting[i]] = e[1]]
       /\ \/ e[2] = "Err" /\ Report(i, "Error")
          \/ e[2] = "RebootRequired" /\ Report(i, "RebootRequired")
          \/ e[2] = "Success" /\ GoOn(i, "rechecking")
  /\ UNCHANGED <<play, before>>

\* Mutant: only a re-check that fails is an error.
BelievesApply(c) == c # "Err"

Agrees(c) == c = "AlreadyConfigured"

Recheck(i) ==
  /\ stage[i] = "rechecking"
  /\ \E c \in CheckResults(i) :
       Report(i, IF Agrees(c) THEN "Configured" ELSE "Error")
  /\ UNCHANGED <<play, target, before>>

\* The play is run once more.
RunAgain ==
  /\ \A i \in Steps : stage[i] = "over" /\ before[i] = NoStatus
  /\ stage' = [i \in Steps |-> "pending"]
  /\ before' = status
  /\ status' = [i \in Steps |-> NoStatus]
  /\ UNCHANGED <<play, target>>

Lives(i) == Start(i) \/ Check(i) \/ Apply(i) \/ Recheck(i)

Finished ==
  /\ \A i \in Steps : stage[i] = "over" /\ before[i] # NoStatus
  /\ UNCHANGED lifecycleVars

LifecycleMoves == (\E i \in Steps : Lives(i)) \/ RunAgain

LifecycleNext == LifecycleMoves \/ Finished

LifecycleSpec == LifecycleInit /\ [][LifecycleNext]_lifecycleVars

-----------------------------------------------------------------------------
(* Properties. *)

\* No other step of the play wants the setting to have another value.
Unrivalled(i) ==
  \A j \in Steps : play.setting[j] = play.setting[i] => play.wants[j] = play.wants[i]

\* No other step of the play works on the setting at the same time: a lock keeps
\* them apart, or there is none.
KeptApart(i) ==
  play.locked \/ \A j \in Steps : j # i => play.setting[j] # play.setting[i]

\* What a step reports as configured is configured, although scripts lie, fail
\* and leave anything behind, and stays so while other steps run. Two things are
\* required. No step wants the opposite. And steps of one setting share a lock:
\* without it a second step, that found the setting wrong before the first one
\* configured it, applies after that report, fails half way, and has undone it.
ConfiguredIsTrue ==
  \A i \in Steps :
    /\ status[i] \in {"Configured", "AlreadyConfigured"}
    /\ Unrivalled(i) /\ KeptApart(i)
    => AsWanted(i)

\* A step that a first run configured is left alone by a second one, if no step
\* wants the opposite and steps of one setting share a lock.
SecondRunIdle ==
  \A i \in Steps :
    /\ before[i] \in {"Configured", "AlreadyConfigured"}
    /\ Unrivalled(i) /\ KeptApart(i)
    => stage[i] # "applying" /\ status[i] # "Configured"

\* A run in check mode leaves the target as it was, whatever it reports.
CheckChangesNothing == [][play.mode = "Check" => UNCHANGED target]_lifecycleVars

\* Steps that share a lock never undo each other between a check and the
\* apply it leads to: an apply is called on a setting that is not as wanted.
NoStaleApply ==
  \A i \in Steps : play.locked /\ stage[i] = "applying" => ~AsWanted(i)
=============================================================================
