------------------------------ MODULE StepWork ------------------------------
(***************************************************************************)
(* What a thread does for the step in its hand, by the step's kind: a wait *)
(* thread runs a wait step (WaitStep), workers run resource steps          *)
(* (Lifecycle). The two share no state, so a behaviour is about one of     *)
(* them, and the other is over.                                            *)
(***************************************************************************)
EXTENDS WaitStep, Lifecycle

workVars == <<vars, lifecycleVars>>

\* A check that found its target not ready.
WaitOver ==
  /\ job = CHOOSE j \in Jobs : j.mode = "Check"
  /\ now = 0 /\ readySince = Never /\ cancelled = FALSE
  /\ phase = "returned" /\ attempt = 1 /\ probeStart = 0
  /\ seen = {} /\ answer = "notReady" /\ pausedAt = 0 /\ result = "NotConfigured"

\* Two runs in which every script failed.
LifecycleOver ==
  /\ play = CHOOSE p \in Plays : TRUE
  /\ target = CHOOSE t \in [Settings -> Values] : TRUE
  /\ stage = [i \in Steps |-> "over"]
  /\ status = [i \in Steps |-> "Error"]
  /\ before = [i \in Steps |-> "Error"]

WorkInit ==
  \/ Init /\ LifecycleOver
  \/ WaitOver /\ LifecycleInit

WorkNext ==
  \/ Moves /\ UNCHANGED lifecycleVars
  \/ LifecycleMoves /\ UNCHANGED vars
  \/ Returned /\ Finished

WorkSpec == WorkInit /\ [][WorkNext]_workVars /\ Fairness
=============================================================================
