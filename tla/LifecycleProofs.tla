-------------------------- MODULE LifecycleProofs --------------------------
(***************************************************************************)
(* Proofs about the resource lifecycle, for any number of steps, settings  *)
(* and values, and whatever the scripts do.                                *)
(***************************************************************************)
EXTENDS Lifecycle, TLAPS

LEMMA PlayTyped ==
  ASSUME play \in Plays
  PROVE  /\ play.mode \in Modes
         /\ play.setting \in [Steps -> Settings]
         /\ play.wants \in [Steps -> Values]
  BY LifecycleAssumption DEF PlayType

\* Only a run in apply mode comes to an apply.
Inv == LifecycleTypeOK /\ \A i \in Steps : stage[i] \in {"applying", "rechecking"} => Applies

\* A step of the lifecycle changes its own stage and status, and of the target at
\* most its own setting, in an apply and to any value.
LEMMA LifeStep ==
  ASSUME Inv, NEW i \in Steps, Lives(i)
  PROVE  /\ UNCHANGED <<play, before>>
         /\ \E p \in Stages : /\ stage' = [stage EXCEPT ![i] = p]
                              /\ p \in {"applying", "rechecking"} => Applies
         /\ status' = status \/ \E s \in LifecycleStatuses(play.mode) :
                                   status' = [status EXCEPT ![i] = s]
         /\ \/ UNCHANGED target
            \/ /\ stage[i] = "applying"
               /\ \E v \in Values : target' = [target EXCEPT ![play.setting[i]] = v]
<1> USE DEF Report, GoOn, Stages, Inv
<1>1. play.mode \in Modes
  BY PlayTyped DEF LifecycleTypeOK
<1>2. CASE Start(i)
  BY <1>2 DEF Start
<1>3. CASE Check(i)
  BY <1>1, <1>3 DEF Check, CheckResults, Applies, Modes, LifecycleStatuses
<1>4. CASE Apply(i)
  <2>1. PICK e \in ApplyEffects :
          /\ target' = [target EXCEPT ![play.setting[i]] = e[1]]
          /\ \/ e[2] = "Err" /\ Report(i, "Error")
             \/ e[2] = "RebootRequired" /\ Report(i, "RebootRequired")
             \/ e[2] = "Success" /\ GoOn(i, "rechecking")
    BY <1>4 DEF Apply
  <2>2. e[1] \in Values
    BY DEF ApplyEffects
  <2>3. \E v \in Values : target' = [target EXCEPT ![play.setting[i]] = v]
    BY <2>1, <2>2
  <2>4. /\ "Error" \in LifecycleStatuses(play.mode)
        /\ "RebootRequired" \in LifecycleStatuses(play.mode)
    BY DEF LifecycleStatuses
  <2>5. stage[i] = "applying" /\ UNCHANGED <<play, before>>
    BY <1>4 DEF Apply
  <2> QED BY <2>1, <2>3, <2>4, <2>5
<1>5. CASE Recheck(i)
  <2>1. play.mode = "Apply"
    BY <1>5 DEF Recheck, Applies
  <2> QED BY <1>5, <2>1 DEF Recheck, LifecycleStatuses
<1> QED BY <1>2, <1>3, <1>4, <1>5 DEF Lives

LEMMA OthersKept ==
  ASSUME Inv, NEW i \in Steps, Lives(i)
  PROVE  /\ stage' \in [Steps -> Stages]
         /\ stage'[i] \in {"applying", "rechecking"} => Applies
         /\ \A j \in Steps : j # i => stage'[j] = stage[j] /\ status'[j] = status[j]
<1>1. stage \in [Steps -> Stages]
  BY DEF Inv, LifecycleTypeOK
<1>2. PICK p \in Stages : /\ stage' = [stage EXCEPT ![i] = p]
                          /\ p \in {"applying", "rechecking"} => Applies
  BY LifeStep
<1>3. status' = status \/ \E s \in LifecycleStatuses(play.mode) :
                            status' = [status EXCEPT ![i] = s]
  BY LifeStep
<1>4. \A j \in Steps : j # i => status'[j] = status[j]
  <2>1. status \in [Steps -> LifecycleStatuses(play.mode) \cup {NoStatus}]
    BY DEF Inv, LifecycleTypeOK
  <2> QED BY <1>3, <2>1
<1>5. stage' \in [Steps -> Stages]
  BY <1>1, <1>2
<1>6. stage'[i] = p /\ \A j \in Steps : j # i => stage'[j] = stage[j]
  BY <1>1, <1>2
<1> QED BY <1>2, <1>4, <1>5, <1>6

LEMMA InvStep ==
  ASSUME Inv, [LifecycleNext]_lifecycleVars
  PROVE  Inv'
<1>1. ASSUME NEW i \in Steps, Lives(i) PROVE Inv'
  <2>1. target' \in [Settings -> Values]
    <3>1. target \in [Settings -> Values]
      BY DEF Inv, LifecycleTypeOK
    <3>2. \/ UNCHANGED target
          \/ \E v \in Values : target' = [target EXCEPT ![play.setting[i]] = v]
      BY <1>1, LifeStep
    <3> QED BY <3>1, <3>2
  <2>2. stage' \in [Steps -> Stages] /\ play' = play
    BY <1>1, LifeStep, OthersKept
  <2>3. status' \in [Steps -> LifecycleStatuses(play.mode) \cup {NoStatus}]
    <3>1. status \in [Steps -> LifecycleStatuses(play.mode) \cup {NoStatus}]
      BY DEF Inv, LifecycleTypeOK
    <3>2. status' = status \/ \E s \in LifecycleStatuses(play.mode) :
                                status' = [status EXCEPT ![i] = s]
      BY <1>1, LifeStep
    <3> QED BY <3>1, <3>2
  <2>4. \A j \in Steps : stage'[j] \in {"applying", "rechecking"} => Applies
    BY <1>1, OthersKept DEF Inv
  <2>5. before' = before
    BY <1>1, LifeStep
  <2> QED BY <2>1, <2>2, <2>3, <2>4, <2>5 DEF Inv, LifecycleTypeOK, Applies, Stages
<1>2. CASE RunAgain
  BY <1>2 DEF RunAgain, Inv, LifecycleTypeOK, Stages, Applies
<1>3. CASE UNCHANGED lifecycleVars
  BY <1>3 DEF lifecycleVars, Inv, LifecycleTypeOK, Applies
<1> QED BY <1>1, <1>2, <1>3 DEF LifecycleNext, LifecycleMoves, Finished

\* Every step of the lifecycle keeps every variable in its type.
THEOREM LifecycleTyped == LifecycleSpec => []LifecycleTypeOK
<1>1. LifecycleInit => Inv
  BY DEF LifecycleInit, Inv, LifecycleTypeOK, Stages
<1>2. Inv => LifecycleTypeOK
  BY DEF Inv
<1> QED BY <1>1, <1>2, InvStep, PTL DEF LifecycleSpec

-----------------------------------------------------------------------------
(* Steps of one setting. *)

Apart ==
  play.locked => \A i, j \in Steps :
    Busy(i) /\ Busy(j) /\ play.setting[i] = play.setting[j] => i = j

LEMMA ApartStep ==
  ASSUME Inv, Apart, [LifecycleNext]_lifecycleVars
  PROVE  Apart'
<1>1. ASSUME NEW i \in Steps, Lives(i) PROVE Apart'
  <2>1. play' = play
    BY <1>1, LifeStep
  <2>2. Busy(i) \/ MayStart(i)
    BY <1>1 DEF Lives, Start, Check, Apply, Recheck, Busy
  <2>3. \A j \in Steps : j # i => (Busy(j)' <=> Busy(j))
    BY <1>1, OthersKept DEF Busy
  <2> QED BY <2>1, <2>2, <2>3 DEF Apart, MayStart
<1>2. CASE RunAgain
  BY <1>2 DEF RunAgain, Apart, Busy
<1>3. CASE UNCHANGED lifecycleVars
  BY <1>3 DEF lifecycleVars, Apart, Busy
<1> QED BY <1>1, <1>2, <1>3 DEF LifecycleNext, LifecycleMoves, Finished

LEMMA AloneOnIt ==
  ASSUME Apart, NEW i \in Steps, NEW j \in Steps, KeptApart(i), Busy(i), Busy(j),
         play.setting[i] = play.setting[j]
  PROVE  i = j
  BY DEF Apart, KeptApart

\* An apply that nothing interferes with is called on a setting that is not as wanted.
Fresh ==
  \A i \in Steps : KeptApart(i) /\ stage[i] = "applying" => ~AsWanted(i)

LEMMA FreshStep ==
  ASSUME Inv, Apart, Fresh, [LifecycleNext]_lifecycleVars
  PROVE  Fresh'
<1> SUFFICES ASSUME NEW j \in Steps, KeptApart(j)', stage'[j] = "applying"
             PROVE  ~AsWanted(j)'
  BY DEF Fresh
<1>1. ASSUME NEW i \in Steps, Lives(i) PROVE ~AsWanted(j)'
  <2>1. CASE i = j
    <3>1. Check(i)
      BY <1>1, <2>1 DEF Lives, Start, Check, Apply, Recheck, Report, GoOn, Inv, LifecycleTypeOK
    <3>2. ~AsWanted(j) /\ UNCHANGED <<play, target>>
      BY <2>1, <3>1 DEF Check, CheckResults, Report, Inv, LifecycleTypeOK
    <3> QED BY <3>2 DEF AsWanted
  <2>2. CASE i # j
    <3>1. /\ play' = play /\ stage[j] = "applying"
          /\ \/ UNCHANGED target
             \/ /\ stage[i] = "applying"
                /\ \E v \in Values : target' = [target EXCEPT ![play.setting[i]] = v]
      BY <1>1, <2>2, LifeStep, OthersKept
    <3>2. KeptApart(j)
      BY <3>1 DEF KeptApart
    <3>3. stage[i] = "applying" => play.setting[i] # play.setting[j]
      BY <2>2, <3>1, <3>2, AloneOnIt DEF Busy
    <3>4. ~AsWanted(j)
      BY <3>1, <3>2 DEF Fresh
    <3>5. target'[play.setting[j]] = target[play.setting[j]]
      BY <3>1, <3>3, PlayTyped DEF Inv, LifecycleTypeOK
    <3> QED BY <3>1, <3>4, <3>5 DEF AsWanted
  <2> QED BY <2>1, <2>2
<1>2. CASE RunAgain
  BY <1>2 DEF RunAgain
<1>3. CASE UNCHANGED lifecycleVars
  BY <1>3 DEF lifecycleVars, Fresh, AsWanted, KeptApart
<1> QED BY <1>1, <1>2, <1>3 DEF LifecycleNext, LifecycleMoves, Finished

LEMMA FreshAlways == LifecycleSpec => [](Inv /\ Apart /\ Fresh)
<1>1. LifecycleInit => Inv /\ Apart /\ Fresh
  BY DEF LifecycleInit, Inv, LifecycleTypeOK, Stages, Apart, Busy, Fresh
<1> QED BY <1>1, InvStep, ApartStep, FreshStep, PTL DEF LifecycleSpec

\* With a lock, no other step changes a setting between the check that found it
\* wrong and the apply that follows.
THEOREM LockedChecksHold == LifecycleSpec => []NoStaleApply
<1>1. Fresh => NoStaleApply
  BY DEF Fresh, NoStaleApply, KeptApart
<1> QED BY <1>1, FreshAlways, PTL

-----------------------------------------------------------------------------
(* What a report says of the target. *)

Sound(s) == s \in {"Configured", "AlreadyConfigured"}

\* A step that was configured in the first run is not applied in the second.
LeftAlone ==
  \A i \in Steps : Sound(before[i]) /\ Unrivalled(i) /\ KeptApart(i) =>
    /\ AsWanted(i)
    /\ stage[i] \notin {"applying", "rechecking"} /\ status[i] # "Configured"

Truth == ConfiguredIsTrue /\ LeftAlone

\* A setting that is as a step wants it stays so, if the step is unrivalled and kept
\* apart: another step of the setting would come to an apply only on a setting that
\* is not as it wants it.
LEMMA StaysAsWanted ==
  ASSUME Inv, Apart, Fresh, [LifecycleNext]_lifecycleVars,
         NEW i \in Steps, Unrivalled(i), KeptApart(i), AsWanted(i)
  PROVE  AsWanted(i)'
<1>1. ASSUME NEW j \in Steps, Lives(j) PROVE AsWanted(i)'
  <2>1. /\ play' = play
        /\ \/ UNCHANGED target
           \/ /\ stage[j] = "applying"
              /\ \E v \in Values : target' = [target EXCEPT ![play.setting[j]] = v]
    BY <1>1, LifeStep
  <2>2. ~(stage[j] = "applying" /\ play.setting[j] = play.setting[i])
    <3> SUFFICES ASSUME stage[j] = "applying", play.setting[j] = play.setting[i]
                 PROVE  FALSE
      OBVIOUS
    <3>1. KeptApart(j)
      BY DEF KeptApart
    <3>2. play.wants[j] = play.wants[i]
      BY DEF Unrivalled
    <3> QED BY <3>1, <3>2 DEF Fresh, AsWanted
  <2>3. target'[play.setting[i]] = target[play.setting[i]]
    BY <2>1, <2>2, PlayTyped DEF Inv, LifecycleTypeOK
  <2> QED BY <2>1, <2>3 DEF AsWanted
<1>2. CASE RunAgain \/ UNCHANGED lifecycleVars
  BY <1>2 DEF RunAgain, lifecycleVars, AsWanted
<1> QED BY <1>1, <1>2 DEF LifecycleNext, LifecycleMoves, Finished

LEMMA TruthStep ==
  ASSUME Inv, Apart, Fresh, Truth, [LifecycleNext]_lifecycleVars
  PROVE  Truth'
<1>1. \A i \in Steps : /\ Unrivalled(i)' <=> Unrivalled(i)
                       /\ KeptApart(i)' <=> KeptApart(i)
  <2>1. play' = play
    BY LifeStep DEF LifecycleNext, LifecycleMoves, RunAgain, Finished, lifecycleVars
  <2> QED BY <2>1 DEF Unrivalled, KeptApart
<1>2. ASSUME NEW i \in Steps, Sound(status'[i]), Unrivalled(i), KeptApart(i),
             ~RunAgain
      PROVE  AsWanted(i)
  <2>1. CASE Sound(status[i])
    BY <1>2, <2>1 DEF Truth, ConfiguredIsTrue, Sound
  <2>2. CASE ~Sound(status[i])
    <3>1. Lives(i)
      BY <1>2, <2>2 DEF LifecycleNext, LifecycleMoves, Finished, lifecycleVars, Lives, Start, Check, Apply, Recheck, Report,
                        GoOn, Inv, LifecycleTypeOK
    <3>2. (Check(i) \/ Recheck(i)) /\ status'[i] # status[i]
      BY <1>2, <2>2, <3>1 DEF Lives, Start, Check, Apply, Recheck, Report, GoOn, Sound,
                              Inv, LifecycleTypeOK
    <3> QED
      BY <1>2, <3>2 DEF Check, Recheck, CheckResults, Agrees, Report, Sound, Inv, LifecycleTypeOK,
                        GoOn
  <2> QED BY <2>1, <2>2
<1>3. ConfiguredIsTrue'
  <2>1. CASE RunAgain
    BY <2>1 DEF RunAgain, ConfiguredIsTrue, NoStatus
  <2>2. CASE ~RunAgain
    BY <1>1, <1>2, <2>2, StaysAsWanted DEF ConfiguredIsTrue, Sound
  <2> QED BY <2>1, <2>2
<1>4. LeftAlone'
  <2>1. CASE RunAgain
    BY <1>1, <2>1, StaysAsWanted
       DEF RunAgain, LeftAlone, Truth, ConfiguredIsTrue, Sound, NoStatus
  <2>2. CASE UNCHANGED lifecycleVars
    BY <1>1, <2>2 DEF lifecycleVars, LeftAlone, Truth, AsWanted
  <2>3. ASSUME NEW j \in Steps, Lives(j) PROVE LeftAlone'
    <3> SUFFICES ASSUME NEW i \in Steps, Sound(before'[i]), Unrivalled(i),
                        KeptApart(i)
                 PROVE  /\ stage'[i] \notin {"applying", "rechecking"}
                        /\ status'[i] # "Configured"
                        /\ AsWanted(i)'
      BY <1>1 DEF LeftAlone
    <3>1. /\ AsWanted(i) /\ status[i] # "Configured"
          /\ stage[i] \notin {"applying", "rechecking"}
      BY <2>3, LifeStep DEF Truth, LeftAlone
    <3>2. AsWanted(i)'
      BY <3>1, StaysAsWanted
    <3>3. CASE i = j
      <4>1. Start(i) \/ Check(i)
        BY <2>3, <3>1, <3>3 DEF Lives, Apply, Recheck
      <4> QED
        BY <3>1, <3>2, <4>1 DEF Start, Check, CheckResults, Report, GoOn, Inv, LifecycleTypeOK
    <3>4. CASE i # j
      BY <2>3, <3>1, <3>2, <3>4, OthersKept
    <3> QED BY <3>3, <3>4
  <2> QED BY <2>1, <2>2, <2>3 DEF LifecycleNext, LifecycleMoves, Finished
<1> QED BY <1>3, <1>4 DEF Truth

LEMMA Truthful == LifecycleSpec => []Truth
<1>1. LifecycleInit => Truth
  BY DEF LifecycleInit, Inv, LifecycleTypeOK, Stages, Truth, ConfiguredIsTrue, LeftAlone, Sound, NoStatus
<1> QED BY <1>1, FreshAlways, TruthStep, PTL DEF LifecycleSpec

\* What is reported as configured is configured, whatever the scripts do, as long
\* as no step of the play wants the opposite and the steps of its setting share a
\* lock.
THEOREM ReportsAreTrue == LifecycleSpec => []ConfiguredIsTrue
<1>1. Truth => ConfiguredIsTrue
  BY DEF Truth
<1> QED BY <1>1, Truthful, PTL

\* A second run of the play does not apply what the first one configured, under the
\* same two conditions.
THEOREM SecondRunIsIdle == LifecycleSpec => []SecondRunIdle
<1>1. Truth => SecondRunIdle
  BY DEF Truth, LeftAlone, SecondRunIdle, Sound
<1> QED BY <1>1, Truthful, PTL

\* A run in check mode changes nothing.
THEOREM ChecksAreHarmless == LifecycleSpec => CheckChangesNothing
<1>1. Inv /\ [LifecycleNext]_lifecycleVars => [play.mode = "Check" => UNCHANGED target]_lifecycleVars
  <2>1. ASSUME Inv, NEW i \in Steps, Lives(i), play.mode = "Check"
        PROVE  UNCHANGED target
    BY <2>1, LifeStep DEF Inv, Applies
  <2> QED BY <2>1 DEF LifecycleNext, LifecycleMoves, RunAgain, Finished, lifecycleVars
<1>2. LifecycleInit => Inv
  BY DEF LifecycleInit, Inv, LifecycleTypeOK, Stages
<1> QED BY <1>1, <1>2, InvStep, PTL DEF LifecycleSpec, CheckChangesNothing
=============================================================================
