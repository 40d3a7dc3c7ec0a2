--------------------------- MODULE WaitStepProofs ---------------------------
(***************************************************************************)
(* Proofs about a wait step, for every interval, timeout, probe length and *)
(* lag of the thread.                                                      *)
(***************************************************************************)
EXTENDS WaitStep, TLAPS

\* Where the clock stands in each phase, and what the running probe can have
\* seen of a target that was ready when it started.
InTime ==
  /\ phase = "woken" => now <= deadline + MaxLate
  /\ phase = "probing" => probeStart <= now /\ now <= probeStart + MaxProbe
  /\ phase = "asleep" => pausedAt < deadline /\ now <= pausedAt + Pause + MaxLate
  /\ probeStart <= deadline + MaxLate

SawReady ==
  /\ phase = "probing" /\ IsReady /\ readySince < probeStart => seen = {TRUE}
  /\ result = "Error" /\ answer # "failed" =>
       /\ now >= deadline /\ now <= probeStart + MaxProbe
       /\ ~(IsReady /\ readySince < probeStart)

\* The part of the type invariant the clock needs.
ClockTyped ==
  /\ job \in Jobs
  /\ now \in Nat /\ probeStart \in Nat /\ pausedAt \in Nat
  /\ readySince \in Nat \cup {Never}
  /\ phase \in {"woken", "probing", "asleep", "returned"}
  /\ seen \in SUBSET BOOLEAN
  /\ Waiting => result = None

WInv == ClockTyped /\ InTime /\ SawReady

LEMMA JobTyped ==
  ASSUME job \in Jobs
  PROVE  job.interval \in Nat \ {0} /\ deadline \in Nat \ {0}
  BY WaitAssumption DEF JobType, deadline

LEMMA WInit == Init => WInv
<1> SUFFICES ASSUME Init PROVE WInv
  OBVIOUS
<1>1. job \in Jobs
  BY DEF Init
<1> QED
  BY <1>1, JobTyped, WaitAssumption
     DEF Init, WInv, ClockTyped, InTime, SawReady, None, Never, Waiting

LEMMA WStep == WInv /\ [Next]_vars => WInv'
<1> SUFFICES ASSUME WInv, [Next]_vars PROVE WInv'
  OBVIOUS
<1> USE DEF WInv
<1>1. /\ job.interval \in Nat \ {0} /\ deadline \in Nat \ {0}
      /\ MaxProbe \in Nat /\ MaxLate \in Nat
  BY JobTyped, WaitAssumption DEF ClockTyped
<1>2. job' = job /\ deadline' = deadline
  BY DEF Next, Moves, Thread, StartProbe, EndProbe, Wake, Cancel, Flip, Tick, Returned,
         vars, deadline
<1>3. CASE StartProbe
  <2>1. /\ phase = "woken" /\ phase' = "probing" /\ probeStart' = now
        /\ UNCHANGED <<now, readySince, answer, pausedAt, result>>
    BY <1>3 DEF StartProbe
  <2>2. IsReady => seen' = {TRUE}
    BY <1>3, Zenon DEF StartProbe
  <2>3. seen' \in SUBSET BOOLEAN
    BY <1>3, Zenon DEF StartProbe, IsReady
  <2>4. ClockTyped'
    BY <1>2, <2>1, <2>3 DEF ClockTyped, Waiting
  <2>5. InTime'
    BY <1>1, <1>2, <2>1 DEF ClockTyped, InTime
  <2>6. SawReady'
    BY <2>1, <2>2 DEF ClockTyped, SawReady, IsReady, Waiting, None
  <2> QED BY <2>4, <2>5, <2>6
<1>4. CASE EndProbe
  <2>1. PICK a \in Answers : /\ a = "notReady" => FALSE \in seen
                             /\ answer' = a
                             /\ \/ phase' = "returned" /\ result' # "Error"
                                \/ a = "failed" /\ phase' = "returned"
                                \/ a = "notReady" /\ Expired /\ phase' = "returned"
                                \/ ~Expired /\ phase' = "asleep" /\ pausedAt' = now
                                     /\ result' = result
    BY <1>4 DEF EndProbe, Return, Answers
  <2>2. /\ phase = "probing" /\ seen' = {} /\ probeStart' = probeStart
        /\ now' = now /\ readySince' = readySince
        /\ pausedAt' \in {pausedAt, now}
    BY <1>4 DEF EndProbe, Return
  <2>3. ClockTyped'
    BY <1>2, <2>1, <2>2 DEF ClockTyped, Waiting
  <2>4. InTime'
    <3>1. CASE phase' = "returned"
      BY <1>2, <2>2, <3>1 DEF InTime
    <3>2. CASE ~Expired /\ phase' = "asleep" /\ pausedAt' = now
      <4>1. now < deadline /\ now \in Nat
        BY <1>1, <3>2 DEF Expired, ClockTyped
      <4>2. \E p \in Nat : Pause' = p
        BY <1>1, <1>2, <3>2, <4>1 DEF Pause
      <4>3. PICK p \in Nat : Pause' = p
        BY <4>2
      <4>4. now <= now + Pause' + MaxLate
        BY <1>1, <4>1, <4>3
      <4>5. probeStart' <= deadline' + MaxLate
        BY <1>2, <2>2 DEF InTime
      <4> QED BY <1>2, <2>2, <3>2, <4>1, <4>4, <4>5 DEF InTime
    <3> QED BY <2>1, <3>1, <3>2
  <2>5. SawReady'
    BY <1>1, <1>2, <2>1, <2>2
       DEF ClockTyped, InTime, SawReady, Expired, IsReady, Waiting, None
  <2> QED BY <2>3, <2>4, <2>5
<1>5. CASE Wake
  <2>1. /\ phase = "asleep"
        /\ \/ phase' = "returned" /\ result' = "NotRun"
           \/ phase' = "woken" /\ result' = result
        /\ UNCHANGED <<now, readySince, seen, answer, probeStart, pausedAt>>
    BY <1>5 DEF Wake, Return
  <2>2. ClockTyped' /\ SawReady'
    BY <1>2, <2>1 DEF ClockTyped, SawReady, IsReady, Waiting, None
  <2>3. InTime'
    <3>1. Pause \in Int /\ pausedAt + Pause <= deadline
      BY <1>1 DEF Pause, ClockTyped
    <3> QED BY <1>1, <1>2, <2>1, <3>1 DEF ClockTyped, InTime
  <2> QED BY <2>2, <2>3
<1>6. CASE Cancel
  BY <1>2, <1>6 DEF Cancel, threadVars, ClockTyped, InTime, SawReady, Pause, IsReady, Waiting
<1>7. CASE Flip
  <2>1. /\ readySince' = IF IsReady THEN Never ELSE now
        /\ UNCHANGED <<job, now, phase, answer, probeStart, pausedAt, result>>
        /\ Waiting
    BY <1>7 DEF Flip
  <2>2. seen' \in SUBSET BOOLEAN
    BY <1>7, Zenon DEF Flip, ClockTyped, IsReady
  <2>3. ClockTyped'
    BY <2>1, <2>2 DEF ClockTyped, Waiting
  <2>4. InTime'
    BY <1>2, <2>1 DEF InTime, Pause
  <2>5. SawReady'
    <3>1. phase = "probing" => ~(IsReady' /\ readySince' < probeStart)
      BY <2>1 DEF ClockTyped, InTime, IsReady, Never
    <3> QED BY <2>1, <3>1 DEF ClockTyped, SawReady, None
  <2> QED BY <2>3, <2>4, <2>5
<1>8. CASE Tick
  <2>1. /\ now' = now + 1 /\ now' \in Nat /\ phase # "woken" /\ Waiting
        /\ phase = "probing" => now < probeStart + MaxProbe
        /\ phase = "asleep" => now < pausedAt + Pause + MaxLate
        /\ UNCHANGED <<job, readySince, phase, seen, answer, probeStart, pausedAt, result>>
    BY <1>8 DEF Tick, threadVars, ClockTyped
  <2>2. ClockTyped' /\ SawReady'
    BY <2>1 DEF ClockTyped, SawReady, IsReady, Waiting, None
  <2>3. Pause' = Pause /\ Pause \in Int
    BY <1>1, <1>2, <2>1 DEF Pause, ClockTyped
  <2>4. InTime'
    BY <1>1, <1>2, <2>1, <2>3 DEF ClockTyped, InTime
  <2> QED BY <2>2, <2>4
<1>9. CASE UNCHANGED vars
  BY <1>2, <1>9 DEF vars, threadVars, ClockTyped, InTime, SawReady, Pause, IsReady, Waiting
<1> QED BY <1>3, <1>4, <1>5, <1>6, <1>7, <1>8, <1>9 DEF Next, Moves, Thread, Returned

\* A wait that is still going on has not passed its timeout by more than the
\* length of one probe and the lag of its thread.
THEOREM WaitEndsInTime == Spec => []EndsInTime
<1>1. WInv => EndsInTime
  <2> SUFFICES ASSUME WInv, Waiting PROVE now <= deadline + MaxProbe + MaxLate
    BY DEF EndsInTime
  <2>1. /\ job.interval \in Nat \ {0} /\ deadline \in Nat \ {0}
        /\ MaxProbe \in Nat /\ MaxLate \in Nat
    BY JobTyped, WaitAssumption DEF WInv, ClockTyped
  <2> QED BY <2>1 DEF WInv, ClockTyped, InTime, Pause, Waiting
<1> QED BY <1>1, WInit, WStep, PTL DEF Spec

\* A target that became ready more than a probe's length before the deadline,
\* and stayed so, is never reported as a timeout.
THEOREM WaitReadyInTime == Spec => []ReadyInTime
<1>1. WInv => ReadyInTime
  <2> SUFFICES ASSUME WInv, result = "Error", IsReady,
                      readySince < deadline - MaxProbe, answer # "failed"
               PROVE  FALSE
    BY DEF ReadyInTime
  <2>1. deadline \in Nat /\ MaxProbe \in Nat
    BY JobTyped, WaitAssumption DEF WInv, ClockTyped
  <2> QED BY <2>1 DEF WInv, ClockTyped, SawReady, IsReady
<1> QED BY <1>1, WInit, WStep, PTL DEF Spec

-----------------------------------------------------------------------------
(* The attempts: how they are spaced and what they answer. *)

\* An attempt takes a pause of its own, a pause follows an attempt that did not
\* end the wait, and a check has neither.
AttemptInv ==
  /\ attempt \in Nat /\ attempt <= now + 1
  /\ phase = "woken" => attempt <= now /\ (attempt > 0 => PauseOver)
  /\ phase # "woken" => attempt > 0
  /\ phase = "asleep" => /\ attempt <= pausedAt + 1
                         /\ answer \in {"notReady", "failed"}
  /\ CheckNeverWaits
  /\ job.mode = "Check" /\ phase = "woken" => attempt = 0

LEMMA AttemptInit == Init => AttemptInv /\ AnswersAsScheduled
  BY DEF Init, AttemptInv, CheckNeverWaits, AnswersAsScheduled

LEMMA AttemptStep ==
  ASSUME WInv, AttemptInv, [Next]_vars
  PROVE  AttemptInv'
<1> USE DEF AttemptInv, CheckNeverWaits
<1>1. /\ job.interval \in Nat \ {0} /\ deadline \in Nat \ {0}
      /\ now \in Nat /\ pausedAt \in Nat
  BY JobTyped DEF WInv, ClockTyped
<1>2. job' = job /\ deadline' = deadline
  BY DEF Next, Moves, Thread, StartProbe, EndProbe, Wake, Cancel, Flip, Tick, Returned,
         vars, deadline
<1>3. CASE StartProbe
  BY <1>1, <1>2, <1>3 DEF StartProbe
<1>4. CASE EndProbe
  <2>1. /\ phase = "probing" /\ now' = now /\ attempt' = attempt
        /\ \/ phase' = "returned"
           \/ /\ phase' = "asleep" /\ pausedAt' = now /\ job.mode # "Check"
              /\ answer' \in {"notReady", "failed"}
    BY <1>4 DEF EndProbe, Return, OnlyOnce
  <2> QED BY <1>1, <1>2, <2>1
<1>5. CASE Wake
  <2>1. phase = "asleep" /\ pausedAt < deadline /\ job.mode # "Check"
    BY <1>5 DEF Wake, WInv, InTime
  <2>2. Pause \in Nat \ {0} /\ Pause' = Pause
    BY <1>1, <1>2, <1>5, <2>1 DEF Pause, Wake, Return
  <2>3. /\ UNCHANGED <<now, attempt, pausedAt>>
        /\ \/ phase' = "returned"
           \/ phase' = "woken" /\ now >= pausedAt + Pause
    BY <1>5 DEF Wake, Return, PauseOver
  <2> QED BY <1>1, <1>2, <2>1, <2>2, <2>3 DEF PauseOver
<1>6. CASE Cancel \/ Flip \/ Tick
  <2>1. /\ UNCHANGED <<phase, attempt, pausedAt, answer>>
        /\ now' = now \/ (now' = now + 1 /\ phase # "woken")
    BY <1>6 DEF Cancel, Flip, Tick, threadVars
  <2> QED BY <1>1, <1>2, <2>1 DEF PauseOver, Pause
<1>7. CASE UNCHANGED vars
  BY <1>2, <1>7 DEF vars, threadVars, PauseOver, Pause
<1> QED BY <1>3, <1>4, <1>5, <1>6, <1>7 DEF Next, Moves, Thread, Returned

LEMMA Attempts == Spec => [](WInv /\ AttemptInv)
  BY WInit, WStep, AttemptInit, AttemptStep, PTL DEF Spec

\* Two attempts are a whole interval apart, or the later one is at the deadline:
\* no wake-up and no notification brings an attempt forward.
THEOREM AttemptsSpaced == Spec => Spaced
<1>1. ASSUME WInv, AttemptInv, [Next]_vars, attempt' > attempt, attempt > 0
      PROVE  now >= pausedAt + job.interval \/ now >= deadline
  <2>1. phase = "woken"
    <3>1. attempt' # attempt
      BY <1>1 DEF AttemptInv
    <3>2. ~EndProbe /\ ~Wake
      BY <3>1, Zenon DEF EndProbe, Wake, Return
    <3>3. ~Cancel /\ ~Flip /\ ~Tick /\ ~UNCHANGED vars
      BY <3>1 DEF Cancel, Flip, Tick, vars, threadVars
    <3> QED BY <1>1, <3>2, <3>3 DEF Next, Moves, Thread, StartProbe, Returned
  <2>2. /\ job.interval \in Nat \ {0} /\ deadline \in Nat \ {0}
        /\ now \in Nat /\ pausedAt \in Nat
    BY <1>1, JobTyped DEF WInv, ClockTyped
  <2> QED BY <1>1, <2>1, <2>2 DEF AttemptInv, PauseOver, Pause
<1>2. WInv /\ AttemptInv /\ [Next]_vars =>
        [attempt' > attempt /\ attempt > 0 =>
           now >= pausedAt + job.interval \/ now >= deadline]_vars
  BY <1>1
<1> QED BY <1>2, Attempts, PTL DEF Spec, Spaced

\* A wait step of a check asks its probe once and never sleeps.
THEOREM CheckAsksOnce == Spec => []CheckNeverWaits
<1>1. AttemptInv => CheckNeverWaits
  BY DEF AttemptInv
<1> QED BY <1>1, Attempts, PTL

\* A wait step reports only what the scheduler counts on, and says that it was
\* not run only if the run was halted.
THEOREM AnswersCountedOn == Spec => []AnswersAsScheduled
<1>1. ASSUME WInv, AttemptInv, AnswersAsScheduled, [Next]_vars
      PROVE  AnswersAsScheduled'
  <2>1. job.mode \in Modes /\ job' = job /\ (phase # "returned" => result = None)
    BY <1>1, WaitAssumption
       DEF WInv, ClockTyped, JobType, Waiting, Next, Moves, Thread, StartProbe, EndProbe, Wake,
           Cancel, Flip, Tick, Returned, vars
  <2> USE <2>1 DEF AnswersAsScheduled
  <2>2. CASE EndProbe
    <3>1. attempt > 0 /\ attempt \in Nat /\ (job.mode = "Check" => attempt = 1)
      BY <1>1, <2>2 DEF EndProbe, AttemptInv, CheckNeverWaits
    <3>2. CASE result' = None
      BY <3>2
    <3>3. CASE result' # None
      <4>1. /\ attempt' = attempt
            /\ \/ result' = "AlreadyConfigured" /\ attempt = 1
               \/ result' = "Configured" /\ attempt # 1
               \/ result' = "Error"
               \/ result' = "NotConfigured" /\ job.mode = "Check"
        BY <2>2, <3>3 DEF EndProbe, Return, FirstAttempt, OnlyOnce
      <4> QED
        BY <3>1, <4>1 DEF WaitStatuses, LifecycleStatuses, Modes, None
    <3> QED BY <3>2, <3>3
  <2>3. CASE Wake
    <3>1. phase = "asleep" /\ answer \in {"notReady", "failed"}
      BY <1>1, <2>3 DEF Wake, AttemptInv
    <3>2. /\ UNCHANGED <<cancelled, answer>>
          /\ result' = result \/ (result' = "NotRun" /\ cancelled)
      BY <2>3 DEF Wake, Return, ToldToStop
    <3> QED BY <3>1, <3>2 DEF None
  <2>4. CASE StartProbe
    BY <2>4 DEF StartProbe, None
  <2>5. CASE Cancel \/ Flip \/ Tick \/ UNCHANGED vars
    BY <1>1, <2>5 DEF Cancel, Flip, Tick, vars, threadVars
  <2> QED BY <1>1, <2>2, <2>3, <2>4, <2>5 DEF Next, Moves, Thread, Returned
<1> QED BY <1>1, AttemptInit, Attempts, PTL DEF Spec
=============================================================================
