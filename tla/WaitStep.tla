------------------------------ MODULE WaitStep ------------------------------
(***************************************************************************)
(* One wait step with its clock: fn run and struct Cancel of               *)
(* src/src/engine/wait.rs, on the thread spawn_waiter of                   *)
(* src/src/engine/run.rs starts for it.                                    *)
(*                                                                         *)
(* A probe takes time, and reports what the target was at some moment      *)
(* while it ran; the target may become ready and stop being so; the run    *)
(* may be halted at any time. Time 0 is the start of the wait.             *)
(***************************************************************************)
EXTENDS Integers, StepStatus

CONSTANTS
  Jobs,      \* the wait steps considered: mode and WaitSpec
  MaxProbe,  \* the longest a probe takes
  MaxLate    \* the longest the thread lags behind the end of a pause

JobType == [mode : Modes, interval : Nat \ {0}, timeout : Nat \ {0},
            fail_on_error : BOOLEAN]

ASSUME WaitAssumption ==
  Jobs \subseteq JobType /\ MaxProbe \in Nat /\ MaxLate \in Nat

None == "none"
Never == -1
Answers == {"ready", "notReady", "failed"}

VARIABLES
  job,          \* the wait step, fixed
  now,
  readySince,   \* since when the target has been ready, or Never
  cancelled,    \* the flag of Cancel
  phase,        \* "woken", "probing", "asleep", "returned"
  attempt,
  probeStart,   \* when the current attempt started
  seen,         \* what the running probe may have seen of the target
  answer,       \* of the last attempt
  pausedAt,     \* when the current pause started
  result

threadVars == <<phase, attempt, probeStart, seen, answer, pausedAt, result>>
vars == <<job, now, readySince, cancelled, threadVars>>

deadline == job.timeout

TypeOK ==
  /\ job \in Jobs
  /\ now \in 0 .. deadline + MaxProbe + MaxLate
  /\ readySince \in {Never} \cup 0 .. now
  /\ cancelled \in BOOLEAN
  /\ phase \in {"woken", "probing", "asleep", "returned"}
  /\ attempt \in Nat /\ attempt <= 1 + now
  /\ probeStart \in 0 .. now
  /\ seen \in SUBSET BOOLEAN
  /\ answer \in Answers \cup {None}
  /\ pausedAt \in 0 .. now
  /\ result \in StepStatuses \cup {None}

Init ==
  /\ job \in Jobs
  /\ now = 0 /\ readySince \in {Never, 0} /\ cancelled = FALSE
  /\ phase = "woken" /\ attempt = 0 /\ probeStart = 0
  /\ seen = {} /\ answer = None /\ pausedAt = 0 /\ result = None

IsReady == readySince # Never
Waiting == phase # "returned"

-----------------------------------------------------------------------------
(* The wait step's thread. *)

\* Mutant: the last pause is not cut short.
WholeInterval == job.interval

\* The last pause is cut short so that an attempt lands on the deadline.
Pause ==
  IF job.interval < deadline - pausedAt THEN job.interval ELSE deadline - pausedAt

\* Mutant: the wait gives up when another whole pause does not fit.
ExpiredEarly == now + job.interval >= deadline

Expired == now >= deadline

PauseOver == now >= pausedAt + Pause

\* Mutant: the result of the pause does not tell whether it was cut short.
NotTold == FALSE

ToldToStop == cancelled

\* Mutant: an attempt after a pause counts as the first.
AnyAttempt == TRUE

FirstAttempt == attempt = 1

OnlyOnce == job.mode = "Check"

Return(s) ==
  /\ phase' = "returned" /\ result' = s
  /\ UNCHANGED <<attempt, probeStart, pausedAt>>

StartProbe ==
  /\ phase = "woken"
  /\ phase' = "probing" /\ attempt' = attempt + 1
  /\ probeStart' = now /\ seen' = {IsReady}
  /\ UNCHANGED <<job, now, readySince, cancelled, answer, pausedAt, result>>

\* The probe returns; the thread returns, or starts a pause.
EndProbe ==
  /\ phase = "probing"
  /\ seen' = {}
  /\ \E a \in Answers :
       /\ a = "ready" => TRUE \in seen
       /\ a = "notReady" => FALSE \in seen
       /\ answer' = a
       /\ \/ /\ a = "ready"
             /\ Return(IF FirstAttempt THEN "AlreadyConfigured" ELSE "Configured")
          \/ a = "failed" /\ job.fail_on_error /\ Return("Error")
          \/ /\ a = "notReady" \/ (a = "failed" /\ ~job.fail_on_error)
             /\ \/ OnlyOnce /\ Return("NotConfigured")
                \/ ~OnlyOnce /\ Expired /\ Return("Error")
                \/ /\ ~OnlyOnce /\ ~Expired
                   /\ phase' = "asleep" /\ pausedAt' = now
                   /\ UNCHANGED <<attempt, probeStart, result>>
  /\ UNCHANGED <<job, now, readySince, cancelled>>

\* Cancel::sleep returns: the flag is up, or the pause is over. The flag is
\* read under its lock; it may go up right after.
Wake ==
  /\ phase = "asleep"
  /\ \/ ToldToStop /\ Return("NotRun")
     \/ /\ PauseOver /\ ~ToldToStop
        /\ phase' = "woken"
        /\ UNCHANGED <<attempt, probeStart, pausedAt, result>>
  /\ UNCHANGED <<job, now, readySince, cancelled, seen, answer>>

-----------------------------------------------------------------------------
(* What happens around it. *)

\* The scheduler trips the flag when the run halts (Cancel::cancel).
Cancel ==
  /\ Waiting /\ ~cancelled
  /\ cancelled' = TRUE
  /\ UNCHANGED <<job, now, readySince, threadVars>>

\* The target changes; a running probe may see it.
Flip ==
  /\ Waiting
  /\ readySince' = IF IsReady THEN Never ELSE now
  /\ seen' = IF phase = "probing" THEN seen \cup {~IsReady} ELSE seen
  /\ UNCHANGED <<job, now, cancelled, phase, attempt, probeStart, answer,
                 pausedAt, result>>

\* Time passes: a probe takes at most MaxProbe, a pause that is over ends
\* within MaxLate, and the rest takes no time.
Tick ==
  /\ Waiting
  /\ phase # "woken"
  /\ phase = "probing" => now < probeStart + MaxProbe
  /\ phase = "asleep" => now < pausedAt + Pause + MaxLate
  /\ now' = now + 1
  /\ UNCHANGED <<job, readySince, cancelled, threadVars>>

Thread == StartProbe \/ EndProbe \/ Wake

Returned == ~Waiting /\ UNCHANGED vars

Moves == Thread \/ Cancel \/ Flip \/ Tick

Next == Moves \/ Returned

Spec == Init /\ [][Next]_vars

\* A probe that was started returns and the thread is scheduled; nothing is
\* assumed of time.
Fairness == WF_vars(StartProbe) /\ WF_vars(EndProbe) /\ WF_vars(Wake)

-----------------------------------------------------------------------------
(* Properties. *)

\* A wait overshoots its timeout by one probe and the lag of the thread, no
\* more, however its interval compares with the timeout.
EndsInTime == Waiting => now <= deadline + MaxProbe + MaxLate

\* A target that became ready more than a probe's length before the deadline,
\* and stayed so, is not reported as a timeout unless the probe itself fails:
\* the last attempt always ends at the deadline or after it.
ReadyInTime ==
  result = "Error" /\ IsReady /\ readySince < deadline - MaxProbe
    => answer = "failed"

\* Two attempts are an interval apart, or the later one is at the deadline.
Spaced ==
  [][attempt' > attempt /\ attempt > 0 =>
       now >= pausedAt + job.interval \/ now >= deadline]_vars

\* A halt ends the wait once the probe returns, without any time passing.
HaltEndsWait == cancelled ~> result # None

\* A check asks once and never waits.
CheckNeverWaits == job.mode = "Check" => attempt <= 1 /\ phase # "asleep"

\* The step reports what the scheduler counts on: AlreadyConfigured from the
\* first attempt and Configured from a later one only, and in a run that is
\* not halted never NotRun.
AnswersAsScheduled ==
  result # None =>
    /\ result \in WaitStatuses(job.mode) \cup {"NotRun"}
    /\ result = "AlreadyConfigured" => attempt = 1
    /\ result = "Configured" => attempt > 1
    /\ result = "NotRun" => cancelled /\ answer # "ready"
=============================================================================
