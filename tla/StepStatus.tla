----------------------------- MODULE StepStatus -----------------------------
(***************************************************************************)
(* The vocabulary of a run's result (src/src/engine/status.rs): the mode,  *)
(* the seven step statuses, what a status does to the rest of the run, and *)
(* the exit code computed from a complete report.                          *)
(***************************************************************************)

Modes == {"Check", "Apply"}

StepStatuses == {"AlreadyConfigured", "Configured", "NotConfigured",
                 "RebootRequired", "Skipped", "Error", "NotRun"}

\* A step with this status stops the run: nothing is dispatched after it.
Halts(mode, continueOnError, status) ==
  \/ status = "Error" /\ ~continueOnError
  \/ status = "RebootRequired" /\ mode = "Apply"

\* A dependency with this status keeps its dependents from running (apply).
BlocksDependents(status) == status \in {"Error", "NotRun"}

\* What the check / apply / re-check lifecycle of a resource can report.
LifecycleStatuses(mode) ==
  {"AlreadyConfigured", "RebootRequired", "Error"}
    \cup (IF mode = "Check" THEN {"NotConfigured"} ELSE {"Configured"})

\* What a wait step can report when its run is not halted: the first attempt
\* finds the probe ready or a later one does (apply only), or the wait fails.
WaitStatuses(mode) == LifecycleStatuses(mode) \ {"RebootRequired"}

\* The process exit code of a finished run, from the statuses it reported.
ExitCode(mode, statuses) ==
  IF "Error" \in statuses THEN 1
  ELSE IF mode = "Apply" /\ "RebootRequired" \in statuses THEN 3
  ELSE 0
=============================================================================
