------------------------------- MODULE Shell -------------------------------
(***************************************************************************)
(* Running another program (src/src/hostapi/shell.rs, and run_cmd_deadline *)
(* of src/src/testlab/backend.rs): the caller feeds the child's input,     *)
(* threads empty its output pipes, and the caller waits for the child, for *)
(* no longer than its timeout, and then for what is left in the pipes.     *)
(*                                                                         *)
(* A pipe holds PipeRoom chunks; who writes to a full one or reads from an *)
(* empty one waits. A child may hang, and may leave behind a process that  *)
(* inherited its pipes and keeps them open.                                *)
(***************************************************************************)
EXTENDS Naturals, Sequences, SequencesExt

CONSTANTS PipeRoom, MaxChunks   \* chunks a pipe holds; bound on what a child does

ASSUME ShellAssumption == PipeRoom \in Nat /\ MaxChunks \in Nat

VARIABLES
  child,    \* the program, how far it got, whether it is still there
  pipes,    \* chunks in its stdin, stdout and stderr
  caller,   \* the call
  wrote, got   \* chunks of each output: written by the child, read by the call

shellVars == << child, pipes, caller, wrote, got >>

Outputs == {"out", "err"}
Pipes   == {"in"} \cup Outputs
Nothing == [from \in Outputs |-> 0]

\* run, bash and powershell capture; run_streaming; vmlab with a deadline.
Calls ==
  {c \in [how : {"captured", "streaming", "deadline"}, timeout : BOOLEAN, stdin : 0 .. MaxChunks] :
     c.how = "deadline" => c.timeout /\ c.stdin = 0}

Programs ==
  [script : BoundedSeq(Pipes, MaxChunks), ends : {"exit", "hang"}, heir : BOOLEAN]

ShellOff ==
  child = << >> /\ pipes = << >> /\ caller = << >> /\ wrote = << >> /\ got = << >>

ShellInit ==
  \E call \in Calls, program \in Programs :
    /\ child = [script |-> program.script, ends |-> program.ends, heir |-> program.heir,
                alive |-> TRUE]
    /\ pipes = [p \in Pipes |-> 0]
    /\ wrote = Nothing /\ got = Nothing
    /\ caller = [how |-> call.how, timeout |-> call.timeout, left |-> call.stdin,
                 open |-> call.stdin > 0, fits |-> call.stdin <= PipeRoom,
                 phase |-> "feeding", late |-> FALSE]

Returned == caller.phase \in {"ok", "expired"}

\* Nobody can write to the child's output any more.
Hungup == ~child.alive /\ ~child.heir

(* -------------------------------------------------------------- the child *)

Reads ==
  /\ child.alive /\ child.script # << >> /\ Head(child.script) = "in"
  /\ \/ pipes["in"] > 0 /\ pipes' = [pipes EXCEPT !["in"] = @ - 1]
     \/ pipes["in"] = 0 /\ ~caller.open /\ pipes' = pipes   \* end of input
  /\ child' = [child EXCEPT !.script = Tail(@)]
  /\ UNCHANGED << caller, wrote, got >>

Writes(to) ==
  /\ child.alive /\ child.script # << >> /\ Head(child.script) = to
  /\ pipes[to] < PipeRoom
  /\ pipes' = [pipes EXCEPT ![to] = @ + 1]
  /\ wrote' = [wrote EXCEPT ![to] = @ + 1]
  /\ child' = [child EXCEPT !.script = Tail(@)]
  /\ UNCHANGED << caller, got >>

Exits ==
  /\ child.alive /\ child.script = << >> /\ child.ends = "exit"
  /\ child' = [child EXCEPT !.alive = FALSE]
  /\ UNCHANGED << pipes, caller, wrote, got >>

(* ------------------------------------------------------------- the caller *)

\* feed_stdin, on the caller's own thread and before anything is drained.
\* A reader that is gone ends it.
Feed ==
  /\ caller.phase = "feeding" /\ caller.left > 0
  /\ \/ /\ ~Hungup /\ pipes["in"] < PipeRoom
        /\ pipes' = [pipes EXCEPT !["in"] = @ + 1]
        /\ caller' = [caller EXCEPT !.left = @ - 1]
     \/ /\ Hungup
        /\ pipes' = pipes
        /\ caller' = [caller EXCEPT !.left = 0]
  /\ UNCHANGED << child, wrote, got >>

Fed ==
  /\ caller.phase = "feeding" /\ caller.left = 0
  /\ caller' = [caller EXCEPT !.open = FALSE,
                  !.phase = IF caller.how = "streaming" THEN "streaming" ELSE "waiting"]
  /\ UNCHANGED << child, pipes, wrote, got >>

\* A mutant of Drained: read when the child has been waited for.
DrainedAfterwards(from) == caller.phase = "collecting"

\* The threads that empty the pipes, started when the input is fed. The
\* lines of a streamed standard output the caller reads and logs itself.
Drained(from) ==
  /\ caller.phase # "feeding"
  /\ caller.how = "streaming" /\ from = "out" => caller.phase = "streaming"

Drain(from) ==
  /\ Drained(from)
  /\ pipes[from] > 0
  /\ pipes' = [pipes EXCEPT ![from] = @ - 1]
  /\ got' = [got EXCEPT ![from] = @ + 1]
  /\ UNCHANGED << child, caller, wrote >>

\* lossy_lines has come to the end of a standard output.
StreamEnds ==
  /\ caller.phase = "streaming" /\ pipes["out"] = 0 /\ Hungup
  /\ caller' = [caller EXCEPT !.phase = "waiting"]
  /\ UNCHANGED << child, pipes, wrote, got >>

\* wait_with_timeout: the child has exited, or it is killed when the time is
\* up. The threads are left to themselves then.
WaitEnds ==
  /\ caller.phase = "waiting" /\ ~child.alive
  /\ caller' = [caller EXCEPT !.phase = "collecting", !.late = FALSE]
  /\ UNCHANGED << child, pipes, wrote, got >>

WaitTimesOut ==
  /\ caller.phase = "waiting" /\ child.alive /\ caller.timeout /\ caller.late
  /\ child' = [child EXCEPT !.alive = FALSE]
  /\ caller' = [caller EXCEPT !.phase = "expired"]
  /\ UNCHANGED << pipes, wrote, got >>

\* A mutant of Joined: the child is gone, that will do.
JoinedAtOnce == ~child.alive

\* A pipe has ended: its thread hands over what it has read.
Ended(from) == Hungup /\ pipes[from] = 0

Joined == \A from \in Outputs : Ended(from)

\* With a deadline the pipes have PIPE_GRACE to end; a thread that has not
\* ended by then has handed over nothing.
Collect ==
  /\ caller.phase = "collecting"
  /\ Joined \/ (caller.how = "deadline" /\ caller.late)
  /\ caller' = [caller EXCEPT !.phase = "ok"]
  /\ got' = [from \in Outputs |-> IF Ended(from) THEN got[from] ELSE 0]
  /\ UNCHANGED << child, pipes, wrote >>

\* The deadline passes, and later the grace. The clock of wait_with_timeout
\* starts when the waiting does.
TimePasses ==
  /\ caller.phase \in {"waiting", "collecting"} /\ ~caller.late
  /\ caller' = [caller EXCEPT !.late = TRUE]
  /\ UNCHANGED << child, pipes, wrote, got >>

ChildSteps == Reads \/ Writes("out") \/ Writes("err") \/ Exits
Threads == Drain("out") \/ Drain("err")
CallerSteps == Feed \/ Fed \/ StreamEnds \/ WaitEnds \/ WaitTimesOut \/ Collect

ShellNext ==
  /\ caller # << >>
  /\ ChildSteps \/ Threads \/ CallerSteps \/ TimePasses

\* The operating system runs every process and thread that can go on, and
\* time passes.
ShellFairness ==
  /\ WF_shellVars(caller # << >> /\ ChildSteps)
  /\ WF_shellVars(caller # << >> /\ Drain("out"))
  /\ WF_shellVars(caller # << >> /\ Drain("err"))
  /\ WF_shellVars(caller # << >> /\ CallerSteps)
  /\ WF_shellVars(caller # << >> /\ TimePasses)

-----------------------------------------------------------------------------
(* Nobody waits on everybody: the child on a full pipe, the caller on the  *)
(* child. A call returns however much the child writes, if it exits or, in *)
(* a captured call, a timeout is set - as long as nobody inherits its      *)
(* pipes and the input fits into one; with a deadline (backend.rs) it      *)
(* returns whatever child and heirs do.                                    *)
CallIsBounded ==
  \/ caller.how = "deadline"
  \/ /\ ~child.heir /\ caller.fits
     /\ child.ends = "exit" \/ (caller.timeout /\ caller.how = "captured")

BoundedCallReturns == (caller # << >> /\ CallIsBounded) ~> (caller # << >> /\ Returned)

\* A call that returns a result returns all the child has written, however
\* long the threads took to read it (shell.rs: "drain pipes on threads so big
\* output can't deadlock the child") - but for a call with a deadline whose
\* grace is over, which returns nothing of a pipe that is still open.
OutputIsWhole ==
  caller # << >> /\ caller.phase = "ok" /\ ~(caller.how = "deadline" /\ caller.late)
    => got = wrote

\* What the manual says of every function of the module (mod-shell.wcl: "A
\* timeout kills the child and returns Err"): with a timeout, a child is not
\* alive for ever. run_streaming looks at the time when the output has ended,
\* and every call when the input has been fed.
TimeoutKills == (caller # << >> /\ caller.timeout) ~> (caller # << >> /\ ~child.alive)
=============================================================================
