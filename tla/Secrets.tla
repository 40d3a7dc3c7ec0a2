------------------------------- MODULE Secrets -------------------------------
(***************************************************************************)
(* The encrypted values of a playbook (src/src/secrets/): the commands     *)
(* that rewrite playbook.wcl - encrypt, decrypt, rekey - with writes that  *)
(* fail and processes killed at every step, next to an author who edits    *)
(* the file whenever he likes, also between a command's read and its       *)
(* rename; and the runs, which open what is encrypted before anything else *)
(* and keep it out of their output.                                        *)
(*                                                                         *)
(* A file is the sequence of its secret() calls (scan.rs). Sealing is a    *)
(* library's: what is sealed with a password opens with it and with no     *)
(* other. The salt travels with a blob and saves work, it decides nothing. *)
(***************************************************************************)
EXTENDS Naturals, Sequences, FiniteSets, SequencesExt

CONSTANTS
  Passwords,   \* the passwords people use
  Values,      \* what an author writes: sequences of bytes
  MaxCalls, MaxEdits, MaxProcesses,  \* bounds: calls in a file, edits, commands and runs
  MaxSecretVars                      \* and variables a run is given in secret

ASSUME SecretsAssumption ==
  /\ Values # {} /\ \A v \in Values : v \in Seq(Range(v))
  /\ MaxCalls \in Nat /\ MaxEdits \in Nat /\ MaxProcesses \in Nat /\ MaxSecretVars \in Nat

VARIABLES
  file,     \* playbook.wcl
  tmp,      \* playbook.wcl.weave-tmp
  text,     \* history: the values last written by hand, as far as file has them
  sealed,   \* history: the password a command has reported done, None after an edit
  command,  \* the command in progress
  run,      \* the run in progress
  registry, \* the values that run masks, in the order it masks them
  shown,    \* what a step of the run meant to say, with what came out
  edits, processes   \* counters

vars == << file, tmp, text, sealed, command, run, registry, shown, edits, processes >>

None == "none"

(* ------------------------------------------------------------------ calls *)

Call(state, value, password) == [state |-> state, value |-> value, password |-> password]

\* What an author can leave at a call: a value in the clear, a blob from
\* another playbook, one that lost a character, an argument that is no literal.
Written ==
  {Call("plaintext", v, None) : v \in Values}
    \cup {Call("encrypted", CHOOSE v \in Values : TRUE, p) : p \in Passwords}
    \cup {Call("encrypted", << >>, None), Call("invalid", << >>, None)}

Whole(calls) == [whole |-> TRUE, calls |-> calls]
Torn         == [whole |-> FALSE, calls |-> << >>]
Absent       == [whole |-> FALSE, calls |-> << >>, absent |-> TRUE]

\* Where the calls of a state stand, in source order: their spans.
Spans(calls, state) ==
  LET upTo[n \in 0 .. Len(calls)] ==
        IF n = 0 THEN << >>
        ELSE IF calls[n].state = state THEN Append(upTo[n - 1], n) ELSE upTo[n - 1]
  IN upTo[Len(calls)]

At(calls, spans) == [n \in DOMAIN spans |-> calls[spans[n]]]

Texts(calls) == [i \in DOMAIN calls |-> calls[i].value]

(* -------------------------------------------------------------- passwords *)

\* PasswordArgs: an empty variable is no source; of the others exactly one
\* may be given, and what it holds may not be empty. None is a refusal.
Given(from, s) == from[s] # None /\ ~(s = "env" /\ from[s] = "")

ResolveFrom(from) ==
  LET given == {s \in DOMAIN from : Given(from, s)}
      only  == CHOOSE s \in given : TRUE
  IN IF Cardinality(given) # 1 \/ from[only] = "" THEN None ELSE from[only]

\* All the answers resolve and resolve_new can give.
Resolved    == {ResolveFrom(f) : f \in [{"stdin", "file", "env"} -> Passwords \cup {"", None}]}
ResolvedNew == {ResolveFrom(f) : f \in [{"file", "env"} -> Passwords \cup {"", None}]}

(* ---------------------------------------------------------------- opening *)

\* A malformed blob opens with nothing.
Opens(call, password) == call.password = password /\ password # None

UnlockAll(calls, password) ==
  \A n \in DOMAIN Spans(calls, "encrypted") : Opens(At(calls, Spans(calls, "encrypted"))[n], password)

\* A mutant of ProvesPassword: nothing is opened.
AnyPassword(calls, password) == password # None

\* Session::unlock_all, with a password resolved before it: all or nothing.
ProvesPassword(calls, password) == password # None /\ UnlockAll(calls, password)

Plaintexts(calls) == Texts(At(calls, Spans(calls, "encrypted")))

\* validate_calls: what a run refuses to start with.
ValidateCalls(calls) == \A i \in DOMAIN calls : calls[i].state = "encrypted"

(* -------------------------------------------------------------- rewriting *)

\* splice: the calls at the spans get new text, every other byte stays.
Splice(calls, spans, as) ==
  [i \in DOMAIN calls |->
     IF \E n \in DOMAIN spans : spans[n] = i THEN as[CHOOSE n \in DOMAIN spans : spans[n] = i]
     ELSE calls[i]]

Seal(values, password) == [n \in DOMAIN values |-> Call("encrypted", values[n], password)]
Open(values)           == [n \in DOMAIN values |-> Call("plaintext", values[n], None)]

Encrypted(calls, password) ==
  LET spans == Spans(calls, "plaintext")
  IN Splice(calls, spans, Seal(Texts(At(calls, spans)), password))

Decrypted(calls) == Splice(calls, Spans(calls, "encrypted"), Open(Plaintexts(calls)))

\* A mutant of Rekeyed: the opened values laid over all the calls in source order.
RekeyedMispaired(calls, password) ==
  Splice(calls, [i \in DOMAIN calls |-> i],
         Seal(Plaintexts(calls) \o Texts(At(calls, Spans(calls, "plaintext"))), password))

\* rekey: the values it has opened, then those still in the clear.
Rekeyed(calls, password) ==
  LET spans == Spans(calls, "encrypted") \o Spans(calls, "plaintext")
  IN Splice(calls, spans,
            Seal(Plaintexts(calls) \o Texts(At(calls, Spans(calls, "plaintext"))), password))

(* ---------------------------------------------------------------- masking *)

Mask    == << "*", "*", "*" >>
MinLen  == 4
Long(v) == Len(v) >= MinLen

\* A mutant of Register: in the order they came.
RegisterUnsorted(masked, value) ==
  IF ~Long(value) \/ Contains(masked, value) THEN masked ELSE Append(masked, value)

\* register: no short value, none twice, and the longest first. The list was
\* sorted, so the new one goes before the first that is shorter.
Register(masked, value) ==
  IF ~Long(value) \/ Contains(masked, value) THEN masked
  ELSE LET shorter == {n \in DOMAIN masked : Len(masked[n]) < Len(value)}
       IN InsertAt(masked, Min(shorter \cup {Len(masked) + 1}), value)

RegisterAll(masked, values) ==
  LET after[n \in 0 .. Len(values)] ==
        IF n = 0 THEN masked ELSE Register(after[n - 1], values[n])
  IN after[Len(values)]

\* str::contains and str::replace.
StartsAt(v, t, i) == i + Len(v) <= Len(t) + 1 /\ SubSeq(t, i, i + Len(v) - 1) = v
Occurs(v, t)      == \E i \in DOMAIN t : StartsAt(v, t, i)

Masking(v, t) ==
  LET from[i \in 1 .. Len(t) + 1] ==
        IF i = Len(t) + 1 THEN << >>
        ELSE IF StartsAt(v, t, i) THEN Mask \o from[i + Len(v)]
        ELSE << t[i] >> \o from[i + 1]
  IN from[1]

\* scrub: each registered value in turn, wherever it occurs.
Scrub(masked, said) ==
  LET after[n \in 0 .. Len(masked)] ==
        IF n = 0 THEN said
        ELSE IF Occurs(masked[n], after[n - 1]) THEN Masking(masked[n], after[n - 1])
        ELSE after[n - 1]
  IN after[Len(masked)]

-----------------------------------------------------------------------------

Idle == [phase |-> "idle"]

Init ==
  /\ \E calls \in {<< >>, << Call("plaintext", CHOOSE v \in Values : TRUE, None) >>} :
        /\ file = Whole(calls)
        /\ text = Texts(calls)
  /\ tmp = Absent
  /\ sealed = None
  /\ command = Idle
  /\ run = Idle
  /\ registry = << >> /\ shown = {}
  /\ edits = 0 /\ processes = 0

\* The author adds a call, changes one or takes one out.
EditsOf(calls) ==
  {Append(calls, c) : c \in IF Len(calls) < MaxCalls THEN Written ELSE {}}
    \cup {<< c >> \o calls : c \in IF Len(calls) < MaxCalls THEN Written ELSE {}}
    \cup {[calls EXCEPT ![i] = c] : i \in DOMAIN calls, c \in Written}
    \cup {RemoveAt(calls, i) : i \in DOMAIN calls}

AuthorEdits ==
  /\ edits < MaxEdits
  /\ edits' = edits + 1
  /\ \E calls \in EditsOf(file.calls) :
        /\ file' = Whole(calls)
        /\ text' = Texts(calls)
  /\ sealed' = None
  /\ UNCHANGED << tmp, command, run, registry, shown, processes >>

(* --------------------------------------------------------------- commands *)

CommandEnds == command' = Idle

\* Session::open: the file is read here, and not again. A call that cannot
\* be rewritten refuses the command, and without calls there is no work.
OpenSession(kind) ==
  /\ command = Idle
  /\ processes < MaxProcesses
  /\ processes' = processes + 1
  /\ \A i \in DOMAIN file.calls : file.calls[i].state # "invalid"
  /\ IF kind = "decrypt" THEN Spans(file.calls, "encrypted") # << >> ELSE file.calls # << >>
  /\ command' = [phase |-> "opened", kind |-> kind, calls |-> file.calls, text |-> text]
  /\ UNCHANGED << file, tmp, text, sealed, run, registry, shown, edits >>

\* What the command goes on to write, or a refusal, or nothing to do.
Answer(kind, calls, password, new) ==
  LET encrypted == Spans(calls, "encrypted")
      written(as, under) == [phase |-> "writing", as |-> as, under |-> under]
      unlocked == ProvesPassword(calls, password)
  IN CASE kind = "encrypt" ->
            IF unlocked /\ Spans(calls, "plaintext") # << >>
            THEN written(Encrypted(calls, password), password) ELSE Idle
       [] kind = "decrypt" ->
            IF unlocked THEN written(Decrypted(calls), None) ELSE Idle
       [] kind = "rekey" ->
            IF new # None /\ (encrypted = << >> \/ unlocked)
            THEN written(Rekeyed(calls, new), new) ELSE Idle

\* The password may come from a standard input that keeps the command waiting.
Compute ==
  /\ command.phase = "opened"
  /\ \E password \in Resolved, new \in ResolvedNew :
       LET answer == Answer(command.kind, command.calls, password, new)
       IN command' = IF answer = Idle THEN Idle
                     ELSE [phase |-> "writing", as |-> answer.as, under |-> answer.under,
                           text |-> command.text]
  /\ UNCHANGED << file, tmp, text, sealed, run, registry, shown, edits, processes >>

\* write_atomic: fs::write empties the temporary file, whatever an earlier
\* command left there, and fills it; either half may fail.
CreateTemporary ==
  /\ command.phase = "writing"
  /\ \/ tmp' = Torn /\ command' = [command EXCEPT !.phase = "filling"]
     \/ tmp' = tmp /\ CommandEnds
  /\ UNCHANGED << file, text, sealed, run, registry, shown, edits, processes >>

FillTemporary ==
  /\ command.phase = "filling"
  /\ \/ tmp' = Whole(command.as) /\ command' = [command EXCEPT !.phase = "renaming"]
     \/ tmp' = tmp /\ CommandEnds
  /\ UNCHANGED << file, text, sealed, run, registry, shown, edits, processes >>

Rename ==
  /\ command.phase = "renaming"
  /\ tmp' = Absent
  /\ CommandEnds
  /\ \/ /\ file' = tmp
        /\ text' = command.text
        /\ sealed' = command.under
     \/ UNCHANGED << file, text, sealed >>   \* the rename fails, the temporary file goes
  /\ UNCHANGED << run, registry, shown, edits, processes >>

\* Killed between any two of these: what is on disk stays.
Killed ==
  /\ command # Idle
  /\ CommandEnds
  /\ UNCHANGED << file, tmp, text, sealed, run, registry, shown, edits, processes >>

(* ------------------------------------------------------------------- runs *)

\* cmd_run: the playbook validated, then the variables the caller marks
\* secret, each registered as it is read.
StartRun ==
  /\ run = Idle
  /\ processes < MaxProcesses
  /\ processes' = processes + 1
  /\ file.whole /\ ValidateCalls(file.calls)
  /\ \E secretVars \in UNION {[1 .. n -> Values] : n \in 0 .. MaxSecretVars} :
        /\ run' = [phase |-> "unlocking", calls |-> file.calls, values |-> Range(secretVars)]
        /\ registry' = RegisterAll(<< >>, secretVars)
  /\ shown' = {}
  /\ UNCHANGED << file, tmp, text, sealed, command, edits >>

\* unlock: no calls, no password; else all of them open, or the run ends.
Unlock ==
  /\ run.phase = "unlocking"
  /\ \E password \in Resolved :
        IF run.calls = << >> \/ UnlockAll(run.calls, password)
        THEN /\ run' = [phase |-> "running",
                        values |-> run.values \cup Range(Texts(run.calls))]
             /\ registry' = RegisterAll(registry, Texts(run.calls))
        ELSE run' = Idle /\ registry' = << >>
  /\ UNCHANGED << file, tmp, text, sealed, command, shown, edits, processes >>

\* A step logs, reports or fails with a value it was given: log::emit,
\* step_report and Diag all scrub.
Say ==
  /\ run.phase = "running"
  /\ \E v \in run.values : shown' = shown \cup {[meant |-> v, text |-> Scrub(registry, v)]}
  /\ UNCHANGED << file, tmp, text, sealed, command, run, registry, edits, processes >>

EndRun ==
  /\ run.phase = "running"
  /\ run' = Idle /\ registry' = << >>
  /\ UNCHANGED << file, tmp, text, sealed, command, shown, edits, processes >>

Next ==
  \/ AuthorEdits
  \/ \E kind \in {"encrypt", "decrypt", "rekey"} : OpenSession(kind)
  \/ Compute \/ CreateTemporary \/ FillTemporary \/ Rename \/ Killed
  \/ StartRun \/ Unlock \/ Say \/ EndRun

Spec == Init /\ [][Next]_vars

-----------------------------------------------------------------------------
(* The commands promise to change how a value is kept and never the value  *)
(* (rewrite.rs: "the result is re-parsed before it can reach disk, and the *)
(* write is a temp-file + rename"). So the playbook is whole at every      *)
(* moment, whatever failed or was killed, and still has the calls, and     *)
(* behind each the value, that its author wrote - those the last command   *)
(* to finish had read, when an edit came while it was at work.             *)
Intact == file.whole /\ Texts(file.calls) = text

\* A command that has reported success under a password leaves a playbook
\* that runs with it: nothing in it is in the clear or beyond repair, and
\* everything opens with that one password (Session::unlock_all: "a new
\* secret can only be added to a playbook by someone who can already read
\* the ones in it").
SealedOpens ==
  sealed # None => ValidateCalls(file.calls) /\ UnlockAll(file.calls, sealed)

\* A value a run was given in secret comes out of it as the mask, and as
\* nothing but the mask, also where one secret is part of another
\* (redact.rs: "masked whole rather than left with a *** hole in the
\* middle"). Values too short to mask come out as they are.
Masked == \A s \in shown : Long(s.meant) => s.text = Mask
=============================================================================
