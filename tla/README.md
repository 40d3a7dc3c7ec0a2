# Verification of config-weave

TLA+ models of config-weave, a configuration-management tool written in Rust,
with the TLC runs that check them on small instances and theorems about them
whose proofs TLAPS checks. Paths in this text and in the modules start at the
directory that holds the repository as `src/`, so `src/src/engine/run.rs` is the
crate's `src/engine/run.rs`.

1. [The system](#1-the-system)
2. [What the modules model](#2-what-the-modules-model)
3. [What the runs check](#3-what-the-runs-check)
4. [What is proved](#4-what-is-proved)
5. [Divergences](#5-divergences)
6. [What is not modelled](#6-what-is-not-modelled)
7. [Plan](#7-plan)

## 1. The system

`config-weave check|apply playbook` loads a playbook, compiles the scripts of the
packages it uses, gathers facts about the machine, plans each play and runs its
steps on a pool of threads. `config-weave pkg` installs packages from git
repositories. `config-weave test` runs packages' tests in virtual machines.
`config-weave secrets` encrypts what is secret in a playbook.

| component | state it keeps | operations | talks to |
|---|---|---|---|
| playbook loader (`model/`) | none; builds the model | accept or refuse, expand plays into steps | command line, planner |
| script compilation (`engine/scripts.rs`) | compiled scripts by key | one pass over the files | gatherers, workers |
| variable store (`engine/vars.rs`) | variables with their origins | override, insert by precedence | gatherers, planner |
| gatherer phase (`engine/gather.rs`) | unique executions, a thread each | run gatherers, bind results | variable store |
| planner (`engine/run.rs`) | caches of conditions and composite arguments, by path | a plan per step: skip, fail, run, wait | scheduler |
| dependency graph (`engine/dag.rs`) | edges by step index | resolve `requires`, reject cycles | scheduler |
| scheduler (`fn schedule`) | sets of dispatched and completed steps, reports, halt flag, in-flight count, locks, exclusive resources, global flag, idle workers | scan, dispatch, receive, halt, join | a job channel per worker, one done channel, the cancel flag |
| worker threads | the job in hand | resource lifecycle: check, apply, re-check | scripts, through the host API |
| wait steps (`engine/wait.rs`) | attempt, deadline; `Cancel`: a flag with a condition variable | probe, sleep, be cancelled | done channel |
| statuses (`engine/status.rs`) | none | what halts, what blocks, exit codes | scheduler, command line |
| host API (`hostapi/`) | a child with its pipes, a `.part` file, a tree of services, the machines of a scenario | run a program, download, stop and restart services, drive a scenario | operating system, servers, guests |
| secrets (`secrets/`) | `playbook.wcl` and its temporary file, the registry of masked values | encrypt, decrypt, rekey, unlock, mask | disk, authors |
| package repositories (`pkgrepo/`) | `pkgs/repo.wcl`, clones in `.repo-cache/`, directories in `pkgs/` | repo add, repo remove, add, remove, update | git, the disk, users |
| test laboratory (`testlab/`) | groups, a cursor per kind, handles of machines, reports | provision, run tests, tear down, scenarios | `vmlab`, the guest agent, a consumer of events |
| test synthesis (`testlab/synth.rs`) | none | write a playbook for a test | laboratory, loader |
| reporting, documentation generator, vocabulary, command line | none | formatting, transformation, calls in sequence | |

**How they interact.** A run is a pipeline: load and validate, unlock secrets and
take overrides, gather, plan, schedule. Each stage hands its result to the next,
and much of what can go wrong lies between them: the loader promises that names
resolve, the planner looks them up again by path, the scheduler trusts the
dependencies. From there on the scheduler is the only thread that touches the
books. It sends a job to an idle worker over the worker's own channel, starts a
thread for each wait step, and blocks on the one channel on which all of them
report. The cancel flag is the only other thing threads share. Workers run
scripts, which reach the machine through the host API; two workers meet on the
target, never in the program's memory.

A `pkg` command is one process that loads the index, works on clones and
directories, and saves the index at the end. A `secrets` command reads the
playbook once and replaces it at the end. A test run has a pool of workers per
kind of machine; each group of tests owns one machine from provisioning to
teardown, and all of them send events to one consumer. A test is run by
another config-weave inside the machine, over a playbook written for it.

**What is hard, and what makes each part correct.**

* *Loading and planning*: composites are expanded before `requires` is resolved
  and conditions are evaluated, and everything is then found again by path, depth
  or key. Correct is: each step is planned as its author wrote it, waits for what
  he named, and nothing accepted turns out to be missing later.
* *Gatherers and variables*: threads answer in any order, fail or panic; a
  variable has several sources. Correct is: the highest source wins, and equal
  questions get one answer.
* *Scheduler*: results come in any order, and each must give back exactly what
  its step holds. The scan decides on books it changes as it goes. A halt must
  reach sleeping threads, and nothing may fall out of the run unreported. Correct
  is: steps kept apart as their classes and locks say, dependencies first,
  everything accounted for, and a run that ends.
* *Wait steps*: a probe takes time, a pause is shortened by the deadline, a halt
  comes at any moment. Correct is: in time at the end, and no ready target missed.
* *Lifecycle*: scripts fail half way or claim what they did not do. Correct is:
  a report that is true of the target.
* *Host API*: the other side has a will of its own. Children hang and leave heirs
  to their pipes, servers cut off and replace files, services crash, agents
  restart. Correct is: whole output, whole files, services put back, runs in
  machines that are really ready.
* *Secrets*: writes fail, processes are killed, authors edit. Correct is: no value
  lost, no playbook that no password opens, nothing secret in the output.
* *Package repositories*: every step may fail or be the last before a kill;
  users and remotes change things in between. Correct is: nothing of the user's
  is lost, and the index names what was really installed.
* *Test laboratory*: machines must not outlive the run, on any failing path, and
  the consumer must hear the end of every test. Correct is: no leak, the caps
  respected, one report each.

`PROJECT.json` lists the hazards one by one, each at its line.

## 2. What the modules model

| module | models | code |
|---|---|---|
| `Params`, `Packages`, `Playbook` | what the loader accepts, and the steps it makes of a play | `model/{load,types,convert}.rs` |
| `VarStore`, `Scripts`, `Requires` | origins and overrides; which scripts compile; dependencies | `engine/{vars,scripts,dag}.rs` |
| `Gather`, `Planner` | what is executed and bound; plans, with the caches | `engine/{gather,run}.rs` |
| `Variables` | where the variables of a run get their values | `main.rs`, `engine/{gather,vars}.rs` |
| `Prepare` | the pipeline from documents to plans | `main.rs`, `engine/mod.rs` |
| `Synth` | the playbooks written for tests, scenarios and gatherers | `testlab/synth.rs` |
| `AuthorView`, `PrepareProperties` | what a play means to its author; properties | |
| `StepStatus` | modes, statuses, `exit_code` | `engine/status.rs` |
| `Play` | what the dispatch of a play is given: graph and plans | `engine/dag.rs`, `enum Plan` |
| `PlayRun` | abstract specification of a play's execution | (what `Scheduler` must implement) |
| `Scheduler` | scheduler thread, workers, wait threads | `fn schedule` and what it calls, `engine/run.rs` |
| `SchedulerProperties` | its properties and inductive invariant | |
| `WaitStep` | one wait step with its clock | `engine/wait.rs`, `spawn_waiter` |
| `Lifecycle` | `run_lifecycle` on several workers, twice | `engine/run.rs` |
| `StepWork` | the two of them side by side | |
| `Shell` | a child process behind pipes | `hostapi/shell.rs`, `testlab/backend.rs` |
| `Download` | a download over several attempts | `hostapi/http.rs` |
| `Service` | a service with its dependents | `hostapi/service.rs` |
| `Scenario` | a scenario script and its machine | `hostapi/testlab.rs`, `testlab/{guest,vmlab}.rs` |
| `Host` | the four of them side by side | |
| `Secrets` | the commands that rewrite secrets, and runs that use them | `secrets/` |
| `PkgRepo` | every `pkg` command that changes state | `pkgrepo/{ops,git,store,mod}.rs` |
| `TestLab` | a test run | `testlab/{runner,vmlab,guest,events}.rs` |
| `MC*` | instances for TLC | |
| `Sorted` | sequences in ascending order, for `TestLab` | |
| `*Proofs` | theorems | |

Operators marked *mutant* in a comment are not part of a model. Each is a
plausible mistake in the definition after it, kept to show that a property
notices it; `PROJECT.json` pairs them under `mutants`.

### Prepare and what it is made of

A document is a record: its packages with their declarations, its variables,
gathers, composites and plays, with the blocks as trees. A fact about a file the
loader asks for (it is there, it parses, it compiles) is a field. A value is a
type and a token; an expression is a literal, a reference to a variable, or one of
the kinds the loader must refuse or the engine cannot read. What a name or a
message says is never modelled; the rule that two of them are equal is.

The loader collects diagnostics and goes on, so that it can report all of them;
whether there is one decides. Hence `Params`, `Packages` and `Playbook` state each
rule as a predicate, and `PlaybookAccepted` is their conjunction. `LoadPlay` is
the expansion that happens in the same pass: containers and composites become
steps that carry their path, their frames of arguments, their class and the depths
of the scopes `requires` was written in.

`Prepare` goes through `phase`: `Load` (with the secrets check, the cycles and the
scripts of `Validated`), `Override`, `StartGatherers`, one `FinishGatherer` for
each thread in any order with any value, error or panic, `BindResults` after the
join, `PlanNext` for one step of the play after the other, `Planned`. The middle four
are actions of `Variables`, a specification of its own that neither loads nor plans:
its `LoadValidated` may refuse any playbook and accepts none with two gather blocks of
one name, and its `PlanAll` reads the variables once. `Prepare` implements it
(`ImplementsVariables`), so what is proved of the smaller one holds of the larger.
`memory` is the planner's caches, keyed as in the code: a condition by container path, the
arguments of an invocation by its path. That the key of the latter is too short
is a finding (section 5).

The code walks the trees of a document by calling itself. The modules do it by
functions of the depth: `Levels` has the blocks of a play at each depth of
containers, `Expansion` the steps after each round of opening composites,
`ConditionAt` and `ArgsAt` one link of the planner's walk to a step. So there is a last
depth, `MaxNesting` for containers, `MaxCompositeDepth` for composites (the loader's
own limit, 8); `DocumentIsTree` keeps the inputs within it.

`AuthorView` is the reference the planner and the graph are compared with. It has
no paths, frames or caches: a leaf of the tree of blocks knows the containers
around it and the chain of invocations it comes from, and dependencies are decided
where two chains part.

`Synth` writes documents, which go through the same loader again
(`SynthesizedLoads`), as they do on the machine under test.

### Scheduler, Play, PlayRun

The run a scheduler executes is the variable `run`, chosen at the start from the
constant `Runs` and never changed: for each step its dependencies and plan, and
the options of the run. `dag::build` rejects cycles and drops self edges, so
`PlayAssumption` has acyclic graphs only.

`dispatched`, `completed`, `report`, `halted`, `in_flight`, `running_exclusive`,
`held_locks`, `global_running` and `idle_workers` are the locals of `schedule`.
`pc` and `cursor` are where it stands: in the `for` over the steps ("scan"), after
it ("settle"), closing the channels and joining ("join"), returned ("end").
One iteration that acts is one action (`ResolveNotRun`, `ResolveSkip`,
`ResolveFail`, `DispatchWait`, `DispatchRun`). Iterations that pass a step over
change nothing and are folded into the next one that acts: `Turn(i)` says that the
steps between the cursor and `i` were not actionable. This loses no behaviour:
the books change only on the scheduler's own thread. `EndPass` is the end of the
`for` with its `progressed` flag, `Settle` the branch with nothing in flight,
`Receive` one message with everything it gives back.

`jobs[w]` is the channel of a worker, `working[w]` the job it holds, `done` the
channel all threads report on. A worker takes a job and reports any status the
lifecycle can give in this mode. A wait thread is probing, asleep, gone or dead;
its clock is in `WaitStep`. With `MayPanic`, a thread may unwind inside a step
and send nothing.

`PlayRun` says what all this is for, without channels, books or threads: a step
is pending, running or final; it starts when its dependencies have ended, nothing
halted the run, none of them blocks it, and nothing it conflicts with is running.
The refinement maps `status[i]` to the report, if there is one, and to "running"
for a step in flight. It is checked, and proved, as `ImplementsPlayRun`.

### WaitStep

Time is an integer. A probe takes up to `MaxProbe`; what it answers is something
the target was while it ran (`seen`), or a failure. A pause ends when it is over,
up to `MaxLate` after that, or by the flag. `Cancel` and `Flip` are the scheduler
and the target. `StartProbe`, `EndProbe` and `Wake` are the loop of `wait::run`;
`Pause` is the shortened interval.

The `Scheduler` module has a coarser wait thread. What it takes for granted,
which statuses come from which attempt and never `NotRun` without a halt, is the
property `AnswersAsScheduled` here.

### Lifecycle

The target is a function from settings to values. A step wants one setting to
have one value; a setting stands for all that a step's scripts look at and change.
Check tells the truth, fails, or asks for a reboot. Apply leaves any value behind,
half way to the wanted one too, and returns success, a reboot or an error, whatever
it left: `call_apply` looks at the answer alone. After both steps are over the play
runs again. `locked` plays are those whose steps on one setting share a lock; the
scheduler keeps them apart (`MutualExclusion`), so `MayStart` does.

A wait step and a lifecycle share no state, so a behaviour of `StepWork` is about one
of them with the other over.

### Shell, Download, Service, Scenario, Host

A script makes one call at a time and the four share no state, so a behaviour of
`Host` is a call of one of them with the others off.

* `Shell`. Output is counted in chunks; `pipes` is what is in each pipe, `wrote` and
  `got` what the child wrote and the call read. A child is any short script of
  reads and writes, then exits or hangs, and may leave an heir that keeps its pipes
  open. The caller feeds the input, waits (for ever or until its timeout, then it
  kills), and takes what the readers have. `how` tells the three ways of the code
  apart: captured, streaming line by line, and `run_cmd_deadline` of the laboratory.
* `Download`. A file is a sequence that says of each of its units which version it
  is of, so a file stitched from two versions shows. The server sends lengths,
  ranges and validators or not, cuts off, fails and moves on to its next version
  at any time. Where it gives no length, a body may be one that ends when the connection
  is closed (`closes`); cut off, it reads like one that has ended (`BodyEnds`). A call
  may be killed anywhere and made again.
* `Service`. `scm` is the control manager's view, in which services settle, crash,
  or are started and stopped by somebody else; `tree` is the call. `drive` is the
  loop of `Decide`, `Act` and `Poll`; the steps of `stop_tree` and `restart_tree`
  (dependents, name, start, again, restore) are the actions between.
* `Scenario`. `guest` is the machine and what was copied into it, `machine` what
  the program remembers of it, `script` the call. An agent may answer once or
  not at all and restart; the deadline passes when the loop looks at the clock.

### Secrets

A playbook is the sequence of its `secret()` calls, each plaintext, encrypted under
a password or invalid. A command reads the file once (`OpenSession`), asks for
passwords, and writes a temporary file it renames; each of these may fail, and
`Killed` ends it anywhere. `AuthorEdits` comes at any time. Runs unlock, register
values and say them through `Scrub`. `text` and `sealed` are history: what was
last written by hand as far as the file has it, and what a command has reported.
Sealing opens with the right password and no other; the salt is left out.

### PkgRepo

The disk is `index`, `cache` and `dir`; the memory of the command that runs is
`op`, `arg`, `file`, `todo`, `left`, `outcome`, `errored` and `changed`, cleared
when it exits. A directory is absent, the user's own, or a copy of some commit:
whole, with the edits of the clone, torn (cut short while it was written) or
ruined (cut short while it was removed). A clone knows its origin, its HEAD and
whether somebody edited it. A clone whose checkout is half reset looks edited, as
`git status` has it.

Each action is one step that touches the disk or the network. With `MayFail` it
may fail with any of the leftovers the code's call can produce, and `Kill` ends the
process between any two steps or inside a sync. Users edit, delete and create
between commands; `Push` moves a remote at any time. `repo_remove`, like the code,
ignores the failure of its last step.

### TestLab

`Groups` are the buckets of tests with the same label, each known by its first test;
`todo` holds the tests of a group that have not ended. Each kind has `idle` workers
and a `cursor`. `stage` is where a group or scenario stands; `machine` is the
machine itself, which outlives the program's idea of it, and `gone` that idea:
the handle has nothing left to tear down. `left` records why a machine was left:
`vmlab destroy` refused, or could not be run. `events` and `kept` are what the
consumer and the user were told.

Provisioning is a chain of actions, each with its failures. Some paths tear the
lab down explicitly (`GiveUp`), others return early and leave it to the handle's
`Drop` (`ProvisionFails`); both are in the model since both are in the code. A
test is the sequence of its parts; what happens inside the machine is reduced to
a good verdict, a bad one, or an error that ends the test. A scenario's script is
one step with any outcome here; its calls are in `Scenario`.

## 3. What the runs check

Each property has a comment that states it, in the module that defines it.

| run | shows | properties |
|---|---|---|
| `scheduler` | three steps of every mix of plans, with panics | `MutualExclusion` `DependenciesFirst` `NotRunExplained` `ImplementsPlayRun` |
| `scheduler_live` | the run ends; a halt cuts waits short; waits starve nobody | `Termination` `HaltCutsWaits` `WaitsDoNotStarve` |
| `prepare` | from documents to plans, against what the author wrote | `PlansMeanWhatIsWritten` `RunsUnderTightest` `RequiresMeanWhatIsWritten` `AcceptedIsComplete` `HighestSourceWins` `SameQuestionSameAnswer` `ImplementsVariables` `SynthesizedLoads` |
| `step_work` | one wait with its clock; two resource steps, two runs, scripts that fail, lie and leave anything behind | `EndsInTime` `ReadyInTime` `AnswersAsScheduled` `HaltEndsWait` `ConfiguredIsTrue` `NoStaleApply` |
| `host` | children, servers, services and guests with a will of their own | `OutputIsWhole` `BoundedCallReturns` `DestIsOneVersion` `NoneLeftStopped` `RestartPutsBack` `RunsItsOwn` `ReadyIsSteady` |
| `secrets` | commands that fail and are killed, authors, runs | `Intact` `SealedOpens` `Masked` |
| `pkgrepo` | any sequence of commands, failures, kills, users, remotes | `TornIsNoticed` `OwnIsKept` `RecordedIsCopied` `EditsAreKept` `OkIsCurrent` |
| `testlab` | four selections, every call failing or not, panics | `OneReportEach` `ToldInOrder` `NoLeak` `LiveWithinCap` |
| `argument_cache`, `loosened`, `shell_timeout`, `worker_panic` | where the code departs from what is said of it (section 5) | one each |

**Bounds, and why they are enough.**

* *Scheduler*: three steps, two workers, two resource types, one lock, two probe
  attempts. Conflicts, dependencies and admission relate two steps; the third is
  the bystander that is passed over, overtakes or depends on both. With two
  workers there are fewer workers than steps. Graphs: none, a chain, a backward
  chain (a step requires a later one, so one pass does not suffice), a fork and a
  gather; every assignment of the listed plans to the steps. A second resource
  type and steps that share a lock across types tell lock and class apart.
  `scheduler_live` has fewer plays, and no panics.
* *Symmetry* is used for the workers of `scheduler`, which the code treats alike;
  the liveness run has no symmetry.
* *Prepare*: one playbook with a package or two, varied along one question at a
  time. Trees: a container with one step and two steps beside it, each a resource,
  a composite or a composite within a composite, with every set of `requires`, so
  that names meet across containers and levels. Fields: each of a step's, left
  out or of any kind of value. Gatherers: three variables that ask the same or
  different things, with overrides on every level and one value outside the
  declared symbols. Rules: a document broken in one place each, and every class on
  every kind of step. Classes: invocations nested to three levels, each with a class or
  without one (`loosened` takes these alone). Tests: two steps of every target, expectations, gathers.
  What the questions do not share they need not be multiplied with. `MaxNesting` = 2:
  a container in a container, so that the conditions on a path can differ.
* *Wait*: intervals 1 to 3 against timeouts 1, 2, 4 and 5: shorter, equal,
  multiples and not. Probes of up to 2 outlast the rest of a timeout. Time stops
  with the wait, so nothing else bounds it.
* *Lifecycle*: two steps on one or two settings, wanting the same value or
  opposite ones, with a lock or without. Three values: the third is one that nobody
  wants, as a half finished apply leaves it.
* *Host*: a pipe with room for one chunk and children of up to three reads and
  writes, so that child and caller can each wait on the other; three versions of a
  file, the middle one shorter, two retries and two calls, so that a `.part` of a
  first version meets a third, from servers with every mix of lengths, ranges, validators
  and bodies that end with the connection; a service, its dependent and a dependent of that,
  in every mix of five states, with one interference in a call; five calls of a
  scenario, enough to boot, run, restart and run again.
* *Secrets*: two passwords; three values of five, four and one bytes, one inside
  another and one too short to mask; two calls, one secret variable, two edits, three
  commands or runs, so that a file is sealed by one, edited, and sealed by another
  before it is run.
* *PkgRepo*: two names, two urls, two packages, and three worlds: two
  repositories with the same package; two packages whose repository gains
  commits and loses one package; a name registered with one url, then another.
  At most three commits per url, so that a package can be two behind. The length
  of the sequence of commands is not bounded.
* *TestLab*: up to four tests in up to three groups of both kinds, caps of 1 and 2
  with more groups than workers, up to two scenarios, with and without `--keep`.

**Deadlock** is checked where the system should always go on: `scheduler_live`,
`step_work`, `pkgrepo`, `testlab`. A model that may end has an explicit
stuttering action there (`Returned`, `Finished`, `Over`), so a deadlock is a real
one; `PkgRepo` never ends, since a user can always start a command. In `scheduler`
and `worker_panic` a thread may panic, and the scheduler then really waits for
ever. `prepare`, `argument_cache`, `loosened`, `secrets`, `host` and
`shell_timeout` stop where the program has returned, or the bound on what people do is reached, or a child
hangs in a call without a timeout.

**Fairness.** `Scheduler!Fairness` is weak fairness of the scheduler thread and
of each worker: an OS schedules threads that can run, and a script that was
called returns. (A script that never returns does block a run; the code has no
deadline for one.) Nothing is assumed of wait threads in `WaitsDoNotStarve`; the
other two properties assume their fairness in the formula, for a probe that
never returns does keep `schedule` from returning. `WaitStep!Fairness` is weak
fairness of the three steps of the thread, none of `Tick`: a halt must end the
wait without time passing. `ShellFairness` is weak fairness of the child, of
each draining thread, of the caller and of time; a child that hangs has no step
to be fair to. Safety properties use no fairness.

## 4. What is proved

All proofs are for any number of steps, any plays, any pool, any target, any pipe,
any versions of a file, any chain of services, any selection of tests, any
repositories and packages, playbooks with any number of secrets, and any documents,
files and flags. They need only the
assumptions stated with the constants: `PlayAssumption` (plans and graphs of the
right type, acyclic), `SchedulerAssumption` (a finite, non-empty pool, at least one
attempt), `ServiceAssumption` (a chain names each of its services once),
`PkgAssumption` (each remote has a commit; no directory, a clone without `.git`, the
user's own directory, and clones and copies are told apart), and for types and bounds
`WaitAssumption`, `LifecycleAssumption`, `ShellAssumption`, `DownloadAssumption`,
`ScenarioAssumption`, `TestLabAssumption`, `VariablesAssumption` (gather blocks, fields
of a variable file and flags come in lists), `DepthAssumption` and `PrepareAssumption`
(documents are trees not deeper than the bounds, what blocks hold comes in lists, the
folder of a package has a name), `SecretsAssumption` (authors have something
to write, and it is a sequence of bytes).

| module | theorem | what |
|---|---|---|
| `SchedulerProofs` | `TypeCorrect`, `Inductive` | `TypeOK`, `IInv` |
| | `KeptApart` | `MutualExclusion` |
| | `BooksAgree` | `Accounting`: counter, locks, resources, flag and idle set agree with the steps in flight |
| | `NeverStuck` | `ReceiveReturns`, unless threads panic |
| | `InOrder`, `NothingDropsOut` | `DependenciesFirst`, `NotRunExplained` |
| | `HaltIsExplained` | `HaltExplained`: the flags are up exactly when a step has halted the run |
| | `NothingLeftBehind`, `GuardIsNeverNeeded` | `WorkConserving`, `GuardNeverNeeded`: no pass ends with a step that could be acted on; no step is forgotten |
| | `Implements` | `ImplementsPlayRun` |
| `WaitStepProofs` | `WaitEndsInTime`, `WaitReadyInTime` | `EndsInTime`, `ReadyInTime` |
| | `AnswersCountedOn` | `AnswersAsScheduled` |
| | `AttemptsSpaced`, `CheckAsksOnce` | `Spaced`, `CheckNeverWaits` |
| `LifecycleProofs` | `LifecycleTyped` | `LifecycleTypeOK` |
| | `LockedChecksHold`, `ReportsAreTrue` | `NoStaleApply`, `ConfiguredIsTrue` |
| | `SecondRunIsIdle`, `ChecksAreHarmless` | `SecondRunIdle`, `CheckChangesNothing` |
| `HostProofs` | `OutputComplete` | `OutputIsWhole` |
| | `WholeOrNothing` | `DestIsOneVersion`, on the conditions it states |
| | `OwnPlaybook`, `TrulySteady` | `RunsItsOwn`, `ReadyIsSteady` |
| | `Restores`, `PutBack` | `NoneLeftStopped`, `RestartPutsBack` |
| `TestLabProofs` | `LabInvariant` | types, and `LabInv` |
| | `NothingLeaks`, `CapHolds`, `TellingIsOrdered` | `NoLeak`, `LiveWithinCap`, `ToldInOrder` |
| | `OneReport` | `OneReportEach` |
| `PkgRepoProofs` | `PkgTypeOK`, `TornNoticed` | `TypeOK`, `TornIsNoticed` |
| | `RecordedCopied`, `OkCurrent` | `RecordedIsCopied`, `OkIsCurrent` |
| | `OwnKept`, `EditsKept` | `OwnIsKept`, `EditsAreKept` |
| `SecretsProofs` | `KeepsValues`, `OpensAgain` | `Intact`, `SealedOpens` |
| | `ComesOutMasked` | `Masked` |
| | `ScrubMasks` | what an ordered registry does to one of its values |
| `PrepareProofs` | `HighestWins`, `SameAnswer` | `HighestSourceWins`, `SameQuestionSameAnswer`, of `Variables` |
| | `VariablesInvariant` | `VariablesInv`: where store and results of a phase come from |
| | `Implements` | `ImplementsVariables`; hence `HighestWinsInRuns`, `SameAnswerInRuns` |
| | `Tight` | `RunsUnderTightest` |
| | `AllFound` | `AcceptedIsComplete` |
| | `Meant` | `PlansMeanWhatIsWritten`, where names are apart (`NamesApart`) |
| | `RequiresMeant` | `RequiresMeanWhatIsWritten`, where names are apart in every play |
| | `PlanInvariant`, `CompleteInvariant`, `MeantInvariant` | `PlanInv`, `CompleteInv`, `MeantInv`: what plans and caches are at any moment |

Properties that appear here and in no run are proved for every instance; a small
one adds nothing to that.

**Why `IInv`.** The properties of the books are not inductive. Consider
`Receive`: it gives back the lock of the step in the message. That is right only
if this step is in flight, was not reported before, and no other step in flight
holds the lock. So `IInv` says where each step in flight is: in exactly one of a
job channel, a worker's hand, a wait thread or a message (`Custody`); that a
message comes from the thread that ran the step, and no two are of one step or
one worker (`Messages`); that a worker has at most one step, and none while idle
(`WorkerHands`); what the books say of the steps in flight (`Books`); and that
those do not conflict (`MutualExclusion`), without which taking one step's
resource out of the set would take another's too. `BooksAgree` then counts a
worker's job, its hand and its messages; `NeverStuck` reads `Custody`: a step in
flight is in somebody's custody, and a living custodian will send. `TypeCorrect`
needs that a thread sleeps only while another attempt is allowed (`TypeInv`), or
`attempt` could leave its range.

**Why the guard is never needed.** `ScanInv` makes `WorkConserving` inductive: the
cursor is at the start of the play unless this pass changed something, so a pass
that changed nothing has looked at every step. When such a pass ends with
nothing in flight, the books are empty (`IInv`), every ready step would be
admitted, and so no step left is ready. An acyclic graph ranks each step above
its dependencies, so a non-empty set of steps has a member of least rank, whose
dependencies are outside the set (`FirstOf`). Among the steps left such a member
would be ready, so none is left (`AllDispatched`).

**Why the scheduler implements `PlayRun`.** `FateStep` reduces each action of
the scheduler, its workers and its wait threads to what it does to the fate of
the steps: it starts one, ends one, resolves one without running it, or changes
none. `FateInv` is kept by each of these four, whichever action it comes from,
and holds `HaltExplained`, `DependenciesFirst`, the reasons of the steps not run, and
what the answers under way may be. `AbstractStep` maps the four to the actions of
`PlayRun` and to stuttering.

**The wait.** `WInv` bounds the clock in each phase, and says of a target that
was ready before the running probe started that the probe can only have seen it
so. `AttemptInv` adds what the number of the attempt says of the job and of
the flag.

**The lifecycle.** `Apart`: with a lock, two steps in progress are about different
settings, since `MayStart` asks for it. So an apply begins on a setting that is not as
its step wants it (`Fresh`): nobody has changed it since the check. `Truth`: a step
that has reported success, has no rival and shares its setting's lock finds the setting
as it wants it, now and in the run that follows. For an apply may leave anything
behind, but of another step of the setting there is none (`StaysAsWanted`): it
wants the same, and would have found it so.

**The shell.** `Kept`: what was written is in the pipe or has been read, and once a
call has its result nobody can write any more and the pipes are empty. The one
exception is a call whose grace is over (`GraceOver`), which the property excepts
too.

**The download.** A whole file arrives only because of what was true when its parts
did: `Resumable` says that the `.part` an attempt goes on from is the beginning of
the version its validator names, `Coming` that a body on its way continues the
`.part` of its own version and that a length is that version's, `Arrived` that what
is about to be renamed is whole. Both conditions of the property enter where a body
ends: without `EndsAreSeen` nothing tells the beginning of a version from all of it, and
only a digest does so later (`Verified`). A `.part` left by a killed call falls outside
them, and `Start` removes it.

**The scenario.** `Told` ties the streak of answers to the agent: three answers in a
row are more than a restless agent gives. `Fresh` says which directories have been
used (none above the counter, and the counter not above the number of the call)
and what "prepared" vouches for; `Placed` which steps of a call may meet which
machine.

**The laboratory.** A step of a group or scenario touches that lab and its own tests
only (`Elsewhere`; `Disjoint`: no test is in two groups), so what has to hold of
every lab is shown of the one that moves. `Handled` ties a machine to its handle at
each stage, and is where the two ways of giving up meet: whichever was taken, a
machine that is up after its handle is gone has a reason. `Followed` says what was
told of each test at each stage of its group. `Manned` counts a kind's idle workers
and groups at work against its cap, and says that a group the cursor has not passed
has somebody left to take it; without that the run could go on to the scenarios with
a group never run. `InTurn` orders groups and scenarios. Every test is in a group
(`Covered`, by well-foundedness), so a run that is over has told of all of them.

`Reports` is about the list of results: there is one of each test and scenario that
is over, whichever worker put it there, since the tests of a group come into the list
only as the group ends and no group ends twice. When the run is over that is every
number of the selection once, so the sorted list is the selection (a lemma about
sorting, `SortedAll`). For this, sorting is defined by rank (`Sorted`: the n-th is the least with n values up to
it), which is what a stable sort by distinct keys computes and which the provers can
reason about; the library's recursive sort they cannot.

**The service.** What a call still has to do (`todo`) and has stopped (`stopped`) are
sets; the order in which the control manager lists dependents is in the choice of
`Current`, which exists because a finite chain has a last and a first among any of its
services (`EndOf`). `Remembered`: while dependents are being stopped, each that was up
is still to be stopped or has been, so none is forgotten when a step fails in between.
`Accounted` follows each of them through the three kinds of step: what is down has been
stopped by the call or is `Current`; during a restore it is up, still to do, or named;
after the second half of a restart it is up. `StaysStopped` says that a dependent which
was down is only started as what another one needs.

**Packages.** `PkgInv` has two halves. `DiskOK` is what a command may find, whatever
became of those before it, and holds across a kill: the types, that the index loads,
that no recorded commit and no clone is ahead of its remote (`Behind`,
`ClonesBehind`), and that a directory is of no commit its remote does not have and,
if it is of its entry's url, of none older than the entry's, or of a later one if it is
torn (`DirsBehind`, `DirsAhead`; hence `TornIsNoticed`). `MemoryOK` is the account of a command at
each of its phases: which commands come to which step (`Flow`), that what they are
about is installed, or is not, and that a directory to be deleted is there and one to be
copied to is not (`Targets`), how the index in memory differs from the one on disk
(`Loaded`), and that each difference is already in its directory (`Recorded`).
`RecordedIsCopied` is then what `Save` does to `Recorded`. A half replaced directory
has a later commit than its entry because a synced clone is not behind any entry of
its url, nor behind any directory the update has yet to look at (`Synced`). This rests on
remotes never moving back; it is an assumption about
the world that the code makes too. `OkIsCurrent` is `Current` at the end of an update.
Its hard case is the package that is called up to date because the head is recorded
already (`FoundInDir`): its directory, if update could see a difference at all, is
between the entry and the head, which are one, and so it is not torn. The action properties about what is kept read
`Targets`: the only steps that change a directory are about a package that is
installed, or whose directory is not there (`OnlyTheirs`).

**Secrets.** The three rewritings go through `Splice`, so one lemma (`SpliceIs`) says
what it does: where a span is, the replacement, elsewhere the old call, and every value
as before, provided the replacements fit the spans (`Fits`). That `rekey` pairs its
values with its spans, two lists put together from two passes each, is `RekeyedIs`.
`SecretsInv` carries the values from the read to the rename (`Reading`, `Writing`): what
is written has the values that were read, all of it is sealed with the password to be
reported, and when the rename comes the temporary file holds exactly that.

**Masking.** Replacing goes wrong when one secret is part of another and is replaced
first. `RegisterIs` shows that the registry stays `Ordered`, longest first, with no value
twice and none below the least length. Then scrubbing a registered value (`ScrubMasks`)
leaves it alone until its own turn, since a longer text does not occur in it, and one of
its length only if it is the same (`OccursOnlyInItself`); its own turn makes it the mask
(`MasksWhole`); and nothing registered is short enough to occur in the mask
(`MaskIsShort`). `RunInv` adds that what a run holds in secret is in its registry before
any step can say it.

**Variables.** `InsertAllIs` says what a list of bindings does to a store, whatever its
length: what is of a higher origin is kept (`Outranked`), every other name has the last
value bound to it (`IsLast`). Applied three times it gives the store of the overrides
(`OverrideStoreIs`; two files read one after the other are one long file, `LastOfBoth`),
and once more the store after the gatherers (`StoreIs`). `VariablesInv` is what ties these to the
states: the store is the overrides' until the results are bound, and the results belong
to the executions of the invocations as they were evaluated against *that* store, though
the store has changed by the time it is read. That names are distinct comes from the
loader, and is why a name has one answer (`TheNamed`). `Prepare` implements
`Variables` with the same variables (`Implements`): loading is `LoadValidated`, since an
accepted playbook has no two gather blocks of one name, the last plan is `PlanAll`, and
every plan before it a stutter.

**Steps and leaves.** What the loader makes of a play and what its author sees in it are
computed by the same number of rounds, one over the steps and one over the leaves.
`InStep` says that after each round there are as many of both, and that the i-th step
`StandsFor` the i-th leaf: it has the leaf's block, target, containers and one frame for
each invocation of the chain. A round keeps this (`StaysInStep`), because a step is
opened exactly when its leaf is and by the same body; flattening two lists of lists of
the same lengths gives lists of the same length (`FlattenAlike`). `Rooted` adds that a
leaf begins at a block of the play, and `LoadedInStep` has it for the loaded play.

**Tightness.** `PlanInv` says that a plan that is to be run is for the step in its place
and has the tighter of its class and its resource's. What an invocation passes on to its
body is its own class or else the one it was given, so by induction over the rounds a
step comes with the class of the nearest invocation that declares one (`IsNearest`,
`NearestFurther`), tightened by its own (`StaysTight`). `DecidingIs` names the classes
this leaves to decide, and with `LoadedInStep` it is `RunsUnderTightest`. What the manual
says beyond that, that the invocations farther out decide too, is false (`loosened`,
section 5).

**Nothing is missing.** `PlaybookAccepted` is about blocks where they stand. `LoadedSound`
carries it to the steps: every target is declared, every frame names a composite that is,
and the block of a step in a body is found under its name (`BodiesSound`). `StepStanding`
has the containers and the invocation of a leaf in the index of blocks under the path
the planner looks for. `CompleteInv` is about the caches: no condition in them is
"missing" (`Decided`) and no arguments are (`Clean`), since each came from a lookup for
some step of the play (`CachedConditionsDecided`, `CachedArgsClean`). For the last part
of `AcceptedIsComplete`, a step of the playbook whose fields are literals, the block the
planner finds is the step's own, since names in a play are distinct (`OwnBlock`), and
literals that the loader let pass are read and fit (`StaticPlanned`). That every resource,
probe and gatherer has a compiled script is `ScriptOf`.

**Caches that do not show.** Plans and requires are both about names where the author
meant blocks, so both theorems need that names lead to one block. `NamesApart` is the
weakest condition we found: a container has the path of no other container with another
condition, and of no invocation. `argument_cache` (section 5) shows plans that are wrong
without it; in every playbook of the run `prepare` it holds. What the loader refuses
does the rest: steps of a play have different names (`StepsApart`), and so do steps of a
body (`BodiesApart`). The key of a cache entry, `KeyOf`, is the names of the containers of a
leaf and then of the first links of its chain; `SameKey` shows that two leaves with one
key are in the same invocations. `ConditionsMean` and `ArgsMean` say that each entry of a
cache is what the blocks it stands for make, whoever was planned first; `PlanMeant` has
one call of the planner keep both and return the plan the author wrote. `MeantInv` is
`PlanInv` with this, and with empty caches before planning.

**What a name reaches.** `Part`, in `InStep`, has any two leaves of a play differ in the
place of some link, since a round of expansion puts different places in each body.
`StepIs` gives name, path and frames of a loaded step from its leaf, and `WrittenIs` the
scopes its names are resolved in: one for each link. A name written beside a link reaches
`UnderAll`, the leaves that go the same way to that link and then through a block of that
name. In the playbook this is one step, or the steps that come from an invocation of
that name (`ResolvedAtTop`). In a body, `ResolveInComposite` compares paths, and those
begin alike only in the same invocation (`ScopeMeans`, and `ScopeIs` for the converse),
so that it is the sibling of that name (`SiblingIs`) or the steps of one
(`InsideIs`, `ResolvedInBody`). `DepsAre` combines the links of a step: what it
reaches and what it waits for are one, because a block that requires itself is refused.

**Definitions by steps.** `Spans`, `RegisterAll`, `Scrub`, `Unique`, `InsertAll` and the
walks over trees go through a list or a depth by a local recursive function of the numbers up to its length. The provers have no induction
theorem for those, so their existence and what they compute is shown by the least
counterexample (`LeastOf`, from the well-foundedness of the naturals): `FoundByStep`,
`RegisteredByStep`, `ScrubbedByStep`, `InsertedByStep`, `CollectedByStep`,
`FlattenedByStep`, `LevelsByStep`, `ExpansionByStep` and the lemmas after them. The
function of each is named by what it does at a step (`FlattenUpTo`), so that no more
than that has to be known of it.

**What is only model-checked.** `PlansMeanWhatIsWritten` and `RequiresMeanWhatIsWritten`
are proved under `NamesApart`; without it they are false (section 5), and their runs check
playbooks in which it holds. `SynthesizedLoads` is about the steps of a test that are
kept, a `SelectSeq`, for which the prover has no definition. And all liveness properties,
since the prover handles neither `ENABLED` nor liveness under fairness.

## 5. Divergences

Four are runs that end in a counterexample; `findings` in `PROJECT.json` has the
quotes.

* `argument_cache`: a container and a composite invocation of one name, whose
  bodies hold invocations of one name, give both the same key in the planner's
  cache of arguments. The steps of the second get the arguments of the first.
* `loosened`: where invocations nest, one in the body of a composite that declares a
  class replaces the class of the invocation around it instead of tightening it
  (`tmpl.concurrency.or(inv.concurrency)`, `src/src/model/load.rs:555`). A step under an
  `exclusive` invocation that holds a `parallel` one runs as `parallel`, where the manual
  says that "nothing may loosen a class" (`package-wcl.wcl:343`).
* `shell_timeout`: the clock of a timeout starts after the child's input has been
  written, and in `run_streaming` after its output has ended. A child that hangs
  before that is never killed.
* `worker_panic`: if a thread panics inside a step, `recv` waits for ever, since
  the scheduler holds a sender of its own channel. The comment at the channel
  says that this cannot block, and the handling of panics after the join is never
  reached.

Others a reader of the code may want to know of. They are part of the models, or
seen while writing them, and no run is about them.

*Scheduling.* `parallel = false` runs steps one at a time but still by
dependencies, not in declaration order (`scheduling.wcl:20`). A ready global step is
passed over while anything is in flight, and later steps are started before it; it
does run alone in the end (`scheduling.wcl:66`). A step tightened to `exclusive`
shares its resource type with parallel steps in flight (`src/src/engine/run.rs:722`).

*Lifecycle.* Two steps that work on one thing without a lock can make each other's
reports false, even if they want the same: the second finds it wrong before the first one
configures it, applies after the first has reported, and fails half way. The report then
says `Configured` of the first and `Error` of the second, and the first is not configured
any more. `ConfiguredIsTrue` requires the lock.

*Loading.* Sibling containers may have one name, and the planner then treats them as one. Where a
container has the name of an invocation, `requires` in a body may reach out of it: paths
are compared as names. If a container `I` has in it a container `R` with an invocation of
a composite that invokes another, then a body step of an invocation `I` beside the
container, if it requires its sibling `R`, an invocation, waits for the steps in the
containers too; but a step of a composite "sees only its siblings in that same
invocation" (`src/src/engine/dag.rs:10`). A
step of a test without `resource` or `wait_for` is dropped without a diagnostic. The
steps of a test may require each other in a circle; the playbook made of them is
refused in the machine. The packages a copied package refers to are not copied with
it. `SynthesizedLoads` excludes the last two.

*Host API.* A download without ETag, Last-Modified and digest may be put together
from two versions of a file. A body without a length that ends with the connection is
taken for complete when the connection breaks (`src/src/hostapi/http.rs:312`), so that
without a digest or a size `dest` may be replaced by the beginning of a file; the manual
says that "`dest` never holds a partial download" (`mod-http.wcl:85`), and the comment at
`http.rs:360` that it "is only ever replaced by a complete, verified file".
`DestIsOneVersion` excludes both. After its grace, `run_cmd_deadline` returns nothing of a
pipe still open, where its comment has it "take what has arrived"
(`src/src/testlab/backend.rs:116`). A restart whose last starts fail leaves the remaining dependents stopped. A container's ready probe
has a timeout of an hour of its own.

*Secrets.* Two commands at once share `playbook.wcl.weave-tmp`. What an author
saves between a command's read and its rename is overwritten.

*Packages.* A package added from a dirty clone is recorded with a commit that does
not hold what was copied (`src/src/pkgrepo/ops.rs:241`). An interrupted `pkg remove`
leaves the entry and part of the directory, and `pkg update` then calls it up to
date. In general update compares commits and never looks at a directory
(`src/src/pkgrepo/ops.rs:339`): with the head recorded, a package is up to date although
its directory was deleted, was replaced by one of the user's, or has edits of a dirty
clone. So is one that was torn by an update from another url: edit the url of a repository
in `repo.wcl`, drop its clone, have an update cut short, edit the url back, drop the clone
again, and the next update finds the commit it had recorded before all that.
`TornIsNoticed` and `OkIsCurrent` except these. A repository that fails to sync makes
`update` exit with 2 after it has updated the packages of the others
(`ops.rs:324` and `375`), where the manual has it "a warning, not an error, as long as the
operation can still complete" (`pkg.wcl:202`). Two `pkg` commands at once lose one of two index updates. The advice at
`src/src/pkgrepo/ops.rs:353`, to `pkg remove` a package "to keep the local copy
unmanaged", does not fit `remove`, which deletes the copy.

*Laboratory.* With `--keep`, a machine whose provisioning fails stays up and no
report names it (`src/src/testlab/runner.rs:246`).

## 6. What is not modelled

* In `hostapi/`, everything but `shell.rs`, the download, services and scenarios:
  the access lists, the registry, archives, files and versions are single calls of
  the operating system or pure functions of text. COM dispatch is a foreign
  function interface of Windows. A service's startup type is one call.
* In the loader, the document language itself and its parser (an external library),
  spans, and numbers: durations and intervals are a token that fits or not, and a
  value has a type and an identity. The text of a rendered value is left out.
* The script language is an external library too; scripts are outcomes.
* In `Secrets`: the cryptography, the shared salt, and two commands at once.
* In `PkgRepo`: two commands at once, branches, subdirectories, descriptions,
  `repo list`, and files a clone without `.git` may still hold.
* In `TestLab` and `Scenario`: resolving binaries, parsing the output of `vmlab`, a
  kill of the program, and the rendering of reports. Also a panic of the laboratory's
  main thread while it runs scenarios, and a teardown whose destroy succeeds and whose
  directory then cannot be removed, which leaves files but no machine. `machine()` for a
  machine the scenario has already returns at once, without waiting for a steady
  agent again; the model takes such a call for one that said nothing of readiness.
* Loss of power, for `Secrets`, `Download` and `PkgRepo`: a kill keeps what was written
  before it. `write_atomic` renames without flushing the file to disk first.
* Reporting, the documentation generator, the vocabulary and the built-in package:
  formatting and embedded text. Of the command line, argument parsing,
  scaffolding and the commands that only print.

## 7. Plan

Done, in this order: `StepStatus`, `Play`, `Scheduler` and its properties, the abstract
`PlayRun`, `WaitStep`, `Lifecycle`, `PkgRepo`, `TestLab` and the proofs of the first of
them; then the pipeline before the scheduler (`Params` to `Prepare`, `Synth`) with
`AuthorView` as its reference, `Secrets`, the host API (`Shell`, `Download`, `Service`,
`Scenario`), the proofs about it, and those about `TestLab`.

Proved after that: services, every property of `PkgRepo`, the order of the reports, the
rewriting and the masking of secrets, and the values of variables, for which `Variables` was split from
`Prepare`. Then `Prepare` itself: that it implements `Variables`, that loading and
planning run each step under the tightest of the classes that decide, that what validation accepts is complete, and, where names
are apart, that plans and requires mean what their author wrote.

Left:

1. `Masked` is about a value said on its own. What scrubbing makes of a longer text that
   holds several secrets, also such as overlap, is neither modelled nor proved.
2. Two commands at once, for `pkg` and for `secrets`: the models are written for one,
   and the code takes no lock.
