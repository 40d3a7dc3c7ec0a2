------------------------------ MODULE TestLab ------------------------------
(***************************************************************************)
(* `config-weave test` (src/src/testlab): the selected tests are put in    *)
(* groups, each group gets a machine of its own from vmlab and runs its    *)
(* tests in it one after the other. Groups run side by side on a pool of   *)
(* workers per kind of machine; scenarios follow, one at a time, each in a *)
(* lab of several machines. Every call of vmlab may fail, every thread may *)
(* panic. A consumer follows the run by its events.                        *)
(*                                                                         *)
(* Tests are known by their place in the selection, and scenarios follow   *)
(* them. A group is known by its first test. Each group and each scenario  *)
(* has a lab of its own.                                                   *)
(***************************************************************************)
EXTENDS Naturals, FiniteSets, SequencesExt, Sorted

CONSTANTS
  Labels,     \* names of groups, with their package
  Alone,      \* the label of a test without a group
  Selections  \* what is considered: see SelectionType

Kinds == {"container", "vm"}

\* What a test may declare, in the order it is done. Every test has its
\* working directory made and its playbook staged.
Declared == {"ready", "setup", "gather", "steps", "verify"}
Order == <<"synthesize", "workdir", "ready", "setup", "stage", "gather",
           "check", "apply", "apply again", "verify">>

\* The parts whose verdict may be bad; the others hold or are errors.
Judged == {"gather", "check", "apply", "apply again", "verify"}

Test == [kind : Kinds, label : Labels \cup {Alone}, parts : SUBSET Declared]

SelectionType == [tests : Seq(Test), scenarios : Nat,
                  cap : [Kinds -> Nat \ {0}], keep : BOOLEAN]

ASSUME TestLabAssumption ==
  \A s \in Selections :
    /\ s \in SelectionType /\ Alone \notin Labels
    /\ \A i, j \in DOMAIN s.tests :
         s.tests[i].label = s.tests[j].label /\ s.tests[i].label # Alone
           => s.tests[i].kind = s.tests[j].kind

VARIABLES
  sel,            \* the selection
  phase,          \* of the run
  idle, cursor,   \* workers that look for a group, and the next one, per kind
  stage,          \* of each group and scenario
  todo,           \* the tests of a group that have not ended
  current, part,  \* the test it is at, and the part of it
  bad, outcome,   \* parts of each test with a bad verdict; its outcome
  machine,        \* of each lab
  gone,           \* the handle of the lab has nothing left to tear down
  left,           \* why a machine outlived its handle
  events,         \* what the consumer was told
  kept,           \* labs whose handle is in a report or an event
  results         \* reports in the order groups and scenarios returned

pool == <<phase, idle, cursor>>
progress == <<todo, current, part, bad, outcome>>
labs == <<machine, gone, left>>
vars == <<sel, pool, stage, progress, labs, events, kept, results>>

Tests == 1 .. Len(sel.tests)
Scenarios == {Len(sel.tests) + j : j \in 1 .. sel.scenarios}

\* Tests with one label share a group; groups are in the order of their first.
Together(t, u) == t = u \/ (sel.tests[t].label = sel.tests[u].label /\ sel.tests[t].label # Alone)

Groups == {t \in Tests : \A u \in Tests : u < t => ~Together(u, t)}
TestsOf(g) == {t \in Tests : Together(g, t)}
Labs == Groups \cup Scenarios

Kind(g) == sel.tests[g].kind
Parts(t) ==
  LET p == sel.tests[t].parts
      ways == {"synthesize", "workdir", "stage"} \cup (p \ {"steps"})
                \cup (IF "steps" \in p THEN {"check", "apply", "apply again"} ELSE {})
  IN SelectSeq(Order, LAMBDA x : x \in ways)

Bucket(k) == {g \in Groups : Kind(g) = k}

\* Mutant: one worker per group.
WorkerPerGroup(k) == Cardinality(Bucket(k))

Workers(k) ==
  IF sel.cap[k] < Cardinality(Bucket(k)) THEN sel.cap[k] ELSE Cardinality(Bucket(k))

Init ==
  /\ sel \in Selections
  /\ phase = "groups"
  /\ idle = [k \in Kinds |-> Workers(k)]
  /\ cursor = [k \in Kinds |-> 1]
  /\ stage = [l \in Labs |-> "queued"]
  /\ todo = [g \in Groups |-> TestsOf(g)]
  /\ current = [g \in Groups |-> g] /\ part = [g \in Groups |-> 1]
  /\ bad = [t \in Tests |-> {}]
  /\ outcome = [t \in Tests \cup Scenarios |-> "none"]
  /\ machine = [l \in Labs |-> "none"]
  /\ gone = [l \in Labs |-> FALSE] /\ left = [l \in Labs |-> "no"]
  /\ events = [announced |-> {}, closed |-> {}, warned |-> {}, begun |-> {},
               told |-> [t \in Tests \cup Scenarios |-> 0], over |-> FALSE]
  /\ kept = {} /\ results = <<>>

Go(l, from, to) == stage[l] = from /\ stage' = [stage EXCEPT ![l] = to]

-----------------------------------------------------------------------------
(* Workers *)

\* Mutant: the cursor is read and not moved on.
CursorStays(k, g) == UNCHANGED cursor

MoveOn(k, g) == cursor' = [cursor EXCEPT ![k] = g + 1]

\* What the cursor of a kind has not passed.
Ahead(k) == {g \in Bucket(k) : g >= cursor[k]}

\* A worker takes the next group of its kind, or leaves.
Take(k) ==
  /\ phase = "groups" /\ idle[k] > 0
  /\ idle' = [idle EXCEPT ![k] = @ - 1]
  /\ \/ Ahead(k) = {} /\ UNCHANGED <<cursor, stage>>
     \/ \E g \in Ahead(k) :
          /\ \A h \in Ahead(k) : g <= h
          /\ MoveOn(k, g)
          /\ stage' = [stage EXCEPT ![g] = "make"]
  /\ UNCHANGED <<sel, phase, progress, labs, events, kept, results>>

\* The threads are joined; a panic of one is a panic of the run.
Join ==
  /\ phase = "groups"
  /\ \A k \in Kinds : idle[k] = 0
  /\ \A g \in Groups : stage[g] \in {"queued", "ended", "panicked"}
  /\ phase' = IF \E g \in Groups : stage[g] = "panicked" THEN "aborted" ELSE "scenarios"
  /\ UNCHANGED <<sel, idle, cursor, stage, progress, labs, events, kept, results>>

-----------------------------------------------------------------------------
(* Teardown and drop of a lab's handle. *)

\* Mutant: a handle counts as gone before destroy has run.
DestroyNotRunIsGone(l) == gone' = [gone EXCEPT ![l] = TRUE]

DestroyNotRun(l) == UNCHANGED gone

Destroyed(l) ==
  machine' = [machine EXCEPT ![l] = IF @ = "up" THEN "destroyed" ELSE @]

\* vmlab destroy is not run at all, or runs, and does or does not destroy.
\* failed: whether the caller gets an error.
Teardown(l, failed) ==
  \/ /\ sel.keep \/ gone[l]
     /\ ~failed /\ UNCHANGED labs
  \/ /\ ~sel.keep /\ ~gone[l]
     /\ \/ failed /\ DestroyNotRun(l) /\ UNCHANGED <<machine, left>>
        \/ /\ ~failed /\ Destroyed(l)
           /\ gone' = [gone EXCEPT ![l] = TRUE] /\ UNCHANGED left
        \/ /\ failed /\ left' = [left EXCEPT ![l] = "refused"]
           /\ gone' = [gone EXCEPT ![l] = TRUE] /\ UNCHANGED machine

\* A handle that goes out of scope with something left tries once more.
Drop(l) ==
  /\ gone' = [gone EXCEPT ![l] = TRUE]
  /\ \/ /\ sel.keep \/ gone[l]
        /\ UNCHANGED <<machine, left>>
     \/ /\ ~sel.keep /\ ~gone[l]
        /\ \/ Destroyed(l) /\ UNCHANGED left
           \/ left' = [left EXCEPT ![l] = "unable"] /\ UNCHANGED machine

-----------------------------------------------------------------------------
(* Provisioning a group's machine. A step that fails gives up: explicitly    *)
(* (teardown), or by an early return that leaves it to the drop.             *)

Tell(e, ts) == [e EXCEPT !.told = [t \in DOMAIN @ |-> IF t \in ts THEN @[t] + 1 ELSE @[t]]]

\* Mutant: a failure of the group is not told to the consumer.
TellNobody(g) == events

TellAll(g) == Tell(events, TestsOf(g))

\* A failure of the group is an error of each of its tests.
FailAll(g) ==
  /\ outcome' = [t \in DOMAIN outcome |-> IF t \in TestsOf(g) THEN "error" ELSE outcome[t]]
  /\ events' = TellAll(g)

\* The lab's directory and file are written; there is no handle before.
MakeLab(g) ==
  /\ \/ Go(g, "make", "up") /\ UNCHANGED <<outcome, events, gone>>
     \/ /\ Go(g, "make", "return")
        /\ FailAll(g) /\ gone' = [gone EXCEPT ![g] = TRUE]
  /\ UNCHANGED <<sel, pool, todo, current, part, bad, machine, left, kept, results>>

\* vmlab up cannot be run, fails or is killed at its deadline, with a machine
\* or without one, or succeeds.
Up(g) ==
  /\ \/ Go(g, "up", "failing") /\ UNCHANGED machine
     \/ Go(g, "up", "abandon") /\ machine' \in {machine, [machine EXCEPT ![g] = "up"]}
     \/ Go(g, "up", "ready") /\ machine' = [machine EXCEPT ![g] = "up"]
  /\ UNCHANGED <<sel, pool, progress, gone, left, events, kept, results>>

\* The guest agent answers before a deadline.
AwaitAgent(g) ==
  /\ \/ Go(g, "ready", "abandon")
     \/ Go(g, "ready", IF Kind(g) = "vm" THEN "osinfo" ELSE "steady")
  /\ UNCHANGED <<sel, pool, progress, labs, events, kept, results>>

\* It tells its operating system; an error returns at once.
OsInfo(g) ==
  /\ Go(g, "osinfo", "failing") \/ Go(g, "osinfo", "steady")
  /\ UNCHANGED <<sel, pool, progress, labs, events, kept, results>>

\* It answers steadily before a deadline.
AwaitSteady(g) ==
  /\ Go(g, "steady", "abandon") \/ Go(g, "steady", "prepare")
  /\ UNCHANGED <<sel, pool, progress, labs, events, kept, results>>

GiveUp(g) ==
  /\ Go(g, "abandon", "failing")
  /\ \E failed \in BOOLEAN : Teardown(g, failed)
  /\ UNCHANGED <<sel, pool, progress, events, kept, results>>

ProvisionFails(g) ==
  /\ Go(g, "failing", "return")
  /\ Drop(g) /\ FailAll(g)
  /\ UNCHANGED <<sel, pool, todo, current, part, bad, kept, results>>

\* The binary is copied in and run once.
Prepare(g) ==
  /\ \/ /\ Go(g, "prepare", "unprepared")
        /\ FailAll(g) /\ UNCHANGED kept
     \/ /\ Go(g, "prepare", "test")
        /\ events' = [events EXCEPT !.announced = @ \cup {g}]
        /\ kept' = IF sel.keep THEN kept \cup {g} ELSE kept
        /\ UNCHANGED outcome
  /\ UNCHANGED <<sel, pool, todo, current, part, bad, labs, results>>

Unprepared(g) ==
  /\ Go(g, "unprepared", "return")
  /\ \E failed \in BOOLEAN : Teardown(g, failed)
  /\ UNCHANGED <<sel, pool, progress, events, kept, results>>

-----------------------------------------------------------------------------
(* The tests of a group. *)

StartTest(g) ==
  /\ Go(g, "test", "part")
  /\ \E t \in todo[g] :
       /\ \A u \in todo[g] : t <= u
       /\ current' = [current EXCEPT ![g] = t]
       /\ events' = [events EXCEPT !.begun = @ \cup {t}]
  /\ UNCHANGED <<sel, pool, todo, part, bad, outcome, labs, kept, results>>

Verdict(b) == IF b = {} THEN "passed" ELSE "failed"

EndTest(g, t, result) ==
  /\ outcome' = [outcome EXCEPT ![t] = result]
  /\ events' = Tell(events, {t})
  /\ todo' = [todo EXCEPT ![g] = @ \ {t}]
  /\ part' = [part EXCEPT ![g] = 1]
  /\ stage' = [stage EXCEPT ![g] = "test"]
  /\ UNCHANGED current

\* A part of a test holds, gives a bad verdict, or is an error that ends the
\* test: a transport failure, setup that fails, ready that times out.
DoPart(g) ==
  /\ stage[g] = "part"
  /\ LET t == current[g]
         x == Parts(t)[part[g]]
     IN /\ part[g] <= Len(Parts(t))
        /\ \/ EndTest(g, t, "error") /\ UNCHANGED bad
           \/ /\ bad' \in {bad} \cup
                  (IF x \in Judged THEN {[bad EXCEPT ![t] = @ \cup {x}]} ELSE {})
              /\ part' = [part EXCEPT ![g] = @ + 1]
              /\ UNCHANGED <<stage, todo, current, outcome, events>>
  /\ UNCHANGED <<sel, pool, labs, kept, results>>

FinishTest(g) ==
  /\ stage[g] = "part"
  /\ LET t == current[g]
     IN part[g] > Len(Parts(t)) /\ EndTest(g, t, Verdict(bad[t]))
  /\ UNCHANGED <<sel, pool, bad, labs, kept, results>>

CloseGroup(g) ==
  /\ todo[g] = {}
  /\ Go(g, "test", "return")
  /\ \E failed \in BOOLEAN :
       /\ Teardown(g, failed)
       /\ events' = [events EXCEPT !.closed = @ \cup {g},
                       !.warned = IF failed THEN @ \cup {g} ELSE @]
  /\ UNCHANGED <<sel, pool, progress, kept, results>>

\* run_group returns its reports, and its worker looks for the next group.
Return(g) ==
  /\ g \in Groups
  /\ Go(g, "return", "ended")
  /\ Drop(g)
  /\ results' = results \o Ascending(TestsOf(g))
  /\ idle' = [idle EXCEPT ![Kind(g)] = @ + 1]
  /\ UNCHANGED <<sel, phase, cursor, progress, events, kept>>

\* A panic drops the handle, if there is one, and ends the worker.
Panic(g) ==
  /\ phase = "groups"
  /\ stage[g] \notin {"queued", "ended", "panicked"}
  /\ stage' = [stage EXCEPT ![g] = "panicked"]
  /\ IF stage[g] = "make" THEN UNCHANGED labs ELSE Drop(g)
  /\ UNCHANGED <<sel, pool, progress, events, kept, results>>

-----------------------------------------------------------------------------
(* Scenarios, in order. *)

StartScenario(s) ==
  /\ phase = "scenarios"
  /\ stage[s] = "queued"
  /\ \A r \in Scenarios : r < s => stage[r] = "ended"
  /\ events' = [events EXCEPT !.begun = @ \cup {s}]
  /\ \/ /\ stage' = [stage EXCEPT ![s] = "drive"]
        /\ UNCHANGED <<outcome, gone>>
     \/ /\ stage' = [stage EXCEPT ![s] = "return"]
        /\ outcome' = [outcome EXCEPT ![s] = "error"]
        /\ gone' = [gone EXCEPT ![s] = TRUE]
  /\ UNCHANGED <<sel, pool, todo, current, part, bad, machine, left, kept, results>>

\* The script brings up machines of the lab as it asks for them.
Drive(s) ==
  /\ Go(s, "drive", "teardown")
  /\ machine' \in {machine, [machine EXCEPT ![s] = "up"]}
  /\ \E o \in {"passed", "failed", "error"} : outcome' = [outcome EXCEPT ![s] = o]
  /\ UNCHANGED <<sel, pool, todo, current, part, bad, gone, left, events, kept, results>>

CloseScenario(s) ==
  /\ Go(s, "teardown", "return")
  /\ kept' = IF sel.keep THEN kept \cup {s} ELSE kept
  /\ \E failed \in BOOLEAN : Teardown(s, failed)
  /\ UNCHANGED <<sel, pool, progress, events, results>>

EndScenario(s) ==
  /\ Go(s, "return", "ended")
  /\ Drop(s)
  /\ events' = Tell(events, {s})
  /\ results' = Append(results, s)
  /\ UNCHANGED <<sel, pool, progress, kept>>

\* The reports of the tests in the order of their selection; scenarios follow.
Report == Sorted(results)

RunEnds ==
  /\ phase = "scenarios"
  /\ \A s \in Scenarios : stage[s] = "ended"
  /\ phase' = "done"
  /\ results' = Report
  /\ events' = [events EXCEPT !.over = TRUE]
  /\ UNCHANGED <<sel, idle, cursor, stage, progress, labs, kept>>

Over == phase \in {"done", "aborted"} /\ UNCHANGED vars

-----------------------------------------------------------------------------
Provision(g) ==
  \/ MakeLab(g) \/ Up(g) \/ AwaitAgent(g) \/ OsInfo(g) \/ AwaitSteady(g)
  \/ GiveUp(g) \/ ProvisionFails(g) \/ Prepare(g) \/ Unprepared(g)

Testing(g) == StartTest(g) \/ DoPart(g) \/ FinishTest(g) \/ CloseGroup(g)

Scenario(s) == StartScenario(s) \/ Drive(s) \/ CloseScenario(s) \/ EndScenario(s)

Next ==
  \/ \E k \in Kinds : Take(k)
  \/ \E g \in Groups : Provision(g) \/ Testing(g) \/ Return(g) \/ Panic(g)
  \/ Join \/ (\E s \in Scenarios : Scenario(s)) \/ RunEnds \/ Over

Spec == Init /\ [][Next]_vars

-----------------------------------------------------------------------------
(* Properties. *)

\* A run that ends reports each test and scenario once, in the order of the
\* selection, whichever group finished first; no group is ever run twice.
OneReportEach ==
  /\ IsInjective(results)
  /\ phase = "done" => results = [i \in 1 .. Len(sel.tests) + sel.scenarios |-> i]

\* What the consumer is told is complete: a test finishes once, after it was
\* begun in an announced machine, or because its group failed as a whole; a
\* group is closed after its tests; scenarios begin after all tests.
ToldInOrder ==
  /\ \A g \in Groups, t \in Tests :
       t \in TestsOf(g) =>
         /\ t \in events.begun => g \in events.announced
         /\ events.told[t] > 0 /\ t \notin events.begun =>
              g \notin events.announced /\ outcome[t] = "error"
         /\ g \in events.closed \/ stage[g] = "ended" => events.told[t] = 1
  /\ \A s \in Scenarios : s \in events.begun => \A t \in Tests : events.told[t] = 1
  /\ events.over => \A t \in DOMAIN events.told : events.told[t] = 1

\* A machine is left running only by --keep, or if vmlab would not destroy it
\* or could not even be run by the drop; of a group that ran its tests this
\* is told to the consumer, unless the run is lost to a panic.
NoLeak ==
  \A l \in Labs :
    machine[l] = "up" /\ stage[l] \in {"ended", "panicked"} =>
      \/ sel.keep
      \/ /\ left[l] # "no"
         /\ l \in events.announced /\ stage[l] = "ended" => l \in events.warned

\* Machines that are up and can still be used stay within the cap of their
\* kind; while a scenario has its lab, no group has a machine.
LiveWithinCap ==
  LET Live == {l \in Labs : machine[l] = "up" /\ stage[l] \notin {"ended", "panicked"}}
  IN /\ \A k \in Kinds :
          Cardinality({g \in Live \cap Groups : Kind(g) = k}) <= sel.cap[k]
     /\ phase # "groups" => Cardinality(Live) <= 1 /\ Live \cap Groups = {}
=============================================================================
