--------------------------- MODULE TestLabProofs ---------------------------
(***************************************************************************)
(* Proofs about test runs, for any selection of tests and scenarios: no    *)
(* machine is left without a reason, the caps hold, and the consumer hears *)
(* the end of every test once. A step of a lab touches that lab and its    *)
(* tests only (Elsewhere), so what has to be shown of all of them is shown *)
(* of one.                                                                 *)
(***************************************************************************)
EXTENDS TestLab, FiniteSetTheorems, WellFoundedInduction, TLAPS

Finished == Tests \cup Scenarios

AtRest == {"queued", "ended", "panicked"}

Stages == AtRest \cup
  {"make", "up", "ready", "osinfo", "steady", "prepare", "abandon", "failing",
   "unprepared", "test", "part", "return", "drive", "teardown"}

EventsType ==
  [announced : SUBSET Groups, closed : SUBSET Groups, warned : SUBSET Groups,
   begun : SUBSET Finished, told : [Finished -> Nat], over : BOOLEAN]

LabTypeOK ==
  /\ sel \in Selections
  /\ phase \in {"groups", "scenarios", "done", "aborted"}
  /\ idle \in [Kinds -> Nat] /\ cursor \in [Kinds -> Nat]
  /\ stage \in [Labs -> Stages]
  /\ todo \in [Groups -> SUBSET Tests] /\ current \in [Groups -> Tests]
  /\ outcome \in [Finished -> {"none", "passed", "failed", "error"}]
  /\ machine \in [Labs -> {"none", "up", "destroyed"}]
  /\ gone \in [Labs -> BOOLEAN] /\ left \in [Labs -> {"no", "refused", "unable"}]
  /\ events \in EventsType

\* A lab's machine, and what has become of its handle.
Handled(l) ==
  /\ stage[l] \in {"queued", "make", "up", "drive"} => machine[l] = "none"
  /\ stage[l] \notin {"failing", "return", "ended", "panicked"} => ~gone[l]
  /\ machine[l] = "up" /\ gone[l] => sel.keep \/ left[l] # "no"
  /\ machine[l] = "up" /\ stage[l] \in {"ended", "panicked"} => gone[l]
  /\ l \in events.announced =>
       /\ stage[l] \in {"test", "part", "return", "ended", "panicked"}
       /\ machine[l] = "up" /\ stage[l] \in {"return", "ended"} =>
            sel.keep \/ l \in events.warned

\* A test of a group, and what the consumer was told of it.
Followed(g, t) ==
  /\ stage[g] \in {"queued", "make", "up", "ready", "osinfo", "steady", "prepare",
                   "abandon", "failing"}
       => events.told[t] = 0 /\ t \notin events.begun /\ t \in todo[g]
  /\ stage[g] = "unprepared" =>
       events.told[t] = 1 /\ t \notin events.begun /\ outcome[t] = "error"
  /\ stage[g] \in {"test", "part"} =>
       /\ g \in events.announced
       /\ t \in todo[g] => events.told[t] = 0
       /\ t \notin todo[g] => events.told[t] = 1 /\ t \in events.begun
  /\ stage[g] \in {"return", "ended"} \/ g \in events.closed => events.told[t] = 1
  /\ t \in events.begun => g \in events.announced
  /\ events.told[t] > 0 /\ t \notin events.begun =>
       g \notin events.announced /\ outcome[t] = "error"

Member(g) ==
  /\ todo[g] \subseteq TestsOf(g)
  /\ stage[g] = "part" => current[g] \in todo[g] /\ current[g] \in events.begun
  /\ \A t \in TestsOf(g) : Followed(g, t)

Local(l) == Handled(l) /\ (l \in Groups => Member(l))

\* Workers that look for a group and those that have one stay within the cap,
\* and what the cursor has not passed there is somebody to take.
Active(k) == {g \in Bucket(k) : stage[g] \notin AtRest}

Manned(k) ==
  /\ \A g \in Bucket(k) : stage[g] = "queued" <=> g >= cursor[k]
  /\ idle[k] + Cardinality(Active(k)) <= sel.cap[k]
  /\ Ahead(k) # {} =>
       idle[k] > 0 \/ Active(k) # {} \/ \E g \in Bucket(k) : stage[g] = "panicked"

\* Scenarios come one after the other, after the groups.
InTurn ==
  /\ phase # "groups" => \A g \in Groups : stage[g] \in AtRest
  /\ phase \in {"scenarios", "done"} => \A g \in Groups : stage[g] = "ended"
  /\ phase \in {"groups", "aborted"} =>
       \A s \in Scenarios : stage[s] = "queued" /\ s \notin events.begun
  /\ \A r, s \in Scenarios : r < s /\ stage[s] # "queued" => stage[r] = "ended"
  /\ \A s \in Scenarios : events.told[s] = IF stage[s] = "ended" THEN 1 ELSE 0
  /\ phase = "done" => \A s \in Scenarios : stage[s] = "ended"
  /\ events.over => phase = "done"

LabInv ==
  /\ \A l \in Labs : Local(l)
  /\ \A k \in Kinds : Manned(k)
  /\ InTurn

-----------------------------------------------------------------------------
(* Selections. *)

LEMMA SelectionTyped ==
  ASSUME sel \in Selections
  PROVE  /\ Len(sel.tests) \in Nat /\ DOMAIN sel.tests = Tests
         /\ \A t \in Tests : sel.tests[t].kind \in Kinds
         /\ sel.scenarios \in Nat
         /\ sel.cap \in [Kinds -> Nat \ {0}]
<1>1. sel \in SelectionType
  BY TestLabAssumption
<1>2. /\ sel.tests \in Seq(Test) /\ sel.scenarios \in Nat
      /\ sel.cap \in [Kinds -> Nat \ {0}]
  BY <1>1 DEF SelectionType
<1>3. Len(sel.tests) \in Nat /\ DOMAIN sel.tests = Tests
  BY <1>2 DEF Tests
<1>4. \A t \in Tests : sel.tests[t] \in Test
  BY <1>2, <1>3
<1>5. \A t \in Tests : sel.tests[t].kind \in Kinds
  BY <1>4 DEF Test
<1> QED BY <1>2, <1>3, <1>5

LEMMA LabsAre ==
  ASSUME sel \in Selections
  PROVE  /\ Groups \subseteq Tests /\ Tests \subseteq Nat /\ Scenarios \subseteq Nat
         /\ Tests \cap Scenarios = {}
         /\ IsFiniteSet(Groups)
         /\ \A k \in Kinds : Bucket(k) \subseteq Groups /\ IsFiniteSet(Bucket(k))
         /\ \A g \in Groups : Kind(g) \in Kinds /\ g \in TestsOf(g) /\ g \in Bucket(Kind(g))
         /\ \A g \in Groups : TestsOf(g) \subseteq Tests
<1>1. Groups \subseteq Tests /\ Tests \subseteq Nat
  BY SelectionTyped DEF Groups, Tests
<1>2. Scenarios \subseteq Nat /\ Tests \cap Scenarios = {}
  BY SelectionTyped DEF Scenarios, Tests
<1>3. IsFiniteSet(Tests)
  BY SelectionTyped, FS_Interval DEF Tests
<1>4. IsFiniteSet(Groups)
  BY <1>1, <1>3, FS_Subset
<1>5. \A k \in Kinds : Bucket(k) \subseteq Groups /\ IsFiniteSet(Bucket(k))
  BY <1>4, FS_Subset DEF Bucket
<1>6. \A g \in Groups : Kind(g) \in Kinds /\ g \in TestsOf(g) /\ g \in Bucket(Kind(g))
  BY <1>1, SelectionTyped DEF Kind, TestsOf, Together, Bucket
<1>7. \A g \in Groups : TestsOf(g) \subseteq Tests
  BY DEF TestsOf
<1> QED BY <1>1, <1>2, <1>4, <1>5, <1>6, <1>7

\* No test is in two groups.
LEMMA Disjoint ==
  ASSUME sel \in Selections, NEW g \in Groups, NEW h \in Groups, g # h
  PROVE  TestsOf(g) \cap TestsOf(h) = {}
<1> SUFFICES ASSUME NEW t \in Tests, Together(g, t), Together(h, t) PROVE FALSE
  BY DEF TestsOf
<1>1. Together(g, h) /\ Together(h, g)
  BY DEF Together
<1>2. g \in Nat /\ h \in Nat /\ g \in Tests /\ h \in Tests
  BY LabsAre
<1> QED BY <1>1, <1>2 DEF Groups

\* Each test is in one.
LEMMA Covered ==
  ASSUME sel \in Selections, NEW t \in Tests
  PROVE  \E g \in Groups : t \in TestsOf(g)
<1> DEFINE S == {u \in Tests : Together(u, t)}
<1>1. t \in S /\ S \subseteq Nat
  BY LabsAre DEF Together
<1>2. PICK n \in S : \A m \in S : ~(<<m, n>> \in OpToRel(<, Nat))
  <2> HIDE DEF S
  <2> QED BY <1>1, NatLessThanWellFounded, WFMin, Zenon
<1>3. \A m \in S : ~(m < n)
  BY <1>1, <1>2 DEF OpToRel
<1>4. \A u \in Tests : Together(u, n) => Together(u, t)
  BY DEF Together
<1>5. n \in Groups
  BY <1>3, <1>4 DEF Groups
<1> QED BY <1>5 DEF TestsOf

\* The selection does not change, and what is read from it.
LEMMA SelectionStands ==
  ASSUME sel' = sel
  PROVE  /\ Tests' = Tests /\ Scenarios' = Scenarios /\ Groups' = Groups /\ Labs' = Labs
         /\ Finished' = Finished /\ EventsType' = EventsType
         /\ \A g : TestsOf(g)' = TestsOf(g)
         /\ \A k : Bucket(k)' = Bucket(k)
<1>1. Tests' = Tests /\ Scenarios' = Scenarios
  BY DEF Tests, Scenarios
<1>2. Groups' = Groups
  BY <1>1 DEF Groups, Together
<1> QED BY <1>1, <1>2 DEF Labs, Finished, EventsType, TestsOf, Together, Bucket, Kind

-----------------------------------------------------------------------------
(* A step of one lab. *)

\* What a step of one lab leaves alone.
Elsewhere(l) ==
  /\ sel' = sel
  /\ \A m \in Labs : m # l =>
       /\ stage'[m] = stage[m] /\ machine'[m] = machine[m]
       /\ gone'[m] = gone[m] /\ left'[m] = left[m]
       /\ m \in events'.announced <=> m \in events.announced
       /\ m \in events'.warned <=> m \in events.warned
       /\ m \in events'.closed <=> m \in events.closed
  /\ \A h \in Groups : h # l => todo'[h] = todo[h] /\ current'[h] = current[h]
  /\ \A t \in Finished : t # l /\ (l \in Groups => t \notin TestsOf(l)) =>
       /\ events'.told[t] = events.told[t] /\ outcome'[t] = outcome[t]
       /\ t \in events'.begun <=> t \in events.begun

LEMMA OthersStand ==
  ASSUME LabTypeOK, NEW l \in Labs, Elsewhere(l), NEW m \in Labs, m # l, Local(m)
  PROVE  Local(m)'
<1>1. sel \in Selections /\ sel' = sel
  BY DEF LabTypeOK, Elsewhere
<1>2. Handled(m)'
  BY DEF Elsewhere, Local, Handled
<1>3. ASSUME m \in Groups PROVE Member(m)'
  <2>1. \A t \in TestsOf(m) : t \in Finished /\ t # l /\ (l \in Groups => t \notin TestsOf(l))
    BY <1>1, <1>3, LabsAre, Disjoint DEF Finished, Labs
  <2>2. todo'[m] = todo[m] /\ current'[m] = current[m] /\ stage'[m] = stage[m]
    BY <1>3 DEF Elsewhere
  <2>3. Member(m)
    BY <1>3 DEF Local
  <2>4. \A t \in TestsOf(m) : Followed(m, t)'
    BY <1>3, <2>1, <2>2, <2>3 DEF Elsewhere, Member, Followed
  <2>5. stage[m] = "part" => current[m] \in events'.begun
    BY <2>1, <2>3 DEF Elsewhere, Member
  <2> QED BY <1>1, <2>2, <2>3, <2>4, <2>5, SelectionStands DEF Member
<1> QED BY <1>1, <1>2, <1>3, SelectionStands DEF Local

\* A group at work: the step is its own, and it stays at work.
Works(g) ==
  /\ LabTypeOK' /\ Elsewhere(g) /\ Local(g)'
  /\ stage[g] \notin AtRest /\ stage'[g] \notin AtRest
  /\ UNCHANGED <<phase, idle, cursor>> /\ events'.over = events.over

\* What is told to the consumer about some tests.
LEMMA Telling ==
  ASSUME NEW e \in EventsType, NEW ts \in SUBSET Finished
  PROVE  /\ Tell(e, ts) \in EventsType
         /\ Tell(e, ts).announced = e.announced /\ Tell(e, ts).warned = e.warned
         /\ Tell(e, ts).closed = e.closed /\ Tell(e, ts).begun = e.begun
         /\ Tell(e, ts).over = e.over
         /\ \A t \in ts : Tell(e, ts).told[t] = e.told[t] + 1
         /\ \A t \in Finished \ ts : Tell(e, ts).told[t] = e.told[t]
<1> DEFINE told == [t \in Finished |-> IF t \in ts THEN e.told[t] + 1 ELSE e.told[t]]
<1>1. e.told \in [Finished -> Nat] /\ DOMAIN e.told = Finished
  BY DEF EventsType
<1>2. told \in [Finished -> Nat]
  BY <1>1
<1>3. Tell(e, ts) = [announced |-> e.announced, closed |-> e.closed, warned |-> e.warned,
                     begun |-> e.begun, told |-> told, over |-> e.over]
  BY <1>1 DEF Tell, EventsType
<1>4. Tell(e, ts) \in EventsType
  <2> HIDE DEF told
  <2> QED BY <1>2, <1>3 DEF EventsType
<1> QED BY <1>3, <1>4

LEMMA Failing ==
  ASSUME LabTypeOK, NEW g \in Groups, FailAll(g)
  PROVE  /\ outcome' \in [Finished -> {"none", "passed", "failed", "error"}]
         /\ events' \in EventsType
         /\ events'.announced = events.announced /\ events'.warned = events.warned
         /\ events'.closed = events.closed /\ events'.begun = events.begun
         /\ events'.over = events.over
         /\ \A t \in TestsOf(g) : events'.told[t] = events.told[t] + 1 /\ outcome'[t] = "error"
         /\ \A t \in Finished \ TestsOf(g) :
              events'.told[t] = events.told[t] /\ outcome'[t] = outcome[t]
<1>1. TestsOf(g) \in SUBSET Finished
  BY LabsAre DEF LabTypeOK, Finished
<1>2. events' = Tell(events, TestsOf(g)) /\ events \in EventsType
  BY DEF FailAll, TellAll, LabTypeOK
<1>3. /\ outcome' = [t \in Finished |-> IF t \in TestsOf(g) THEN "error" ELSE outcome[t]]
      /\ outcome \in [Finished -> {"none", "passed", "failed", "error"}]
  BY DEF FailAll, LabTypeOK
<1> QED BY <1>1, <1>2, <1>3, Telling

HandlesTyped ==
  /\ machine' \in [Labs -> {"none", "up", "destroyed"}]
  /\ gone' \in [Labs -> BOOLEAN] /\ left' \in [Labs -> {"no", "refused", "unable"}]

HandlesElsewhere(l) ==
  \A m \in Labs : m # l =>
    machine'[m] = machine[m] /\ gone'[m] = gone[m] /\ left'[m] = left[m]

LEMMA TearingDown ==
  ASSUME LabTypeOK, NEW l \in Labs, NEW failed \in BOOLEAN, ~gone[l], Teardown(l, failed)
  PROVE  /\ HandlesTyped /\ HandlesElsewhere(l)
         /\ machine'[l] = "up" /\ gone'[l] => left'[l] # "no"
         /\ machine'[l] = "up" => failed \/ sel.keep
BY DEF LabTypeOK, Teardown, DestroyNotRun, Destroyed, HandlesTyped, HandlesElsewhere, labs

LEMMA Dropping ==
  ASSUME LabTypeOK, NEW l \in Labs, Handled(l), Drop(l)
  PROVE  /\ HandlesTyped /\ HandlesElsewhere(l)
         /\ gone'[l]
         /\ machine'[l] = "up" => machine[l] = "up" /\ (sel.keep \/ left'[l] # "no")
BY DEF LabTypeOK, Handled, Drop, Destroyed, HandlesTyped, HandlesElsewhere

LEMMA Awaiting ==
  ASSUME LabTypeOK, NEW g \in Groups, Local(g), AwaitAgent(g) \/ OsInfo(g) \/ AwaitSteady(g)
  PROVE  Works(g)
<1>1. /\ UNCHANGED <<sel, pool, progress, labs, events>>
      /\ stage[g] \in {"ready", "osinfo", "steady"}
  BY DEF AwaitAgent, OsInfo, AwaitSteady, Go
<1>2. PICK to \in {"abandon", "failing", "osinfo", "steady", "prepare"} :
        stage' = [stage EXCEPT ![g] = to]
  BY DEF AwaitAgent, OsInfo, AwaitSteady, Go
<1>3. g \in Labs /\ stage'[g] = to
  BY <1>2 DEF Labs, LabTypeOK
<1>4. LabTypeOK'
  BY <1>1, <1>2, SelectionStands DEF LabTypeOK, Stages, pool, progress, labs
<1>5. Elsewhere(g)
  BY <1>1, <1>2 DEF LabTypeOK, Elsewhere, pool, progress, labs
<1>6. Handled(g)'
  BY <1>1, <1>3 DEF LabTypeOK, Local, Handled, labs
<1>7. Member(g)'
  <2>1. \A t \in TestsOf(g) : Followed(g, t)'
    BY <1>1, <1>3 DEF LabTypeOK, Local, Member, Followed, progress
  <2> QED BY <1>1, <1>3, <2>1, SelectionStands DEF LabTypeOK, Local, Member, progress
<1> QED BY <1>1, <1>3, <1>4, <1>5, <1>6, <1>7 DEF Works, Local, AtRest, pool

LEMMA Making ==
  ASSUME LabTypeOK, NEW g \in Groups, Local(g), MakeLab(g)
  PROVE  Works(g)
<1>1. /\ UNCHANGED <<sel, pool, todo, current, machine, left>>
      /\ stage[g] = "make" /\ g \in Labs
  BY DEF MakeLab, Go, Labs
<1>2. CASE stage' = [stage EXCEPT ![g] = "up"] /\ UNCHANGED <<outcome, events, gone>>
  <2>1. stage'[g] = "up"
    BY <1>1, <1>2 DEF LabTypeOK
  <2>2. LabTypeOK'
    BY <1>1, <1>2, SelectionStands DEF LabTypeOK, Stages, pool
  <2>3. Elsewhere(g)
    BY <1>1, <1>2 DEF LabTypeOK, Elsewhere
  <2>4. Handled(g)'
    BY <1>1, <1>2, <2>1 DEF LabTypeOK, Local, Handled
  <2>5. \A t \in TestsOf(g) : Followed(g, t)'
    BY <1>1, <1>2, <2>1 DEF LabTypeOK, Local, Member, Followed
  <2>6. Member(g)'
    BY <1>1, <2>1, <2>5, SelectionStands DEF Local, Member
  <2> QED BY <1>1, <1>2, <2>1, <2>2, <2>3, <2>4, <2>6 DEF Works, Local, AtRest, pool
<1>3. CASE /\ stage' = [stage EXCEPT ![g] = "return"]
           /\ FailAll(g) /\ gone' = [gone EXCEPT ![g] = TRUE]
  <2>1. stage'[g] = "return" /\ gone'[g]
    BY <1>1, <1>3 DEF LabTypeOK
  <2>2. LabTypeOK'
    BY <1>1, <1>3, Failing, SelectionStands DEF LabTypeOK, Stages, pool
  <2>3. Elsewhere(g)
    BY <1>1, <1>3, Failing DEF LabTypeOK, Elsewhere
  <2>4. Handled(g)'
    BY <1>1, <1>3, <2>1, Failing DEF LabTypeOK, Local, Handled
  <2>5. \A t \in TestsOf(g) : Followed(g, t)'
    BY <1>1, <1>3, <2>1, Failing DEF LabTypeOK, Local, Handled, Member, Followed
  <2>6. Member(g)'
    BY <1>1, <2>1, <2>5, SelectionStands DEF Local, Member
  <2> QED BY <1>1, <1>3, <2>1, <2>2, <2>3, <2>4, <2>6, Failing DEF Works, Local, AtRest, pool
<1> QED BY <1>2, <1>3 DEF MakeLab, Go

LEMMA Upping ==
  ASSUME LabTypeOK, NEW g \in Groups, Local(g), Up(g)
  PROVE  Works(g)
<1>1. /\ UNCHANGED <<sel, pool, progress, gone, left, events>>
      /\ stage[g] = "up" /\ g \in Labs
  BY DEF Up, Go, Labs
<1>2. PICK to \in {"failing", "abandon", "ready"} : stage' = [stage EXCEPT ![g] = to]
  BY DEF Up, Go
<1>3. machine' \in {machine, [machine EXCEPT ![g] = "up"]}
  BY DEF Up
<1>4. stage'[g] = to
  BY <1>1, <1>2 DEF LabTypeOK
<1>5. LabTypeOK'
  BY <1>1, <1>2, <1>3, SelectionStands DEF LabTypeOK, Stages, pool, progress
<1>6. Elsewhere(g)
  BY <1>1, <1>2, <1>3 DEF LabTypeOK, Elsewhere, progress
<1>7. Handled(g)'
  BY <1>1, <1>4 DEF LabTypeOK, Local, Handled
<1>8. \A t \in TestsOf(g) : Followed(g, t)'
  BY <1>1, <1>4 DEF LabTypeOK, Local, Member, Followed, progress
<1>9. Member(g)'
  BY <1>1, <1>4, <1>8, SelectionStands DEF Local, Member, progress
<1> QED BY <1>1, <1>4, <1>5, <1>6, <1>7, <1>9 DEF Works, Local, AtRest, pool

LEMMA TornDown ==
  ASSUME LabTypeOK, NEW g \in Groups, Local(g), GiveUp(g) \/ Unprepared(g)
  PROVE  Works(g)
<1>1. /\ UNCHANGED <<sel, pool, progress, events>>
      /\ stage[g] \in {"abandon", "unprepared"} /\ g \in Labs
  BY DEF GiveUp, Unprepared, Go, Labs
<1>2. /\ stage' = [stage EXCEPT ![g] = IF stage[g] = "abandon" THEN "failing" ELSE "return"]
      /\ \E failed \in BOOLEAN : Teardown(g, failed)
  BY DEF GiveUp, Unprepared, Go
<1>3. stage'[g] = IF stage[g] = "abandon" THEN "failing" ELSE "return"
  BY <1>1, <1>2 DEF LabTypeOK
<1>4. /\ HandlesTyped /\ HandlesElsewhere(g)
      /\ machine'[g] = "up" /\ gone'[g] => left'[g] # "no"
  BY <1>1, <1>2, TearingDown DEF Local, Handled
<1>5. LabTypeOK'
  BY <1>1, <1>2, <1>4, SelectionStands DEF LabTypeOK, Stages, HandlesTyped, pool, progress
<1>6. Elsewhere(g)
  BY <1>1, <1>2, <1>4 DEF LabTypeOK, Elsewhere, HandlesElsewhere, progress
<1>7. Handled(g)'
  BY <1>1, <1>3, <1>4 DEF LabTypeOK, Local, Handled
<1>8. \A t \in TestsOf(g) : Followed(g, t)'
  BY <1>1, <1>3 DEF LabTypeOK, Local, Member, Followed, progress
<1>9. Member(g)'
  BY <1>1, <1>3, <1>8, SelectionStands DEF Local, Member, progress
<1> QED BY <1>1, <1>3, <1>5, <1>6, <1>7, <1>9 DEF Works, Local, AtRest, pool

LEMMA ProvisionFailing ==
  ASSUME LabTypeOK, NEW g \in Groups, Local(g), ProvisionFails(g)
  PROVE  Works(g)
<1>1. /\ UNCHANGED <<sel, pool, todo, current>>
      /\ stage[g] = "failing" /\ g \in Labs
      /\ stage' = [stage EXCEPT ![g] = "return"]
      /\ Drop(g) /\ FailAll(g)
  BY DEF ProvisionFails, Go, Labs
<1>2. stage'[g] = "return"
  BY <1>1 DEF LabTypeOK
<1>3. /\ HandlesTyped /\ HandlesElsewhere(g) /\ gone'[g]
      /\ machine'[g] = "up" => machine[g] = "up" /\ (sel.keep \/ left'[g] # "no")
  BY <1>1, Dropping DEF Local
<1>4. LabTypeOK'
  BY <1>1, <1>3, Failing, SelectionStands DEF LabTypeOK, Stages, HandlesTyped, pool
<1>5. Elsewhere(g)
  BY <1>1, <1>3, Failing DEF LabTypeOK, Elsewhere, HandlesElsewhere
<1>6. Handled(g)'
  BY <1>1, <1>2, <1>3, Failing DEF LabTypeOK, Local, Handled
<1>7. \A t \in TestsOf(g) : Followed(g, t)'
  BY <1>1, <1>2, Failing DEF LabTypeOK, Local, Handled, Member, Followed
<1>8. Member(g)'
  BY <1>1, <1>2, <1>7, SelectionStands DEF Local, Member
<1> QED BY <1>1, <1>2, <1>4, <1>5, <1>6, <1>8, Failing DEF Works, Local, AtRest, pool

LEMMA Preparing ==
  ASSUME LabTypeOK, NEW g \in Groups, Local(g), Prepare(g)
  PROVE  Works(g)
<1>1. /\ UNCHANGED <<sel, pool, todo, current, labs>>
      /\ stage[g] = "prepare" /\ g \in Labs
  BY DEF Prepare, Go, Labs
<1>2. CASE stage' = [stage EXCEPT ![g] = "unprepared"] /\ FailAll(g)
  <2>1. stage'[g] = "unprepared"
    BY <1>1, <1>2 DEF LabTypeOK
  <2>2. LabTypeOK'
    BY <1>1, <1>2, Failing, SelectionStands DEF LabTypeOK, Stages, pool, labs
  <2>3. Elsewhere(g)
    BY <1>1, <1>2, Failing DEF LabTypeOK, Elsewhere, labs
  <2>4. Handled(g)'
    BY <1>1, <1>2, <2>1, Failing DEF LabTypeOK, Local, Handled, labs
  <2>5. \A t \in TestsOf(g) : Followed(g, t)'
    BY <1>1, <1>2, <2>1, Failing DEF LabTypeOK, Local, Handled, Member, Followed
  <2>6. Member(g)'
    BY <1>1, <2>1, <2>5, SelectionStands DEF Local, Member
  <2> QED BY <1>1, <1>2, <2>1, <2>2, <2>3, <2>4, <2>6, Failing DEF Works, Local, AtRest, pool
<1>3. CASE /\ stage' = [stage EXCEPT ![g] = "test"] /\ UNCHANGED outcome
           /\ events' = [events EXCEPT !.announced = @ \cup {g}]
  <2>1. stage'[g] = "test"
    BY <1>1, <1>3 DEF LabTypeOK
  <2>2. events' = [announced |-> events.announced \cup {g}, closed |-> events.closed,
                   warned |-> events.warned, begun |-> events.begun, told |-> events.told,
                   over |-> events.over]
    BY <1>3 DEF LabTypeOK, EventsType
  <2>3. events' \in EventsType
    BY <2>2 DEF LabTypeOK, EventsType
  <2>4. LabTypeOK'
    BY <1>1, <1>3, <2>3, SelectionStands DEF LabTypeOK, Stages, pool, labs
  <2>5. Elsewhere(g)
    BY <1>1, <1>3, <2>2 DEF LabTypeOK, Elsewhere, labs
  <2>6. Handled(g)'
    BY <1>1, <2>1, <2>2 DEF LabTypeOK, Local, Handled, labs
  <2>7. \A t \in TestsOf(g) : Followed(g, t)'
    BY <1>1, <1>3, <2>1, <2>2 DEF LabTypeOK, Local, Member, Followed
  <2>8. Member(g)'
    BY <1>1, <2>1, <2>7, SelectionStands DEF Local, Member
  <2> QED BY <1>1, <2>1, <2>2, <2>4, <2>5, <2>6, <2>8 DEF Works, Local, AtRest, pool
<1> QED BY <1>2, <1>3 DEF Prepare, Go

LEMMA Starting ==
  ASSUME LabTypeOK, NEW g \in Groups, Local(g), StartTest(g)
  PROVE  Works(g)
<1>1. /\ UNCHANGED <<sel, pool, todo, outcome, labs>>
      /\ stage[g] = "test" /\ g \in Labs
      /\ stage' = [stage EXCEPT ![g] = "part"]
  BY DEF StartTest, Go, Labs
<1>2. PICK t \in todo[g] : /\ current' = [current EXCEPT ![g] = t]
                           /\ events' = [events EXCEPT !.begun = @ \cup {t}]
  BY DEF StartTest
<1>3. stage'[g] = "part" /\ current'[g] = t /\ t \in Tests
  BY <1>1, <1>2 DEF LabTypeOK
<1>4. events' = [announced |-> events.announced, closed |-> events.closed,
                 warned |-> events.warned, begun |-> events.begun \cup {t},
                 told |-> events.told, over |-> events.over]
  BY <1>2 DEF LabTypeOK, EventsType
<1>5. events' \in EventsType
  BY <1>3, <1>4 DEF LabTypeOK, EventsType, Finished
<1>6. LabTypeOK'
  BY <1>1, <1>2, <1>3, <1>5, SelectionStands DEF LabTypeOK, Stages, pool, labs
<1>7. t \in TestsOf(g)
  BY <1>2 DEF Local, Member
<1>8. Elsewhere(g)
  BY <1>1, <1>2, <1>4, <1>7 DEF LabTypeOK, Elsewhere, labs
<1>9. Handled(g)'
  BY <1>1, <1>3, <1>4 DEF LabTypeOK, Local, Handled, labs
<1>10. \A u \in TestsOf(g) : Followed(g, u)'
  BY <1>1, <1>3, <1>4 DEF LabTypeOK, Local, Member, Followed
<1>11. Member(g)'
  BY <1>1, <1>2, <1>3, <1>4, <1>10, SelectionStands DEF Local, Member
<1> QED BY <1>1, <1>3, <1>4, <1>6, <1>8, <1>9, <1>11 DEF Works, Local, AtRest, pool

LEMMA Ending ==
  ASSUME LabTypeOK, NEW g \in Groups, Local(g), stage[g] = "part",
         NEW result \in {"passed", "failed", "error"}, EndTest(g, current[g], result),
         UNCHANGED <<sel, pool, labs>>
  PROVE  Works(g)
<1> DEFINE t == current[g]
<1>1. /\ g \in Labs /\ t \in todo[g] /\ t \in TestsOf(g) /\ t \in events.begun /\ t \in Finished
      /\ todo[g] \subseteq TestsOf(g)
  BY LabsAre DEF LabTypeOK, Labs, Local, Member, Finished
<1>2. /\ outcome' = [outcome EXCEPT ![t] = result]
      /\ events' = Tell(events, {t})
      /\ todo' = [todo EXCEPT ![g] = todo[g] \ {t}]
      /\ stage' = [stage EXCEPT ![g] = "test"]
      /\ current' = current
  BY DEF EndTest
<1>3. stage'[g] = "test" /\ todo'[g] = todo[g] \ {t}
  BY <1>1, <1>2 DEF LabTypeOK
<1>4. /\ events' \in EventsType
      /\ events'.announced = events.announced /\ events'.warned = events.warned
      /\ events'.closed = events.closed /\ events'.begun = events.begun
      /\ events'.over = events.over
      /\ events'.told[t] = events.told[t] + 1
      /\ \A u \in Finished : u # t => events'.told[u] = events.told[u]
  BY <1>1, <1>2, Telling DEF LabTypeOK
<1> HIDE DEF t
<1>5. /\ LabTypeOK'
  BY <1>1, <1>2, <1>4, SelectionStands DEF LabTypeOK, Stages, pool, labs
<1>6. Elsewhere(g)
  BY <1>1, <1>2, <1>4 DEF LabTypeOK, Elsewhere, labs
<1>7. Handled(g)'
  BY <1>1, <1>3, <1>4 DEF LabTypeOK, Local, Handled, labs
<1>8. \A u \in TestsOf(g) : Followed(g, u)'
  <2> SUFFICES ASSUME NEW u \in TestsOf(g) PROVE Followed(g, u)'
    OBVIOUS
  <2>1. u \in Finished /\ Followed(g, u)
    BY LabsAre DEF LabTypeOK, Finished, Local, Member
  <2>2. u # t => outcome'[u] = outcome[u]
    BY <1>2, <2>1 DEF LabTypeOK
  <2>3. CASE u = t
    BY <1>1, <1>3, <1>4, <2>1, <2>3 DEF Followed
  <2>4. CASE u # t
    BY <1>1, <1>3, <1>4, <2>1, <2>2, <2>4 DEF Followed
  <2> QED BY <2>3, <2>4
<1>9. Member(g)'
  BY <1>1, <1>3, <1>8, SelectionStands DEF Local, Member
<1> QED BY <1>1, <1>3, <1>4, <1>5, <1>6, <1>7, <1>9 DEF Works, Local, AtRest, pool

LEMMA Doing ==
  ASSUME LabTypeOK, NEW g \in Groups, Local(g), DoPart(g) \/ FinishTest(g)
  PROVE  Works(g)
<1>1. UNCHANGED <<sel, pool, labs>> /\ stage[g] = "part" /\ g \in Labs
  BY DEF DoPart, FinishTest, Labs
<1>2. CASE EndTest(g, current[g], "error")
  BY <1>1, <1>2, Ending
<1>3. CASE UNCHANGED <<stage, todo, current, outcome, events>>
  <2>1. LabTypeOK' /\ Elsewhere(g)
    BY <1>1, <1>3, SelectionStands DEF LabTypeOK, Elsewhere, pool, labs
  <2>2. Handled(g)' /\ Member(g)'
    BY <1>1, <1>3, SelectionStands DEF Local, Handled, Member, Followed, labs
  <2> QED BY <1>1, <1>3, <2>1, <2>2 DEF Works, Local, AtRest, pool
<1>4. CASE FinishTest(g)
  <2>1. EndTest(g, current[g], Verdict(bad[current[g]]))
    BY <1>4 DEF FinishTest
  <2>2. Verdict(bad[current[g]]) \in {"passed", "failed", "error"}
    BY DEF Verdict
  <2> QED BY <1>1, <2>1, <2>2, Ending
<1> QED BY <1>2, <1>3, <1>4 DEF DoPart

LEMMA Closing ==
  ASSUME LabTypeOK, NEW g \in Groups, Local(g), CloseGroup(g)
  PROVE  Works(g)
<1>1. /\ UNCHANGED <<sel, pool, progress>>
      /\ stage[g] = "test" /\ g \in Labs /\ todo[g] = {}
      /\ stage' = [stage EXCEPT ![g] = "return"]
  BY DEF CloseGroup, Go, Labs
<1>2. PICK failed \in BOOLEAN :
        /\ Teardown(g, failed)
        /\ events' = [events EXCEPT !.closed = @ \cup {g},
                        !.warned = IF failed THEN @ \cup {g} ELSE @]
  BY DEF CloseGroup
<1>3. stage'[g] = "return"
  BY <1>1 DEF LabTypeOK
<1>4. /\ HandlesTyped /\ HandlesElsewhere(g)
      /\ machine'[g] = "up" /\ gone'[g] => left'[g] # "no"
      /\ machine'[g] = "up" => failed \/ sel.keep
  BY <1>1, <1>2, TearingDown DEF Local, Handled
<1>5. events' = [announced |-> events.announced, closed |-> events.closed \cup {g},
                 warned |-> IF failed THEN events.warned \cup {g} ELSE events.warned,
                 begun |-> events.begun, told |-> events.told, over |-> events.over]
  BY <1>2 DEF LabTypeOK, EventsType
<1>6. events' \in EventsType
  BY <1>5 DEF LabTypeOK, EventsType
<1>7. LabTypeOK'
  BY <1>1, <1>4, <1>6, SelectionStands DEF LabTypeOK, Stages, HandlesTyped, pool, progress
<1>8. Elsewhere(g)
  BY <1>1, <1>4, <1>5 DEF LabTypeOK, Elsewhere, HandlesElsewhere, progress
<1>9. Handled(g)'
  BY <1>1, <1>3, <1>4, <1>5 DEF LabTypeOK, Local, Handled
<1>10. \A t \in TestsOf(g) : Followed(g, t)'
  BY <1>1, <1>3, <1>5 DEF LabTypeOK, Local, Member, Followed, progress
<1>11. Member(g)'
  BY <1>1, <1>3, <1>10, SelectionStands DEF Local, Member, progress
<1> QED BY <1>1, <1>3, <1>5, <1>7, <1>8, <1>9, <1>11 DEF Works, Local, AtRest, pool

\* Whatever a group at work does.
LEMMA Working ==
  ASSUME LabTypeOK, NEW g \in Groups, Local(g), Provision(g) \/ Testing(g)
  PROVE  Works(g)
BY Making, Upping, Awaiting, TornDown, ProvisionFailing, Preparing, Starting, Doing, Closing
   DEF Provision, Testing

-----------------------------------------------------------------------------
(* What the steps of a group keep. *)

\* The other labs, and the turn of the scenarios, when one group has moved.
LEMMA GroupMoves ==
  ASSUME LabTypeOK, LabInv, NEW g \in Groups, phase = "groups",
         Elsewhere(g), Local(g)', phase' = phase, events'.over = events.over
  PROVE  (\A l \in Labs : Local(l))' /\ InTurn'
<1>1. sel \in Selections /\ sel' = sel /\ g \in Labs
  BY DEF LabTypeOK, Elsewhere, Labs
<1>2. (\A l \in Labs : Local(l))'
  BY <1>1, OthersStand, SelectionStands DEF LabInv
<1>3. \A s \in Scenarios :
        /\ s # g /\ s \in Labs /\ s \in Finished /\ s \notin TestsOf(g)
  BY <1>1, LabsAre DEF Labs, Finished
<1>4. \A s \in Scenarios :
        /\ stage'[s] = stage[s] /\ events'.told[s] = events.told[s]
        /\ s \in events'.begun <=> s \in events.begun
  BY <1>3 DEF Elsewhere
<1>5. InTurn'
  BY <1>1, <1>4, SelectionStands DEF LabInv, InTurn
<1> QED BY <1>2, <1>5

\* Only while groups are run is a group at work.
LEMMA AtWork ==
  ASSUME LabInv, NEW g \in Groups, stage[g] \notin AtRest
  PROVE  phase = "groups"
BY DEF LabInv, InTurn

LEMMA ActiveFinite ==
  ASSUME LabTypeOK, NEW k \in Kinds
  PROVE  /\ IsFiniteSet(Active(k)) /\ Cardinality(Active(k)) \in Nat
         /\ sel.cap[k] \in Nat \ {0}
         /\ idle[k] \in Nat /\ cursor[k] \in Nat
<1>1. IsFiniteSet(Active(k))
  BY LabsAre, FS_Subset DEF LabTypeOK, Active
<1> QED BY <1>1, FS_CardinalityType, SelectionTyped DEF LabTypeOK

LEMMA WorkKeeps ==
  ASSUME LabTypeOK, LabInv, NEW g \in Groups, Works(g)
  PROVE  LabInv'
<1>1. sel \in Selections /\ sel' = sel /\ cursor' = cursor /\ idle' = idle
  BY DEF LabTypeOK, Works, Elsewhere
<1>2. (\A l \in Labs : Local(l))' /\ InTurn'
  BY AtWork, GroupMoves DEF Works
<1>3. ASSUME NEW k \in Kinds PROVE Manned(k)'
  <2>1. \A h \in Bucket(k) : h \in Labs /\ (h # g => stage'[h] = stage[h])
    BY <1>1, LabsAre DEF Labs, Works, Elsewhere
  <2>2. \A h \in Bucket(k) : \A x \in AtRest : stage'[h] = x <=> stage[h] = x
    BY <2>1 DEF Works
  <2>3. Active(k)' = Active(k) /\ Ahead(k)' = Ahead(k)
    BY <1>1, <2>1, <2>2, SelectionStands DEF Active, Ahead, Works
  <2> QED BY <1>1, <2>2, <2>3, SelectionStands DEF LabInv, Manned, AtRest
<1> QED BY <1>2, <1>3 DEF LabInv

LEMMA TakingNone ==
  ASSUME LabTypeOK, LabInv, NEW k \in Kinds, Take(k), Ahead(k) = {}, UNCHANGED <<cursor, stage>>
  PROVE  LabTypeOK' /\ LabInv'
<1>1. /\ UNCHANGED <<sel, phase, progress, labs, events>> /\ phase = "groups" /\ idle[k] > 0
      /\ idle' = [idle EXCEPT ![k] = idle[k] - 1]
  BY DEF Take
<1>2. \A j \in Kinds : idle'[j] = IF j = k THEN idle[j] - 1 ELSE idle[j]
  BY <1>1 DEF LabTypeOK
<1>3. idle' \in [Kinds -> Nat]
  BY <1>1 DEF LabTypeOK
<1>4. LabTypeOK'
  BY <1>1, <1>3, SelectionStands DEF LabTypeOK, progress, labs
<1>5. (\A l \in Labs : Local(l))'
  BY <1>1, SelectionStands DEF LabInv, Local, Handled, Member, Followed, progress, labs
<1>6. InTurn'
  BY <1>1, SelectionStands DEF LabInv, InTurn
<1>7. ASSUME NEW j \in Kinds PROVE Manned(j)'
  <2>1. Active(j)' = Active(j) /\ Ahead(j)' = Ahead(j) /\ Bucket(j)' = Bucket(j)
    BY <1>1, SelectionStands DEF Active, Ahead
  <2> QED BY <1>1, <1>2, <2>1, ActiveFinite DEF LabInv, Manned
<1> QED BY <1>4, <1>5, <1>6, <1>7 DEF LabInv

LEMMA TakingOne ==
  ASSUME LabTypeOK, LabInv, NEW k \in Kinds, Take(k), NEW g \in Ahead(k),
         \A h \in Ahead(k) : g <= h, MoveOn(k, g), stage' = [stage EXCEPT ![g] = "make"]
  PROVE  LabTypeOK' /\ LabInv'
<1>1. /\ UNCHANGED <<sel, phase, progress, labs, events>> /\ phase = "groups" /\ idle[k] > 0
      /\ idle' = [idle EXCEPT ![k] = idle[k] - 1]
      /\ cursor' = [cursor EXCEPT ![k] = g + 1]
  BY DEF Take, MoveOn
<1>2. /\ g \in Bucket(k) /\ g \in Groups /\ g \in Labs /\ g \in Nat /\ Bucket(k) \subseteq Groups
      /\ stage[g] = "queued" /\ Local(g)
  BY LabsAre DEF LabTypeOK, LabInv, Manned, Ahead, Labs
<1>3. stage'[g] = "make" /\ \A m \in Labs : m # g => stage'[m] = stage[m]
  BY <1>2 DEF LabTypeOK
<1>4. LabTypeOK'
  <2>1. idle' \in [Kinds -> Nat] /\ cursor' \in [Kinds -> Nat]
    BY <1>1, <1>2 DEF LabTypeOK
  <2>2. stage' \in [Labs -> Stages]
    BY <1>2 DEF LabTypeOK, Stages
  <2> QED BY <1>1, <2>1, <2>2, SelectionStands DEF LabTypeOK, progress, labs
<1>5. Elsewhere(g)
  BY <1>1, <1>3 DEF Elsewhere, progress, labs
<1>6. Local(g)'
  <2>1. Handled(g)'
    BY <1>1, <1>2, <1>3 DEF Local, Handled, labs
  <2>2. \A t \in TestsOf(g) : Followed(g, t)'
    BY <1>1, <1>2, <1>3 DEF Local, Handled, Member, Followed, progress
  <2> QED BY <1>1, <1>2, <1>3, <2>1, <2>2, SelectionStands DEF Local, Member, progress
<1>7. (\A l \in Labs : Local(l))' /\ InTurn'
  BY <1>1, <1>2, <1>5, <1>6, GroupMoves
<1>8. Manned(k)'
  <2>1. ASSUME NEW h \in Bucket(k) PROVE stage'[h] = "queued" <=> h >= g + 1
    <3>1. h \in Nat /\ cursor[k] \in Nat /\ h \in Labs
      BY <1>2, LabsAre DEF LabTypeOK, Labs
    <3>2. stage[h] = "queued" <=> h >= cursor[k]
      BY DEF LabInv, Manned
    <3>3. h >= cursor[k] => g <= h
      BY DEF Ahead
    <3>4. g >= cursor[k]
      BY DEF Ahead
    <3> QED BY <1>2, <1>3, <3>1, <3>2, <3>3, <3>4
  <2>2. cursor'[k] = g + 1 /\ idle'[k] = idle[k] - 1
    BY <1>1 DEF LabTypeOK
  <2>3. \A h \in Bucket(k) : h \in Labs
    BY <1>2 DEF Labs
  <2>4. Active(k)' = Active(k) \cup {g} /\ g \notin Active(k)
    BY <1>1, <1>2, <1>3, <2>3, SelectionStands DEF Active, AtRest
  <2>5. Cardinality(Active(k)') = Cardinality(Active(k)) + 1
    BY <2>4, ActiveFinite, FS_AddElement
  <2>6. idle'[k] + Cardinality(Active(k)') <= sel'.cap[k]
    BY <1>1, <2>2, <2>5, ActiveFinite DEF LabInv, Manned
  <2> QED BY <1>1, <2>1, <2>2, <2>4, <2>6, SelectionStands DEF Manned
<1>9. ASSUME NEW j \in Kinds, j # k PROVE Manned(j)'
  <2>1. \A h \in Bucket(j) : h # g /\ h \in Labs /\ stage'[h] = stage[h]
    BY <1>2, <1>3, <1>9, LabsAre DEF LabTypeOK, Labs, Bucket
  <2>2. cursor'[j] = cursor[j] /\ idle'[j] = idle[j]
    BY <1>1, <1>9 DEF LabTypeOK
  <2>3. Active(j)' = Active(j) /\ Ahead(j)' = Ahead(j)
    BY <1>1, <2>1, <2>2, SelectionStands DEF Active, Ahead
  <2> QED BY <1>1, <2>1, <2>2, <2>3, SelectionStands DEF LabInv, Manned
<1> QED BY <1>4, <1>7, <1>8, <1>9 DEF LabInv

LEMMA Taking ==
  ASSUME LabTypeOK, LabInv, NEW k \in Kinds, Take(k)
  PROVE  LabTypeOK' /\ LabInv'
BY TakingNone, TakingOne DEF Take

\* A group comes to rest: it is no longer active.
LEMMA Resting ==
  ASSUME LabTypeOK, LabInv, NEW g \in Groups, Elsewhere(g), stage[g] \notin AtRest,
         stage'[g] \in {"ended", "panicked"}, cursor' = cursor, NEW k \in Kinds
  PROVE  /\ \A h \in Bucket(k) : stage'[h] = "queued" <=> h >= cursor[k]
         /\ Ahead(k)' = Ahead(k) /\ (g \notin Bucket(k) => Active(k)' = Active(k))
         /\ Cardinality(Active(k)') = Cardinality(Active(k)) - (IF g \in Bucket(k) THEN 1 ELSE 0)
         /\ \A h \in Bucket(k) : stage[h] = "panicked" => stage'[h] = "panicked"
<1>1. sel \in Selections /\ sel' = sel
  BY DEF LabTypeOK, Elsewhere
<1>2. \A h \in Bucket(k) : h \in Labs /\ (h # g => stage'[h] = stage[h])
  BY <1>1, LabsAre DEF Labs, Elsewhere
<1>3. \A h \in Bucket(k) : stage'[h] = "queued" <=> stage[h] = "queued"
  BY <1>2 DEF AtRest
<1>4. Active(k)' = Active(k) \ {g} /\ Ahead(k)' = Ahead(k)
  BY <1>1, <1>2, SelectionStands DEF Active, Ahead, AtRest
<1>5. g \in Active(k) <=> g \in Bucket(k)
  BY DEF Active
<1>6. Cardinality(Active(k)') = Cardinality(Active(k)) - (IF g \in Bucket(k) THEN 1 ELSE 0)
  <2>1. CASE g \in Active(k)
    BY <1>4, <1>5, <2>1, ActiveFinite, FS_RemoveElement
  <2>2. CASE g \notin Active(k)
    <3>1. Active(k)' = Active(k)
      BY <1>4, <2>2
    <3>2. Cardinality(Active(k)') = Cardinality(Active(k)) /\ Cardinality(Active(k)) \in Nat
      BY <3>1, ActiveFinite
    <3>3. g \notin Bucket(k)
      BY <1>5, <2>2
    <3> QED BY <3>2, <3>3
  <2> QED BY <2>1, <2>2
<1>7. g \notin Bucket(k) => Active(k)' = Active(k)
  BY <1>4, <1>5
<1> QED BY <1>2, <1>3, <1>4, <1>6, <1>7 DEF LabInv, Manned, AtRest

LEMMA Returning ==
  ASSUME LabTypeOK, LabInv, NEW g \in Groups, Return(g)
  PROVE  LabTypeOK' /\ LabInv'
<1>1. /\ UNCHANGED <<sel, phase, cursor, progress, events>>
      /\ stage[g] = "return" /\ g \in Labs /\ Local(g) /\ Drop(g)
      /\ stage' = [stage EXCEPT ![g] = "ended"]
      /\ idle' = [idle EXCEPT ![Kind(g)] = idle[Kind(g)] + 1]
  BY DEF Return, Go, Labs, LabInv
<1>2. stage'[g] = "ended" /\ stage[g] \notin AtRest
  BY <1>1 DEF LabTypeOK, AtRest
<1>3. /\ HandlesTyped /\ HandlesElsewhere(g) /\ gone'[g]
      /\ machine'[g] = "up" => machine[g] = "up" /\ (sel.keep \/ left'[g] # "no")
  BY <1>1, Dropping DEF Local
<1>4. Kind(g) \in Kinds /\ sel \in Selections
  BY LabsAre DEF LabTypeOK
<1>5. LabTypeOK'
  <2>1. idle' \in [Kinds -> Nat]
    BY <1>1, <1>4 DEF LabTypeOK
  <2>2. stage' \in [Labs -> Stages]
    BY <1>1 DEF LabTypeOK, Stages, AtRest
  <2> QED BY <1>1, <1>3, <2>1, <2>2, SelectionStands DEF LabTypeOK, HandlesTyped, progress
<1>6. Elsewhere(g)
  BY <1>1, <1>3 DEF LabTypeOK, Elsewhere, HandlesElsewhere, progress
<1>7. Local(g)'
  <2>1. Handled(g)'
    BY <1>1, <1>2, <1>3 DEF LabTypeOK, Local, Handled
  <2>2. \A t \in TestsOf(g) : Followed(g, t)'
    BY <1>1, <1>2 DEF Local, Member, Followed, progress
  <2> QED BY <1>1, <1>2, <2>1, <2>2, SelectionStands DEF Local, Member, progress
<1>8. (\A l \in Labs : Local(l))' /\ InTurn'
  BY <1>1, <1>2, <1>6, <1>7, AtWork, GroupMoves
<1>9. ASSUME NEW k \in Kinds PROVE Manned(k)'
  <2>1. idle'[k] = IF k = Kind(g) THEN idle[k] + 1 ELSE idle[k]
    BY <1>1, <1>4 DEF LabTypeOK
  <2>2. g \in Bucket(k) <=> k = Kind(g)
    BY DEF Bucket
  <2>3. idle'[k] + Cardinality(Active(k)') <= sel'.cap[k]
    BY <1>1, <1>2, <1>6, <2>1, <2>2, Resting, ActiveFinite DEF LabInv, Manned
  <2>4. Ahead(k)' = {} \/ idle'[k] > 0 \/ Active(k)' # {}
                    \/ \E h \in Bucket(k) : stage'[h] = "panicked"
    <3>1. CASE k = Kind(g)
      BY <2>1, <3>1, ActiveFinite
    <3>2. CASE k # Kind(g)
      <4>1. Active(k)' = Active(k) /\ Ahead(k)' = Ahead(k)
        BY <1>1, <1>2, <1>6, <2>2, <3>2, Resting
      <4> QED BY <1>1, <1>2, <1>6, <2>1, <3>2, <4>1, Resting DEF LabInv, Manned
    <3> QED BY <3>1, <3>2
  <2> QED BY <1>1, <1>2, <1>6, <2>3, <2>4, Resting, SelectionStands DEF Manned
<1> QED BY <1>5, <1>8, <1>9 DEF LabInv

LEMMA Panicking ==
  ASSUME LabTypeOK, LabInv, NEW g \in Groups, Panic(g)
  PROVE  LabTypeOK' /\ LabInv'
<1>1. /\ UNCHANGED <<sel, pool, progress, events>>
      /\ stage[g] \notin AtRest /\ phase = "groups" /\ g \in Labs /\ Local(g)
      /\ stage' = [stage EXCEPT ![g] = "panicked"]
      /\ IF stage[g] = "make" THEN UNCHANGED labs ELSE Drop(g)
  BY DEF Panic, AtRest, Labs, LabInv
<1>2. stage'[g] = "panicked"
  BY <1>1 DEF LabTypeOK
<1>3. HandlesTyped /\ HandlesElsewhere(g)
  <2>1. CASE stage[g] = "make"
    BY <1>1, <2>1 DEF LabTypeOK, HandlesTyped, HandlesElsewhere, labs
  <2>2. CASE stage[g] # "make"
    BY <1>1, <2>2, Dropping DEF Local
  <2> QED BY <2>1, <2>2
<1>4. machine'[g] = "up" => gone'[g] /\ (sel.keep \/ left'[g] # "no")
  <2>1. CASE stage[g] = "make"
    BY <1>1, <2>1 DEF Local, Handled, labs
  <2>2. CASE stage[g] # "make"
    BY <1>1, <2>2, Dropping DEF Local
  <2> QED BY <2>1, <2>2
<1>5. LabTypeOK'
  <2>1. stage' \in [Labs -> Stages]
    BY <1>1 DEF LabTypeOK, Stages, AtRest
  <2> QED BY <1>1, <1>3, <2>1, SelectionStands DEF LabTypeOK, HandlesTyped, pool, progress
<1>6. Elsewhere(g)
  BY <1>1, <1>3 DEF LabTypeOK, Elsewhere, HandlesElsewhere, progress
<1>7. Local(g)'
  <2>1. Handled(g)'
    BY <1>1, <1>2, <1>4 DEF Handled
  <2>2. \A t \in TestsOf(g) : Followed(g, t)'
    BY <1>1, <1>2 DEF Local, Member, Followed, progress
  <2> QED BY <1>1, <1>2, <2>1, <2>2, SelectionStands DEF Local, Member, progress
<1>8. (\A l \in Labs : Local(l))' /\ InTurn'
  BY <1>1, <1>6, <1>7, GroupMoves DEF pool
<1>9. ASSUME NEW k \in Kinds PROVE Manned(k)'
  <2>1. cursor' = cursor /\ idle' = idle /\ sel' = sel
    BY <1>1 DEF pool
  <2>2. idle[k] + Cardinality(Active(k)') <= sel.cap[k]
    BY <1>1, <1>2, <1>6, <2>1, Resting, ActiveFinite DEF LabInv, Manned
  <2>3. Ahead(k)' # {} => idle[k] > 0 \/ Active(k)' # {}
                            \/ \E h \in Bucket(k) : stage'[h] = "panicked"
    <3>1. CASE g \in Bucket(k)
      BY <1>2, <3>1
    <3>2. CASE g \notin Bucket(k)
      <4>1. Active(k)' = Active(k) /\ Ahead(k)' = Ahead(k)
        BY <1>1, <1>2, <1>6, <2>1, <3>2, Resting
      <4> QED BY <1>1, <1>2, <1>6, <2>1, <4>1, Resting DEF LabInv, Manned
    <3> QED BY <3>1, <3>2
  <2> QED BY <1>1, <1>2, <1>6, <2>1, <2>2, <2>3, Resting, SelectionStands DEF Manned
<1> QED BY <1>5, <1>8, <1>9 DEF LabInv

LEMMA Joining ==
  ASSUME LabTypeOK, LabInv, Join
  PROVE  LabTypeOK' /\ LabInv'
<1>1. /\ UNCHANGED <<sel, idle, cursor, stage, progress, labs, events>> /\ phase = "groups"
      /\ \A k \in Kinds : idle[k] = 0
      /\ \A g \in Groups : stage[g] \in AtRest
      /\ phase' = IF \E g \in Groups : stage[g] = "panicked" THEN "aborted" ELSE "scenarios"
  BY DEF Join, AtRest
<1>2. LabTypeOK'
  BY <1>1, SelectionStands DEF LabTypeOK, progress, labs
<1>3. (\A l \in Labs : Local(l))'
  BY <1>1, SelectionStands DEF LabInv, Local, Handled, Member, Followed, progress, labs
<1>4. ASSUME NEW k \in Kinds PROVE Manned(k)'
  <2>1. Active(k)' = Active(k) /\ Ahead(k)' = Ahead(k) /\ Bucket(k)' = Bucket(k)
    BY <1>1, SelectionStands DEF Active, Ahead
  <2> QED BY <1>1, <2>1 DEF LabInv, Manned
<1>5. ASSUME phase' # "aborted", NEW g \in Groups PROVE stage[g] = "ended"
  <2>1. \A h \in Groups : stage[h] \in {"queued", "ended"}
    BY <1>1, <1>5 DEF AtRest
  <2>2. Kind(g) \in Kinds /\ g \in Bucket(Kind(g)) /\ Bucket(Kind(g)) \subseteq Groups
    BY LabsAre DEF LabTypeOK
  <2>3. Active(Kind(g)) = {}
    BY <1>1, <2>2 DEF Active
  <2>4. Ahead(Kind(g)) = {}
    BY <1>1, <2>1, <2>2, <2>3 DEF LabInv, Manned
  <2> QED BY <2>1, <2>2, <2>4 DEF LabInv, Manned, Ahead
<1>6. InTurn'
  BY <1>1, <1>5, SelectionStands DEF LabInv, InTurn
<1> QED BY <1>2, <1>3, <1>4, <1>6 DEF LabInv

-----------------------------------------------------------------------------
(* Scenarios. *)

\* A scenario at work: those before it have ended, and the step is its own.
Plays(s) ==
  /\ LabTypeOK' /\ Elsewhere(s) /\ Handled(s)'
  /\ phase = "scenarios" /\ UNCHANGED <<phase, idle, cursor>> /\ events'.over = events.over
  /\ stage[s] # "ended" /\ stage'[s] # "queued"
  /\ events'.told[s] = IF stage'[s] = "ended" THEN 1 ELSE 0
  /\ \A r \in Scenarios : r < s => stage[r] = "ended"

LEMMA PlayKeeps ==
  ASSUME LabTypeOK, LabInv, NEW s \in Scenarios, Plays(s)
  PROVE  LabInv'
<1>1. /\ sel \in Selections /\ sel' = sel /\ s \in Labs /\ s \notin Groups /\ s \in Nat
      /\ Scenarios \subseteq Nat
  BY LabsAre DEF LabTypeOK, Plays, Elsewhere, Labs
<1>2. (\A l \in Labs : Local(l))'
  <2>1. Local(s)'
    BY <1>1, SelectionStands DEF Plays, Local
  <2> QED BY <1>1, <2>1, OthersStand, SelectionStands DEF LabInv, Plays
<1>3. \A g \in Groups : g \in Labs /\ g # s /\ stage'[g] = stage[g]
  BY <1>1 DEF Plays, Elsewhere, Labs
<1>4. ASSUME NEW k \in Kinds PROVE Manned(k)'
  <2>1. \A h \in Bucket(k) : stage'[h] = stage[h]
    BY <1>3, LabsAre DEF LabTypeOK
  <2>2. Active(k)' = Active(k) /\ Ahead(k)' = Ahead(k) /\ Bucket(k)' = Bucket(k)
    BY <1>1, <2>1, SelectionStands DEF Active, Ahead, Plays
  <2> QED BY <1>1, <2>1, <2>2 DEF LabInv, Manned, Plays
<1>5. \A r \in Scenarios : r # s =>
        stage'[r] = stage[r] /\ events'.told[r] = events.told[r]
  BY <1>1 DEF Plays, Elsewhere, Labs, Finished
<1>6. \A q, r \in Scenarios : q < r /\ stage'[r] # "queued" => stage'[q] = "ended"
  <2> SUFFICES ASSUME NEW q \in Scenarios, NEW r \in Scenarios, q < r, stage'[r] # "queued"
               PROVE  stage'[q] = "ended"
    OBVIOUS
  <2>1. CASE r = s
    BY <1>1, <1>5, <2>1 DEF Plays
  <2>2. CASE r # s
    <3>1. stage[q] = "ended"
      BY <1>5, <2>2 DEF LabInv, InTurn
    <3> QED BY <1>5, <3>1 DEF Plays
  <2> QED BY <2>1, <2>2
<1>7. InTurn'
  BY <1>1, <1>3, <1>5, <1>6, SelectionStands DEF LabInv, InTurn, Plays
<1> QED BY <1>2, <1>4, <1>7 DEF LabInv

\* Only after the groups has a scenario begun, and only one has not ended.
LEMMA AtPlay ==
  ASSUME LabTypeOK, LabInv, NEW s \in Scenarios, stage[s] \notin {"queued", "ended"}
  PROVE  /\ phase = "scenarios" /\ s \in Labs /\ s \in Finished /\ Handled(s)
         /\ s \notin Groups /\ s \notin events.announced
         /\ events.told[s] = 0
         /\ \A r \in Scenarios : r < s => stage[r] = "ended"
<1>1. s \in Labs /\ s \in Finished /\ s \notin Groups
  BY LabsAre DEF LabTypeOK, Labs, Finished
<1>2. Handled(s) /\ s \notin events.announced
  BY <1>1 DEF LabTypeOK, LabInv, Local, EventsType
<1> QED BY <1>1, <1>2 DEF LabTypeOK, LabInv, InTurn

LEMMA Staging ==
  ASSUME LabTypeOK, LabInv, NEW s \in Scenarios, StartScenario(s)
  PROVE  LabTypeOK' /\ Plays(s)
<1>1. /\ UNCHANGED <<sel, pool, todo, current, machine, left>>
      /\ phase = "scenarios" /\ stage[s] = "queued"
      /\ \A r \in Scenarios : r < s => stage[r] = "ended"
      /\ events' = [events EXCEPT !.begun = @ \cup {s}]
  BY DEF StartScenario
<1>2. /\ s \in Labs /\ s \in Finished /\ s \notin Groups /\ Handled(s)
      /\ s \notin events.announced /\ events.told[s] = 0
  BY <1>1, LabsAre DEF LabTypeOK, Labs, Finished, LabInv, Local, EventsType, InTurn
<1>3. PICK to \in {"drive", "return"} :
        /\ stage' = [stage EXCEPT ![s] = to]
        /\ outcome' \in {outcome, [outcome EXCEPT ![s] = "error"]}
        /\ gone' = IF to = "drive" THEN gone ELSE [gone EXCEPT ![s] = TRUE]
  BY DEF StartScenario
<1>4. stage'[s] = to /\ (to = "return" => gone'[s])
  BY <1>2, <1>3 DEF LabTypeOK
<1>5. events' = [announced |-> events.announced, closed |-> events.closed,
                 warned |-> events.warned, begun |-> events.begun \cup {s},
                 told |-> events.told, over |-> events.over]
  BY <1>1 DEF LabTypeOK, EventsType
<1>6. events' \in EventsType
  BY <1>2, <1>5 DEF LabTypeOK, EventsType
<1>7. LabTypeOK'
  <2>1. stage' \in [Labs -> Stages]
    BY <1>3 DEF LabTypeOK, Stages
  <2>2. /\ outcome' \in [Finished -> {"none", "passed", "failed", "error"}]
        /\ gone' \in [Labs -> BOOLEAN]
    BY <1>3 DEF LabTypeOK
  <2> QED BY <1>1, <1>6, <2>1, <2>2, SelectionStands DEF LabTypeOK, pool
<1>8. Elsewhere(s)
  BY <1>1, <1>2, <1>3, <1>5 DEF LabTypeOK, Elsewhere
<1>9. Handled(s)'
  BY <1>1, <1>2, <1>3, <1>4, <1>5 DEF LabTypeOK, Handled
<1> QED BY <1>1, <1>2, <1>4, <1>5, <1>7, <1>8, <1>9 DEF Plays, pool

LEMMA Driving ==
  ASSUME LabTypeOK, LabInv, NEW s \in Scenarios, Drive(s)
  PROVE  LabTypeOK' /\ Plays(s)
<1>1. /\ UNCHANGED <<sel, pool, todo, current, gone, left, events>>
      /\ stage[s] = "drive" /\ stage' = [stage EXCEPT ![s] = "teardown"]
      /\ machine' \in {machine, [machine EXCEPT ![s] = "up"]}
  BY DEF Drive, Go
<1>2. PICK o \in {"passed", "failed", "error"} : outcome' = [outcome EXCEPT ![s] = o]
  BY DEF Drive
<1>3. /\ phase = "scenarios" /\ s \in Labs /\ s \in Finished /\ Handled(s)
      /\ s \notin Groups /\ s \notin events.announced /\ events.told[s] = 0
      /\ \A r \in Scenarios : r < s => stage[r] = "ended"
  BY <1>1, AtPlay
<1>4. stage'[s] = "teardown"
  BY <1>1, <1>3 DEF LabTypeOK
<1>5. LabTypeOK'
  BY <1>1, <1>2, SelectionStands DEF LabTypeOK, Stages, pool
<1>6. Elsewhere(s)
  BY <1>1, <1>2, <1>3 DEF LabTypeOK, Elsewhere
<1>7. Handled(s)'
  BY <1>1, <1>3, <1>4 DEF LabTypeOK, Handled
<1> QED BY <1>1, <1>3, <1>4, <1>5, <1>6, <1>7 DEF Plays, pool

LEMMA ClosingScenario ==
  ASSUME LabTypeOK, LabInv, NEW s \in Scenarios, CloseScenario(s)
  PROVE  LabTypeOK' /\ Plays(s)
<1>1. /\ UNCHANGED <<sel, pool, progress, events>>
      /\ stage[s] = "teardown" /\ stage' = [stage EXCEPT ![s] = "return"]
      /\ \E failed \in BOOLEAN : Teardown(s, failed)
  BY DEF CloseScenario, Go
<1>2. /\ phase = "scenarios" /\ s \in Labs /\ s \in Finished /\ Handled(s)
      /\ s \notin Groups /\ s \notin events.announced /\ events.told[s] = 0
      /\ \A r \in Scenarios : r < s => stage[r] = "ended"
  BY <1>1, AtPlay
<1>3. /\ HandlesTyped /\ HandlesElsewhere(s)
      /\ machine'[s] = "up" /\ gone'[s] => left'[s] # "no"
  BY <1>1, <1>2, TearingDown DEF Handled
<1>4. stage'[s] = "return"
  BY <1>1, <1>2 DEF LabTypeOK
<1>5. LabTypeOK'
  BY <1>1, <1>3, SelectionStands DEF LabTypeOK, Stages, HandlesTyped, pool, progress
<1>6. Elsewhere(s)
  BY <1>1, <1>2, <1>3 DEF LabTypeOK, Elsewhere, HandlesElsewhere, progress
<1>7. Handled(s)'
  BY <1>1, <1>2, <1>3, <1>4 DEF LabTypeOK, Handled
<1> QED BY <1>1, <1>2, <1>4, <1>5, <1>6, <1>7 DEF Plays, pool

LEMMA EndingScenario ==
  ASSUME LabTypeOK, LabInv, NEW s \in Scenarios, EndScenario(s)
  PROVE  LabTypeOK' /\ Plays(s)
<1>1. /\ UNCHANGED <<sel, pool, progress>>
      /\ stage[s] = "return" /\ stage' = [stage EXCEPT ![s] = "ended"]
      /\ Drop(s) /\ events' = Tell(events, {s})
  BY DEF EndScenario, Go
<1>2. /\ phase = "scenarios" /\ s \in Labs /\ s \in Finished /\ Handled(s)
      /\ s \notin Groups /\ s \notin events.announced /\ events.told[s] = 0
      /\ \A r \in Scenarios : r < s => stage[r] = "ended"
  BY <1>1, AtPlay
<1>3. /\ HandlesTyped /\ HandlesElsewhere(s) /\ gone'[s]
      /\ machine'[s] = "up" => machine[s] = "up" /\ (sel.keep \/ left'[s] # "no")
  BY <1>1, <1>2, Dropping
<1>4. stage'[s] = "ended"
  BY <1>1, <1>2 DEF LabTypeOK
<1>5. /\ events' \in EventsType
      /\ events'.announced = events.announced /\ events'.warned = events.warned
      /\ events'.closed = events.closed /\ events'.begun = events.begun
      /\ events'.over = events.over
      /\ events'.told[s] = 1
      /\ \A u \in Finished : u # s => events'.told[u] = events.told[u]
  BY <1>1, <1>2, Telling DEF LabTypeOK
<1>6. LabTypeOK'
  <2>1. stage' \in [Labs -> Stages]
    BY <1>1 DEF LabTypeOK, Stages, AtRest
  <2> QED BY <1>1, <1>3, <1>5, <2>1, SelectionStands DEF LabTypeOK, HandlesTyped, pool, progress
<1>7. Elsewhere(s)
  BY <1>1, <1>2, <1>3, <1>5 DEF LabTypeOK, Elsewhere, HandlesElsewhere, progress
<1>8. Handled(s)'
  BY <1>1, <1>2, <1>3, <1>4, <1>5 DEF LabTypeOK, Handled
<1> QED BY <1>1, <1>2, <1>4, <1>5, <1>6, <1>7, <1>8 DEF Plays, pool

LEMMA RunEnding ==
  ASSUME LabTypeOK, LabInv, RunEnds
  PROVE  LabTypeOK' /\ LabInv'
<1>1. /\ UNCHANGED <<sel, idle, cursor, stage, progress, labs>> /\ phase = "scenarios"
      /\ \A s \in Scenarios : stage[s] = "ended"
      /\ phase' = "done"
      /\ events' = [events EXCEPT !.over = TRUE]
  BY DEF RunEnds
<1>2. events' = [announced |-> events.announced, closed |-> events.closed,
                 warned |-> events.warned, begun |-> events.begun,
                 told |-> events.told, over |-> TRUE]
  BY <1>1 DEF LabTypeOK, EventsType
<1>3. events' \in EventsType
  BY <1>2 DEF LabTypeOK, EventsType
<1>4. LabTypeOK'
  BY <1>1, <1>3, SelectionStands DEF LabTypeOK, progress, labs
<1>5. (\A l \in Labs : Local(l))'
  BY <1>1, <1>2, SelectionStands DEF LabInv, Local, Handled, Member, Followed, progress, labs
<1>6. ASSUME NEW k \in Kinds PROVE Manned(k)'
  <2>1. Active(k)' = Active(k) /\ Ahead(k)' = Ahead(k) /\ Bucket(k)' = Bucket(k)
    BY <1>1, SelectionStands DEF Active, Ahead
  <2> QED BY <1>1, <2>1 DEF LabInv, Manned
<1>7. InTurn'
  BY <1>1, <1>2, SelectionStands DEF LabInv, InTurn
<1> QED BY <1>4, <1>5, <1>6, <1>7 DEF LabInv

-----------------------------------------------------------------------------
(* Theorems. *)

LEMMA Beginning == Init => LabTypeOK /\ LabInv
<1> SUFFICES ASSUME Init PROVE LabTypeOK /\ LabInv
  OBVIOUS
<1>1. sel \in Selections
  BY DEF Init
<1>2. \A k \in Kinds :
        /\ Cardinality(Bucket(k)) \in Nat /\ sel.cap[k] \in Nat \ {0}
        /\ Workers(k) \in Nat /\ Workers(k) <= sel.cap[k]
        /\ Bucket(k) # {} => Workers(k) > 0
  <2> SUFFICES ASSUME NEW k \in Kinds
               PROVE  /\ Cardinality(Bucket(k)) \in Nat /\ sel.cap[k] \in Nat \ {0}
                      /\ Workers(k) \in Nat /\ Workers(k) <= sel.cap[k]
                      /\ Bucket(k) # {} => Workers(k) > 0
    OBVIOUS
  <2>1. IsFiniteSet(Bucket(k)) /\ Cardinality(Bucket(k)) \in Nat
    BY <1>1, LabsAre, FS_CardinalityType
  <2>2. Bucket(k) # {} => Cardinality(Bucket(k)) # 0
    BY <2>1, FS_EmptySet
  <2>3. sel.cap[k] \in Nat \ {0}
    BY <1>1, SelectionTyped
  <2> QED BY <2>1, <2>2, <2>3 DEF Workers
<1>3. events \in EventsType
  BY DEF Init, EventsType, Finished
<1>4. LabTypeOK
  BY <1>1, <1>2, <1>3, LabsAre DEF Init, LabTypeOK, Finished, Stages, AtRest
<1>5. ASSUME NEW l \in Labs PROVE Local(l)
  <2>1. Handled(l)
    BY <1>5 DEF Init, Handled
  <2>2. l \in Groups => Member(l)
    BY <1>1, LabsAre DEF Init, Member, Followed, Labs
  <2> QED BY <2>1, <2>2 DEF Local
<1>6. ASSUME NEW k \in Kinds PROVE Manned(k)
  <2>1. \A g \in Bucket(k) : g \in Labs /\ g \in Nat /\ g >= 1
    BY <1>1, LabsAre, SelectionTyped DEF Labs, Tests
  <2>2. \A g \in Bucket(k) : stage[g] = "queued"
    BY <2>1 DEF Init
  <2>3. Active(k) = {}
    BY <2>2 DEF Active, AtRest
  <2>4. Cardinality(Active(k)) = 0
    BY <2>3, FS_EmptySet
  <2>5. idle[k] = Workers(k) /\ cursor[k] = 1
    BY DEF Init
  <2> QED BY <1>2, <2>1, <2>2, <2>4, <2>5 DEF Manned, Ahead
<1>7. InTurn
  BY DEF Init, InTurn, Labs, AtRest
<1> QED BY <1>4, <1>5, <1>6, <1>7 DEF LabInv

LEMMA Stepping == LabTypeOK /\ LabInv /\ [Next]_vars => LabTypeOK' /\ LabInv'
<1> SUFFICES ASSUME LabTypeOK, LabInv, [Next]_vars PROVE LabTypeOK' /\ LabInv'
  OBVIOUS
<1>1. ASSUME NEW k \in Kinds, Take(k) PROVE LabTypeOK' /\ LabInv'
  BY <1>1, Taking
<1>2. ASSUME NEW g \in Groups, Provision(g) \/ Testing(g) PROVE LabTypeOK' /\ LabInv'
  <2>1. Local(g)
    BY DEF LabInv, Labs
  <2>2. Works(g)
    BY <1>2, <2>1, Working
  <2> QED BY <2>2, WorkKeeps DEF Works
<1>3. ASSUME NEW g \in Groups, Return(g) PROVE LabTypeOK' /\ LabInv'
  BY <1>3, Returning
<1>4. ASSUME NEW g \in Groups, Panic(g) PROVE LabTypeOK' /\ LabInv'
  BY <1>4, Panicking
<1>5. CASE Join
  BY <1>5, Joining
<1>6. ASSUME NEW s \in Scenarios, Scenario(s) PROVE LabTypeOK' /\ LabInv'
  <2>1. LabTypeOK' /\ Plays(s)
    BY <1>6, Staging, Driving, ClosingScenario, EndingScenario DEF Scenario
  <2> QED BY <2>1, PlayKeeps
<1>7. CASE RunEnds
  BY <1>7, RunEnding
<1>8. CASE UNCHANGED vars
  <2>1. /\ UNCHANGED <<sel, phase, idle, cursor, stage, todo, current, outcome, events>>
        /\ UNCHANGED <<machine, gone, left>>
    BY <1>8 DEF vars, pool, progress, labs
  <2>2. LabTypeOK'
    BY <2>1, SelectionStands DEF LabTypeOK
  <2>3. (\A l \in Labs : Local(l))' /\ InTurn'
    BY <2>1, SelectionStands DEF LabInv, Local, Handled, Member, Followed, InTurn
  <2>4. ASSUME NEW k \in Kinds PROVE Manned(k)'
    <3>1. Active(k)' = Active(k) /\ Ahead(k)' = Ahead(k) /\ Bucket(k)' = Bucket(k)
      BY <2>1, SelectionStands DEF Active, Ahead
    <3> QED BY <2>1, <3>1 DEF LabInv, Manned
  <2> QED BY <2>2, <2>3, <2>4 DEF LabInv
<1> QED BY <1>1, <1>2, <1>3, <1>4, <1>5, <1>6, <1>7, <1>8 DEF Next, Over

\* The state of a run is typed, and the invariant holds, at every moment.
THEOREM LabInvariant == Spec => [](LabTypeOK /\ LabInv)
BY Beginning, Stepping, PTL DEF Spec

\* A machine outlives its handle only where the run was told to keep it or
\* vmlab did not destroy it, and a group that ran says so (guest.rs, Drop).
THEOREM NothingLeaks == Spec => []NoLeak
<1>1. LabTypeOK /\ LabInv => NoLeak
  BY DEF LabTypeOK, LabInv, Local, Handled, NoLeak
<1> QED BY <1>1, LabInvariant, PTL

\* The consumer hears of each test once, and not before its machine
\* (runner.rs, run_group).
THEOREM TellingIsOrdered == Spec => []ToldInOrder
<1>1. LabTypeOK /\ LabInv => ToldInOrder
  <2> SUFFICES ASSUME LabTypeOK, LabInv PROVE ToldInOrder
    OBVIOUS
  <2>1. \A g \in Groups : \A t \in TestsOf(g) : Followed(g, t)
    BY DEF LabInv, Local, Member, Labs
  <2>2. ASSUME phase \in {"scenarios", "done"}, NEW t \in Tests PROVE events.told[t] = 1
    <3>1. PICK g \in Groups : t \in TestsOf(g)
      BY Covered DEF LabTypeOK
    <3> QED BY <2>1, <2>2, <3>1 DEF LabInv, InTurn, Followed
  <2>3. \A s \in Scenarios : s \in events.begun => phase \in {"scenarios", "done"}
    BY DEF LabTypeOK, LabInv, InTurn
  <2>4. events.over => \A t \in Finished : events.told[t] = 1
    BY <2>2 DEF LabInv, InTurn, Finished
  <2>5. DOMAIN events.told = Finished
    BY DEF LabTypeOK, EventsType
  <2> QED BY <2>1, <2>2, <2>3, <2>4, <2>5 DEF ToldInOrder, Followed
<1> QED BY <1>1, LabInvariant, PTL

\* The machines that groups use stay within the cap of their kind, and groups
\* and scenarios do not overlap (runner.rs, run_groups).
THEOREM CapHolds == Spec => []LiveWithinCap
<1>1. LabTypeOK /\ LabInv => LiveWithinCap
  <2> SUFFICES ASSUME LabTypeOK, LabInv PROVE LiveWithinCap
    OBVIOUS
  <2> DEFINE Live == {l \in Labs : machine[l] = "up" /\ stage[l] \notin {"ended", "panicked"}}
  <2>1. \A l \in Live : l \in Labs /\ stage[l] \notin AtRest
    BY DEF LabInv, Local, Handled, AtRest
  <2>2. ASSUME NEW k \in Kinds
        PROVE  Cardinality({g \in Live \cap Groups : Kind(g) = k}) <= sel.cap[k]
    <3> DEFINE S == {g \in Live \cap Groups : Kind(g) = k}
    <3>1. S \subseteq Active(k)
      BY <2>1 DEF Active, Bucket
    <3>2. Cardinality(S) <= Cardinality(Active(k)) /\ Cardinality(S) \in Nat
      <4> HIDE DEF S
      <4> QED BY <3>1, ActiveFinite, FS_Subset, FS_CardinalityType
    <3>3. idle[k] + Cardinality(Active(k)) <= sel.cap[k]
      BY DEF LabInv, Manned
    <3> HIDE DEF S
    <3>4. Cardinality(S) <= sel.cap[k]
      BY <3>2, <3>3, ActiveFinite
    <3> QED BY <3>4 DEF S
  <2>3. ASSUME phase # "groups" PROVE Cardinality(Live) <= 1 /\ Live \cap Groups = {}
    <3>1. Live \cap Groups = {}
      BY <2>1, <2>3 DEF LabInv, InTurn
    <3>2. Live \subseteq Scenarios /\ Scenarios \subseteq Nat
      BY <2>1, <3>1, LabsAre DEF LabTypeOK, Labs
    <3>3. \A r, s \in Live : r = s
      <4> SUFFICES ASSUME NEW r \in Live, NEW s \in Live, r # s PROVE FALSE
        OBVIOUS
      <4> HIDE DEF Live
      <4>1. r < s \/ s < r
        BY <3>2
      <4>2. /\ r \in Scenarios /\ stage[r] \notin {"queued", "ended"}
            /\ s \in Scenarios /\ stage[s] \notin {"queued", "ended"}
        BY <2>1, <3>2 DEF AtRest
      <4> QED BY <4>1, <4>2 DEF LabInv, InTurn
    <3> HIDE DEF Live
    <3>4. ASSUME NEW x \in Live PROVE Live = {x}
      BY <3>3
    <3>5. Cardinality(Live) <= 1
      <4>1. CASE Live = {}
        BY <4>1, FS_EmptySet
      <4>2. ASSUME NEW x \in Live PROVE Cardinality(Live) <= 1
        <5>1. Cardinality({x}) = 1
          BY FS_Singleton
        <5> QED BY <3>4, <5>1
      <4> QED BY <4>1, <4>2
    <3> QED BY <3>1, <3>5
  <2> HIDE DEF Live
  <2> QED BY <2>2, <2>3 DEF LiveWithinCap, Live
<1> QED BY <1>1, LabInvariant, PTL

-----------------------------------------------------------------------------
(* What sorting keeps: for a finite number of naturals, the values, in      *)
(* order, and each once where each was there once.                          *)

LEMMA LeastOf ==
  ASSUME NEW S, S # {}, S \subseteq Nat
  PROVE  \E n \in S : \A m \in S : n <= m
<1>1. PICK n \in S : \A m \in S : ~(<<m, n>> \in OpToRel(<, Nat))
  BY NatLessThanWellFounded, WFMin, Zenon
<1>2. \A m \in S : ~(m < n)
  BY <1>1 DEF OpToRel
<1> QED BY <1>2

\* More values are up to a larger one.
LEMMA UpToGrows ==
  ASSUME NEW f, IsFiniteSet(DOMAIN f), \A i \in DOMAIN f : f[i] \in Nat,
         NEW v \in Nat
  PROVE  /\ UpTo(f, v) \in 0 .. Cardinality(DOMAIN f)
         /\ v \in Range(f) => 1 <= UpTo(f, v)
         /\ v \in Range(f) => \A w \in Nat : w < v => UpTo(f, w) < UpTo(f, v)
<1> DEFINE Below(w) == {i \in DOMAIN f : f[i] <= w}
<1>1. \A w : /\ IsFiniteSet(Below(w)) /\ UpTo(f, w) = Cardinality(Below(w))
             /\ UpTo(f, w) \in Nat /\ UpTo(f, w) <= Cardinality(DOMAIN f)
  <2> TAKE w
  <2>1. Below(w) \in SUBSET DOMAIN f /\ UpTo(f, w) = Cardinality(Below(w))
    BY DEF UpTo
  <2> HIDE DEF Below
  <2> QED BY <2>1, FS_Subset, FS_CardinalityType
<1>2. Cardinality(DOMAIN f) \in Nat
  BY FS_CardinalityType
<1>3. ASSUME v \in Range(f)
      PROVE  1 <= UpTo(f, v) /\ \A w \in Nat : w < v => UpTo(f, w) < UpTo(f, v)
  <2>1. PICK i \in DOMAIN f : f[i] = v
    BY <1>3 DEF Range
  <2>2. i \in Below(v)
    BY <2>1
  <2>3. UpTo(f, v) # 0
    <3> HIDE DEF Below
    <3> QED BY <1>1, <2>2, FS_EmptySet
  <2>4. ASSUME NEW w \in Nat, w < v PROVE UpTo(f, w) < UpTo(f, v)
    <3>1. i \notin Below(w) /\ Below(w) \subseteq Below(v)
      BY <2>1, <2>4
    <3> HIDE DEF Below
    <3>2. Below(w) \in SUBSET Below(v) /\ Below(w) # Below(v)
      BY <2>2, <3>1
    <3>3. Cardinality(Below(w)) <= Cardinality(Below(v))
          /\ (Cardinality(Below(w)) = Cardinality(Below(v)) => Below(w) = Below(v))
      BY <1>1, <3>2, FS_Subset
    <3> QED BY <1>1, <3>2, <3>3
  <2>5. UpTo(f, v) \in Nat
    BY <1>1
  <2>6. 1 <= UpTo(f, v)
    BY <2>3, <2>5
  <2> QED BY <2>4, <2>6
<1> QED
  <2>1. UpTo(f, v) \in Nat /\ UpTo(f, v) <= Cardinality(DOMAIN f)
    BY <1>1
  <2>2. UpTo(f, v) \in 0 .. Cardinality(DOMAIN f)
    BY <1>2, <2>1
  <2> QED BY <1>3, <2>2

LEMMA GreatestOf ==
  ASSUME NEW f, IsFiniteSet(DOMAIN f), \A i \in DOMAIN f : f[i] \in Nat, DOMAIN f # {}
  PROVE  \E v \in Range(f) : UpTo(f, v) = Cardinality(DOMAIN f)
<1> DEFINE Short == {Cardinality(DOMAIN f) - UpTo(f, v) : v \in Range(f)}
<1>1. Cardinality(DOMAIN f) \in Nat /\ Range(f) # {} /\ Range(f) \subseteq Nat
  BY FS_CardinalityType DEF Range
<1>2. \A v \in Range(f) : UpTo(f, v) \in 0 .. Cardinality(DOMAIN f)
  BY <1>1, UpToGrows
<1>3. Short # {} /\ Short \subseteq Nat
  BY <1>1, <1>2
<1>4. PICK n \in Short : \A m \in Short : n <= m
  <2> HIDE DEF Short
  <2> QED BY <1>3, LeastOf
<1>5. PICK v \in Range(f) : n = Cardinality(DOMAIN f) - UpTo(f, v)
  OBVIOUS
<1>6. \A i \in DOMAIN f : f[i] <= v
  <2> SUFFICES ASSUME NEW i \in DOMAIN f, v < f[i] PROVE FALSE
    BY <1>1
  <2>1. f[i] \in Range(f) /\ f[i] \in Nat /\ v \in Nat
    BY <1>1 DEF Range
  <2>2. UpTo(f, v) < UpTo(f, f[i])
    BY <2>1, UpToGrows
  <2>3. Cardinality(DOMAIN f) - UpTo(f, v) <= Cardinality(DOMAIN f) - UpTo(f, f[i])
    BY <1>4, <1>5, <2>1
  <2> QED BY <1>1, <1>2, <2>1, <2>2, <2>3
<1>7. {i \in DOMAIN f : f[i] <= v} = DOMAIN f
  BY <1>6
<1> QED BY <1>7 DEF UpTo

LEMMA NthIs ==
  ASSUME NEW f, IsFiniteSet(DOMAIN f), \A i \in DOMAIN f : f[i] \in Nat,
         NEW n \in 1 .. Cardinality(DOMAIN f)
  PROVE  /\ Sorted(f)[n] \in Range(f) /\ n <= UpTo(f, Sorted(f)[n])
         /\ \A w \in Range(f) : n <= UpTo(f, w) => Sorted(f)[n] <= w
<1> DEFINE S == {v \in Range(f) : n <= UpTo(f, v)}
<1>1. S # {} /\ S \subseteq Nat
  <2>1. DOMAIN f # {}
    BY FS_EmptySet
  <2>2. PICK v \in Range(f) : UpTo(f, v) = Cardinality(DOMAIN f)
    BY <2>1, GreatestOf
  <2>3. n <= Cardinality(DOMAIN f)
    OBVIOUS
  <2> QED BY <2>2, <2>3 DEF Range
<1>2. PICK v \in S : \A w \in S : v <= w
  <2> HIDE DEF S
  <2> QED BY <1>1, LeastOf
<1>3. \E u \in Range(f) : n <= UpTo(f, u) /\ \A w \in Range(f) : n <= UpTo(f, w) => u <= w
  BY <1>2
<1>4. Sorted(f)[n] = CHOOSE u \in Range(f) :
                       n <= UpTo(f, u) /\ \A w \in Range(f) : n <= UpTo(f, w) => u <= w
  BY DEF Sorted
<1> QED BY <1>3, <1>4

\* Sorting keeps the values.
LEMMA SortedKeeps ==
  ASSUME NEW f, IsFiniteSet(DOMAIN f), \A i \in DOMAIN f : f[i] \in Nat
  PROVE  /\ DOMAIN Sorted(f) = 1 .. Cardinality(DOMAIN f)
         /\ Sorted(f) \in Seq(Range(f)) /\ Len(Sorted(f)) = Cardinality(DOMAIN f)
         /\ Range(Sorted(f)) = Range(f)
<1>1. Cardinality(DOMAIN f) \in Nat /\ DOMAIN Sorted(f) = 1 .. Cardinality(DOMAIN f)
  BY FS_CardinalityType DEF Sorted
<1>2. \A n \in 1 .. Cardinality(DOMAIN f) : Sorted(f)[n] \in Range(f)
  BY NthIs
<1>3. ASSUME NEW v \in Range(f) PROVE \E n \in DOMAIN Sorted(f) : Sorted(f)[n] = v
  <2> DEFINE n == UpTo(f, v)
  <2>1. v \in Nat /\ \A w \in Range(f) : w \in Nat
    BY DEF Range
  <2>2. n \in 1 .. Cardinality(DOMAIN f)
    BY <2>1, UpToGrows
  <2>3. Sorted(f)[n] <= v /\ Sorted(f)[n] \in Range(f) /\ n <= UpTo(f, Sorted(f)[n])
    <3> HIDE DEF n
    <3> QED BY <2>2, NthIs DEF n
  <2> DEFINE w == Sorted(f)[n]
  <2>4. w \in Nat /\ w <= v /\ UpTo(f, v) <= UpTo(f, w)
    BY <2>1, <2>3
  <2>5. /\ w < v => UpTo(f, w) < UpTo(f, v)
        /\ UpTo(f, v) \in Nat /\ UpTo(f, w) \in Nat
    <3> HIDE DEF w, n
    <3>1. UpTo(f, v) \in 0 .. Cardinality(DOMAIN f) /\ UpTo(f, w) \in 0 .. Cardinality(DOMAIN f)
      BY <2>1, <2>4, UpToGrows
    <3>2. w < v => UpTo(f, w) < UpTo(f, v)
      BY <2>1, <2>4, UpToGrows
    <3> QED BY <3>1, <3>2
  <2>6. w = v
    <3> HIDE DEF w, n
    <3> QED BY <2>1, <2>4, <2>5
  <2> QED BY <1>1, <2>2, <2>6
<1>4. Sorted(f) = [n \in 1 .. Cardinality(DOMAIN f) |-> Sorted(f)[n]]
  BY DEF Sorted
<1>5. Sorted(f) \in Seq(Range(f)) /\ Len(Sorted(f)) = Cardinality(DOMAIN f)
  BY <1>1, <1>2, <1>4
<1>6. Range(Sorted(f)) = Range(f)
  BY <1>1, <1>2, <1>3 DEF Range
<1> QED BY <1>1, <1>5, <1>6

\* A function that has each value once has a bijection to its values.
LEMMA OnceEach ==
  ASSUME NEW f, IsFiniteSet(DOMAIN f), IsInjective(f)
  PROVE  IsFiniteSet(Range(f)) /\ Cardinality(Range(f)) = Cardinality(DOMAIN f)
<1>1. [i \in DOMAIN f |-> f[i]] \in Bijection(DOMAIN f, Range(f))
  BY DEF Bijection, Injection, Surjection, IsInjective, Range
<1> QED BY <1>1, FS_Bijection DEF ExistsBijection

\* What was there once is there once when sorted.
LEMMA SortedOnce ==
  ASSUME NEW f, IsFiniteSet(DOMAIN f), \A i \in DOMAIN f : f[i] \in Nat, IsInjective(f)
  PROVE  IsInjective(Sorted(f))
<1> DEFINE N == Cardinality(DOMAIN f)
<1>1. /\ N \in Nat /\ IsFiniteSet(1 .. N) /\ Cardinality(1 .. N) = N
  <2>1. N \in Nat
    BY FS_CardinalityType
  <2> HIDE DEF N
  <2>2. IsFiniteSet(1 .. N) /\ Cardinality(1 .. N) = IF 1 > N THEN 0 ELSE N - 1 + 1
    BY <2>1, FS_Interval
  <2> QED BY <2>1, <2>2
<1>2. Cardinality(Range(f)) = N
  BY OnceEach
<1>3. DOMAIN Sorted(f) = 1 .. N /\ Range(Sorted(f)) = Range(f)
  BY SortedKeeps
<1>4. Sorted(f) \in [1 .. N -> Range(f)]
  BY <1>3, SortedKeeps
<1> HIDE DEF N
<1>5. Sorted(f) \in Surjection(1 .. N, Range(f))
  BY <1>3, <1>4 DEF Surjection, Range
<1>6. Sorted(f) \in Injection(1 .. N, Range(f))
  BY <1>1, <1>2, <1>5, FS_SurjSameCardinalityImpliesInj
<1> QED BY <1>6 DEF Injection

\* All the numbers up to one, each once, are in their places when sorted.
LEMMA SortedAll ==
  ASSUME NEW f, IsFiniteSet(DOMAIN f), IsInjective(f), NEW N \in Nat, Range(f) = 1 .. N
  PROVE  Sorted(f) = [i \in 1 .. N |-> i]
<1>1. \A i \in DOMAIN f : f[i] \in 1 .. N
  BY DEF Range
<1>2. ASSUME NEW v \in 0 .. N PROVE IsFiniteSet(1 .. v) /\ Cardinality(1 .. v) = v
  <2>1. IsFiniteSet(1 .. v) /\ Cardinality(1 .. v) = IF 1 > v THEN 0 ELSE v - 1 + 1
    BY FS_Interval
  <2> QED BY <2>1
<1>3. Cardinality(DOMAIN f) = N
  BY <1>2, OnceEach
<1>4. ASSUME NEW v \in 1 .. N PROVE UpTo(f, v) = v
  <2> DEFINE S == {i \in DOMAIN f : f[i] <= v}
  <2>1. [i \in S |-> f[i]] \in Bijection(S, 1 .. v)
    <3>1. \A i \in S : f[i] \in 1 .. v
      BY <1>1
    <3>2. \A t \in 1 .. v : \E i \in S : f[i] = t
      <4> TAKE t \in 1 .. v
      <4>1. t \in Range(f) /\ t <= v
        OBVIOUS
      <4> QED BY <4>1 DEF Range
    <3>3. \A a, b \in S : f[a] = f[b] => a = b
      BY DEF IsInjective
    <3> HIDE DEF S
    <3> QED BY <3>1, <3>2, <3>3 DEF Bijection, Injection, Surjection, IsInjective
  <2>2. IsFiniteSet(S)
    BY FS_Subset
  <2>3. UpTo(f, v) = Cardinality(S)
    BY DEF UpTo
  <2> HIDE DEF S
  <2>4. Cardinality(1 .. v) = Cardinality(S)
    BY <2>1, <2>2, FS_Bijection DEF ExistsBijection
  <2> QED BY <1>2, <2>3, <2>4
<1>5. ASSUME NEW n \in 1 .. N PROVE Sorted(f)[n] = n
  <2>1. \A i \in DOMAIN f : f[i] \in Nat
    BY <1>1
  <2>2. /\ Sorted(f)[n] \in 1 .. N /\ n <= UpTo(f, Sorted(f)[n])
        /\ (n <= UpTo(f, n) => Sorted(f)[n] <= n)
    BY <1>3, <2>1, NthIs
  <2>3. UpTo(f, n) = n /\ UpTo(f, Sorted(f)[n]) = Sorted(f)[n]
    BY <1>4, <2>2
  <2> QED BY <2>2, <2>3
<1> QED BY <1>3, <1>5 DEF Sorted

\* The members of a set, each once.
LEMMA AscendingIs ==
  ASSUME NEW S \in SUBSET Nat, IsFiniteSet(S)
  PROVE  /\ Ascending(S) \in Seq(S) /\ Range(Ascending(S)) = S /\ IsInjective(Ascending(S))
         /\ DOMAIN Ascending(S) = 1 .. Len(Ascending(S)) /\ Len(Ascending(S)) \in Nat
<1> DEFINE f == [x \in S |-> x]
<1>1. /\ DOMAIN f = S /\ IsFiniteSet(DOMAIN f) /\ \A i \in DOMAIN f : f[i] \in Nat
      /\ IsInjective(f) /\ Range(f) = S /\ Ascending(S) = Sorted(f)
  BY DEF IsInjective, Range, Ascending
<1> HIDE DEF f
<1>2. Sorted(f) \in Seq(S) /\ Range(Sorted(f)) = S
  BY <1>1, SortedKeeps
<1>3. IsInjective(Sorted(f))
  BY <1>1, SortedOnce
<1> QED BY <1>1, <1>2, <1>3

-----------------------------------------------------------------------------
(* Reports. *)

\* The test, or the scenario, is over as far as the run goes.
Reported(t) ==
  \/ \E g \in Groups : t \in TestsOf(g) /\ stage[g] = "ended"
  \/ t \in Scenarios /\ stage[t] = "ended"

\* There is one report of each that is over, and in the end they are sorted.
Reports ==
  /\ results \in Seq(Nat) /\ IsInjective(results)
  /\ Range(results) = {t \in Finished : Reported(t)}
  /\ phase = "done" => results = [i \in 1 .. Len(sel.tests) + sel.scenarios |-> i]

\* Sequences without anything in common.
LEMMA Joined ==
  ASSUME NEW p \in Seq(Nat), NEW q \in Seq(Nat), IsInjective(p), IsInjective(q),
         Range(p) \cap Range(q) = {}
  PROVE  /\ p \o q \in Seq(Nat) /\ IsInjective(p \o q)
         /\ Range(p \o q) = Range(p) \cup Range(q)
<1>1. /\ p \o q \in Seq(Nat) /\ Len(p \o q) = Len(p) + Len(q)
      /\ DOMAIN (p \o q) = 1 .. Len(p) + Len(q)
      /\ DOMAIN p = 1 .. Len(p) /\ DOMAIN q = 1 .. Len(q)
      /\ Len(p) \in Nat /\ Len(q) \in Nat
  OBVIOUS
<1>2. /\ \A i \in DOMAIN p : i \in DOMAIN (p \o q) /\ (p \o q)[i] = p[i]
      /\ \A i \in DOMAIN q : Len(p) + i \in DOMAIN (p \o q) /\ (p \o q)[Len(p) + i] = q[i]
  BY <1>1
<1>3. ASSUME NEW i \in DOMAIN (p \o q)
      PROVE  \/ i \in DOMAIN p
             \/ i - Len(p) \in DOMAIN q /\ i = Len(p) + (i - Len(p))
  BY <1>1
<1>4. Range(p \o q) = Range(p) \cup Range(q)
  <2>1. \A i \in DOMAIN (p \o q) : (p \o q)[i] \in Range(p) \cup Range(q)
    BY <1>2, <1>3 DEF Range
  <2>2. \A x \in Range(p) \cup Range(q) : \E i \in DOMAIN (p \o q) : (p \o q)[i] = x
    BY <1>2 DEF Range
  <2>3. Range(p \o q) = {(p \o q)[i] : i \in DOMAIN (p \o q)}
    BY DEF Range
  <2>4. \A x \in Range(p \o q) : x \in Range(p) \cup Range(q)
    BY <2>1, <2>3
  <2>5. \A x \in Range(p) \cup Range(q) : x \in Range(p \o q)
    BY <2>2, <2>3
  <2> QED BY <2>4, <2>5
<1>5. ASSUME NEW i \in DOMAIN (p \o q), NEW j \in DOMAIN (p \o q), (p \o q)[i] = (p \o q)[j]
      PROVE  i = j
  <2>1. CASE i \in DOMAIN p /\ j \in DOMAIN p
    BY <1>2, <1>5, <2>1 DEF IsInjective
  <2>2. CASE i \notin DOMAIN p /\ j \notin DOMAIN p
    <3>1. i - Len(p) = j - Len(p)
      BY <1>2, <1>3, <1>5, <2>2 DEF IsInjective
    <3> QED BY <1>1, <3>1
  <2>3. CASE i \in DOMAIN p /\ j \notin DOMAIN p
    <3>1. p[i] \in Range(p) /\ q[j - Len(p)] \in Range(q)
      BY <1>3, <2>3 DEF Range
    <3> QED BY <1>2, <1>3, <1>5, <2>3, <3>1
  <2>4. CASE i \notin DOMAIN p /\ j \in DOMAIN p
    <3>1. p[j] \in Range(p) /\ q[i - Len(p)] \in Range(q)
      BY <1>3, <2>4 DEF Range
    <3> QED BY <1>2, <1>3, <1>5, <2>4, <3>1
  <2> QED BY <2>1, <2>2, <2>3, <2>4
<1> QED BY <1>1, <1>4, <1>5 DEF IsInjective

\* Nothing but its return ends a group, nothing but its end a scenario.
LEMMA Unended ==
  ASSUME LabTypeOK, LabInv, [Next]_vars,
         \A g \in Groups : ~Return(g), \A s \in Scenarios : ~EndScenario(s)
  PROVE  sel' = sel /\ \A l \in Labs : stage'[l] = "ended" <=> stage[l] = "ended"
<1>1. ASSUME NEW k \in Kinds, Take(k)
      PROVE  sel' = sel /\ \A l \in Labs : stage'[l] = "ended" <=> stage[l] = "ended"
  <2>1. sel' = sel
    BY <1>1 DEF Take
  <2>2. CASE UNCHANGED stage
    BY <2>1, <2>2
  <2>3. ASSUME NEW g \in Ahead(k), stage' = [stage EXCEPT ![g] = "make"]
        PROVE  \A l \in Labs : stage'[l] = "ended" <=> stage[l] = "ended"
    <3>1. stage[g] = "queued"
      BY <2>3 DEF Ahead, LabInv, Manned
    <3> QED BY <2>3, <3>1 DEF LabTypeOK
  <2> QED BY <1>1, <2>1, <2>2, <2>3 DEF Take
<1>2. ASSUME NEW g \in Groups, Provision(g) \/ Testing(g)
      PROVE  sel' = sel /\ \A l \in Labs : stage'[l] = "ended" <=> stage[l] = "ended"
  <2>1. sel' = sel /\ \/ stage' = stage
                      \/ \E to \in Stages \ {"ended"} :
                           stage[g] # "ended" /\ stage' = [stage EXCEPT ![g] = to]
    BY <1>2 DEF Provision, MakeLab, Up, AwaitAgent, OsInfo, AwaitSteady, GiveUp, ProvisionFails,
                Prepare, Unprepared, Testing, StartTest, DoPart, FinishTest, EndTest, CloseGroup,
                Go, Stages, AtRest
  <2> QED BY <2>1 DEF LabTypeOK
<1>3. ASSUME NEW g \in Groups, Panic(g)
      PROVE  sel' = sel /\ \A l \in Labs : stage'[l] = "ended" <=> stage[l] = "ended"
  BY <1>3 DEF Panic, LabTypeOK
<1>4. ASSUME NEW s \in Scenarios, Scenario(s)
      PROVE  sel' = sel /\ \A l \in Labs : stage'[l] = "ended" <=> stage[l] = "ended"
  <2>1. StartScenario(s) \/ Drive(s) \/ CloseScenario(s)
    BY <1>4 DEF Scenario
  <2> QED BY <2>1 DEF StartScenario, Drive, CloseScenario, Go, LabTypeOK
<1>5. CASE Join \/ RunEnds \/ UNCHANGED vars
  BY <1>5 DEF Join, RunEnds, vars
<1> QED BY <1>1, <1>2, <1>3, <1>4, <1>5 DEF Next, Over

\* The reports stay with who is over.
LEMMA StillReported ==
  ASSUME LabTypeOK, LabInv, Reports, sel' = sel, results' = results,
         phase' = "done" => phase = "done",
         \A l \in Labs : stage'[l] = "ended" <=> stage[l] = "ended"
  PROVE  Reports'
<1>1. /\ Tests' = Tests /\ Scenarios' = Scenarios /\ Groups' = Groups /\ Finished' = Finished
      /\ \A g : TestsOf(g)' = TestsOf(g)
  BY SelectionStands
<1>2. \A t : Reported(t)' <=> Reported(t)
  BY <1>1 DEF Reported, Labs
<1>3. {t \in Finished : Reported(t)}' = {t \in Finished : Reported(t)}
  BY <1>1, <1>2
<1> QED BY <1>3 DEF Reports

LEMMA ReturnReports ==
  ASSUME LabTypeOK, LabInv, Reports, NEW g \in Groups, Return(g) PROVE Reports'
<1>1. /\ sel' = sel /\ phase' = phase /\ results' = results \o Ascending(TestsOf(g))
      /\ g \in Labs /\ stage[g] = "return" /\ stage' = [stage EXCEPT ![g] = "ended"]
  BY DEF Return, Go, Labs
<1>2. /\ Tests' = Tests /\ Scenarios' = Scenarios /\ Groups' = Groups /\ Finished' = Finished
      /\ \A h : TestsOf(h)' = TestsOf(h)
  BY <1>1, SelectionStands
<1>3. /\ Groups \subseteq Tests /\ Tests \subseteq Nat /\ Tests \cap Scenarios = {}
      /\ TestsOf(g) \subseteq Tests
  BY LabsAre DEF LabTypeOK
<1>4. /\ Ascending(TestsOf(g)) \in Seq(Nat) /\ IsInjective(Ascending(TestsOf(g)))
      /\ Range(Ascending(TestsOf(g))) = TestsOf(g)
  <2>1. IsFiniteSet(TestsOf(g)) /\ TestsOf(g) \in SUBSET Nat
    <3>1. IsFiniteSet(Tests)
      BY SelectionTyped, FS_Interval DEF Tests, LabTypeOK
    <3> QED BY <1>3, <3>1, FS_Subset
  <2>2. Ascending(TestsOf(g)) \in Seq(TestsOf(g))
    BY <2>1, AscendingIs
  <2> QED BY <2>1, <2>2, AscendingIs
<1>5. ASSUME NEW t \in TestsOf(g) PROVE ~Reported(t)
  <2>1. t \notin Scenarios
    BY <1>3
  <2>2. \A h \in Groups : t \in TestsOf(h) => h = g
    BY Disjoint DEF LabTypeOK
  <2> QED BY <1>1, <2>1, <2>2 DEF Reported
<1>6. /\ results' \in Seq(Nat) /\ IsInjective(results')
      /\ Range(results') = Range(results) \cup TestsOf(g)
  <2>1. Range(results) \cap TestsOf(g) = {}
    BY <1>5 DEF Reports
  <2> QED BY <1>1, <1>4, <2>1, Joined DEF Reports
<1>7. ASSUME NEW t \in Finished PROVE Reported(t)' <=> Reported(t) \/ t \in TestsOf(g)
  <2>1. \A h \in Groups : stage'[h] = "ended" <=> stage[h] = "ended" \/ h = g
    BY <1>1 DEF LabTypeOK, Labs
  <2>2. \A s \in Scenarios : stage'[s] = stage[s]
    BY <1>1, <1>3 DEF LabTypeOK, Labs
  <2> QED BY <1>2, <2>1, <2>2 DEF Reported
<1>8. TestsOf(g) \subseteq Finished
  BY <1>3 DEF Finished
<1>9. Range(results') = {t \in Finished : Reported(t)}'
  BY <1>2, <1>6, <1>7, <1>8 DEF Reports
<1>10. phase' # "done"
  BY <1>1 DEF LabInv, InTurn
<1> QED BY <1>6, <1>9, <1>10 DEF Reports

LEMMA ScenarioReports ==
  ASSUME LabTypeOK, LabInv, Reports, NEW s \in Scenarios, EndScenario(s) PROVE Reports'
<1>1. /\ sel' = sel /\ phase' = phase /\ results' = Append(results, s)
      /\ s \in Labs /\ stage[s] = "return" /\ stage' = [stage EXCEPT ![s] = "ended"]
  BY DEF EndScenario, Go, Labs, pool
<1>2. /\ Tests' = Tests /\ Scenarios' = Scenarios /\ Groups' = Groups /\ Finished' = Finished
      /\ \A h : TestsOf(h)' = TestsOf(h)
  BY <1>1, SelectionStands
<1>3. /\ Groups \subseteq Tests /\ Scenarios \subseteq Nat /\ Tests \cap Scenarios = {}
      /\ \A g \in Groups : TestsOf(g) \subseteq Tests
  BY LabsAre DEF LabTypeOK
<1>4. /\ << s >> \in Seq(Nat) /\ IsInjective(<< s >>) /\ Range(<< s >>) = {s}
      /\ results' = results \o << s >>
  BY <1>1, <1>3 DEF IsInjective, Range, Reports
<1>5. ~Reported(s)
  BY <1>1, <1>3 DEF Reported
<1>6. /\ results' \in Seq(Nat) /\ IsInjective(results')
      /\ Range(results') = Range(results) \cup {s}
  <2>1. Range(results) \cap Range(<< s >>) = {}
    BY <1>4, <1>5 DEF Reports
  <2> QED BY <1>4, <2>1, Joined DEF Reports
<1>7. ASSUME NEW t \in Finished PROVE Reported(t)' <=> Reported(t) \/ t = s
  <2>1. \A g \in Groups : stage'[g] = stage[g]
    BY <1>1, <1>3 DEF LabTypeOK, Labs
  <2>2. \A r \in Scenarios : stage'[r] = "ended" <=> stage[r] = "ended" \/ r = s
    BY <1>1 DEF LabTypeOK, Labs
  <2> QED BY <1>2, <2>1, <2>2 DEF Reported
<1>8. Range(results') = {t \in Finished : Reported(t)}'
  BY <1>2, <1>6, <1>7 DEF Reports, Finished
<1>9. phase' # "done"
  BY <1>1 DEF LabInv, InTurn
<1> QED BY <1>6, <1>8, <1>9 DEF Reports

LEMMA EndReports == ASSUME LabTypeOK, LabInv, Reports, RunEnds PROVE Reports'
<1> DEFINE N == Len(sel.tests) + sel.scenarios
<1>1. /\ sel' = sel /\ stage' = stage /\ results' = Sorted(results) /\ phase = "scenarios"
      /\ \A s \in Scenarios : stage[s] = "ended"
  BY DEF RunEnds, Report
<1>2. \A g \in Groups : stage[g] = "ended"
  BY <1>1 DEF LabInv, InTurn
<1>3. Range(results) = Finished
  <2>1. \A t \in Tests : Reported(t)
    BY <1>2, Covered DEF Reported, LabTypeOK
  <2>2. \A s \in Scenarios : Reported(s)
    BY <1>1 DEF Reported
  <2> QED BY <2>1, <2>2 DEF Reports, Finished
<1>4. Finished = 1 .. N /\ N \in Nat
  <2>1. Len(sel.tests) \in Nat /\ sel.scenarios \in Nat
    BY SelectionTyped DEF LabTypeOK
  <2>2. \A t \in 1 .. N : t \in Tests \/ t \in Scenarios
    <3> TAKE t \in 1 .. N
    <3>1. CASE t <= Len(sel.tests)
      BY <2>1, <3>1 DEF Tests
    <3>2. CASE t > Len(sel.tests)
      <4>1. t - Len(sel.tests) \in 1 .. sel.scenarios /\ t = Len(sel.tests) + (t - Len(sel.tests))
        BY <2>1, <3>2
      <4> QED BY <4>1 DEF Scenarios
    <3> QED BY <2>1, <3>1, <3>2
  <2>3. Tests \subseteq 1 .. N /\ Scenarios \subseteq 1 .. N
    BY <2>1 DEF Tests, Scenarios
  <2>4. N \in Nat
    BY <2>1
  <2> HIDE DEF N
  <2> QED BY <2>2, <2>3, <2>4 DEF Finished
<1>5. IsFiniteSet(DOMAIN results) /\ \A i \in DOMAIN results : results[i] \in Nat
  <2>1. DOMAIN results = 1 .. Len(results) /\ Len(results) \in Nat
    BY DEF Reports
  <2>2. IsFiniteSet(1 .. Len(results))
    BY <2>1, FS_Interval
  <2>3. \A i \in DOMAIN results : results[i] \in Nat
    BY DEF Reports
  <2> QED BY <2>1, <2>2, <2>3
<1> HIDE DEF N
<1>6. results' = [i \in 1 .. N |-> i]
  BY <1>1, <1>3, <1>4, <1>5, SortedAll DEF Reports
<1>7. results' \in Seq(Nat) /\ IsInjective(results') /\ Range(results') = Finished
  BY <1>4, <1>6 DEF IsInjective, Range
<1>8. /\ Finished' = Finished /\ N' = N
      /\ \A t : Reported(t)' <=> Reported(t)
  BY <1>1, SelectionStands DEF Reported, N
<1>9. Range(results)' = {t \in Finished : Reported(t)}'
  BY <1>3, <1>7, <1>8 DEF Reports
<1> QED BY <1>6, <1>7, <1>8, <1>9 DEF Reports, N

\* A run reports each test and scenario once, in the order of the selection
\* (runner.rs, run_groups and run).
THEOREM OneReport == Spec => []OneReportEach
<1>1. Init => Reports
  <2> SUFFICES ASSUME Init PROVE Reports
    OBVIOUS
  <2>1. \A t \in Finished : ~Reported(t)
    BY DEF Init, Reported, Labs
  <2>2. results = << >> /\ phase # "done"
    BY DEF Init
  <2> QED BY <2>1, <2>2 DEF Reports, IsInjective, Range
<1>2. LabTypeOK /\ LabInv /\ Reports /\ [Next]_vars => Reports'
  <2> SUFFICES ASSUME LabTypeOK, LabInv, Reports, [Next]_vars PROVE Reports'
    OBVIOUS
  <2>1. ASSUME NEW g \in Groups, Return(g) PROVE Reports'
    BY <2>1, ReturnReports
  <2>2. ASSUME NEW s \in Scenarios, EndScenario(s) PROVE Reports'
    BY <2>2, ScenarioReports
  <2>3. CASE RunEnds
    BY <2>3, EndReports
  <2>4. ASSUME \A g \in Groups : ~Return(g), \A s \in Scenarios : ~EndScenario(s), ~RunEnds
        PROVE  Reports'
    <3>1. results' = results /\ (phase' = "done" => phase = "done")
      BY <2>4 DEF Next, Over, vars, pool, Take, Join, Scenario, StartScenario, Drive, CloseScenario,
                  Panic, Provision, MakeLab, Up, AwaitAgent, OsInfo, AwaitSteady, GiveUp,
                  ProvisionFails, Prepare, Unprepared, Testing, StartTest, DoPart, FinishTest,
                  CloseGroup
    <3> QED BY <2>4, <3>1, Unended, StillReported
  <2> QED BY <2>1, <2>2, <2>3, <2>4
<1>3. Reports => OneReportEach
  BY DEF Reports, OneReportEach
<1> QED BY <1>1, <1>2, <1>3, LabInvariant, PTL DEF Spec
=============================================================================
