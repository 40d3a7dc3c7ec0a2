---------------------------- MODULE MCScheduler ----------------------------
(***************************************************************************)
(* Small plays for TLC: three steps, every assignment of the kinds of plan *)
(* below to them, over several dependency graphs, in both modes.           *)
(***************************************************************************)
EXTENDS SchedulerProperties, TLC

CONSTANTS r1, r2, l1, w1, w2

MCResources == {r1, r2}
MCLocks == {l1}
MCWorkers == {w1, w2}
WorkersAlike == Permutations(MCWorkers)

PlanOf(kind, class, resource, lock) ==
  [kind |-> kind, class |-> class, resource |-> resource, lock |-> lock]

Idle(kind) == PlanOf(kind, "parallel", r1, NoLock)

\* Steps of two resources: one free, one exclusive, two of different resources
\* sharing a lock, a global one; and the kinds that take no worker.
Plain == PlanOf("run", "parallel", r1, NoLock)
Exclusive == PlanOf("run", "exclusive", r1, NoLock)
Locked == PlanOf("run", "parallel", r2, l1)
LockedExclusive == PlanOf("run", "exclusive", r1, l1)
Global == PlanOf("run", "global", r2, NoLock)

NoDeps == [i \in Steps |-> {}]
Chain == [i \in Steps |-> {i - 1} \cap Steps]
Backwards == [i \in Steps |-> {i + 1} \cap Steps]       \* requires a later step
Fork == [i \in Steps |-> IF i = 1 THEN {} ELSE {1}]
Gather == [i \in Steps |-> IF i = N THEN 1 .. N - 1 ELSE {}]

RunsOf(graphs, plans, parallel, modes, onError) ==
  [deps : graphs, plan : [Steps -> plans], parallel : parallel,
   mode : modes, continueOnError : onError]

MCRuns ==
  RunsOf({NoDeps, Backwards, Fork, Gather},
         {Idle("skip"), Idle("fail"), Idle("wait"),
          Plain, LockedExclusive, Global},
         {TRUE}, Modes, BOOLEAN)
    \cup RunsOf({NoDeps, Chain, Backwards},
                {Idle("fail"), Idle("wait"), Plain, Global},
                {FALSE}, Modes, BOOLEAN)
    \cup RunsOf({NoDeps, Fork},
                {Idle("noprobe"), Exclusive, Locked, LockedExclusive},
                {TRUE}, {"Apply"}, BOOLEAN)

\* Fewer plays, for the liveness properties.
MCLiveRuns ==
  RunsOf({NoDeps}, {Idle("wait"), Plain, LockedExclusive, Global},
         {TRUE}, {"Apply"}, {FALSE})
    \cup RunsOf({Backwards}, {Idle("wait"), Plain, Global},
                BOOLEAN, {"Apply"}, {FALSE})

\* Plays that a thread's panic is shown with.
MCPanicRuns ==
  RunsOf({NoDeps}, {Plain, Exclusive}, {TRUE}, {"Check"}, {FALSE})
=============================================================================
