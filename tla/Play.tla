-------------------------------- MODULE Play --------------------------------
(***************************************************************************)
(* What the dispatch phase of a play is given: for every step its          *)
(* dependencies (src/src/engine/dag.rs) and the plan the planner chose for *)
(* it (enum Plan of src/src/engine/run.rs), with the options of the run.   *)
(* Steps are numbered in declaration order.                                *)
(***************************************************************************)
EXTENDS Integers, StepStatus

CONSTANTS
  N,          \* the number of steps of the play
  Resources,  \* resource types (`package.resource` keys)
  Locks,      \* lock groups, each one a (package, lock name) pair
  NoLock,     \* the lock of a step whose resource names none
  Runs        \* the runs considered: planned plays with their options

Steps == 1 .. N

Classes == {"parallel", "exclusive", "global"}

\* "skip": a condition is false; "fail": planning failed; "run": a resource
\* step; "wait": a wait step; "noprobe": a wait step without compiled probe.
Kinds == {"skip", "fail", "run", "wait", "noprobe"}

Plan == [kind : Kinds, class : Classes, resource : Resources,
         lock : Locks \cup {NoLock}]

RunType == [deps : [Steps -> SUBSET Steps], plan : [Steps -> Plan],
            parallel : BOOLEAN, mode : Modes, continueOnError : BOOLEAN]

\* dag::build rejects a play whose `requires` edges form a cycle, and drops
\* the edge of a step to itself: some order puts dependencies first.
Acyclic(deps) ==
  \E rank \in [Steps -> Steps] :
    \A i \in Steps : \A d \in deps[i] : rank[d] < rank[i]

ASSUME PlayAssumption ==
  /\ N \in Nat
  /\ NoLock \notin Locks
  /\ Runs \subseteq RunType
  /\ \A r \in Runs : Acyclic(r.deps)

VARIABLE run  \* the run that is executed; never changes

Deps(i) == run.deps[i]
Kind(i) == run.plan[i].kind
Class(i) == run.plan[i].class
Resource(i) == run.plan[i].resource
Lock(i) == run.plan[i].lock

IsWait(i) == Kind(i) \in {"wait", "noprobe"}
IsGlobal(i) == Kind(i) = "run" /\ Class(i) = "global"
IsExclusive(i) == Kind(i) = "run" /\ Class(i) = "exclusive"
HoldsLock(i) == Kind(i) = "run" /\ Lock(i) # NoLock

\* Two steps the scheduler keeps apart. A step of a `global` class is kept
\* apart from every step, wait steps included; a wait step holds nothing.
Conflict(i, j) ==
  \/ IsGlobal(i) \/ IsGlobal(j)
  \/ IsExclusive(i) /\ IsExclusive(j) /\ Resource(i) = Resource(j)
  \/ HoldsLock(i) /\ HoldsLock(j) /\ Lock(i) = Lock(j)
=============================================================================
