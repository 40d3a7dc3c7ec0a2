------------------------------ MODULE Requires ------------------------------
(***************************************************************************)
(* The dependencies of a play (src/src/engine/dag.rs). A step sees the     *)
(* names of the scope it was written in: the steps of the playbook, or its *)
(* siblings in one invocation of a composite. Requiring an invocation      *)
(* means every step it expanded into.                                      *)
(***************************************************************************)
EXTENDS Naturals, Sequences, FiniteSets, SequencesExt, FiniteSetsExt

\* The first of a set of steps, or none.
First(S) == IF S = {} THEN {} ELSE {Min(S)}

\* resolve at depth 0: a step declared in the playbook, whatever container it
\* is in, else all steps of an invocation of that name.
ResolveInPlaybook(steps, req) ==
  LET plain == First({i \in DOMAIN steps : steps[i].frames = << >> /\ steps[i].name = req})
  IN IF plain # {} THEN plain
     ELSE {i \in DOMAIN steps : steps[i].frames # << >> /\ steps[i].frames[1].step = req}

\* A mutant of ResolveInComposite: a sibling of any invocation.
ResolveInAnyComposite(steps, scope, depth, req) ==
  {i \in DOMAIN steps : Len(steps[i].frames) = depth /\ steps[i].name = req}

\* resolve inside a composite: a sibling of the same invocation, else all
\* steps of a nested invocation below the scope.
ResolveInComposite(steps, scope, depth, req) ==
  LET sibling == First({i \in DOMAIN steps : /\ Len(steps[i].frames) = depth
                                             /\ steps[i].name = req
                                             /\ steps[i].path = scope})
  IN IF sibling # {} THEN sibling
     ELSE {i \in DOMAIN steps : /\ Len(steps[i].frames) > depth
                                /\ IsPrefix(Append(scope, req), steps[i].path)}

ResolveName(steps, scope, depth, req) ==
  IF depth = 0 THEN ResolveInPlaybook(steps, req)
  ELSE ResolveInComposite(steps, scope, depth, req)

\* The `requires` that bear on a step, each with the scope and depth it was
\* written at: its own, and those of every invocation that produced it.
Written(step) ==
  {[scope |-> step.path, depth |-> Len(step.frames), names |-> step.requires]} \cup
  {[scope |-> SubSeq(step.path, 1, Len(step.path) - (Len(step.frames) - d)),
    depth |-> d, names |-> step.frames[d + 1].requires] : d \in 0 .. Len(step.frames) - 1}

\* build: the steps each step requires. An edge to itself is dropped.
Deps(steps) ==
  [i \in DOMAIN steps |->
     (UNION { UNION {ResolveName(steps, w.scope, w.depth, req) : req \in w.names}
              : w \in Written(steps[i]) }) \ {i}]

\* build rejects a cycle: in every set of steps some step waits for none of it.
IsAcyclic(deps) ==
  \A S \in SUBSET DOMAIN deps : S # {} => \E i \in S : deps[i] \cap S = {}
=============================================================================
