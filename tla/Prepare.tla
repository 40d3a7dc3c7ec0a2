------------------------------ MODULE Prepare ------------------------------
(***************************************************************************)
(* From the documents to the plans of a run (cmd_run of src/src/main.rs,   *)
(* execute of src/src/engine/mod.rs): load and validate, take the          *)
(* overrides, run the gatherers in threads of their own, plan the steps of *)
(* the play. What the plans and dependencies are handed to is the          *)
(* scheduler, a module of its own.                                         *)
(***************************************************************************)
EXTENDS Variables, Planner, Scripts, Requires

IsRef(ref) == ref = RefTo(ref.pkg, ref.name)

\* The tree of a play is not deeper than the bound, and what blocks hold are
\* lists of blocks.
PlayIsTree(items) ==
  /\ IsList(items)
  /\ \A depth \in 0 .. MaxNesting : \A row \in Range(Levels(items)[depth]) :
       IF row.block.kind = "container"
       THEN IsList(row.block.items) /\ Len(row.within) < MaxNesting
       ELSE IsRef(row.block.resource) /\ IsRef(row.block.waitFor)

BodyIsList(body) ==
  IsList(body) /\ \A i \in DOMAIN body : IsRef(body[i].resource) /\ IsRef(body[i].waitFor)

\* Documents are trees, and the folder of a package has a name.
DocumentIsTree(d) ==
  /\ IsList(d.plays)
  /\ \A i \in DOMAIN d.plays : PlayIsTree(d.plays[i].items)
  /\ \A i \in DOMAIN d.composites : BodyIsList(d.composites[i].steps)
  /\ \A i \in DOMAIN d.gathers : IsRef(d.gathers[i].from)
  /\ \A i \in DOMAIN d.packages :
       /\ d.packages[i].folder # ""
       /\ \A j \in DOMAIN d.packages[i].composites : BodyIsList(d.packages[i].composites[j].steps)

ASSUME PrepareAssumption ==
  \A family \in DOMAIN Inputs : \A call \in Inputs[family] : DocumentIsTree(call.doc)

VARIABLES
  memory,   \* the planner's caches
  plans     \* the plans made so far, in the order of the steps

vars == << input, phase, store, results, memory, plans >>

steps == LoadPlay(pb, play)

Init ==
  /\ VariablesInit
  /\ memory = [containers |-> NoCache, args |-> NoCache]
  /\ plans = << >>

\* engine::validate, after the loader: secrets are encrypted, the
\* dependencies of every play are acyclic, every script compiles.
Validated ==
  /\ doc.secrets # "plain"
  /\ \A i \in DOMAIN doc.plays : IsAcyclic(Deps(LoadPlay(pb, doc.plays[i])))
  /\ CompileAll(doc)

\* load_validated.
Accepted == PlaybookAccepted(doc) /\ Validated

Load ==
  /\ phase = "load"
  /\ IF Accepted
     THEN Advance("override") /\ UNCHANGED << input, store, results >>
     ELSE Refuse

\* Planner::plan for the next step of the play.
PlanNext ==
  /\ phase = "plan"
  /\ Len(plans) < Len(steps)
  /\ LET planned == PlanStep(pb, IndexBlocks(play.items), scope, steps[Len(plans) + 1], memory)
     IN plans' = Append(plans, planned.plan) /\ memory' = planned.memory
  /\ UNCHANGED << input, phase, store, results >>

\* The plans go to the scheduler with the dependencies of the play.
Planned == PlanAll /\ Len(plans) = Len(steps)

Unplanned == UNCHANGED << memory, plans >>

Next ==
  \/ Load /\ Unplanned
  \/ Override /\ Unplanned
  \/ StartGatherers /\ Unplanned
  \/ \E k \in DOMAIN results : FinishGatherer(k) /\ Unplanned
  \/ BindResults /\ Unplanned
  \/ PlanNext
  \/ Planned /\ Unplanned

Spec == Init /\ [][Next]_vars
=============================================================================
