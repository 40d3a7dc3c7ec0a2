------------------------------ MODULE Playbook ------------------------------
(***************************************************************************)
(* A playbook document and the model the loader makes of it: the rules of  *)
(* playbook.wcl and the expansion of composite invocations into the steps  *)
(* of a play (src/src/model/load.rs, src/src/model/types.rs).              *)
(***************************************************************************)
EXTENDS Packages, SequencesExt

CONSTANTS
  MaxCompositeDepth,  \* MAX_COMPOSITE_DEPTH of load.rs
  MaxNesting          \* bound: containers inside containers

ASSUME DepthAssumption == MaxCompositeDepth \in Nat \ {0} /\ MaxNesting \in Nat

(* ----------------------------------------------------------- step blocks *)

\* load_step: what a step block turned out to name. A bare resource is a
\* composite of the playbook; there are no bare resources.
Invokes(pb, s) == ~IsWait(s) /\ Declares(pb, "composites", s.resource)

StepFits(pb, s, kind) == CheckParams(s.props, Declared(pb, kind, Target(s)).params)

\* load_step with load_wait_step and composite_invocation.
StepAccepted(pb, s) ==
  /\ NamesOneTarget(s)
  /\ WaitFieldsAccepted(s)
  /\ ClassAccepted(s.concurrency)
  /\ CASE IsWait(s)      -> Declares(pb, "probes", s.waitFor) /\ StepFits(pb, s, "probes")
       [] Invokes(pb, s) -> StepFits(pb, s, "composites")
       [] OTHER -> /\ Declares(pb, "resources", s.resource)
                   /\ s.concurrency # NoClass =>
                        ~Looser(s.concurrency, Declared(pb, "resources", s.resource).concurrency)
                   /\ StepFits(pb, s, "resources")

(* ------------------------------------------------------------- expansion *)

\* max_opt: the tighter of two classes, either of which may be absent.
Tighter(a, b) ==
  IF a = NoClass THEN b ELSE IF b = NoClass THEN a
  ELSE IF Looser(a, b) THEN b ELSE a

\* A step of a play, as everything after the loader sees it: `path` are the
\* enclosing containers and invocations, `frames` the invocations alone.
PlayStep(s, target, path, frames, concurrency) ==
  [name |-> s.name, wait |-> IsWait(s), target |-> target, requires |-> s.requires,
   concurrency |-> concurrency, path |-> path, frames |-> frames]

Frame(name, target, requires) == [step |-> name, composite |-> target, requires |-> requires]

\* Step::playbook_path: the containers of the playbook alone.
PlaybookPath(step) == SubSeq(step.path, 1, Len(step.path) - Len(step.frames))

\* The composites the body of one invokes.
InvokedBy(pb, ref) ==
  LET body == Declared(pb, "composites", ref).steps
      at(i) == Resolved(Target(body[i]), ref.pkg)
  IN IF ~Declares(pb, "composites", ref) THEN {}
     ELSE {at(i) : i \in {i \in DOMAIN body : ~IsWait(body[i]) /\ Declares(pb, "composites", at(i))}}

Longer(pb, chains) == UNION {{Append(c, t) : t \in InvokedBy(pb, Last(c))} : c \in chains}

\* The chains of composites that begin with one and where each invokes the
\* next, by the number of invocations in them.
Chains(pb, ref) ==
  LET chains[n \in 0 .. MaxCompositeDepth] ==
        IF n = 0 THEN {<< ref >>} ELSE Longer(pb, chains[n - 1])
  IN chains

\* Whether expanding an invocation reports a cycle or too deep a nesting.
ExpansionAccepted(pb, ref) ==
  /\ \A n \in 0 .. MaxCompositeDepth : \A chain \in Chains(pb, ref)[n] : IsInjective(chain)
  /\ Chains(pb, ref)[MaxCompositeDepth] = {}

\* A mutant of PassedOn: the class of the outermost invocation.
PassedOnFromOutside(own, outer) == IF outer # NoClass THEN outer ELSE own

\* What an invocation passes on to its body: its own class if it declares
\* one, else the class of the invocation around it.
PassedOn(own, outer) == IF own # NoClass THEN own ELSE outer

\* A block on the way to the steps it stands for, and the class that the
\* invocation it is in has passed on.
Pending(s, target, path, frames, class) ==
  [block |-> s, target |-> target, path |-> path, frames |-> frames, around |-> class]

\* The blocks of a composite, where an invocation is replaced by them.
BodyOf(pb, p) ==
  LET body == Declared(pb, "composites", p.target).steps
  IN [i \in DOMAIN body |->
        Pending(body[i], Resolved(Target(body[i]), p.target.pkg), Append(p.path, p.block.name),
                Append(p.frames, Frame(p.block.name, p.target, p.block.requires)),
                PassedOn(p.block.concurrency, p.around))]

IsInvocation(pb, s, target) == ~IsWait(s) /\ Declares(pb, "composites", target)

ExpandOnce(pb, ps) ==
  FlattenSeq([i \in DOMAIN ps |->
    IF IsInvocation(pb, ps[i].block, ps[i].target) THEN BodyOf(pb, ps[i]) ELSE << ps[i] >>])

\* expand_composite: what the blocks stand for, in order, by how deep
\* invocations have been expanded.
Expansion(pb, ps) ==
  LET expanded[n \in 0 .. MaxCompositeDepth] ==
        IF n = 0 THEN ps ELSE ExpandOnce(pb, expanded[n - 1])
  IN expanded

(* ----------------------------------------------------------------- plays *)

\* A block of a play and the containers it stands in, outermost first.
Row(within, block) == [within |-> within, block |-> block]

\* The blocks, where each container at this depth is followed by its own.
OpenContainers(rows, depth) ==
  FlattenSeq([i \in DOMAIN rows |->
    IF rows[i].block.kind = "container" /\ Len(rows[i].within) = depth
    THEN << rows[i] >> \o [j \in DOMAIN rows[i].block.items |->
                             Row(Append(rows[i].within, rows[i].block), rows[i].block.items[j])]
    ELSE << rows[i] >>])

\* The blocks of a play in document order, by how deep containers are open.
Levels(items) ==
  LET down[n \in 0 .. MaxNesting] ==
        IF n = 0 THEN [i \in DOMAIN items |-> Row(<< >>, items[i])]
        ELSE OpenContainers(down[n - 1], n - 1)
  IN down

\* All the blocks, and the steps among them: what the author declared
\* (DeclaredStep of load.rs).
PlayBlocks(items) == Levels(items)[MaxNesting]

StepRows(items) ==
  LET rows == PlayBlocks(items)
  IN FlattenSeq([i \in DOMAIN rows |->
       IF rows[i].block.kind = "step" THEN << rows[i] >> ELSE << >>])

DeclaredSteps(items) == LET rows == StepRows(items) IN [i \in DOMAIN rows |-> rows[i].block]

PathOf(row) == [i \in DOMAIN row.within |-> row.within[i].name]

\* load_play and load_items: names and `requires` are judged over what the
\* author declared, where an invocation counts once.
PlayAccepted(pb, play) ==
  LET steps == DeclaredSteps(play.items)
  IN /\ Distinct(steps)
     /\ RequiresAccepted(steps)
     /\ \A i \in DOMAIN steps :
          /\ StepAccepted(pb, steps[i])
          /\ Invokes(pb, steps[i]) => ExpansionAccepted(pb, steps[i].resource)

\* load_items, which expands the invocations.
LoadItems(pb, items) ==
  LET rows == StepRows(items)
      top  == [i \in DOMAIN rows |->
                 Pending(rows[i].block, Target(rows[i].block), PathOf(rows[i]), << >>, NoClass)]
  IN Expansion(pb, top)[MaxCompositeDepth]

\* Play::steps: the steps of a play, flattened. A wait step has no class.
LoadStep(p) ==
  PlayStep(p.block, p.target, p.path, p.frames,
           IF IsWait(p.block) THEN NoClass ELSE Tighter(p.block.concurrency, p.around))

LoadPlay(pb, play) ==
  LET loaded == LoadItems(pb, play.items) IN [i \in DOMAIN loaded |-> LoadStep(loaded[i])]

(* ------------------------------------------------------------- playbooks *)

\* load_gather: a gatherer of a package, with params that fit it.
GatherAccepted(pb, g) ==
  /\ Declares(pb, "gatherers", g.from)
  /\ CheckParams(g.params, Declared(pb, "gatherers", g.from).params)

\* A mutant of NamesDistinct: two gathers may have one name.
NamesDistinctButGathers(doc) ==
  \A blocks \in {doc.probes, doc.composites, doc.vars} : Distinct(blocks)

\* Names are distinct among probes, composites, gathers and variables.
\* Gathers are not held against variables, nor plays against each other.
NamesDistinct(doc) ==
  \A blocks \in {doc.probes, doc.composites, doc.gathers, doc.vars} : Distinct(blocks)

\* PlaybookLoader::load, after load_packages; bare names are one namespace.
PlaybookAccepted(doc) ==
  LET pb == LoadPlaybook(doc)
  IN /\ doc.wellFormed
     /\ PackagesAccepted(doc.packages)
     /\ NamesDistinct(doc)
     /\ \A i \in DOMAIN doc.probes : ProbeAccepted(doc.probes[i])
     /\ \A i \in DOMAIN doc.composites : CompositeAccepted(doc.composites[i])
     /\ NamesOf(doc.probes) \cap NamesOf(doc.composites) = {}
     /\ BodiesResolve(pb, "", doc.composites)
     /\ \A i \in DOMAIN doc.gathers : GatherAccepted(pb, doc.gathers[i])
     /\ \A i \in DOMAIN doc.plays : PlayAccepted(pb, doc.plays[i])
=============================================================================
