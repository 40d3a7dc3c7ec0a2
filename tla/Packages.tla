------------------------------ MODULE Packages ------------------------------
(***************************************************************************)
(* The package manifests of a playbook and the rules they are loaded under *)
(* (src/src/model/load.rs, src/src/model/types.rs). A manifest is a record *)
(* of sequences of blocks, in the order they are written; a rule says that *)
(* loading reports nothing. Parsing, schema errors and required fields are *)
(* one flag of a document: the checks of WCL, not of this program.         *)
(***************************************************************************)
EXTENDS Params

NoRef == [pkg |-> "none", name |-> "none"]

\* A reference as written: qualified by a package, or bare (pkg "").
RefTo(pkg, name) == [pkg |-> pkg, name |-> name]

\* What an unqualified reference means depends on who owns the block: the
\* package it stands in, or ("") the playbook.
Resolved(ref, owner) == IF ref.pkg = "" THEN RefTo(owner, ref.name) ELSE ref

NamesOf(blocks) == {blocks[i].name : i \in DOMAIN blocks}
Distinct(blocks) == \A i, j \in DOMAIN blocks : blocks[i].name = blocks[j].name => i = j
The(blocks, n) == blocks[CHOOSE i \in DOMAIN blocks : blocks[i].name = n]
ByName(blocks, Model(_)) == [n \in NamesOf(blocks) |-> Model(The(blocks, n))]

\* Concurrency, ordered from loose to tight; NoClass where none is declared.
NoClass == "none"
Tightness == [parallel |-> 1, exclusive |-> 2, global |-> 3]
Looser(a, b) == Tightness[a] < Tightness[b]
ClassAccepted(c) == c \in DOMAIN Tightness \cup {NoClass}

(* ----------------------------------------------------------------- steps *)

\* The condition of a block that declares none.
Always == Lit(WclValue("bool", "true"))

\* step_target: a step names a resource to converge or a probe to wait on.
NamesOneTarget(s) == (s.resource = NoRef) # (s.waitFor = NoRef)
IsWait(s) == s.waitFor # NoRef
Target(s) == IF IsWait(s) THEN s.waitFor ELSE s.resource

\* check_field and duration_field of wait.rs, over a value.
WaitFields == {"interval", "timeout", "fail_on_error"}
WaitValueFits(name, v) ==
  IF name = "fail_on_error" THEN v.ty = "bool"
  ELSE v.ty = "int" /\ v.tok # "less than a second"

\* check_wait_fields.
WaitFieldsAccepted(s) ==
  IF ~IsWait(s) THEN DOMAIN s.wait = {}
  ELSE /\ "timeout" \in DOMAIN s.wait
       /\ s.concurrency \in {NoClass, "parallel"}
       /\ \A n \in DOMAIN s.wait :
            LET fv == FieldValue(s.wait[n], NoScope)
            IN fv.r = "unresolved" \/ (fv.r = "ok" /\ WaitValueFits(n, fv.v))

\* `requires` among siblings: each name is known and nobody names itself.
RequiresAccepted(blocks) ==
  \A i \in DOMAIN blocks :
    blocks[i].requires \subseteq NamesOf(blocks) \ {blocks[i].name}

(* ------------------------------------------------------------ composites *)

\* Names a composite argument may not take (SHADOWED_ARG_NAMES, ARGS_BINDING,
\* and what is no identifier).
TakenArgNames == {"args", "arg", "step", "properties", "symbol", "name",
                  "description", "declared_args", "steps", "not an identifier"}

\* load_composite and load_composite_step: all that does not need the target.
CompositeAccepted(c) ==
  /\ ParamsAccepted(c.params)
  /\ NamesOf(c.params) \cap TakenArgNames = {}
  /\ c.steps # << >>
  /\ Distinct(c.steps)
  /\ RequiresAccepted(c.steps)
  /\ \A i \in DOMAIN c.steps :
       LET s == c.steps[i]
       IN /\ NamesOneTarget(s)
          /\ WaitFieldsAccepted(s)
          /\ ClassAccepted(s.concurrency)
          /\ ~s.expects
          /\ DeferredPairs(s.props)

LoadComposite(c) == [params |-> LoadParams(c.params), steps |-> c.steps]

\* Tables of the model: what a package (or, for probes and composites, the
\* playbook itself) declares under each name.
LoadProbe(p) == [params |-> LoadParams(p.params)]
LoadResource(r) == [params |-> LoadParams(r.params), concurrency |-> r.concurrency,
                    lock |-> r.lock]
LoadGatherer(g) == [params |-> LoadParams(g.params), returns |-> LoadParams(g.returns)]

LoadPackage(doc) ==
  [resources  |-> ByName(doc.resources, LoadResource),
   gatherers  |-> ByName(doc.gatherers, LoadGatherer),
   composites |-> ByName(doc.composites, LoadComposite),
   probes     |-> ByName(doc.probes, LoadProbe)]

\* Playbook: what a loaded document holds. Declarations of the playbook and
\* of its packages are addressed alike.
LoadPlaybook(doc) ==
  [composites |-> ByName(doc.composites, LoadComposite),
   probes     |-> ByName(doc.probes, LoadProbe),
   packages   |-> ByName(doc.packages, LoadPackage)]

\* Playbook::resource, ::probe, ::composite and lookup_composite: one way of
\* addressing, where an empty package is the playbook's own namespace.
Declares(pb, kind, ref) ==
  \/ ref.pkg = "" /\ kind \in {"composites", "probes"} /\ ref.name \in DOMAIN pb[kind]
  \/ ref.pkg \in DOMAIN pb.packages /\ ref.name \in DOMAIN pb.packages[ref.pkg][kind]

Declared(pb, kind, ref) ==
  IF ref.pkg = "" THEN pb[kind][ref.name] ELSE pb.packages[ref.pkg][kind][ref.name]

\* validate_composite_step and validate_composite_wait_step, in the second
\* pass: the target exists, the step does not loosen it, its properties fit.
BodyStepResolves(pb, owner, s) ==
  LET t == Resolved(Target(s), owner)
      fits(kind) == CheckParamsDeferred(s.props, Declared(pb, kind, t).params)
  IN CASE IsWait(s) -> Declares(pb, "probes", t) /\ fits("probes")
       [] ~IsWait(s) /\ Declares(pb, "composites", t) -> fits("composites")
       [] OTHER -> /\ ~Declares(pb, "probes", t)
                   /\ Declares(pb, "resources", t)
                   /\ s.concurrency # NoClass =>
                        ~Looser(s.concurrency, Declared(pb, "resources", t).concurrency)
                   /\ fits("resources")

BodiesResolve(pb, owner, composites) ==
  \A i \in DOMAIN composites : \A j \in DOMAIN composites[i].steps :
    BodyStepResolves(pb, owner, composites[i].steps[j])

(* ----------------------------------------------------------------- tests *)

Expects == {"converge", "already_configured", "error", "skip", "reboot_required"}
WantsSuccess(s) == s.expect \in {"converge", "already_configured"}
ExpectsFailure(s) == s.expect \in {"error", "reboot_required"}
LiteralSafe(n) == n # "a \"quoted\" name"

\* The rule of load_test that keeps a step apart from what would block it.
RequiresWhatSucceeds(steps) ==
  \A i, j \in DOMAIN steps :
    steps[j].name \in steps[i].requires /\ WantsSuccess(steps[i]) => ~ExpectsFailure(steps[j])

\* A test step that names nothing is passed over without a word: its field is
\* optional in the schema, and load_test only asks for its value.
KeptSteps(t) == SelectSeq(t.steps, LAMBDA s : s.resource # NoRef)

\* A test step names a resource and never waits; nothing else is running that
\* it could be held apart from.
TestStepAccepted(s) ==
  /\ LiteralSafe(s.name)
  /\ ~IsWait(s) /\ DOMAIN s.wait = {}
  /\ s.resource # NoRef =>
       s.concurrency = NoClass /\ s.expect \in Expects /\ StaticPairs(s.props)

\* load_test.
TestAccepted(t) ==
  /\ LiteralSafe(t.name)
  /\ (t.image = "") # (t.template = "")
  /\ \A v \in t.verify : v.present
  /\ t.jobs > 0 /\ t.readyTimeout > 0
  /\ Distinct(KeptSteps(t)) /\ Distinct(t.gathers)
  /\ RequiresAccepted(KeptSteps(t))
  /\ RequiresWhatSucceeds(KeptSteps(t))
  /\ KeptSteps(t) # << >> \/ t.gathers # << >>
  /\ \A i \in DOMAIN t.steps : TestStepAccepted(t.steps[i])

\* validate_pending of test steps and gathers: a composite is turned away,
\* since a test asserts a status per step it declares.
TestResolves(pb, owner, t) ==
  /\ \A i \in DOMAIN KeptSteps(t) :
       LET ref == Resolved(KeptSteps(t)[i].resource, owner)
       IN /\ ~Declares(pb, "composites", ref)
          /\ Declares(pb, "resources", ref)
          /\ CheckParamsStatic(KeptSteps(t)[i].props, Declared(pb, "resources", ref).params)
  /\ \A i \in DOMAIN t.gathers :
       LET ref == Resolved(t.gathers[i].from, owner)
       IN /\ Declares(pb, "gatherers", ref)
          /\ CheckParamsStatic(t.gathers[i].params, Declared(pb, "gatherers", ref).params)
          /\ CheckExpect(t.gathers[i].expect, Declared(pb, "gatherers", ref).returns)

\* Tests of one group share an instance and must agree on what it is.
GroupsAgree(tests) ==
  \A i, j \in DOMAIN tests :
    tests[i].group = tests[j].group /\ tests[i].group # "" =>
      /\ tests[i].image = tests[j].image /\ tests[i].template = tests[j].template
      /\ tests[i].memory = tests[j].memory

(* -------------------------------------------------------------- packages *)

Builtin == "weave"

\* One namespace for what a step can name, where a collision would make one
\* of two unreachable.
NamespacesApart(doc) ==
  /\ NamesOf(doc.composites) \cap NamesOf(doc.resources) = {}
  /\ NamesOf(doc.probes) \cap (NamesOf(doc.resources) \cup NamesOf(doc.composites)) = {}

\* load_probe, and the gatherer block alike: a script that exists, and params.
ProbeAccepted(p) == p.script.present /\ ParamsAccepted(p.params)
GathererAccepted(g) ==
  g.script.present /\ ParamsAccepted(g.params) /\ ParamsAccepted(g.returns)
ResourceAccepted(r) ==
  /\ r.script.present /\ ParamsAccepted(r.params)
  /\ r.concurrency \in DOMAIN Tightness /\ r.lock # "  "
ScenarioAccepted(s) == s.script.present /\ s.lab

\* load_package_source: no secret() in a package, no name twice, and every
\* block by its own rules.
PackageAccepted(doc) ==
  /\ doc.wellFormed /\ ~doc.secrets
  /\ \A blocks \in {doc.resources, doc.gatherers, doc.composites, doc.probes,
                    doc.tests, doc.scenarios} : Distinct(blocks)
  /\ NamespacesApart(doc)
  /\ \A i \in DOMAIN doc.resources : ResourceAccepted(doc.resources[i])
  /\ \A i \in DOMAIN doc.gatherers : GathererAccepted(doc.gatherers[i])
  /\ \A i \in DOMAIN doc.probes : ProbeAccepted(doc.probes[i])
  /\ \A i \in DOMAIN doc.composites : CompositeAccepted(doc.composites[i])
  /\ \A i \in DOMAIN doc.scenarios : ScenarioAccepted(doc.scenarios[i])
  /\ \A i \in DOMAIN doc.tests : TestAccepted(doc.tests[i])
  /\ GroupsAgree(doc.tests)

\* load_packages: the folder gives the name, one name is reserved, and
\* nothing a package refers to may be the playbook's.
LoadPackages(docs) ==
  [composites |-> [n \in {} |-> {}], probes |-> [n \in {} |-> {}],
   packages |-> ByName(docs, LoadPackage)]

PackagesAccepted(docs) ==
  /\ \A i \in DOMAIN docs :
       /\ docs[i].folder # Builtin \/ docs[i].embedded
       /\ docs[i].name = docs[i].folder
       /\ PackageAccepted(docs[i])
  /\ \A i \in DOMAIN docs :
       /\ BodiesResolve(LoadPackages(docs), docs[i].name, docs[i].composites)
       /\ \A j \in DOMAIN docs[i].tests :
            TestResolves(LoadPackages(docs), docs[i].name, docs[i].tests[j])
=============================================================================
