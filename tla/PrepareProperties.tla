-------------------------- MODULE PrepareProperties --------------------------
(***************************************************************************)
(* What has to hold of the preparation of a run.                           *)
(***************************************************************************)
EXTENDS Prepare, AuthorView, Synth

CONSTANT ScenarioValues  \* property maps a scenario may hand to a resource

\* The plan of every step is the one its author wrote: the conditions of the
\* containers it stands in, and the arguments of the invocations it comes
\* from, whatever the planner has cached under their paths before. (The
\* caches and maps of struct Planner, keyed by path.)
PlansMeanWhatIsWritten ==
  LET loaded == pb
      all    == steps
      leaves == Leaves(loaded, play)
      values == scope
  IN \A i \in DOMAIN plans : plans[i] = MeantPlan(loaded, values, all[i], leaves[i])

\* The names of a play keep its blocks apart under the keys of the planner's
\* caches: containers of one path and name have one condition, and no
\* invocation has the path and name of a container.
NamesApart(loaded, items) ==
  LET rows == PlayBlocks(items)
  IN \A i, j \in DOMAIN rows :
       /\ rows[i].block.kind = "container" /\ rows[i].block.name = rows[j].block.name
       /\ PathOf(rows[i]) = PathOf(rows[j])
       => IF rows[j].block.kind = "container"
          THEN rows[i].block.condition = rows[j].block.condition
          ELSE ~Invokes(loaded, rows[j].block)

\* The classes that decide under which one a step runs: that of its resource, its
\* own, and that of the nearest invocation around it which declares one.
Deciding(own, chain) ==
  LET around  == {d \in 1 .. Len(chain) - 1 : chain[d].block.concurrency # NoClass}
      nearest == {d \in around : \A e \in around : e <= d}
  IN ({own} \cup {chain[d].block.concurrency : d \in nearest \cup {Len(chain)}}) \ {NoClass}

\* Every step of a play comes to the scheduler with the tightest of the classes that
\* decide, however deep the invocations it stands in: none of them is lost on the
\* way, and nothing else makes it run alone. (max_opt at expansion, `or` from an
\* invocation to those in its body, max at planning.) An invocation farther out is
\* not among them: see NothingLoosens.
RunsUnderTightest ==
  LET loaded == pb
      leaves == Leaves(loaded, play)
  IN \A i \in DOMAIN plans :
       plans[i].kind = "run" =>
         LET own     == Declared(loaded, "resources", plans[i].resource).concurrency
             classes == Deciding(own, leaves[i].chain)
         IN /\ plans[i].concurrency \in classes
            /\ \A c \in classes : ~Looser(plans[i].concurrency, c)

\* "an invocation of a composite tightens every step of the body, but nothing may
\* loosen a class" (package-wcl.wcl): no step runs under a looser class than any
\* block of its chain declares.
NothingLoosens ==
  LET leaves == Leaves(pb, play)
  IN \A i \in DOMAIN plans :
       plans[i].kind = "run" =>
         \A link \in Range(leaves[i].chain) :
           link.block.concurrency # NoClass =>
             ~Looser(plans[i].concurrency, link.block.concurrency)

\* The dependencies the scheduler gets are those the author wrote: `requires`
\* reaches siblings of one scope, and all steps of an invocation it names.
\* (dag::build, which works on paths and depths of expanded steps.)
RequiresMeanWhatIsWritten ==
  phase = "override" =>
    \A n \in DOMAIN doc.plays :
      LET loaded == pb
          all == LoadPlay(loaded, doc.plays[n])
          as  == Leaves(loaded, doc.plays[n])
      IN /\ Len(all) = Len(as)
         /\ Deps(all) = [i \in DOMAIN all |-> {j \in DOMAIN all : WaitsFor(as[i], as[j])}]

\* The fields of a block are plain when none waits for a variable.
Static(fields) == \A n \in DOMAIN fields : fields[n].k = "lit"

\* What validation accepts it has resolved: nothing the engine looks up by
\* name is missing when the run comes to it, and a step of the playbook whose
\* fields and condition are literals never fails to be planned. (load_step,
\* check_params and compile_all against plan_from_block, apply_param_defaults
\* and run_single.)
AcceptedIsComplete ==
  LET scripts == ScriptSet(doc)
      leaves  == Leaves(pb, play)
  IN /\ phase = "gathering" =>
          \A i \in DOMAIN doc.gathers : doc.gathers[i].from \in scripts.gatherers
     /\ \A i \in DOMAIN plans :
          /\ plans[i].kind = "fail" => plans[i].why # "missing"
          /\ plans[i].kind = "run" => plans[i].resource \in scripts.resources
          /\ plans[i].kind = "wait" => plans[i].probe \in scripts.probes
          /\ plans[i].kind = "fail" =>
               ~ /\ leaves[i].containers = << >> /\ Len(leaves[i].chain) = 1
                 /\ LET b == leaves[i].chain[1].block
                    IN Static(b.props) /\ Static(b.wait) /\ b.condition = Always

\* The variables of a run are the ones Variables says, whatever else is
\* loaded and planned around them; so what is proved of those is true here.
\* (cmd_run of main.rs, which loads, overrides, gathers and plans in turn.)
ImplementsVariables == VariablesSpec

\* engine::validate, for a document of its own.
Runs(d) ==
  /\ PlaybookAccepted(d) /\ CompileAll(d)
  /\ \A i \in DOMAIN d.plays : IsAcyclic(Deps(LoadPlay(LoadPlaybook(d), d.plays[i])))

\* What the blocks of a package refer to in other packages.
RefersTo(p) ==
  LET bodies == UNION {Range(c.steps) : c \in Range(p.composites)}
      tested == UNION {Range(KeptSteps(t)) : t \in Range(p.tests)}
      asked  == UNION {Range(t.gathers) : t \in Range(p.tests)}
  IN {Resolved(Target(s), p.name).pkg : s \in bodies \cup tested}
     \cup {Resolved(g.from, p.name).pkg : g \in asked}

\* Packages that refer to no other package but these.
SelfContained(names) ==
  \A p \in Range(doc.packages) : p.name \in names => RefersTo(p) \subseteq names

\* The packages a test names.
NamedBy(p, t) ==
  {p.name} \cup {Resolved(Target(s), p.name).pkg : s \in Range(KeptSteps(t))}
           \cup {Resolved(g.from, p.name).pkg : g \in Range(t.gathers)}

\* The steps of a test do not require each other in a circle.
RequiresInOrder(test) ==
  \A S \in SUBSET DOMAIN KeptSteps(test) : S # {} =>
    \E i \in S : \A j \in S : KeptSteps(test)[j].name \notin KeptSteps(test)[i].requires

TestLoads(pkg, test) ==
  LET d == Synthesize(doc, pkg, test)
  IN Runs(d) /\ Len(LoadPlay(LoadPlaybook(d), d.plays[1])) = Len(KeptSteps(test))

\* What the loader accepted on the host, the instance accepts too: the
\* playbook made for a test loads and has a row for every step of it, the one
\* made for a scenario loads when the values fit, the one made for a gatherer
\* loads - as long as the packages that were copied need no other, and the
\* steps of the test can be ordered. (synth.rs against load.rs and scripts.rs)
SynthesizedLoads ==
  phase = "override" =>
    \A p \in Range(doc.packages) :
      /\ \A t \in Range(p.tests) :
           SelfContained(NamedBy(p, t)) /\ RequiresInOrder(t) => TestLoads(p, t)
      /\ SelfContained({p.name}) => Runs(SynthesizeGather(doc, p.name))
      /\ \A r \in NamesOf(p.resources), values \in ScenarioValues :
           LET decls == ScenarioParams(pb, RefTo(p.name, r))
               d     == SynthesizeResource(doc, RefTo(p.name, r), values)
           IN /\ SelfContained({p.name}) /\ DOMAIN values \subseteq DOMAIN decls
              /\ Fits(values, decls) /\ CanRender(values, decls)
              => Runs(d)
=============================================================================
