-------------------------------- MODULE Synth --------------------------------
(***************************************************************************)
(* The playbooks a test run makes and hands to config-weave inside the     *)
(* instance (src/src/testlab/synth.rs): one for each test, one for each    *)
(* resource a scenario applies, one for each gatherer it asks. They are    *)
(* loaded there by the rules of any playbook.                              *)
(***************************************************************************)
EXTENDS Playbook

NoName == [n \in {} |-> {}]

\* What every synthesized directory holds: the packages that were copied, the
\* built-in one that travels in the binary, the lib of the playbook - and no
\* variables, gathers, probes or composites.
Synthesized(doc, needed, items) ==
  [wellFormed |-> TRUE, secrets |-> "none", dir |-> NoName, lib |-> doc.lib,
   vars |-> << >>, gathers |-> << >>, probes |-> << >>, composites |-> << >>,
   packages |-> SelectSeq(doc.packages, LAMBDA p : p.embedded \/ p.name \in needed),
   plays |-> << [name |-> "test", items |-> items] >>]

PlainStep(name, target, condition, requires, props) ==
  [kind |-> "step", name |-> name, resource |-> target, waitFor |-> NoRef,
   condition |-> condition, requires |-> requires, concurrency |-> NoClass,
   props |-> props, wait |-> [n \in {} |-> Broken], expects |-> FALSE, expect |-> "converge"]

\* A mutant of NeededBy: what the gathers name is forgotten.
NeededBySteps(pkg, test) ==
  {pkg.name} \cup {Resolved(s.resource, pkg.name).pkg : s \in Range(KeptSteps(test))}

\* synthesize: the packages a test names, its own among them, and its steps
\* with their source text.
NeededBy(pkg, test) ==
  {pkg.name} \cup {Resolved(s.resource, pkg.name).pkg : s \in Range(KeptSteps(test))}
             \cup {Resolved(g.from, pkg.name).pkg : g \in Range(test.gathers)}

Synthesize(doc, pkg, test) ==
  LET kept == KeptSteps(test)
  IN Synthesized(doc, NeededBy(pkg, test),
       [i \in DOMAIN kept |->
          PlainStep(kept[i].name, Resolved(kept[i].resource, pkg.name), kept[i].condition,
                    kept[i].requires, kept[i].props)])

(* -------------------------------------------------------------- scenarios *)

\* render_value: scalars and lists are written as they are, anything else as
\* the text of it.
RenderValue(v) ==
  IF v.ty \in {"string", "int", "float", "bool", "list"} THEN v ELSE [v EXCEPT !.ty = "string"]

\* render_props: a string under a symbol parameter is written as a symbol,
\* if it can be one. A script's value is never a symbol.
SymbolParams(decls) == {n \in DOMAIN decls : decls[n].ty = "symbol"}

CanRender(values, decls) ==
  \A n \in SymbolParams(decls) \cap DOMAIN values :
    values[n].ty = "string" => values[n].tok # "not an identifier"

RenderProps(values, decls) ==
  [n \in DOMAIN values |->
     Lit(IF n \in SymbolParams(decls) /\ values[n].ty = "string"
         THEN [values[n] EXCEPT !.ty = "symbol"] ELSE RenderValue(values[n]))]

\* synthesize_resource: an unknown package is an error, an unknown resource
\* is left for the instance to name.
ScenarioParams(pb, target) ==
  CASE Declares(pb, "resources", target)  -> Declared(pb, "resources", target).params
    [] Declares(pb, "composites", target) -> Declared(pb, "composites", target).params
    [] OTHER -> [n \in {} |-> {}]

SynthesizeResource(doc, target, values) ==
  Synthesized(doc, {target.pkg},
              << PlainStep("step", target, Always, {},
                           RenderProps(values, ScenarioParams(LoadPlaybook(doc), target))) >>)

\* synthesize_gather: the package, and a play without steps.
SynthesizeGather(doc, pkg) == Synthesized(doc, {pkg}, << >>)
=============================================================================
