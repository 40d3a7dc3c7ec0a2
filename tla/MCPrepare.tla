----------------------------- MODULE MCPrepare -----------------------------
(***************************************************************************)
(* Documents for TLC: one playbook with one package, varied along one      *)
(* question at a time - the tree of a play, the fields of a step, the      *)
(* gatherers and their overrides, the rules a document may break.          *)
(***************************************************************************)
EXTENDS PrepareProperties

CONSTANT Container  \* the name of the container in the plays of TreePlays

Str(tok) == WclValue("string", tok)
Sym(tok) == WclValue("symbol", tok)
Int_(tok) == WclValue("int", tok)
Bool(tok) == WclValue("bool", tok)

NoFields == [n \in {} |-> Broken]
Field(n, e) == n :> e
FileWith(n, script) == n :> script
NoFiles == [n \in {} |-> {}]

Script == [present |-> TRUE, compiles |-> TRUE, imports |-> {}, entry |-> "plain"]
Param(n, ty) == [name |-> n, ty |-> ty, required |-> FALSE, default |-> NoDefault, symbols |-> {}]

StepBlock(n) ==
  [kind |-> "step", name |-> n, resource |-> NoRef, waitFor |-> NoRef, condition |-> Always,
   requires |-> {}, concurrency |-> NoClass, props |-> NoFields, wait |-> NoFields,
   expects |-> FALSE, expect |-> "converge"]
Converge(n, ref, props) == [StepBlock(n) EXCEPT !.resource = ref, !.props = props]
Await(n, ref, wait) == [StepBlock(n) EXCEPT !.waitFor = ref, !.wait = wait]
ContainerBlock(n, condition, items) ==
  [kind |-> "container", name |-> n, condition |-> condition, items |-> items]

Timeout == Field("timeout", Lit(Int_("minutes")))

(* ------------------------------------------------------------ the package *)

RParams == << [Param("path", "string") EXCEPT !.required = TRUE],
              [Param("mode", "symbol") EXCEPT !.symbols = {"on", "off"}, !.default = Sym("on")],
              Param("size", "float") >>

Resource == [name |-> "r", script |-> Script, concurrency |-> "parallel", lock |-> "none",
             params |-> RParams]
Gatherer == [name |-> "g", script |-> Script,
             params |-> << [Param("arg", "string") EXCEPT !.default = Str("a")] >>,
             returns |-> << [Param("key", "symbol") EXCEPT !.symbols = {"a", "b"}] >>]
Probe == [name |-> "up", script |-> Script, params |-> << Param("path", "string") >>]

\* p.inner hands its argument to a resource and waits for it.
Inner == [name |-> "inner", params |-> << [Param("to", "string") EXCEPT !.required = TRUE] >>,
          steps |-> << Converge("c", RefTo("", "r"), Field("path", Ref("to"))),
                       [Await("e", RefTo("", "up"), Timeout) EXCEPT !.requires = {"c"}] >>]

Package ==
  [folder |-> "p", name |-> "p", embedded |-> FALSE, wellFormed |-> TRUE, secrets |-> FALSE,
   dir |-> NoFiles, lib |-> FileWith("helper", Script),
   resources |-> << Resource,
                    [Resource EXCEPT !.name = "x", !.concurrency = "exclusive", !.lock = "l"] >>,
   gatherers |-> << Gatherer >>, composites |-> << Inner >>, probes |-> << Probe >>,
   tests |-> << >>, scenarios |-> << >>]

\* The playbook's own composite: a step, and an invocation of p.inner that
\* hands on another value.
Outer == [name |-> "outer", params |-> << [Param("to", "string") EXCEPT !.default = Str("d")] >>,
          steps |-> << Converge("d", RefTo("p", "x"), Field("path", Ref("to"))),
                       [Converge("c", RefTo("p", "inner"), Field("to", Lit(Str("inner"))))
                          EXCEPT !.requires = {"d"}, !.condition = Lit(Bool("true"))] >>]

Document ==
  [wellFormed |-> TRUE, secrets |-> "none", dir |-> NoFiles, lib |-> NoFiles,
   vars |-> << [name |-> "v", expr |-> Lit(Str("v"))] >>,
   gathers |-> << >>, probes |-> << >>, composites |-> << Outer >>, packages |-> << Package >>,
   plays |-> << >>]

NoOverrides == [varFile |-> << >>, secretVarFile |-> << >>, flags |-> << >>]
Binding(n, v) == [name |-> n, value |-> v]
Flag(n, v) == [NoOverrides EXCEPT !.flags = << Binding(n, v) >>]

Play(items) == << [name |-> "main", items |-> items] >>
Call(d, o) == [doc |-> d, play |-> "main", overrides |-> o, password |-> "right"]
Playing(items) == [Document EXCEPT !.plays = Play(items)]

(* -------------------------------------------------------- trees of a play *)

\* A step named n that is a resource, an invocation, or a nested one.
Kinds == {"resource", "inner", "outer"}
Block(n, kind) ==
  CASE kind = "resource" -> Converge(n, RefTo("p", "r"), Field("path", Ref("v")))
    [] kind = "inner"    -> Converge(n, RefTo("p", "inner"), Field("to", Ref("v")))
    [] kind = "outer"    -> Converge(n, RefTo("", "outer"), Field("to", Lit(Str(n))))

Conditions == {Always, Lit(Bool("false")), Ref("v")}

Tree(condition, kinds, requires) ==
  Playing(<< ContainerBlock(Container, condition,
                            << [Block("c", kinds[1]) EXCEPT !.requires = requires[1]] >>),
             [Block("b", kinds[2]) EXCEPT !.requires = requires[2]],
             [Block("a", kinds[3]) EXCEPT !.requires = requires[3], !.condition = condition] >>)

\* A container in a container, each with a condition.
NestedTree(outer, inner, kinds) ==
  Playing(<< ContainerBlock(Container, outer,
                            << ContainerBlock("l", inner, << Block("c", kinds[1]) >>),
                               Block("b", kinds[2]) >>),
             Block("a", kinds[3]) >>)

Others == << SUBSET {"a", "b"}, SUBSET {"a", "c"}, SUBSET {"b", "c"} >>

Trees ==
  {Tree(Always, k, << r1, r2, r3 >>) :
     k \in [1 .. 3 -> Kinds], r1 \in Others[1], r2 \in Others[2], r3 \in Others[3]}
  \cup {Tree(c, k, << {}, {}, {} >>) : c \in Conditions, k \in [1 .. 3 -> Kinds]}
  \cup {NestedTree(c, d, k) : c \in Conditions, d \in Conditions, k \in [1 .. 3 -> Kinds]}

TreeInputs ==
  {Call(d, NoOverrides) : d \in Trees}
  \cup {Call(Tree(Ref("v"), k, << {}, {}, {} >>), Flag("v", Bool(b))) :
          k \in [1 .. 3 -> Kinds], b \in {"true", "false"}}

(* ------------------------------------------------------- fields of a step *)

Paths == {Lit(Str("p")), Lit(Int_("one")), Ref("v"), Ref("nowhere"), Broken, Function, Nested}
Modes == {Lit(Sym("on")), Lit(Sym("dim")), Lit(Str("on")), Ref("v")}
Sizes == {Lit(Int_("one")), Lit(WclValue("float", "half")), Lit(Str("big"))}

\* The fields of a resource step: each one with any value, or left out.
Properties ==
  LET choose(n, exprs) == {NoFields} \cup {Field(n, e) : e \in exprs}
  IN {a @@ b @@ c : a \in choose("path", Paths), b \in choose("mode", Modes),
                    c \in choose("size", Sizes)}
     \cup {Field("path", Lit(Str("p"))) @@ Field("unknown", Lit(Str("p")))}

\* The fields of a wait step.
Waits ==
  LET spans == {Lit(Int_("minutes")), Lit(Int_("less than a second")), Lit(Str("2h")), Ref("v"), Function}
  IN {Field("timeout", e) : e \in spans} \cup {NoFields, Timeout}
     \cup {Timeout @@ Field("fail_on_error", e) : e \in {Lit(Bool("true")), Lit(Str("yes")), Ref("v")}}

FieldInputs ==
  LET steps_ == {Converge("a", RefTo("p", "r"), f) : f \in Properties}
                \cup {Await("a", RefTo("p", "up"), w) : w \in Waits}
  IN {Call(Playing(<< s >>), Flag("v", v)) :
        s \in steps_, v \in {Str("p"), Sym("on"), Int_("minutes"), Bool("true"), Failing}}

(* -------------------------------------------------------------- gatherers *)

GatherBlock(n, e) == [name |-> n, from |-> RefTo("p", "g"),
                      params |-> IF e = Broken THEN NoFields ELSE Field("arg", e)]

\* Broken stands for no params block at all, which asks for the default.
Questions == {Broken, Lit(Str("a")), Lit(Str("b")), Ref("v"), Ref("one")}

Gathering(q1, q2) ==
  [Playing(<< Converge("a", RefTo("p", "r"), Field("path", Lit(Str("p"))) @@ Field("mode", Ref("two"))) >>)
     EXCEPT !.gathers = << GatherBlock("one", q1), GatherBlock("two", q2),
                           GatherBlock("three", Lit(Str("a"))) >>]

Overrides ==
  {NoOverrides, Flag("v", Str("a")), Flag("one", Str("b")),
   [NoOverrides EXCEPT !.varFile = << Binding("two", Sym("off")) >>],
   [NoOverrides EXCEPT !.varFile = << Binding("two", Str("a")) >>,
                       !.flags = << Binding("two", Sym("on")), Binding("two", Sym("off")) >>],
   [NoOverrides EXCEPT !.varFile = << Binding("one", Str("a")) >>,
                       !.secretVarFile = << Binding("two", Str("on")) >>],
   [NoOverrides EXCEPT !.varFile = << Binding("one", Str("a")) >>,
                       !.secretVarFile = << Binding("one", Str("b")) >>]}

GatherInputs == {Call(Gathering(q1, q2), o) : q1 \in Questions, q2 \in Questions, o \in Overrides}

(* ------------------------------------------------------ rules of documents *)

\* A step for each kind of reference, over a package changed in one place.
Steps(items, pkg) ==
  [Document EXCEPT !.packages = << pkg >>, !.plays = Play(items)]
Usual(pkg) == Steps(<< Block("c", "resource"), Block("b", "inner"), Block("a", "outer") >>, pkg)
One(step) == Steps(<< step >>, Package)
Body(s) == [Package EXCEPT !.composites = << [Inner EXCEPT !.steps = << s >>] >>]

ReadsNothing == [Script EXCEPT !.imports = {"nowhere"}]
ReadsHelper  == [Script EXCEPT !.imports = {"helper", "fs"}]

Packages_ ==
  {[Package EXCEPT !.wellFormed = FALSE], [Package EXCEPT !.secrets = TRUE],
   [Package EXCEPT !.folder = "q"], [Package EXCEPT !.folder = "weave", !.name = "weave"],
   [Package EXCEPT !.resources = << Resource, Resource >>],
   [Package EXCEPT !.resources = << [Resource EXCEPT !.name = "x"] >>],
   [Package EXCEPT !.resources[1].name = "inner"],
   [Package EXCEPT !.probes[1].name = "r"], [Package EXCEPT !.probes[1].name = "inner"],
   [Package EXCEPT !.resources[1].script.present = FALSE],
   [Package EXCEPT !.resources[1].script.compiles = FALSE],
   [Package EXCEPT !.resources[1].script.entry = "neither"],
   [Package EXCEPT !.gatherers[1].script = ReadsNothing],
   [Package EXCEPT !.probes[1].script = ReadsHelper],
   [Package EXCEPT !.probes[1].script = ReadsHelper, !.lib = NoFiles],
   [Package EXCEPT !.lib = FileWith("fs", Script)],
   [Package EXCEPT !.lib = FileWith("helper", ReadsHelper)],
   [Package EXCEPT !.resources[1].concurrency = "any"],
   [Package EXCEPT !.resources[1].params[1].ty = "text"],
   [Package EXCEPT !.resources[1].params[2].default = Str("on")],
   [Package EXCEPT !.resources[1].params[2].default = Sym("dim")],
   [Package EXCEPT !.resources[1].params[3].symbols = {"on"}],
   [Package EXCEPT !.composites[1].params[1].name = "name"],
   [Package EXCEPT !.composites[1].steps = << >>],
   Body(Converge("c", RefTo("q", "r"), NoFields)), Body(Converge("c", NoRef, NoFields)),
   Body(Converge("c", RefTo("", "r"), NoFields)), Body(Converge("c", RefTo("", "up"), NoFields)),
   Body(Converge("c", RefTo("", "r"), Field("path", Lit(Int_("one"))))),
   Body(Converge("c", RefTo("", "inner"), Field("to", Ref("to")))),
   Body([Converge("c", RefTo("", "x"), Field("path", Ref("to"))) EXCEPT !.concurrency = "parallel"]),
   Body([Converge("c", RefTo("", "x"), Field("path", Ref("to"))) EXCEPT !.concurrency = "global"]),
   Body([Converge("c", RefTo("", "r"), Field("path", Ref("to"))) EXCEPT !.requires = {"c"}]),
   Body([Converge("c", RefTo("", "r"), Field("path", Ref("to"))) EXCEPT !.requires = {"f"}]),
   Body(Await("c", RefTo("", "up"), NoFields)), Body(Await("c", RefTo("", "r"), Timeout)),
   Body(Converge("c", RefTo("", "r"), Field("path", Ref("nowhere"))))}

Classes == {NoClass, "parallel", "exclusive", "global"}

StepsToRefuse ==
  {Converge("a", RefTo("p", "nothing"), NoFields), Converge("a", RefTo("q", "r"), NoFields),
   Converge("a", RefTo("", "r"), NoFields), Converge("a", NoRef, NoFields),
   Converge("a", RefTo("p", "up"), NoFields), Await("a", RefTo("p", "r"), Timeout),
   [Await("a", RefTo("p", "up"), Timeout) EXCEPT !.resource = RefTo("p", "r")],
   [Converge("a", RefTo("p", "r"), Field("path", Ref("v"))) EXCEPT !.requires = {"a"}],
   [Converge("a", RefTo("p", "r"), Field("path", Ref("v"))) EXCEPT !.requires = {"z"}]}

\* Each class on a resource of each class, directly and around composites.
Classed ==
  {[Block("a", kind) EXCEPT !.concurrency = c] : kind \in Kinds, c \in Classes}
  \cup {[Converge("a", RefTo("p", "x"), Field("path", Ref("v"))) EXCEPT !.concurrency = c] :
          c \in Classes}

\* An invocation of each class in the body of one of each class, and one that goes
\* through a third body without a class.
Middle == [name |-> "middle", params |-> << >>,
           steps |-> << Converge("m", RefTo("", "outer"), NoFields) >>]
ClassedBodies ==
  {[Playing(<< [Converge("a", ref, NoFields) EXCEPT !.concurrency = c1] >>)
      EXCEPT !.composites = << [Outer EXCEPT !.steps[2].concurrency = c2],
                               [Middle EXCEPT !.steps[1].concurrency = c3] >>] :
     ref \in {RefTo("", "outer"), RefTo("", "middle")}, c1 \in Classes, c2 \in Classes,
     c3 \in {NoClass, "exclusive"}}
ClassInputs == {Call(d, NoOverrides) : d \in ClassedBodies}

RuleInputs ==  {Call(Usual(p), NoOverrides) : p \in Packages_}
  \cup {Call(One(s), NoOverrides) : s \in StepsToRefuse \cup Classed}
  \cup {Call([Usual(Package) EXCEPT !.secrets = s], Flag("v", Str("a"))) : s \in {"plain", "encrypted"}}
  \cup {[Call([Usual(Package) EXCEPT !.secrets = s], NoOverrides) EXCEPT !.password = "wrong"] :
          s \in {"none", "encrypted"}}
  \cup {[Call(Usual(Package), NoOverrides) EXCEPT !.play = "other"]}
  \cup {Call([Gathering(Broken, Lit(Str("b"))) EXCEPT !.gathers[2].name = "one"], NoOverrides)}

(* ------------------------------------------------------------------ tests *)

\* A second package, with a composite that waits on the first one.
Second ==
  [Package EXCEPT !.folder = "q", !.name = "q",
                  !.resources = << [Resource EXCEPT !.script = ReadsHelper] >>,
                  !.composites = << >>, !.probes = << >>, !.lib = NoFiles]

TestStep(n, ref, requires, expect) ==
  [Converge(n, ref, Field("path", Lit(Str("p")))) EXCEPT !.requires = requires, !.expect = expect]

Test(steps_, gathers) ==
  [name |-> "t", image |-> "debian", template |-> "", memory |-> "1g", group |-> "",
   jobs |-> 1, readyTimeout |-> 60, verify |-> {Script}, steps |-> steps_, gathers |-> gathers]

Asks(ref, expected) ==
  [name |-> "g", from |-> ref, params |-> NoFields, expect |-> Field("key", expected)]

Targets == {RefTo("", "r"), RefTo("q", "r"), RefTo("", "inner"), NoRef}
Expected == {"converge", "error"}

Tests ==
  {Test(<< TestStep("a", t1, r1, e1), TestStep("b", t2, r2, e2) >>, << >>) :
     t1 \in Targets, t2 \in Targets, r1 \in {{}, {"b"}}, r2 \in {{}, {"a"}},
     e1 \in Expected, e2 \in Expected}
  \cup {Test(<< TestStep("a", RefTo("", "r"), {}, "converge") >>, << Asks(g, e) >>) :
          g \in {RefTo("", "g"), RefTo("q", "g"), RefTo("q", "h")},
          e \in {Lit(Sym("a")), Lit(Str("a")), Lit(Sym("dim")), Ref("v")}}
  \cup {[Test(<< TestStep("a", RefTo("", "r"), {}, "converge") >>, << >>) EXCEPT !.template = t, !.jobs = j] :
          t \in {"", "x86"}, j \in {0, 2}}

\* Another test of the package, which may name what this one does not.
Companions == {<< >>, << [Test(<< TestStep("a", RefTo("q", "r"), {}, "converge") >>, << >>)
                            EXCEPT !.name = "u"] >>}

Tested(test, companions) ==
  [Document EXCEPT
     !.packages = << [Package EXCEPT !.tests = << test >> \o companions], Second >>,
     !.lib = FileWith("helper", Script),
     !.plays = Play(<< Converge("a", RefTo("q", "r"), Field("path", Ref("v"))) >>)]

TestInputs == {Call(Tested(t, c), NoOverrides) : t \in Tests, c \in Companions}

\* What a scenario may hand to a resource, as a script has it.
MCScenarioValues ==
  {a @@ b @@ c : a \in {[n \in {} |-> Str("x")], "path" :> Str("x"), "path" :> Int_("one")},
                 b \in {[n \in {} |-> Str("x")], "mode" :> Str("on"), "mode" :> Str("dim")},
                 c \in {[n \in {} |-> Str("x")], "size" :> Int_("one")}}

(* ------------------------------------------------------------- the cases *)

MCInputs == [trees |-> TreeInputs, fields |-> FieldInputs, gathers |-> GatherInputs,
             rules |-> RuleInputs, classes |-> ClassInputs, tests |-> TestInputs]
MCTrees   == [trees |-> TreeInputs]
MCClasses == [classes |-> ClassInputs]
MCGatherValues == {Str("a"), Str("b"), Str("out of the set")}
=============================================================================
