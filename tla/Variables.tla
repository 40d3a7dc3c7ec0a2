----------------------------- MODULE Variables -----------------------------
(***************************************************************************)
(* Where the variables of a run get their values (cmd_run of               *)
(* src/src/main.rs, gather::run of src/src/engine/gather.rs): the          *)
(* overrides of the command line, then the results of gatherers that ran   *)
(* in threads of their own. What a playbook has to fulfil to be loaded,    *)
(* and what is planned with the variables, is for Prepare; here loading    *)
(* may refuse any playbook, and accepts none with two gather blocks of one *)
(* name.                                                                   *)
(***************************************************************************)
EXTENDS Gather

CONSTANTS
  Inputs,        \* what config-weave is called with - documents, play, overrides -
                 \* in families
  GatherValues   \* the values a gatherer script may return

IsList(s) == s \in Seq(Range(s))

\* Gather blocks are a sequence, and so are the bindings of a file and of
\* the flags.
ASSUME VariablesAssumption ==
  \A family \in DOMAIN Inputs : \A call \in Inputs[family] :
    /\ IsList(call.doc.gathers)
    /\ IsList(call.overrides.varFile) /\ IsList(call.overrides.secretVarFile)
    /\ IsList(call.overrides.flags)

VARIABLES
  input,    \* the call
  phase,    \* how far it has come
  store,    \* the VarStore
  results   \* per unique gatherer execution: running, its result, or failed

variables == << input, phase, store, results >>

doc == input.doc
pb  == LoadPlaybook(doc)

\* Playbook::play: the first of that name.
Selected == {i \in DOMAIN doc.plays : doc.plays[i].name = input.play}
play     == doc.plays[CHOOSE i \in Selected : \A j \in Selected : i <= j]

\* What fields are evaluated against.
scope == PlaybookScope(doc.vars, store)

VariablesInit ==
  /\ \E family \in DOMAIN Inputs : input \in Inputs[family]
  /\ phase = "load"
  /\ store = NoStore
  /\ results = << >>

Advance(to) == phase' = to
Refuse == phase' = "refused" /\ UNCHANGED << input, store, results >>

\* load_validated.
LoadValidated ==
  /\ phase = "load"
  /\ \/ Distinct(doc.gathers) /\ Advance("override") /\ UNCHANGED << input, store, results >>
     \/ Refuse

\* unlock: a playbook with secrets needs the password that opens all of them.
Unlocks == doc.secrets = "none" \/ input.password = "right"

\* override_store and unlock.
Override ==
  /\ phase = "override"
  /\ IF OverridesAccepted(input.overrides) /\ Unlocks
     THEN /\ store' = OverrideStore(input.overrides)
          /\ Advance("gather")
          /\ UNCHANGED << input, results >>
     ELSE Refuse

\* The first half of gather::run: every invocation's params, evaluated
\* before any result is there, then one thread for each unique execution.
StartGatherers ==
  /\ phase = "gather"
  /\ IF Selected # {} /\ InvocationsAccepted(pb, doc, scope)
     THEN /\ results' = [k \in DOMAIN Unique(Invocations(pb, doc, scope)) |-> Running]
          /\ Advance("gathering")
          /\ UNCHANGED << input, store >>
     ELSE Refuse

\* run_single in its thread: a value, an error, or a panic.
FinishGatherer(k) ==
  /\ phase = "gathering"
  /\ results[k] = Running
  /\ \E r \in {Result(v) : v \in GatherValues} \cup {Failed} :
       results' = [results EXCEPT ![k] = r]
  /\ UNCHANGED << input, phase, store >>

\* The second half: all threads have been joined, results are bound.
BindResults ==
  /\ phase = "gathering"
  /\ \A k \in DOMAIN results : results[k] # Running
  /\ LET invs == Invocations(pb, doc, scope)
     IN IF ResultsAccepted(pb, invs, results)
        THEN /\ store' = Bind(pb, invs, results, store)
             /\ Advance("plan")
             /\ UNCHANGED << input, results >>
        ELSE Refuse

\* Planner::plan for every step, which reads the variables.
PlanAll ==
  /\ phase = "plan"
  /\ Advance("planned")
  /\ UNCHANGED << input, store, results >>

VariablesNext ==
  \/ LoadValidated \/ Override \/ StartGatherers \/ BindResults \/ PlanAll
  \/ \E k \in DOMAIN results : FinishGatherer(k)

VariablesSpec == VariablesInit /\ [][VariablesNext]_variables

(* ------------------------------------------------------------- properties *)

\* The scope gather blocks are evaluated in, before any of them has run.
AskedIn == PlaybookScope(doc.vars, OverrideStore(input.overrides))

\* The value of the last binding of a name.
LastValue(bindings, n) ==
  bindings[CHOOSE i \in {i \in DOMAIN bindings : bindings[i].name = n} :
             \A j \in DOMAIN bindings : bindings[j].name = n => j <= i].value

\* A variable has the value of its highest source when the steps are planned:
\* a flag, else a file, else the gatherer, whose invocations with the same
\* params share one execution, else its declaration. (VarStore::insert over
\* override_store and gather::run.)
HighestSourceWins ==
  phase \in {"plan", "planned"} =>
    \A n \in DOMAIN store :
      LET files == input.overrides.varFile \o input.overrides.secretVarFile
          g     == The(doc.gathers, n)
      IN CASE n \in NamesOf(input.overrides.flags) ->
                store[n].value = LastValue(input.overrides.flags, n)
           [] n \notin NamesOf(input.overrides.flags) /\ n \in NamesOf(files) ->
                store[n].value = LastValue(files, n)
           [] OTHER ->
                \E k \in DOMAIN results :
                  /\ Unique(Invocations(pb, doc, AskedIn))[k]
                       = [key |-> g.from, params |-> GatherParams(pb, g, AskedIn)]
                  /\ store[n].value = Typed(results[k].v, GatherDecl(pb, g).returns)

\* Two variables that ask the same gatherer the same question get one answer,
\* though the gatherer might have answered differently a second time.
\* (canonicalise and by_dedup.)
SameQuestionSameAnswer ==
  phase \in {"plan", "planned"} =>
    \A m, n \in NamesOf(doc.gathers) :
      LET at(x) == GatherParams(pb, The(doc.gathers, x), AskedIn)
      IN /\ The(doc.gathers, m).from = The(doc.gathers, n).from /\ at(m) = at(n)
         /\ store[m].origin = Origin.Gatherer /\ store[n].origin = Origin.Gatherer
         => store[m].value = store[n].value
=============================================================================
