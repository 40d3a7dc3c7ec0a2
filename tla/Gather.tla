------------------------------- MODULE Gather -------------------------------
(***************************************************************************)
(* The gatherer phase (src/src/engine/gather.rs): what is executed for the *)
(* gather blocks of a playbook, and what their variables are bound to. The *)
(* result of a gatherer is a map with one key, written as that key's       *)
(* value; `returns` declares the key under the name "key".                 *)
(***************************************************************************)
EXTENDS Packages, VarStore

(* ------------------------------------------------------------ invocations *)

\* The params of a gather block, evaluated against the overrides and the
\* declared variables, with declared defaults filled in.
GatherDecl(pb, g) == Declared(pb, "gatherers", g.from)

GatherParamsFit(pb, g, scope) ==
  /\ Readable(g.params, scope)
  /\ Fits(ReadProperties(g.params, scope), GatherDecl(pb, g).params)

GatherParams(pb, g, scope) ==
  WithDefaults(ReadProperties(g.params, scope), GatherDecl(pb, g).params)

InvocationsAccepted(pb, doc, scope) ==
  \A i \in DOMAIN doc.gathers : GatherParamsFit(pb, doc.gathers[i], scope)

Invocations(pb, doc, scope) ==
  [i \in DOMAIN doc.gathers |->
     [name |-> doc.gathers[i].name, key |-> doc.gathers[i].from,
      params |-> GatherParams(pb, doc.gathers[i], scope)]]

\* A mutant of Execution: one for each gather block.
ExecutionOfBlock(inv) == [key |-> inv.key, params |-> inv.params, name |-> inv.name]

\* One execution for all invocations of the same gatherer with the same
\* params (canonicalise), in the order they first appear.
Execution(inv) == [key |-> inv.key, params |-> inv.params]

Unique(invs) ==
  LET upTo[i \in 0 .. Len(invs)] ==
        IF i = 0 THEN << >>
        ELSE IF Execution(invs[i]) \in Range(upTo[i - 1]) THEN upTo[i - 1]
        ELSE Append(upTo[i - 1], Execution(invs[i]))
  IN upTo[Len(invs)]

\* The execution whose result an invocation takes (by_dedup).
Shares(invs, i) == CHOOSE k \in DOMAIN Unique(invs) : Unique(invs)[k] = Execution(invs[i])

(* ---------------------------------------------------------------- results *)

Running   == [r |-> "running"]
Failed    == [r |-> "failed"]     \* an error of the script, or a panic of its thread
Result(v) == [r |-> "ok", v |-> v]

Returns(pb, inv) == Declared(pb, "gatherers", inv.key).returns

IsSymbol(returns) == "key" \in DOMAIN returns /\ returns["key"].ty = "symbol"

\* dyn_to_wcl_returns: a string under a key declared as a symbol becomes one.
Typed(v, returns) ==
  IF IsSymbol(returns) /\ v.ty = "string" THEN [v EXCEPT !.ty = "symbol"] ELSE ToWcl(v)

\* Every invocation has a result, and it keeps to the declared symbols
\* (returns_symbol_violations).
ResultsAccepted(pb, invs, results) ==
  \A i \in DOMAIN invs :
    LET result  == results[Shares(invs, i)]
        returns == Returns(pb, invs[i])
    IN /\ result.r = "ok"
       /\ IsSymbol(returns) => ~SymbolViolation(returns["key"].symbols, result.v)

\* Results are bound in the order of the gather blocks, after all threads
\* have been joined, whatever order they ended in.
Bind(pb, invs, results, store) ==
  InsertAll(store,
            [i \in DOMAIN invs |->
               [name |-> invs[i].name,
                value |-> Typed(results[Shares(invs, i)].v, Returns(pb, invs[i]))]],
            Origin.Gatherer)
=============================================================================
