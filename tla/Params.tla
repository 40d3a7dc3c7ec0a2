------------------------------- MODULE Params -------------------------------
(***************************************************************************)
(* Typed parameters: what a declaration asks for, what the value of a      *)
(* field is (src/src/convert.rs), the checks the loader makes of a block   *)
(* of fields before anything runs (src/src/model/load.rs) and the one the  *)
(* engine repeats when values are known (src/src/engine/gather.rs).        *)
(*                                                                         *)
(* A diagnostic is abstracted to the fact that there is one: every command *)
(* that goes on to run something refuses a playbook with any.              *)
(***************************************************************************)
EXTENDS Naturals, Sequences, FiniteSets

CoarseTypes == {"string", "int", "float", "bool", "list", "map", "symbol", "duration"}

\* A value carries its type and a token that tells it from others of the type.
WclValue(ty, tok) == [ty |-> ty, tok |-> tok]

\* wcl_to_dyn: scripts see symbols as strings. Nothing else of a value's
\* identity is lost on the way that a property depends on.
ToDyn(v) == [v EXCEPT !.ty = IF v.ty = "symbol" THEN "string" ELSE v.ty]

\* dyn_to_wcl: back as plain data, so a symbol returns as a string.
ToWcl(v) == v

\* The expression of a field: a literal, a variable, one whose evaluation
\* fails, one that evaluates to a function, or a nested block in its place.
Lit(v)   == [k |-> "lit", v |-> v]
Ref(n)   == [k |-> "ref", n |-> n]
Broken   == [k |-> "broken"]
Function == [k |-> "function"]
Nested   == [k |-> "block"]

NoScope == [n \in {} |-> WclValue("null", "none")]

\* What a scope that binds a name to a failing expression holds for it.
Failing == WclValue("failing", "failing")

\* field_value_dyn: a value with its spelling, or why there is none.
FieldValue(e, scope) ==
  LET value(v) == [r |-> "ok", v |-> ToDyn(v), symbol |-> v.ty = "symbol"]
      none(why) == [r |-> why]
  IN CASE e.k = "lit"      -> value(e.v)
       [] e.k = "ref"      -> IF e.n \notin DOMAIN scope THEN none("unresolved")
                              ELSE IF scope[e.n] = Failing THEN none("eval")
                              ELSE value(scope[e.n])
       [] e.k = "function" -> none("convert")
       [] OTHER            -> none("eval")

(* ---------------------------------------------------------- declarations *)

NoDefault == WclValue("none", "none")

Decl(ty, required, default, symbols) ==
  [ty |-> ty, required |-> required, default |-> default, symbols |-> symbols]

\* CoarseType::matches: an int passes for a float; symbols and durations
\* have become strings and ints before they get here.
Matches(ty, v) ==
  <<ty, v.ty>> \in {<<t, t>> : t \in CoarseTypes \ {"symbol", "duration"}}
                   \cup {<<"float", "int">>, <<"symbol", "string">>, <<"duration", "int">>}

SymbolViolation(symbols, v) ==
  symbols # {} /\ v.ty = "string" /\ v.tok \notin symbols

\* load_params_of with load_symbols, over the declaration blocks of an owner:
\* no name twice, a known type, symbols only on a symbol, and a default that
\* is written as a symbol where one is asked for, and fits the declaration.
DefaultFits(ty, symbols, default) ==
  \/ default = NoDefault
  \/ /\ ty = "symbol" => default.ty # "string"
     /\ Matches(ty, ToDyn(default))
     /\ ~SymbolViolation(symbols, ToDyn(default))

ParamsAccepted(blocks) ==
  /\ \A i, j \in DOMAIN blocks : blocks[i].name = blocks[j].name => i = j
  /\ \A i \in DOMAIN blocks :
       /\ blocks[i].ty \in CoarseTypes
       /\ blocks[i].symbols # {} => blocks[i].ty = "symbol"
       /\ DefaultFits(blocks[i].ty, blocks[i].symbols, blocks[i].default)

\* The declarations of accepted blocks, by name.
LoadParams(blocks) ==
  LET at(n) == CHOOSE i \in DOMAIN blocks : blocks[i].name = n
  IN [n \in {blocks[i].name : i \in DOMAIN blocks} |->
        Decl(blocks[at(n)].ty, blocks[at(n)].required,
             IF blocks[at(n)].default = NoDefault THEN NoDefault
             ELSE ToDyn(blocks[at(n)].default),
             blocks[at(n)].symbols)]

(* --------------------------------------------------------- before a run *)

\* A mutant of ValueAccepted: any symbol will do.
ValueAcceptedAnySymbol(decl, fv) ==
  /\ decl.ty = "symbol" /\ fv.v.ty = "string" => fv.symbol
  /\ Matches(decl.ty, fv.v)

\* check_symbol_spelling and check_param_type.
ValueAccepted(decl, fv) ==
  /\ decl.ty = "symbol" /\ fv.v.ty = "string" => fv.symbol
  /\ Matches(decl.ty, fv.v)
  /\ ~SymbolViolation(decl.symbols, fv.v)

\* check_missing_required.
NothingMissing(decls, present) ==
  \A n \in DOMAIN decls :
    decls[n].required /\ decls[n].default = NoDefault => n \in present

FieldAccepted(e, name, decls, static) ==
  LET fv == FieldValue(e, NoScope)
  IN /\ e.k # "block"
     /\ name \in DOMAIN decls
     /\ \/ fv.r = "ok" /\ ValueAccepted(decls[name], fv)
        \/ fv.r = "unresolved" /\ ~static

\* check_params of a step or a gather. The same over pairs evaluated earlier:
\* the body of a composite, whose target is known in a second pass, and a
\* test, whose values may not wait for variables.
FieldsAccepted(fields, decls, static) ==
  /\ \A n \in DOMAIN fields : FieldAccepted(fields[n], n, decls, static)
  /\ NothingMissing(decls, DOMAIN fields)

CheckParams(fields, decls)         == FieldsAccepted(fields, decls, FALSE)
CheckParamsDeferred(fields, decls) == FieldsAccepted(fields, decls, FALSE)
CheckParamsStatic(fields, decls)   == FieldsAccepted(fields, decls, TRUE)

\* deferred_pairs and static_pairs: what the first pass already refuses.
DeferredPairs(fields) ==
  \A n \in DOMAIN fields :
    fields[n].k = "block" \/ FieldValue(fields[n], NoScope).r \in {"ok", "unresolved"}
StaticPairs(fields) ==
  \A n \in DOMAIN fields : fields[n].k = "block" \/ FieldValue(fields[n], NoScope).r = "ok"

\* check_expect_static: expectations are attributes with
\* static values; only a key declared as a symbol is held to its declaration.
CheckExpect(expect, returns) ==
  /\ StaticPairs(expect)
  /\ \A n \in DOMAIN expect :
       LET fv == FieldValue(expect[n], NoScope)
       IN /\ expect[n].k # "block"
          /\ n \in DOMAIN returns /\ returns[n].ty = "symbol" =>
               /\ fv.v.ty = "string" => fv.symbol
               /\ ~SymbolViolation(returns[n].symbols, fv.v)

(* ------------------------------------------------------------ at run time *)

\* The attributes of a properties block: nested blocks are not read, and a
\* field without a value fails the whole block.
Attributes(fields) == {n \in DOMAIN fields : fields[n].k # "block"}

Readable(fields, scope) ==
  \A n \in Attributes(fields) : FieldValue(fields[n], scope).r = "ok"

ReadProperties(fields, scope) ==
  [n \in Attributes(fields) |-> FieldValue(fields[n], scope).v]

\* apply_param_defaults: whether the values fit, and the values with what
\* the declarations add. A default is not checked again.
Fits(values, decls) ==
  \A n \in DOMAIN decls :
    /\ n \in DOMAIN values =>
         Matches(decls[n].ty, values[n]) /\ ~SymbolViolation(decls[n].symbols, values[n])
    /\ n \notin DOMAIN values => decls[n].default # NoDefault \/ ~decls[n].required

WithDefaults(values, decls) ==
  LET added == {n \in DOMAIN decls \ DOMAIN values : decls[n].default # NoDefault}
  IN [n \in DOMAIN values \cup added |->
        IF n \in DOMAIN values THEN values[n] ELSE decls[n].default]
=============================================================================
