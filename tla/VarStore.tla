------------------------------ MODULE VarStore ------------------------------
(***************************************************************************)
(* The run-time variable scope (src/src/engine/vars.rs) and the overrides  *)
(* of the command line (override_store of src/src/main.rs): declared       *)
(* variables, lowest, then gatherer results, variable files and flags.     *)
(***************************************************************************)
EXTENDS Params, Functions

Origin == [Gatherer |-> 1, VarFile |-> 2, Var |-> 3]

NoStore == [n \in {} |-> [origin |-> 1, value |-> Failing]]

\* A mutant of Insert: the later one wins, whatever its origin.
InsertLater(store, name, origin, value) ==
  [n \in DOMAIN store \cup {name} |->
     IF n = name THEN [origin |-> origin, value |-> value] ELSE store[n]]

\* VarStore::insert: a stored value of a higher origin stays; among equals
\* the later one wins.
Insert(store, name, origin, value) ==
  IF name \in DOMAIN store /\ store[name].origin > origin THEN store
  ELSE [n \in DOMAIN store \cup {name} |->
          IF n = name THEN [origin |-> origin, value |-> value] ELSE store[n]]

InsertAll(store, bindings, origin) ==
  LET after[i \in 0 .. Len(bindings)] ==
        IF i = 0 THEN store
        ELSE Insert(after[i - 1], bindings[i].name, origin, bindings[i].value)
  IN after[Len(bindings)]

\* load_var_file and parse_var_flag: a name has to be an identifier, and a
\* field of a file has to evaluate alone. A flag that does not evaluate is
\* the text itself.
BindingAccepted(b) == b.name # "not an identifier" /\ b.value # Failing

OverridesAccepted(o) ==
  /\ \A seq \in {o.varFile, o.secretVarFile} : \A i \in DOMAIN seq : BindingAccepted(seq[i])
  /\ \A i \in DOMAIN o.flags : o.flags[i].name # "not an identifier"
  /\ \A i \in DOMAIN o.varFile, j \in DOMAIN o.secretVarFile :
       o.varFile[i].name # o.secretVarFile[j].name

\* override_store.
OverrideStore(o) ==
  InsertAll(InsertAll(InsertAll(NoStore, o.varFile, Origin.VarFile),
                      o.secretVarFile, Origin.VarFile),
            o.flags, Origin.Var)

\* open_playbook with vars_source and environment: the scope a playbook is
\* evaluated in. In the generated vars.wcl what is stored shadows the
\* declaration; a declaration may read other names, but not its own.
PlaybookScope(decls, store) ==
  LET known == DOMAIN store \cup {decls[i].name : i \in DOMAIN decls}
      expr(name) == decls[CHOOSE i \in DOMAIN decls : decls[i].name = name].expr
      value[name \in known, reading \in SUBSET known] ==
        IF name \in DOMAIN store THEN store[name].value
        ELSE CASE expr(name).k = "lit" -> expr(name).v
               [] expr(name).k = "ref" /\ expr(name).n \in known \ (reading \cup {name}) ->
                    value[expr(name).n, reading \cup {name}]
               [] OTHER -> Failing
  IN [n \in known |-> value[n, {}]]

\* open_composite: the body of a composite sees the arguments of its own
\* invocation and nothing else. Each is bound bare and under `args`, which
\* reads the same value.
CompositeScope(args) == [n \in DOMAIN args |-> ToWcl(args[n])]
=============================================================================
