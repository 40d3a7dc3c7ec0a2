------------------------------ MODULE Scripts ------------------------------
(***************************************************************************)
(* Compiling every script of a playbook before anything runs               *)
(* (src/src/engine/scripts.rs). A script is a record: the names it         *)
(* imports, whether its own text compiles, and the signature of its entry  *)
(* points. A directory maps the names it holds to scripts.                 *)
(***************************************************************************)
EXTENDS Packages

CONSTANT HostModules  \* modules of the host API, which win over any file

\* An entry point returns its result bare or in a Result, or has neither of
\* the accepted signatures (entry_kind, check_run_contract).
EntryKinds == {"plain", "fallible"}

\* WeaveResolver::resolve for an import by name: the importing file's own
\* directory, then the roots in order: the package's lib, then the
\* playbook's. The built-in package finds its helpers in the binary alone.
Roots(doc, pkg) == IF pkg.embedded THEN << >> ELSE << pkg.lib, doc.lib >>

Finds(dirs, name) == {i \in DOMAIN dirs : name \in DOMAIN dirs[i]}
Nearest(dirs, name) ==
  dirs[CHOOSE i \in Finds(dirs, name) : \A j \in Finds(dirs, name) : i <= j]

\* A script on its way through the import graph: the directory it was found
\* in, and the names imported on the way to it. A name that is a host module
\* never reaches a file.
Import(from, script, via) == [from |-> from, script |-> script, via |-> via]

Needs(import) == import.script.imports \ (HostModules \cup import.via)

Follow(import, roots, n) ==
  LET dir == Nearest(<< import.from >> \o roots, n) IN Import(dir, dir[n], import.via \cup {n})

Imported(import, roots) ==
  {Follow(import, roots, n) :
     n \in {n \in Needs(import) : Finds(<< import.from >> \o roots, n) # {}}}

\* compile_script: the whole import graph compiles, or the script does not. No
\* way through it is longer than there are names.
Compiles(from, roots, script) ==
  LET names == DOMAIN from \cup UNION {DOMAIN roots[i] : i \in DOMAIN roots}
      reached[n \in 0 .. Cardinality(names)] ==
        IF n = 0 THEN {Import(from, script, {})}
        ELSE UNION {Imported(import, roots) : import \in reached[n - 1]}
  IN \A n \in 0 .. Cardinality(names) : \A import \in reached[n] :
       /\ import.script.compiles
       /\ \A name \in Needs(import) : Finds(<< import.from >> \o roots, name) # {}

CompilesEntry(from, roots, script) ==
  Compiles(from, roots, script) /\ script.entry \in EntryKinds

\* compile_lib: every shared script compiles, and none has the name of a
\* host module, behind which it could never be reached.
LibCompiles(roots, lib) ==
  /\ DOMAIN lib \cap HostModules = {}
  /\ \A n \in DOMAIN lib : Compiles(lib, roots, lib[n])

\* compile_all, package by package: resources, gatherers, probes, verify
\* scripts and scenarios against the package's roots, then its lib.
PackageCompiles(doc, pkg) ==
  LET entry(script) == CompilesEntry(pkg.dir, Roots(doc, pkg), script)
  IN /\ \A blocks \in {pkg.resources, pkg.gatherers, pkg.probes, pkg.scenarios} :
          \A i \in DOMAIN blocks : entry(blocks[i].script)
     /\ \A i \in DOMAIN pkg.tests : \A v \in pkg.tests[i].verify : entry(v)
     /\ pkg.embedded \/ LibCompiles(Roots(doc, pkg), pkg.lib)

CompileAll(doc) ==
  /\ \A i \in DOMAIN doc.packages : PackageCompiles(doc, doc.packages[i])
  /\ \A i \in DOMAIN doc.probes : CompilesEntry(doc.dir, << doc.lib >>, doc.probes[i].script)
  /\ LibCompiles(<< doc.lib >>, doc.lib)

\* ScriptSet: what is there to be called, under package and name. Verify
\* scripts and scenarios are compiled and not kept.
ScriptSet(doc) ==
  LET under(kind) == UNION { {RefTo(doc.packages[i].name, n) : n \in NamesOf(doc.packages[i][kind])}
                             : i \in DOMAIN doc.packages }
  IN [resources |-> under("resources"), gatherers |-> under("gatherers"),
      probes |-> under("probes") \cup {RefTo("", n) : n \in NamesOf(doc.probes)}]
=============================================================================
