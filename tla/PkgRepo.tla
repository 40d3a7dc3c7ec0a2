------------------------------ MODULE PkgRepo ------------------------------
(***************************************************************************)
(* `config-weave pkg` (src/src/pkgrepo): the index pkgs/repo.wcl, the      *)
(* clone of each repository under .repo-cache/, and the directories under  *)
(* pkgs/. One command runs at a time; any step of it that touches the disk *)
(* or the network may fail, and it may be killed. Between commands the     *)
(* user edits, deletes and creates things by hand; remotes move on at any  *)
(* time, never back.                                                       *)
(*                                                                         *)
(* A commit is its repository's url with a number, its contents the        *)
(* packages it holds.                                                      *)
(***************************************************************************)
EXTENDS Naturals, Sequences

Seqs == INSTANCE SequencesExt

CONSTANTS
  Names, Urls, Packages,
  Worlds,   \* what is considered: see WorldType
  MayFail,  \* whether steps fail and commands are killed
  Absent,   \* no such directory
  Half,     \* a directory of .repo-cache/ without .git
  Own       \* a directory of pkgs/ the user made

RepoDef == [name : Names, url : Urls]

\* The repository seeded into an empty index, those a user may register, and
\* the packages held by each commit of each url.
WorldType == [seed : RepoDef, known : SUBSET RepoDef,
              holds : [Urls -> Seq(SUBSET Packages)]]

Ops == {"repo_add", "repo_remove", "add", "remove", "update", "search"}

Commit == [url : Urls, n : Nat \ {0}]
Entry == [repo : Names, commit : Commit]

\* A clone: HEAD is commit n of origin (0: a clone that was cut short).
Clone == [origin : Urls, n : Nat, edited : BOOLEAN]

\* A directory copied from a clone: all of the commit; with the edits of the
\* clone; cut short by a copy or by an update; cut short by a removal.
Copy == [commit : Commit, state : {"whole", "edited", "torn", "ruined"}]

ASSUME PkgAssumption ==
  /\ MayFail \in BOOLEAN
  /\ \A w \in Worlds : w \in WorldType /\ \A u \in Urls : Len(w.holds[u]) > 0
  /\ Absent \notin Clone /\ Half \notin Clone
  /\ Absent \notin Copy /\ Own \notin Copy /\ Own # Absent

VARIABLES
  world,
  tip,      \* the last commit of each url
  index,    \* pkgs/repo.wcl
  cache,    \* .repo-cache/<name>
  dir,      \* pkgs/<package>
  pc, op,
  arg,      \* the packages the command is about
  file,     \* the index in memory
  todo,     \* repositories to sync; the one to copy from, or to drop
  left,     \* packages an update has still to look at
  outcome,  \* of each sync; "error" where there was none
  errored, changed,
  exit      \* of the last command; "none" while one runs

disk == <<index, cache, dir>>
memory == <<op, arg, file, todo, left, outcome, errored, changed>>
vars == <<world, tip, disk, pc, memory, exit>>

NoFile == [repos |-> <<>>, packages |-> <<>>]

\* What store::load accepts, and save writes.
Loads(f) ==
  /\ DOMAIN f = {"repos", "packages"}
  /\ f.repos \in Seq(RepoDef)
  /\ \A i, j \in 1 .. Len(f.repos) : f.repos[i].name = f.repos[j].name => i = j
  /\ DOMAIN f.packages \subseteq Packages
  /\ \A p \in DOMAIN f.packages : f.packages[p] \in Entry

TypeOK ==
  /\ world \in Worlds
  /\ tip \in [Urls -> Nat] /\ \A u \in Urls : tip[u] \in 1 .. Len(world.holds[u])
  /\ Loads(index)
  /\ cache \in [Names -> {Absent, Half} \cup Clone]
  /\ dir \in [Packages -> {Absent, Own} \cup Copy]
  /\ pc \in {"idle", "seed", "begin", "delete", "save", "sync", "copy", "drop"}
  /\ pc = "idle" \/ op \in Ops
  /\ arg \subseteq Packages /\ left \subseteq arg
  /\ Loads(file)
  /\ todo \in Seq(RepoDef)
  /\ outcome \in [Names -> {"synced", "skipped", "error"}]
  /\ errored \in BOOLEAN /\ changed \in BOOLEAN
  /\ exit \in {"none", "ok", "err", "killed"}

NoOutcome == [r \in Names |-> "error"]

Init ==
  /\ world \in Worlds
  /\ tip = [u \in Urls |-> 1]
  /\ index = NoFile
  /\ cache = [r \in Names |-> Absent]
  /\ dir = [p \in Packages |-> Absent]
  /\ pc = "idle" /\ exit = "ok"
  /\ op = "none" /\ arg = {} /\ file = NoFile /\ todo = <<>> /\ left = {}
  /\ outcome = NoOutcome /\ errored = FALSE /\ changed = FALSE

\* The process ends; its memory with it.
Exit(code) ==
  /\ pc' = "idle" /\ exit' = code
  /\ op' = "none" /\ arg' = {} /\ file' = NoFile /\ todo' = <<>> /\ left' = {}
  /\ outcome' = NoOutcome /\ errored' = FALSE /\ changed' = FALSE

Registered(f, r) == \E i \in 1 .. Len(f.repos) : f.repos[i].name = r
Installed(f) == DOMAIN f.packages

IsClone(r) == cache[r] \notin {Absent, Half}

\* git rev-parse HEAD
HeadCommit(r) == [url |-> cache[r].origin, n |-> cache[r].n]
HasHead(r) == IsClone(r) /\ cache[r].n > 0

\* The clone's checkout holds the package. (What a clone that lost its .git
\* may still hold is left out.)
Holds(r, p) == HasHead(r) /\ p \in world.holds[cache[r].origin][cache[r].n]

-----------------------------------------------------------------------------
(* Commands start from the index on disk. *)

Begin(name, ps) ==
  /\ pc = "idle"
  /\ op' = name /\ arg' = ps /\ exit' = "none"
  /\ UNCHANGED <<world, tip, disk, outcome, errored, changed>>

Refuse ==
  /\ pc = "idle"
  /\ Exit("err")
  /\ UNCHANGED <<world, tip, disk>>

Taken(r) == Registered(index, r)

RepoAdd(d) ==
  \/ Taken(d.name) /\ Refuse
  \/ /\ ~Taken(d.name)
     /\ Begin("repo_add", {})
     /\ file' = [index EXCEPT !.repos = Append(@, d)]
     /\ todo' = <<d>>
     /\ pc' = "save"
     /\ UNCHANGED left

RepoRemove(d) ==
  \/ ~Registered(index, d.name) /\ Refuse
  \/ \E i \in DOMAIN index.repos :
       /\ index.repos[i].name = d.name
       /\ Begin("repo_remove", {})
       /\ file' = [index EXCEPT !.repos = Seqs!RemoveAt(@, i)]
       /\ todo' = <<d>>
       /\ pc' = "save"
       /\ UNCHANGED left

\* add and search seed an index without repositories (ensure_repos).
AddOrSearch(name, ps) ==
  /\ Begin(name, ps)
  /\ IF index.repos = <<>>
     THEN file' = [index EXCEPT !.repos = <<world.seed>>] /\ pc' = "seed"
     ELSE file' = index /\ pc' = "begin"
  /\ UNCHANGED <<todo, left>>

Remove(p) ==
  \/ p \notin Installed(index) /\ Refuse
  \/ /\ p \in Installed(index)
     /\ Begin("remove", {p})
     /\ file' = [index EXCEPT !.packages =
                   [q \in Installed(index) \ {p} |-> index.packages[q]]]
     /\ pc' = IF dir[p] = Absent THEN "save" ELSE "delete"
     /\ UNCHANGED <<todo, left>>

\* The order in which an update takes the packages is left open, and with it
\* that of the repositories it syncs for them.
Update(ps) ==
  \/ ~(ps \subseteq Installed(index)) /\ Refuse
  \/ /\ ps # {} /\ ps \subseteq Installed(index)
     /\ Begin("update", ps)
     /\ file' = index
     /\ left' = ps
     /\ todo' = Seqs!SetToSeq({d \in Seqs!Range(index.repos) :
                                  \E p \in ps : index.packages[p].repo = d.name})
     /\ pc' = "sync"

UpdateOne(p) == Update({p})
UpdateAll == Update(Installed(index))

-----------------------------------------------------------------------------
(* Steps of a command. *)

GoOn(next) == pc' = next /\ UNCHANGED <<op, exit>>

\* Mutant: the packages an update could not bring up to date are forgotten.
AlwaysOk == "ok"

\* What a command that comes to its end exits with.
UpdateCode == IF errored THEN "err" ELSE "ok"

\* store::save: a temporary file is renamed over the index.
Save ==
  /\ pc \in {"seed", "save"}
  /\ UNCHANGED <<world, tip, cache, dir>>
  /\ \/ /\ index' = file
        /\ \/ /\ pc = "seed" /\ GoOn("begin")
              /\ UNCHANGED <<arg, file, todo, left, outcome, errored, changed>>
           \/ /\ pc = "save" /\ op \in {"repo_add", "repo_remove"}
              /\ GoOn(IF op = "repo_add" THEN "sync" ELSE "drop")
              /\ UNCHANGED <<arg, file, todo, left, outcome, errored, changed>>
           \/ /\ pc = "save" /\ op \in {"add", "remove", "update"}
              /\ Exit(UpdateCode)
     \/ MayFail /\ Exit("err") /\ UNCHANGED index

\* Once the index is seeded, a package that is already installed is refused;
\* otherwise every repository is synced.
BeginSync ==
  /\ pc = "begin"
  /\ UNCHANGED <<world, tip, disk>>
  /\ \/ op = "add" /\ arg \cap Installed(file) # {} /\ Exit("err")
     \/ /\ op = "search" \/ arg \cap Installed(file) = {}
        /\ todo' = file.repos
        /\ GoOn("sync")
        /\ UNCHANGED <<arg, file, left, outcome, errored, changed>>

\* Mutant: the clone is reset whatever it holds.
RefusesNothing(c) == FALSE

\* A dirty cache is somebody's working copy.
RefusesSync(c) == c.edited

CloneOf(u, n) == [origin |-> u, n |-> n, edited |-> FALSE]
Edited(c) == [c EXCEPT !.edited = TRUE]

\* What a sync that fails or is killed may leave: of a clone, nothing, one
\* without a commit or without its checkout; of a reset, half the files.
CutSync(c, u) ==
  IF c \in {Absent, Half}
  THEN {c, Absent, Half, CloneOf(u, 0), Edited(CloneOf(u, tip[u]))}
  ELSE {c} \cup (IF RefusesSync(c) THEN {} ELSE {Edited(c)})

\* What sync_repo makes of a cache, with its outcome: a clone, or a fetch of
\* the clone's own origin and a reset to what was fetched.
SyncResults(c, u) ==
  (IF c \in {Absent, Half} THEN {<<CloneOf(u, tip[u]), "synced">>}
   ELSE IF RefusesSync(c) THEN {<<c, "skipped">>}
   ELSE {<<CloneOf(c.origin, tip[c.origin]), "synced">>})
  \cup (IF MayFail THEN CutSync(c, u) \X {"error"} ELSE {})

Sync ==
  /\ pc = "sync" /\ todo # <<>>
  /\ LET d == Head(todo)
     IN \E s \in SyncResults(cache[d.name], d.url) :
          /\ cache' = [cache EXCEPT ![d.name] = s[1]]
          /\ outcome' = [outcome EXCEPT ![d.name] = s[2]]
  /\ todo' = Tail(todo)
  /\ UNCHANGED <<world, tip, index, dir, pc, op, arg, file, left, errored,
                 changed, exit>>

\* repo add reports the commit it synced to; its entry stays either way.
RepoAdded ==
  /\ pc = "sync" /\ todo = <<>> /\ op = "repo_add"
  /\ LET r == file.repos[Len(file.repos)].name
     IN \/ outcome[r] # "error" /\ HasHead(r) /\ Exit("ok")
        \/ (outcome[r] = "error" \/ ~HasHead(r) \/ MayFail) /\ Exit("err")
  /\ UNCHANGED <<world, tip, disk>>

Searched ==
  /\ pc = "sync" /\ todo = <<>> /\ op = "search"
  /\ Exit("ok")
  /\ UNCHANGED <<world, tip, disk>>

\* repo remove drops the clone; an error is ignored.
Drop ==
  /\ pc = "drop"
  /\ LET r == Head(todo).name
     IN \E c \in {Absent} \cup
                   (IF ~MayFail \/ cache[r] = Absent THEN {}
                    ELSE IF cache[r] = Half THEN {Half}
                    ELSE {Half, cache[r], Edited(cache[r])}) :
          cache' = [cache EXCEPT ![r] = c]
  /\ Exit("ok")
  /\ UNCHANGED <<world, tip, index, dir>>

\* Mutant: what is in the way is copied over.
MayInstallAnywhere(p) == TRUE

MayInstall(p) == dir[p] = Absent

\* The first repository that holds the package is the one to add it from.
Choose ==
  /\ pc = "sync" /\ todo = <<>> /\ op = "add"
  /\ \E p \in arg :
       LET holders == {i \in DOMAIN file.repos : Holds(file.repos[i].name, p)}
       IN \/ /\ holders = {} \/ ~MayInstall(p)
             /\ Exit("err")
          \/ /\ MayInstall(p)
             /\ \E i \in holders : (\A j \in holders : i <= j) /\ todo' = <<file.repos[i]>>
             /\ GoOn("copy")
             /\ UNCHANGED <<arg, file, left, outcome, errored, changed>>
  /\ UNCHANGED <<world, tip, disk>>

CopyOf(r, torn) ==
  [commit |-> HeadCommit(r),
   state |-> IF torn THEN "torn" ELSE IF cache[r].edited THEN "edited" ELSE "whole"]

\* Mutant: an error of the copy is lost.
CopyNeverFails(torn) == TRUE

CopySucceeds(torn) == ~torn

Record(p, r) ==
  [file EXCEPT !.packages =
     [q \in Installed(file) \cup {p} |->
        IF q = p THEN [repo |-> r, commit |-> HeadCommit(r)]
        ELSE file.packages[q]]]

\* Copy the package, then ask git for the commit to record; either may fail.
CopyIn ==
  /\ pc = "copy"
  /\ LET r == Head(todo).name
     IN \E p \in arg, torn \in {FALSE, MayFail} :
          /\ dir' = [dir EXCEPT ![p] = CopyOf(r, torn)]
          /\ \/ /\ CopySucceeds(torn)
                /\ file' = Record(p, r)
                /\ GoOn("save")
                /\ UNCHANGED <<arg, todo, left, outcome, errored, changed>>
             \/ MayFail /\ Exit("err")
  /\ UNCHANGED <<world, tip, index, cache>>

\* What is left of a directory whose removal fails or is cut short.
Ruins(d) == IF d = Own THEN {Own} ELSE {d, [d EXCEPT !.state = "ruined"]}

Delete ==
  /\ pc = "delete"
  /\ \E p \in arg :
       \/ /\ dir' = [dir EXCEPT ![p] = Absent]
          /\ GoOn("save")
          /\ UNCHANGED <<arg, file, todo, left, outcome, errored, changed>>
       \/ /\ MayFail
          /\ \E d \in Ruins(dir[p]) : dir' = [dir EXCEPT ![p] = d]
          /\ Exit("err")
  /\ UNCHANGED <<world, tip, index, cache>>

-----------------------------------------------------------------------------
(* The packages of an update, one after the other. *)

Pass(p, failed) ==
  /\ left' = left \ {p}
  /\ errored' = (errored \/ failed)
  /\ UNCHANGED <<dir, file, changed, pc, exit>>

\* Mutant: an update that is abandoned records the package it was at.
AbandonRecorded(p, r) == index' = Record(p, r)

\* An error in the middle of an update ends it: nothing is recorded.
Abandon(p, r) == UNCHANGED index

\* Clear the directory and copy the new commit. An error in the middle ends
\* the command, and the packages already copied are not recorded either.
Replace(p, r) ==
  \/ /\ dir' = [dir EXCEPT ![p] = CopyOf(r, FALSE)]
     /\ file' = Record(p, r)
     /\ changed' = TRUE /\ left' = left \ {p}
     /\ UNCHANGED <<index, op, arg, todo, outcome, errored, pc, exit>>
  \/ /\ MayFail
     /\ \E d \in {dir[p], CopyOf(r, TRUE)} : dir' = [dir EXCEPT ![p] = d]
     /\ Abandon(p, r)
     /\ Exit("err")

UpdatePackage(p) ==
  /\ pc = "sync" /\ todo = <<>> /\ op = "update"
  /\ p \in left
  /\ LET entry == file.packages[p]
         r == entry.repo
     IN \/ outcome[r] # "synced" /\ Pass(p, outcome[r] = "error")
           /\ UNCHANGED <<index, op, arg, todo, outcome>>
        \/ /\ outcome[r] = "synced"
           /\ \/ MayFail /\ Exit("err") /\ UNCHANGED <<index, dir>>
              \/ /\ HeadCommit(r) = entry.commit \/ ~Holds(r, p)
                 /\ Pass(p, HeadCommit(r) # entry.commit)
                 /\ UNCHANGED <<index, op, arg, todo, outcome>>
              \/ /\ HeadCommit(r) # entry.commit /\ Holds(r, p)
                 /\ Replace(p, r)
  /\ UNCHANGED <<world, tip, cache>>

UpdateEnd ==
  /\ pc = "sync" /\ todo = <<>> /\ op = "update" /\ left = {}
  /\ IF changed THEN GoOn("save") /\ UNCHANGED <<arg, file, todo, left,
                                                 outcome, errored, changed>>
     ELSE Exit(UpdateCode)
  /\ UNCHANGED <<world, tip, disk>>

-----------------------------------------------------------------------------
(* The command is killed. A step that touches the disk and is cut short     *)
(* leaves what its failure leaves.                                          *)

Kill ==
  /\ MayFail /\ pc # "idle"
  /\ IF pc = "sync" /\ todo # <<>>
     THEN LET d == Head(todo)
          IN \E c \in CutSync(cache[d.name], d.url) :
               cache' = [cache EXCEPT ![d.name] = c]
     ELSE UNCHANGED cache
  /\ Exit("killed")
  /\ UNCHANGED <<world, tip, index, dir>>

-----------------------------------------------------------------------------
(* The user and the remotes. *)

Idle == pc = "idle" /\ UNCHANGED <<world, tip, pc, memory, exit>>

\* Somebody works in a clone, and commits nothing; or discards the work.
EditCache(r) ==
  /\ Idle /\ IsClone(r)
  /\ cache' = [cache EXCEPT ![r].edited = ~@]
  /\ UNCHANGED <<index, dir>>

DeleteCache(r) ==
  /\ Idle /\ cache[r] # Absent
  /\ cache' = [cache EXCEPT ![r] = Absent]
  /\ UNCHANGED <<index, dir>>

\* A url is changed by hand in pkgs/repo.wcl.
EditUrl(d) ==
  /\ Idle
  /\ \E i \in 1 .. Len(index.repos) :
       /\ index.repos[i].name = d.name /\ index.repos[i] # d
       /\ index' = [index EXCEPT !.repos[i] = d]
  /\ UNCHANGED <<cache, dir>>

MakeOwn(p) ==
  /\ Idle /\ dir[p] = Absent
  /\ dir' = [dir EXCEPT ![p] = Own]
  /\ UNCHANGED <<index, cache>>

DeleteDir(p) ==
  /\ Idle /\ dir[p] # Absent
  /\ dir' = [dir EXCEPT ![p] = Absent]
  /\ UNCHANGED <<index, cache>>

Push(u) ==
  /\ tip[u] < Len(world.holds[u])
  /\ tip' = [tip EXCEPT ![u] = @ + 1]
  /\ UNCHANGED <<world, disk, pc, memory, exit>>

-----------------------------------------------------------------------------
Command ==
  \/ \E d \in world.known : RepoAdd(d) \/ RepoRemove(d)
  \/ AddOrSearch("search", {}) \/ UpdateAll
  \/ \E p \in Packages : AddOrSearch("add", {p}) \/ Remove(p) \/ UpdateOne(p)

Step ==
  \/ Save \/ BeginSync \/ Sync \/ RepoAdded \/ Searched \/ Drop
  \/ Choose \/ CopyIn \/ Delete \/ UpdateEnd
  \/ \E p \in Packages : UpdatePackage(p)

User ==
  \/ \E r \in Names : EditCache(r) \/ DeleteCache(r)
  \/ \E d \in world.known : EditUrl(d)
  \/ \E p \in Packages : MakeOwn(p) \/ DeleteDir(p)

Next == Command \/ Step \/ Kill \/ User \/ (\E u \in Urls : Push(u))

Spec == Init /\ [][Next]_vars

-----------------------------------------------------------------------------
(* Properties. *)

\* No command touches a directory of pkgs/ that the user made and the index
\* does not list.
OwnIsKept ==
  [][\A p \in Packages :
       dir[p] = Own /\ p \notin Installed(index) /\ pc # "idle" => dir'[p] = Own]_vars

\* When a commit is recorded for a package, its directory holds all of that
\* commit: nothing is recorded for a copy that failed. Only add may have
\* copied the edits of a dirty clone with it.
RecordedIsCopied ==
  [][\A p \in Installed(index') :
       p \notin Installed(index) \/ index'.packages[p].commit # index.packages[p].commit
         => /\ dir[p] \in Copy /\ dir[p].commit = index'.packages[p].commit
            /\ dir[p].state = "whole" \/ (dir[p].state = "edited" /\ op = "add")]_vars

\* A package that an update from its recorded url left half replaced is replaced
\* by the next update from there: its recorded commit is older than the one it was
\* to become. Nothing is said of a torn copy from another url. If a url is edited
\* by hand, an update from the new one is cut short, and the url is edited back,
\* then the next update finds the commit recorded before and looks no further.
TornIsNoticed ==
  \A p \in Installed(index) :
    LET at == index.packages[p].commit
    IN dir[p] \in Copy =>
         (dir[p].state = "torn" /\ dir[p].commit.url = at.url =>
            at.n < dir[p].commit.n)

\* Edits in a clone are lost only by dropping its repository, or by the user.
EditsAreKept ==
  [][\A r \in Names :
       IsClone(r) /\ cache[r].edited /\ pc # "idle" /\ op # "repo_remove"
         => cache'[r] = cache[r]]_vars

Whole(c) == [commit |-> c, state |-> "whole"]

\* What an update does not see in a directory, since it compares commits: that it
\* was deleted or made by the user, has edits of a dirty clone, lost files in a
\* removal, or comes from another url.
Unseen(d, u) ==
  d \in {Absent, Own} \/ d.state \in {"edited", "ruined"} \/ d.commit.url # u

\* An update that reports success has brought each package to the head of its
\* repository's clone, unless that clone is dirty: the head is the commit recorded,
\* and all of it is in the directory. So a package that an update before it has
\* replaced without recording it, or has half replaced, is put right. Only where
\* the head was recorded already, the directory may be one of those an update does
\* not see.
OkIsCurrent ==
  [][op = "update" /\ exit = "none" /\ exit' = "ok" =>
       \A p \in arg :
         LET r == index'.packages[p].repo
             head == HeadCommit(r)
         IN \/ outcome[r] = "skipped"
            \/ /\ HasHead(r) /\ index'.packages[p].commit = head
               /\ \/ dir[p] = Whole(head)
                  \/ index.packages[p].commit = head /\ Unseen(dir[p], head.url)]_vars
=============================================================================
