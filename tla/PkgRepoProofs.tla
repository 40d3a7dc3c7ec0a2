---------------------------- MODULE PkgRepoProofs ----------------------------
(***************************************************************************)
(* Proofs about `config-weave pkg`, for any number of repositories,        *)
(* packages and commits, with steps that fail and commands that are killed *)
(* or without.                                                             *)
(***************************************************************************)
EXTENDS PkgRepo, TLAPS, FiniteSets, FiniteSetTheorems, FunctionTheorems, SequenceTheorems

(* -------------------------------------------------------- the invariant *)

MemoryTypeOK ==
  /\ pc \in {"idle", "seed", "begin", "delete", "save", "sync", "copy", "drop"}
  /\ pc = "idle" \/ op \in Ops
  /\ arg \subseteq Packages /\ left \subseteq arg
  /\ Loads(file)
  /\ todo \in Seq(RepoDef)
  /\ outcome \in [Names -> {"synced", "skipped", "error"}]
  /\ errored \in BOOLEAN /\ changed \in BOOLEAN
  /\ exit \in {"none", "ok", "err", "killed"}

\* No commit on disk, of a clone or in the index, is one its url does not
\* have yet: remotes never move back.
Behind(f) == \A p \in Installed(f) : f.packages[p].commit.n <= tip[f.packages[p].commit.url]
ClonesBehind == \A r \in Names : IsClone(r) => cache[r].n <= tip[cache[r].origin]

\* A directory copied from the url of its recorded commit is not older than it,
\* and newer if it is half replaced.
Ahead(d, at) ==
  d \in Copy /\ d.commit.url = at.url =>
    at.n <= d.commit.n /\ (d.state = "torn" => at.n < d.commit.n)

DirsAhead == \A p \in Installed(index) : Ahead(dir[p], index.packages[p].commit)
DirsBehind ==
  \A p \in Packages : dir[p] \in Copy => dir[p].commit.n <= tip[dir[p].commit.url]

\* What a command finds, whatever became of those before it.
DiskOK ==
  /\ world \in Worlds
  /\ tip \in [Urls -> Nat] /\ \A u \in Urls : tip[u] \in 1 .. Len(world.holds[u])
  /\ Loads(index)
  /\ cache \in [Names -> {Absent, Half} \cup Clone]
  /\ dir \in [Packages -> {Absent, Own} \cup Copy]
  /\ Behind(index) /\ ClonesBehind
  /\ DirsAhead /\ DirsBehind

\* The memory of no process is empty; which commands come to which step.
Flow ==
  /\ pc = "idle" <=> op = "none"
  /\ pc = "idle" <=> exit # "none"
  /\ pc = "idle" => /\ arg = {} /\ file = NoFile /\ todo = <<>> /\ left = {}
                    /\ outcome = NoOutcome /\ errored = FALSE /\ changed = FALSE
  /\ pc \in {"seed", "begin"} => op \in {"add", "search"}
  /\ pc = "delete" => op = "remove"
  /\ pc = "sync" => op \in {"repo_add", "add", "search", "update"}
  /\ pc = "copy" => op = "add"
  /\ pc = "drop" => op = "repo_remove"
  /\ pc = "save" => op # "search"
  /\ op = "update" => pc \in {"sync", "save"} /\ (pc = "save" => left = {})
                      /\ (todo # <<>> => left = arg)
  /\ op \in {"add", "remove"} => \A p, q \in arg : p = q

\* What a command is about is installed, or is not, and its directory there
\* or not; what is copied from is a clone with a commit.
Targets ==
  /\ op = "update" => arg \subseteq Installed(index)
  /\ pc = "delete" => \A p \in arg : p \in Installed(index) /\ dir[p] # Absent
  /\ pc = "sync" /\ op = "add" => arg \cap Installed(index) = {}
  /\ pc = "copy" => /\ \A p \in arg : p \notin Installed(index) /\ dir[p] = Absent
                    /\ todo # <<>> /\ HasHead(Head(todo).name)

\* The packages of the index in memory are those on disk, but for what the
\* command has done so far.
Loaded ==
  /\ op \in {"repo_add", "repo_remove", "search"} \/ (op = "add" /\ pc # "save")
       => file.packages = index.packages
  /\ op = "remove" =>
       /\ Installed(file) = Installed(index) \ arg
       /\ \A p \in Installed(file) : file.packages[p] = index.packages[p]
  /\ op = "update" =>
       /\ Installed(file) = Installed(index)
       /\ \A p \in Installed(index) : p \notin arg \ left => file.packages[p] = index.packages[p]
       /\ ~changed => \A p \in Installed(index) : file.packages[p] = index.packages[p]

\* What the command is to record for p is in its directory.
InPlace(p) ==
  /\ dir[p] \in Copy /\ dir[p].commit = file.packages[p].commit
  /\ dir[p].state = "whole" \/ (dir[p].state = "edited" /\ op = "add")

Recorded ==
  \A p \in Installed(file) :
    p \notin Installed(index) \/ file.packages[p].commit # index.packages[p].commit
      => InPlace(p)

\* A clone that was synced is clean, has a commit and, in an update, is not
\* behind what is recorded from its url, nor behind a directory still to be
\* looked at.
Synced ==
  \A r \in Names : outcome[r] = "synced" =>
    /\ IsClone(r) /\ ~cache[r].edited /\ cache[r].n > 0
    /\ op = "update" =>
         /\ \A p \in Installed(index) :
              index.packages[p].commit.url = cache[r].origin =>
                index.packages[p].commit.n <= cache[r].n
         /\ \A p \in left :
              dir[p] \in Copy /\ dir[p].commit.url = cache[r].origin =>
                dir[p].commit.n <= cache[r].n

\* The directory is what an update that records c for p makes of it, or c was
\* recorded before and the update does not see what the directory is.
InDir(p, c) ==
  dir[p] = Whole(c) \/ (index.packages[p].commit = c /\ Unseen(dir[p], c.url))

\* The packages an update is done with.
Current ==
  op = "update" =>
    \A p \in arg \ left :
      LET entry == file.packages[p]
      IN \/ errored \/ outcome[entry.repo] = "skipped"
         \/ /\ HasHead(entry.repo) /\ entry.commit = HeadCommit(entry.repo)
            /\ InDir(p, entry.commit)

MemoryOK ==
  /\ MemoryTypeOK /\ Flow /\ Targets /\ Loaded /\ Recorded
  /\ Behind(file) /\ Synced /\ Current

PkgInv == DiskOK /\ MemoryOK

(* ------------------------------------------------------- common to steps *)

LEMMA NothingLoaded == Loads(NoFile) /\ Installed(NoFile) = {}
BY DEF Loads, NoFile, Installed

\* A process that ends leaves nothing in memory.
LEMMA Ends ==
  ASSUME NEW code \in {"ok", "err", "killed"}, Exit(code)
  PROVE  MemoryOK'
<1>1. /\ pc' = "idle" /\ op' = "none" /\ exit' = code /\ arg' = {} /\ left' = {}
      /\ file' = NoFile /\ todo' = <<>> /\ outcome' = NoOutcome
      /\ errored' = FALSE /\ changed' = FALSE
  BY DEF Exit
<1>2. MemoryTypeOK'
  <2>1. Loads(file)'
    BY <1>1, NothingLoaded
  <2>2. outcome' \in [Names -> {"synced", "skipped", "error"}] /\ todo' \in Seq(RepoDef)
    BY <1>1 DEF NoOutcome
  <2> QED BY <1>1, <2>1, <2>2 DEF MemoryTypeOK
<1>3. Flow' /\ Targets' /\ Loaded' /\ Current'
  BY <1>1 DEF Flow, Targets, Loaded, Current
<1>4. Recorded' /\ Behind(file)'
  BY <1>1, NothingLoaded DEF Recorded, Behind, Installed
<1>5. Synced'
  BY <1>1 DEF Synced, NoOutcome
<1> QED BY <1>2, <1>3, <1>4, <1>5 DEF MemoryOK

\* Steps in memory leave what is on disk alone.
LEMMA DiskUntouched ==
  ASSUME DiskOK, UNCHANGED <<world, tip, disk>> PROVE DiskOK'
BY DEF DiskOK, disk, Behind, ClonesBehind, IsClone, DirsAhead, DirsBehind, Ahead, Installed

\* There is nothing in memory that the user or a remote could take away.
LEMMA NoMemoryToLose ==
  ASSUME MemoryOK, pc = "idle", UNCHANGED <<pc, memory, exit>> PROVE MemoryOK'
<1>1. /\ op = "none" /\ exit # "none" /\ arg = {} /\ file = NoFile /\ todo = <<>> /\ left = {}
      /\ outcome = NoOutcome /\ errored = FALSE /\ changed = FALSE
  BY DEF MemoryOK, Flow
<1>2. UNCHANGED <<pc, op, arg, file, todo, left, outcome, errored, changed, exit>>
  BY DEF memory
<1>3. MemoryTypeOK' /\ Flow'
  BY <1>2 DEF MemoryOK, MemoryTypeOK, Flow, Loads, Installed
<1>4. Targets' /\ Loaded' /\ Current'
  BY <1>1, <1>2 DEF Targets, Loaded, Current
<1>5. Recorded' /\ Behind(file)'
  BY <1>1, <1>2, NothingLoaded DEF Recorded, Behind, Installed
<1>6. Synced'
  BY <1>1, <1>2 DEF Synced, NoOutcome
<1> QED BY <1>3, <1>4, <1>5, <1>6 DEF MemoryOK

\* A directory of pkgs/ changes, to one that is not behind its entry.
LEMMA DirChanges ==
  ASSUME DiskOK, UNCHANGED <<world, tip, index, cache>>,
         NEW p \in Packages, NEW d \in {Absent, Own} \cup Copy,
         dir' = [dir EXCEPT ![p] = d],
         p \in Installed(index) => Ahead(d, index.packages[p].commit),
         d \in Copy => d.commit.n <= tip[d.commit.url]
  PROVE  DiskOK'
<1>1. dir' \in [Packages -> {Absent, Own} \cup Copy]
  BY DEF DiskOK
<1>2. DirsAhead' /\ DirsBehind'
  <2>1. DirsBehind'
    <3> SUFFICES ASSUME NEW q \in Packages, dir'[q] \in Copy
                 PROVE  dir'[q].commit.n <= tip[dir'[q].commit.url]
      BY DEF DirsBehind
    <3> QED BY DEF DiskOK, DirsBehind
  <2>2. ASSUME NEW q \in Installed(index) PROVE Ahead(dir'[q], index.packages[q].commit)
    <3>1. q \in Packages
      BY DEF Installed, DiskOK, Loads
    <3>2. dir'[q] = IF q = p THEN d ELSE dir[q]
      BY <3>1 DEF DiskOK
    <3> QED BY <3>2 DEF DiskOK, DirsAhead
  <2>3. DirsAhead'
    BY <2>2 DEF DirsAhead, Installed, Ahead
  <2> QED BY <2>1, <2>3
<1>3. Behind(index)' /\ ClonesBehind'
  BY DEF DiskOK, Behind, ClonesBehind, IsClone, Installed
<1> QED BY <1>1, <1>2, <1>3 DEF DiskOK

\* A clone changes, to nothing newer than its origin.
LEMMA CacheChanges ==
  ASSUME DiskOK, UNCHANGED <<world, tip, index, dir>>,
         NEW r \in Names, NEW c \in {Absent, Half} \cup Clone,
         cache' = [cache EXCEPT ![r] = c],
         c \in Clone => c.n <= tip[c.origin]
  PROVE  DiskOK'
<1>1. cache' \in [Names -> {Absent, Half} \cup Clone]
  BY DEF DiskOK
<1>2. ClonesBehind'
  <2> SUFFICES ASSUME NEW s \in Names, IsClone(s)' PROVE (cache[s].n <= tip[cache[s].origin])'
    BY DEF ClonesBehind
  <2>1. CASE s = r
    BY <2>1 DEF DiskOK, IsClone
  <2>2. CASE s # r
    BY <2>2 DEF DiskOK, IsClone, ClonesBehind
  <2> QED BY <2>1, <2>2
<1>3. Behind(index)' /\ DirsAhead' /\ DirsBehind'
  BY DEF DiskOK, Behind, DirsAhead, DirsBehind, Ahead, Installed
<1> QED BY <1>1, <1>2, <1>3 DEF DiskOK

(* ----------------------------------------------- the user and the remotes *)

LEMMA UserKeeps == ASSUME PkgInv, User PROVE PkgInv'
<1>1. MemoryOK'
  BY NoMemoryToLose DEF PkgInv, User, Idle, EditCache, DeleteCache, EditUrl, MakeOwn, DeleteDir
<1>2. UNCHANGED <<world, tip>>
  BY DEF User, Idle, EditCache, DeleteCache, EditUrl, MakeOwn, DeleteDir
<1>3. ASSUME NEW r \in Names, EditCache(r) PROVE DiskOK'
  <2>1. cache[r] \in Clone
    BY <1>3 DEF EditCache, IsClone, PkgInv, DiskOK
  <2> DEFINE c == [cache[r] EXCEPT !.edited = ~@]
  <2>2. c \in Clone /\ c.n = cache[r].n /\ c.origin = cache[r].origin
    BY <2>1 DEF Clone
  <2>3. cache' = [cache EXCEPT ![r] = c]
    BY <1>3 DEF EditCache
  <2>4. c.n <= tip[c.origin]
    BY <1>3, <2>2 DEF EditCache, PkgInv, DiskOK, ClonesBehind
  <2> HIDE DEF c
  <2> QED BY <1>2, <1>3, <2>2, <2>3, <2>4, CacheChanges DEF EditCache, PkgInv
<1>4. ASSUME NEW r \in Names, DeleteCache(r) PROVE DiskOK'
  BY <1>2, <1>4, CacheChanges, PkgAssumption DEF DeleteCache, PkgInv
<1>5. ASSUME NEW d \in world.known, EditUrl(d) PROVE DiskOK'
  <2>1. PICK i \in 1 .. Len(index.repos) :
          index.repos[i].name = d.name /\ index' = [index EXCEPT !.repos[i] = d]
    BY <1>5 DEF EditUrl
  <2>2. Loads(index) /\ d \in RepoDef
    BY PkgAssumption DEF PkgInv, DiskOK, WorldType
  <2>3. /\ index'.repos = [index.repos EXCEPT ![i] = d] /\ index'.packages = index.packages
        /\ DOMAIN index' = {"repos", "packages"}
    BY <2>1, <2>2 DEF Loads
  <2>4. /\ index'.repos \in Seq(RepoDef) /\ Len(index'.repos) = Len(index.repos)
        /\ \A j \in 1 .. Len(index.repos) : index'.repos[j].name = index.repos[j].name
    BY <2>1, <2>2, <2>3, ExceptSeq DEF Loads
  <2>5. Loads(index')
    BY <2>2, <2>3, <2>4 DEF Loads
  <2>6. UNCHANGED <<cache, dir>>
    BY <1>5 DEF EditUrl
  <2> QED BY <1>2, <2>3, <2>5, <2>6
          DEF PkgInv, DiskOK, Behind, ClonesBehind, IsClone, DirsAhead, DirsBehind, Ahead,
              Installed
<1>6. ASSUME NEW p \in Packages, MakeOwn(p) \/ DeleteDir(p) PROVE DiskOK'
  BY <1>2, <1>6, DirChanges, PkgAssumption DEF MakeOwn, DeleteDir, PkgInv, Ahead
<1> QED BY <1>1, <1>3, <1>4, <1>5, <1>6 DEF User, PkgInv

LEMMA PushKeeps == ASSUME PkgInv, NEW u \in Urls, Push(u) PROVE PkgInv'
<1>1. UNCHANGED <<world, index, cache, dir, pc, memory, exit>>
  BY DEF Push, disk
<1>2. /\ tip' \in [Urls -> Nat] /\ \A x \in Urls : tip[x] <= tip'[x]
      /\ \A x \in Urls : tip'[x] \in 1 .. Len(world.holds[x])
  <2>1. tip \in [Urls -> Nat] /\ tip[u] < Len(world.holds[u]) /\ tip' = [tip EXCEPT ![u] = @ + 1]
        /\ \A x \in Urls : tip[x] \in 1 .. Len(world.holds[x])
    BY DEF PkgInv, DiskOK, Push
  <2>2. Len(world.holds[u]) \in Nat
    BY PkgAssumption, LenProperties DEF PkgInv, DiskOK, WorldType
  <2>3. tip'[u] = tip[u] + 1 /\ \A x \in Urls \ {u} : tip'[x] = tip[x]
    BY <2>1
  <2>4. tip'[u] \in 1 .. Len(world.holds[u])
    BY <2>1, <2>2, <2>3
  <2> QED BY <2>1, <2>3, <2>4
<1>3. ASSUME NEW f, Loads(f), Behind(f) PROVE Behind(f)'
  <2> SUFFICES ASSUME NEW p \in Installed(f)
               PROVE  f.packages[p].commit.n <= tip'[f.packages[p].commit.url]
    BY DEF Behind, Installed
  <2>1. f.packages[p].commit \in Commit
    BY <1>3 DEF Loads, Installed, Entry
  <2> QED BY <1>2, <1>3, <2>1 DEF Behind, Commit, PkgInv, DiskOK
<1>4. ClonesBehind'
  <2> SUFFICES ASSUME NEW r \in Names, IsClone(r) PROVE cache[r].n <= tip'[cache[r].origin]
    BY <1>1 DEF ClonesBehind, IsClone
  <2>1. cache[r] \in Clone
    BY DEF PkgInv, DiskOK, IsClone
  <2> QED BY <1>2, <2>1 DEF PkgInv, DiskOK, ClonesBehind, Clone
<1>5. DiskOK'
  <2>1. Behind(index)'
    BY <1>1, <1>3 DEF PkgInv, DiskOK, Behind
  <2>2. DirsBehind'
    <3> SUFFICES ASSUME NEW p \in Packages, dir[p] \in Copy
                 PROVE  dir[p].commit.n <= tip'[dir[p].commit.url]
      BY <1>1 DEF DirsBehind
    <3>1. dir[p].commit \in Commit
      BY DEF Copy
    <3> QED BY <1>2, <3>1 DEF Commit, PkgInv, DiskOK, DirsBehind
  <2>3. DirsAhead'
    BY <1>1 DEF PkgInv, DiskOK, DirsAhead, Ahead, Installed
  <2> QED BY <1>1, <1>2, <1>4, <2>1, <2>2, <2>3 DEF PkgInv, DiskOK
<1>6. MemoryOK'
  <2>1. UNCHANGED <<pc, op, arg, file, todo, left, outcome, errored, changed, exit>>
    BY <1>1 DEF memory
  <2>2. Behind(file)'
    BY <1>3, <2>1 DEF PkgInv, MemoryOK, MemoryTypeOK, Behind
  <2>3. Flow' /\ Targets' /\ Loaded' /\ MemoryTypeOK'
    BY <1>1, <2>1 DEF PkgInv, MemoryOK, Flow, Targets, Loaded, MemoryTypeOK, HasHead, IsClone,
                      Installed
  <2>4. Recorded' /\ Synced' /\ Current'
    BY <1>1, <2>1 DEF PkgInv, MemoryOK, Recorded, InPlace, Synced, Current, HasHead, HeadCommit,
                      IsClone, Installed, InDir
  <2> QED BY <2>1, <2>2, <2>3, <2>4 DEF MemoryOK
<1> QED BY <1>5, <1>6 DEF PkgInv

(* -------------------------------------------------------------- commands *)

\* A command begins with no outcome yet and with packages of the index.
LEMMA Begins ==
  ASSUME PkgInv, NEW name \in Ops, NEW ps \in SUBSET Packages, Begin(name, ps),
         pc' \in {"seed", "begin", "delete", "save", "sync"},
         Loads(file'), todo' \in Seq(RepoDef), left' \subseteq ps,
         name = "update" => left' = ps,
         Installed(file') \subseteq Installed(index),
         \A p \in Installed(file') : file'.packages[p] = index.packages[p],
         Flow', Targets', Loaded'
  PROVE  PkgInv'
<1>1. /\ op' = name /\ arg' = ps /\ exit' = "none" /\ outcome' = NoOutcome
      /\ errored' = FALSE /\ changed' = FALSE
      /\ UNCHANGED <<world, tip, index, cache, dir>>
  BY DEF Begin, PkgInv, MemoryOK, Flow, disk
<1>2. DiskOK'
  BY <1>1, DiskUntouched DEF disk, PkgInv
<1>3. MemoryTypeOK'
  BY <1>1 DEF MemoryTypeOK, NoOutcome
<1>4. Recorded'
  BY <1>1 DEF Recorded, Installed
<1>5. Behind(file)'
  BY <1>1 DEF Behind, PkgInv, DiskOK, Installed
<1>6. Synced' /\ Current'
  BY <1>1 DEF Synced, NoOutcome, Current
<1> QED BY <1>2, <1>3, <1>4, <1>5, <1>6 DEF PkgInv, MemoryOK

LEMMA Refused == ASSUME PkgInv, Refuse PROVE PkgInv'
BY Ends, DiskUntouched DEF Refuse, PkgInv

LEMMA RepoAddKeeps == ASSUME PkgInv, NEW d \in RepoDef, RepoAdd(d) PROVE PkgInv'
<1>1. CASE Taken(d.name) /\ Refuse
  BY <1>1, Refused
<1>2. CASE /\ ~Taken(d.name) /\ Begin("repo_add", {})
           /\ file' = [index EXCEPT !.repos = Append(@, d)]
           /\ todo' = <<d>> /\ pc' = "save" /\ UNCHANGED left
  <2>1. Loads(index) /\ left = {} /\ pc = "idle"
    BY <1>2 DEF PkgInv, DiskOK, MemoryOK, Flow, Begin
  <2>2. /\ file'.repos = Append(index.repos, d) /\ file'.packages = index.packages
        /\ DOMAIN file' = {"repos", "packages"}
    BY <1>2, <2>1 DEF Loads
  <2>3. Loads(file')
    <3>1. /\ Append(index.repos, d) \in Seq(RepoDef)
          /\ Len(Append(index.repos, d)) = Len(index.repos) + 1
          /\ \A i \in 1 .. Len(index.repos) : Append(index.repos, d)[i] = index.repos[i]
          /\ Append(index.repos, d)[Len(index.repos) + 1] = d
          /\ Len(index.repos) \in Nat
      BY <2>1, AppendProperties, LenProperties DEF Loads
    <3>2. \A i \in 1 .. Len(index.repos) : index.repos[i].name # d.name
      BY <1>2 DEF Taken, Registered
    <3> QED BY <2>1, <2>2, <3>1, <3>2 DEF Loads
  <2>4. Flow' /\ Targets' /\ Loaded'
    BY <1>2, <2>1, <2>2 DEF Begin, Flow, Targets, Loaded, disk
  <2>5. /\ todo' \in Seq(RepoDef) /\ left' = {} /\ {} \in SUBSET Packages /\ "repo_add" \in Ops
        /\ Installed(file') = Installed(index)
    BY <1>2, <2>1, <2>2 DEF Ops, Installed
  <2> QED BY <1>2, <2>2, <2>3, <2>4, <2>5, Begins
<1> QED BY <1>1, <1>2 DEF RepoAdd

LEMMA RemovedAt ==
  ASSUME NEW S, NEW s \in Seq(S), NEW i \in 1 .. Len(s)
  PROVE  /\ Seqs!RemoveAt(s, i) \in Seq(S)
         /\ Len(Seqs!RemoveAt(s, i)) = Len(s) - 1
         /\ \A j \in 1 .. Len(s) - 1 :
              Seqs!RemoveAt(s, i)[j] = IF j < i THEN s[j] ELSE s[j + 1]
<1> DEFINE front == SubSeq(s, 1, i - 1)
           back  == SubSeq(s, i + 1, Len(s))
<1>1. Len(s) \in Nat /\ \A j \in 1 .. Len(s) : s[j] \in S
  BY LenProperties, ElementOfSeq
<1>2. front \in Seq(S) /\ Len(front) = i - 1 /\ \A j \in 1 .. i - 1 : front[j] = s[j]
  <2>1. \A j \in 1 .. i - 1 : s[j] \in S
    BY <1>1
  <2>2. 1 \in Int /\ i - 1 \in Int /\ i - 1 - 1 + 1 = i - 1
    BY <1>1
  <2>3. /\ front \in Seq(S) /\ Len(front) = IF 1 <= i - 1 THEN i - 1 - 1 + 1 ELSE 0
        /\ \A j \in 1 .. i - 1 - 1 + 1 : front[j] = s[1 + j - 1]
    BY <2>1, <2>2, SubSeqProperties
  <2> QED BY <1>1, <2>2, <2>3
<1>3. /\ back \in Seq(S) /\ Len(back) = Len(s) - i
      /\ \A j \in 1 .. Len(s) - i : back[j] = s[i + j]
  <2>1. \A j \in i + 1 .. Len(s) : s[j] \in S
    BY <1>1
  <2>2. i + 1 \in Int /\ Len(s) \in Int /\ Len(s) - (i + 1) + 1 = Len(s) - i
    BY <1>1
  <2>3. /\ back \in Seq(S)
        /\ Len(back) = IF i + 1 <= Len(s) THEN Len(s) - (i + 1) + 1 ELSE 0
        /\ \A j \in 1 .. Len(s) - (i + 1) + 1 : back[j] = s[i + 1 + j - 1]
    BY <2>1, <2>2, SubSeqProperties
  <2> QED BY <1>1, <2>2, <2>3
<1>4. Seqs!RemoveAt(s, i) = front \o back
  BY DEF Seqs!RemoveAt
<1> HIDE DEF front, back
<1>5. /\ front \o back \in Seq(S) /\ Len(front \o back) = Len(front) + Len(back)
      /\ \A j \in 1 .. Len(front) + Len(back) :
           (front \o back)[j] = IF j <= Len(front) THEN front[j] ELSE back[j - Len(front)]
  BY <1>2, <1>3, ConcatProperties
<1>6. Len(front) + Len(back) = Len(s) - 1
  BY <1>1, <1>2, <1>3
<1>7. ASSUME NEW j \in 1 .. Len(s) - 1
      PROVE  (front \o back)[j] = IF j < i THEN s[j] ELSE s[j + 1]
  <2>1. (front \o back)[j] = IF j <= i - 1 THEN front[j] ELSE back[j - (i - 1)]
    BY <1>2, <1>5, <1>6
  <2>2. CASE j < i
    <3>1. j \in 1 .. i - 1
      BY <1>1, <2>2
    <3> QED BY <1>1, <1>2, <2>1, <2>2, <3>1
  <2>3. CASE ~(j < i)
    <3>1. j - (i - 1) \in 1 .. Len(s) - i /\ i + (j - (i - 1)) = j + 1 /\ ~(j <= i - 1)
      BY <1>1, <2>3
    <3>2. back[j - (i - 1)] = s[j + 1]
      BY <1>3, <3>1
    <3> QED BY <2>1, <2>3, <3>1, <3>2
  <2> QED BY <2>2, <2>3
<1> QED BY <1>4, <1>5, <1>6, <1>7

LEMMA RepoRemoveKeeps == ASSUME PkgInv, NEW d \in RepoDef, RepoRemove(d) PROVE PkgInv'
<1>1. CASE ~Registered(index, d.name) /\ Refuse
  BY <1>1, Refused
<1>2. ASSUME NEW i \in DOMAIN index.repos, Begin("repo_remove", {}),
             file' = [index EXCEPT !.repos = Seqs!RemoveAt(@, i)],
             todo' = <<d>>, pc' = "save", UNCHANGED left
      PROVE  PkgInv'
  <2>1. Loads(index) /\ left = {} /\ pc = "idle"
    BY <1>2 DEF PkgInv, DiskOK, MemoryOK, Flow, Begin
  <2>2. /\ file'.repos = Seqs!RemoveAt(index.repos, i) /\ file'.packages = index.packages
        /\ DOMAIN file' = {"repos", "packages"}
    BY <1>2, <2>1 DEF Loads
  <2>3. Loads(file')
    <3>1. /\ file'.repos \in Seq(RepoDef) /\ Len(file'.repos) = Len(index.repos) - 1
          /\ \A j \in 1 .. Len(index.repos) - 1 :
               file'.repos[j] = IF j < i THEN index.repos[j] ELSE index.repos[j + 1]
          /\ Len(index.repos) \in Nat /\ i \in 1 .. Len(index.repos)
      BY <2>1, <2>2, RemovedAt, LenProperties DEF Loads
    <3>2. \A j, k \in 1 .. Len(index.repos) :
            index.repos[j].name = index.repos[k].name => j = k
      BY <2>1 DEF Loads
    <3>3. ASSUME NEW j \in 1 .. Len(file'.repos), NEW k \in 1 .. Len(file'.repos),
                 file'.repos[j].name = file'.repos[k].name
          PROVE  j = k
      <4> DEFINE at(n) == IF n < i THEN n ELSE n + 1
      <4>1. \A n \in 1 .. Len(index.repos) - 1 :
              at(n) \in 1 .. Len(index.repos) /\ file'.repos[n] = index.repos[at(n)]
        BY <3>1
      <4>2. /\ at(j) \in 1 .. Len(index.repos) /\ file'.repos[j] = index.repos[at(j)]
            /\ at(k) \in 1 .. Len(index.repos) /\ file'.repos[k] = index.repos[at(k)]
        BY <3>1, <4>1
      <4> HIDE DEF at
      <4>3. at(j) = at(k)
        BY <3>2, <3>3, <4>2
      <4> USE DEF at
      <4> QED BY <3>1, <4>3
    <3> QED BY <2>1, <2>2, <3>1, <3>3 DEF Loads
  <2>4. Flow' /\ Targets' /\ Loaded'
    BY <1>2, <2>1, <2>2 DEF Begin, Flow, Targets, Loaded, disk
  <2>5. /\ todo' \in Seq(RepoDef) /\ left' = {} /\ {} \in SUBSET Packages
        /\ "repo_remove" \in Ops /\ Installed(file') = Installed(index)
    BY <1>2, <2>1, <2>2 DEF Ops, Installed
  <2> QED BY <1>2, <2>2, <2>3, <2>4, <2>5, Begins
<1> QED BY <1>1, <1>2 DEF RepoRemove

LEMMA AddOrSearchKeeps ==
  ASSUME PkgInv, NEW name, NEW ps \in SUBSET Packages, AddOrSearch(name, ps),
         name \in {"add", "search"}, \A p, q \in ps : p = q
  PROVE  PkgInv'
<1>1. Loads(index) /\ left = {} /\ pc = "idle" /\ todo = <<>>
  BY DEF PkgInv, DiskOK, MemoryOK, Flow, AddOrSearch, Begin
<1>2. world.seed \in RepoDef
  BY PkgAssumption DEF PkgInv, DiskOK, WorldType
<1>3. Loads(file') /\ file'.packages = index.packages /\ pc' \in {"seed", "begin"}
  <2>1. CASE index.repos = <<>>
    <3>1. /\ file'.repos = <<world.seed>> /\ file'.packages = index.packages
          /\ DOMAIN file' = {"repos", "packages"} /\ pc' = "seed"
      BY <1>1, <2>1 DEF AddOrSearch, Loads
    <3> QED BY <1>1, <1>2, <3>1 DEF Loads
  <2>2. CASE index.repos # <<>>
    BY <1>1, <2>2 DEF AddOrSearch
  <2> QED BY <2>1, <2>2
<1>4. Flow' /\ Targets' /\ Loaded'
  BY <1>1, <1>3 DEF AddOrSearch, Begin, Flow, Targets, Loaded, disk
<1>5. todo' \in Seq(RepoDef) /\ left' \subseteq ps
  BY <1>1 DEF AddOrSearch
<1> QED BY <1>3, <1>4, <1>5, Begins DEF AddOrSearch, Ops, Installed

LEMMA RemoveKeeps == ASSUME PkgInv, NEW p \in Packages, Remove(p) PROVE PkgInv'
<1>1. CASE p \notin Installed(index) /\ Refuse
  BY <1>1, Refused
<1>2. CASE /\ p \in Installed(index) /\ Begin("remove", {p})
           /\ file' = [index EXCEPT !.packages =
                         [q \in Installed(index) \ {p} |-> index.packages[q]]]
           /\ pc' = IF dir[p] = Absent THEN "save" ELSE "delete"
           /\ UNCHANGED <<todo, left>>
  <2>1. Loads(index) /\ left = {} /\ pc = "idle" /\ todo = <<>>
    BY <1>2 DEF PkgInv, DiskOK, MemoryOK, Flow, Begin
  <2>2. /\ file'.repos = index.repos /\ DOMAIN file' = {"repos", "packages"}
        /\ file'.packages = [q \in Installed(index) \ {p} |-> index.packages[q]]
    BY <1>2, <2>1 DEF Loads
  <2>3. /\ Installed(file') = Installed(index) \ {p}
        /\ \A q \in Installed(file') : file'.packages[q] = index.packages[q]
    BY <2>2 DEF Installed
  <2>4. Loads(file')
    BY <2>1, <2>2, <2>3 DEF Loads, Installed
  <2>5. Flow' /\ Targets'
    BY <1>2, <2>1, <2>2 DEF Begin, Flow, Targets, disk, Installed
  <2>6. Loaded'
    BY <1>2, <2>3 DEF Begin, Loaded, disk, Installed
  <2>7. todo' \in Seq(RepoDef) /\ left' = {} /\ "remove" \in Ops
    BY <1>2, <2>1 DEF Ops
  <2> QED BY <1>2, <2>3, <2>4, <2>5, <2>6, <2>7, Begins
<1> QED BY <1>1, <1>2 DEF Remove

\* Any finite set can be put in some order.
LEMMA Listed == ASSUME NEW S, IsFiniteSet(S) PROVE Seqs!SetToSeq(S) \in Seq(S)
<1>1. Cardinality(S) \in Nat /\ ExistsBijection(1 .. Cardinality(S), S)
  BY FS_CardinalityType
<1>2. PICK f : f \in Bijection(1 .. Cardinality(S), S)
  BY <1>1, Fun_ExistsBij
<1>3. f \in [1 .. Cardinality(S) -> S]
      /\ \A a, b \in 1 .. Cardinality(S) : f[a] = f[b] => a = b
  BY <1>2, Fun_BijectionProperties
<1>4. \E g \in [1 .. Cardinality(S) -> S] : Seqs!IsInjective(g)
  BY <1>3 DEF Seqs!IsInjective
<1>5. Seqs!SetToSeq(S) \in [1 .. Cardinality(S) -> S]
  <2>1. Seqs!Cardinality(S) = Cardinality(S)
    BY DEF Seqs!Cardinality, Cardinality
  <2> QED BY <1>4, <2>1 DEF Seqs!SetToSeq
<1> QED BY <1>1, <1>5, SeqDef

LEMMA UpdateKeeps == ASSUME PkgInv, NEW ps \in SUBSET Packages, Update(ps) PROVE PkgInv'
<1>1. CASE ~(ps \subseteq Installed(index)) /\ Refuse
  BY <1>1, Refused
<1> DEFINE repos == {d \in Seqs!Range(index.repos) :
                       \E p \in ps : index.packages[p].repo = d.name}
<1>2. CASE /\ ps # {} /\ ps \subseteq Installed(index) /\ Begin("update", ps)
           /\ file' = index /\ left' = ps /\ todo' = Seqs!SetToSeq(repos) /\ pc' = "sync"
  <2>1. Loads(index)
    BY DEF PkgInv, DiskOK
  <2>2. IsFiniteSet(Range(index.repos)) /\ Range(index.repos) \subseteq RepoDef
    <3>1. index.repos \in [1 .. Len(index.repos) -> RepoDef] /\ Len(index.repos) \in Nat
      BY <2>1, LenProperties DEF Loads
    <3>2. index.repos \in Surjection(1 .. Len(index.repos), Range(index.repos))
          /\ Range(index.repos) \subseteq RepoDef
      BY <3>1, Fun_RangeProperties
    <3> QED BY <3>1, <3>2, FS_Interval, FS_Surjection
  <2>3. repos \subseteq Range(index.repos)
    BY DEF Seqs!Range, Range
  <2>4. IsFiniteSet(repos)
    BY <2>2, <2>3, FS_Subset
  <2>5. todo' \in Seq(RepoDef)
    <3> HIDE DEF repos
    <3>1. Seqs!SetToSeq(repos) \in Seq(repos) /\ repos \subseteq RepoDef
      BY <2>2, <2>3, <2>4, Listed
    <3> QED BY <1>2, <3>1, SeqMonotonic
  <2> HIDE DEF repos
  <2>6. Flow'
    BY <1>2 DEF Begin, Flow
  <2>7. Targets' /\ Loaded'
    BY <1>2 DEF Begin, Targets, Loaded, disk, Installed
  <2>8. "update" \in Ops
    BY DEF Ops
  <2> QED BY <1>2, <2>1, <2>5, <2>6, <2>7, <2>8, Begins
<1> QED BY <1>1, <1>2 DEF Update

LEMMA CommandKeeps == ASSUME PkgInv, Command PROVE PkgInv'
<1>1. ASSUME NEW d \in world.known, RepoAdd(d) \/ RepoRemove(d) PROVE PkgInv'
  <2>1. d \in RepoDef
    BY PkgAssumption DEF PkgInv, DiskOK, WorldType
  <2> QED BY <1>1, <2>1, RepoAddKeeps, RepoRemoveKeeps
<1>2. CASE AddOrSearch("search", {})
  BY <1>2, AddOrSearchKeeps
<1>3. CASE UpdateAll
  BY <1>3, UpdateKeeps DEF UpdateAll, PkgInv, DiskOK, Loads, Installed
<1>4. ASSUME NEW p \in Packages, AddOrSearch("add", {p}) \/ Remove(p) \/ UpdateOne(p)
      PROVE  PkgInv'
  BY <1>4, AddOrSearchKeeps, RemoveKeeps, UpdateKeeps DEF UpdateOne
<1> QED BY <1>1, <1>2, <1>3, <1>4 DEF Command

(* ------------------------------------------------------ steps of a command *)

\* Saving the index in memory: what it records is in place, so no entry is
\* newer than its directory.
LEMMA Saved ==
  ASSUME PkgInv, index' = file, UNCHANGED <<world, tip, cache, dir>>
  PROVE  DiskOK'
<1>1. Loads(file) /\ Behind(file) /\ Recorded /\ DirsAhead
  BY DEF PkgInv, DiskOK, MemoryOK, MemoryTypeOK
<1>2. ASSUME NEW p \in Installed(file) PROVE Ahead(dir[p], file.packages[p].commit)
  <2>1. CASE InPlace(p)
    <3>1. file.packages[p].commit \in Commit
      BY <1>1 DEF Loads, Installed, Entry
    <3> QED BY <2>1, <3>1 DEF InPlace, Ahead, Commit
  <2>2. CASE ~InPlace(p)
    <3>1. p \in Installed(index) /\ file.packages[p].commit = index.packages[p].commit
      BY <1>1, <2>2 DEF Recorded
    <3> QED BY <1>1, <3>1 DEF DirsAhead
  <2> QED BY <2>1, <2>2
<1>3. DirsAhead'
  BY <1>2 DEF DirsAhead, Installed, Ahead
<1> QED BY <1>1, <1>3 DEF PkgInv, DiskOK, Behind, ClonesBehind, IsClone, Installed, DirsBehind

LEMMA SaveKeeps == ASSUME PkgInv, Save PROVE PkgInv'
<1>1. pc \in {"seed", "save"} /\ UNCHANGED <<world, tip, cache, dir>>
  BY DEF Save
<1>2. CASE /\ index' = file
           /\ UNCHANGED <<op, exit, arg, file, todo, left, outcome, errored, changed>>
           /\ \/ pc = "seed" /\ pc' = "begin"
              \/ pc = "save" /\ op \in {"repo_add", "repo_remove"}
                 /\ pc' = IF op = "repo_add" THEN "sync" ELSE "drop"
  <2>1. op \in {"add", "search", "repo_add", "repo_remove"} /\ pc' \in {"begin", "sync", "drop"}
        /\ (pc' = "begin" => op \in {"add", "search"})
        /\ (pc' = "sync" => op = "repo_add") /\ (pc' = "drop" => op = "repo_remove")
    BY <1>2 DEF PkgInv, MemoryOK, Flow
  <2>2. MemoryTypeOK'
    BY <1>2, <2>1 DEF PkgInv, MemoryOK, MemoryTypeOK
  <2>3. Flow'
    BY <1>1, <1>2, <2>1 DEF PkgInv, MemoryOK, Flow
  <2>4. Targets' /\ Loaded' /\ Current'
    BY <1>2, <2>1 DEF Targets, Loaded, Current
  <2>5. Recorded' /\ Behind(file)'
    BY <1>1, <1>2 DEF Recorded, PkgInv, MemoryOK, Behind, Installed
  <2>6. Synced'
    BY <1>1, <1>2, <2>1 DEF PkgInv, MemoryOK, Synced, IsClone
  <2> QED BY <1>1, <1>2, <2>2, <2>3, <2>4, <2>5, <2>6, Saved DEF PkgInv, MemoryOK
<1>3. CASE index' = file /\ Exit(UpdateCode)
  BY <1>1, <1>3, Saved, Ends DEF UpdateCode, PkgInv
<1>4. CASE Exit("err") /\ UNCHANGED index
  BY <1>1, <1>4, Ends, DiskUntouched DEF disk, PkgInv
<1> QED BY <1>2, <1>3, <1>4 DEF Save, GoOn

LEMMA BeginSyncKeeps == ASSUME PkgInv, BeginSync PROVE PkgInv'
<1>1. DiskOK' /\ pc = "begin" /\ UNCHANGED <<world, tip, index, cache, dir>>
  BY DiskUntouched DEF BeginSync, PkgInv, disk
<1>2. CASE Exit("err")
  BY <1>1, <1>2, Ends DEF PkgInv
<1>3. CASE /\ op = "search" \/ arg \cap Installed(file) = {}
           /\ todo' = file.repos /\ pc' = "sync"
           /\ UNCHANGED <<op, exit, arg, file, left, outcome, errored, changed>>
  <2>1. op \in {"add", "search"}
    BY <1>1 DEF PkgInv, MemoryOK, Flow
  <2>2. MemoryTypeOK' /\ Flow'
    BY <1>1, <1>3, <2>1 DEF PkgInv, MemoryOK, MemoryTypeOK, Flow, Loads
  <2>3. Targets' /\ Loaded'
    BY <1>1, <1>3, <2>1 DEF PkgInv, MemoryOK, Targets, Loaded, Installed
  <2>4. Recorded' /\ Behind(file)' /\ Current'
    BY <1>1, <1>3, <2>1 DEF PkgInv, MemoryOK, Recorded, InPlace, Behind, Current, Installed
  <2>5. Synced'
    BY <1>1, <1>3, <2>1 DEF PkgInv, MemoryOK, Synced, IsClone
  <2> QED BY <1>1, <2>2, <2>3, <2>4, <2>5 DEF PkgInv, MemoryOK
<1> QED BY <1>2, <1>3 DEF BeginSync, GoOn

\* What a sync leaves of a clone, cut short or not.
LEMMA CutShort ==
  ASSUME DiskOK, NEW d \in RepoDef, NEW c \in CutSync(cache[d.name], d.url)
  PROVE  /\ c \in {Absent, Half} \cup Clone
         /\ c \in Clone => c.n <= tip[c.origin]
         /\ IsClone(d.name) /\ cache[d.name].edited => c = cache[d.name]
<1> DEFINE old == cache[d.name]
<1>1. /\ d.name \in Names /\ d.url \in Urls /\ old \in {Absent, Half} \cup Clone
      /\ \A u \in Urls : tip[u] \in Nat
  BY DEF RepoDef, DiskOK
<1>2. CASE old \in {Absent, Half}
  <2>1. ASSUME NEW n \in Nat, n <= tip[d.url]
        PROVE  CloneOf(d.url, n) \in Clone /\ CloneOf(d.url, n).n = n
               /\ CloneOf(d.url, n).origin = d.url
    BY <1>1 DEF CloneOf, Clone
  <2>2. ASSUME NEW e \in Clone
        PROVE  Edited(e) \in Clone /\ Edited(e).n = e.n /\ Edited(e).origin = e.origin
    BY DEF Edited, Clone
  <2>3. CASE c \in {Absent, Half}
    BY <1>2, <2>3, PkgAssumption DEF IsClone
  <2>4. CASE c = CloneOf(d.url, 0)
    BY <1>1, <1>2, <2>1, <2>4 DEF IsClone
  <2>5. CASE c = Edited(CloneOf(d.url, tip[d.url]))
    BY <1>1, <1>2, <2>1, <2>2, <2>5 DEF IsClone
  <2> QED BY <1>2, <2>3, <2>4, <2>5 DEF CutSync
<1>3. CASE old \notin {Absent, Half}
  <2>1. old \in Clone /\ old.n <= tip[old.origin]
    BY <1>1, <1>3 DEF DiskOK, ClonesBehind, IsClone
  <2>2. Edited(old) \in Clone /\ Edited(old).n = old.n /\ Edited(old).origin = old.origin
    BY <2>1 DEF Edited, Clone
  <2>3. c = old \/ (~old.edited /\ c = Edited(old))
    BY <1>3 DEF CutSync, RefusesSync
  <2> QED BY <2>1, <2>2, <2>3
<1> QED BY <1>2, <1>3

LEMMA SyncLeaves ==
  ASSUME DiskOK, NEW d \in RepoDef, NEW s \in SyncResults(cache[d.name], d.url)
  PROVE  /\ s[1] \in {Absent, Half} \cup Clone
         /\ s[1] \in Clone => s[1].n <= tip[s[1].origin]
         /\ IsClone(d.name) /\ cache[d.name].edited => s[1] = cache[d.name]
         /\ s[2] \in {"synced", "skipped", "error"}
         /\ s[2] = "synced" => \E u \in Urls : s[1] = CloneOf(u, tip[u])
<1> DEFINE old == cache[d.name]
<1>1. /\ d.name \in Names /\ d.url \in Urls /\ old \in {Absent, Half} \cup Clone
      /\ \A u \in Urls : tip[u] \in Nat
  BY DEF RepoDef, DiskOK
<1>2. ASSUME NEW u \in Urls
      PROVE  CloneOf(u, tip[u]) \in Clone /\ CloneOf(u, tip[u]).n <= tip[CloneOf(u, tip[u]).origin]
  BY <1>1 DEF CloneOf, Clone
<1>3. CASE s \in CutSync(old, d.url) \X {"error"}
  BY <1>3, CutShort
<1>4. CASE old \in {Absent, Half} /\ s = <<CloneOf(d.url, tip[d.url]), "synced">>
  BY <1>1, <1>2, <1>4 DEF IsClone
<1>5. CASE old \notin {Absent, Half} /\ old.edited /\ s = <<old, "skipped">>
  BY <1>1, <1>5 DEF DiskOK, ClonesBehind, IsClone
<1>6. CASE old \notin {Absent, Half} /\ ~old.edited
           /\ s = <<CloneOf(old.origin, tip[old.origin]), "synced">>
  <2>1. old.origin \in Urls
    BY <1>1, <1>6 DEF Clone
  <2> QED BY <1>2, <1>6, <2>1
<1> QED BY <1>3, <1>4, <1>5, <1>6 DEF SyncResults, RefusesSync

LEMMA SyncKeeps == ASSUME PkgInv, Sync PROVE PkgInv'
<1> DEFINE d == Head(todo)
<1>1. /\ pc = "sync" /\ todo # <<>> /\ todo' = Tail(todo)
      /\ UNCHANGED <<world, tip, index, dir, pc, op, arg, file, left, errored, changed, exit>>
  BY DEF Sync
<1>2. d \in RepoDef /\ d.name \in Names /\ todo' \in Seq(RepoDef)
  <2>1. todo \in Seq(RepoDef)
    BY DEF PkgInv, MemoryOK, MemoryTypeOK
  <2>2. d \in RepoDef /\ Tail(todo) \in Seq(RepoDef)
    BY <1>1, <2>1, HeadTailProperties
  <2> QED BY <1>1, <2>2 DEF RepoDef
<1>3. PICK s \in SyncResults(cache[d.name], d.url) :
        /\ cache' = [cache EXCEPT ![d.name] = s[1]]
        /\ outcome' = [outcome EXCEPT ![d.name] = s[2]]
  BY DEF Sync
<1> HIDE DEF d
<1>4. /\ s[1] \in {Absent, Half} \cup Clone
      /\ s[1] \in Clone => s[1].n <= tip[s[1].origin]
      /\ s[2] \in {"synced", "skipped", "error"}
      /\ s[2] = "synced" => \E u \in Urls : s[1] = CloneOf(u, tip[u])
  BY <1>2, <1>3, SyncLeaves DEF PkgInv
<1>5. DiskOK'
  BY <1>1, <1>2, <1>3, <1>4, CacheChanges DEF PkgInv
<1>6. MemoryTypeOK' /\ Flow'
  <2>1. outcome' \in [Names -> {"synced", "skipped", "error"}]
    BY <1>3, <1>4 DEF PkgInv, MemoryOK, MemoryTypeOK
  <2>2. MemoryTypeOK'
    BY <1>1, <1>2, <2>1 DEF PkgInv, MemoryOK, MemoryTypeOK
  <2>3. Flow'
    BY <1>1 DEF PkgInv, MemoryOK, Flow
  <2> QED BY <2>2, <2>3
<1>7. Targets' /\ Loaded' /\ Recorded' /\ Behind(file)'
  BY <1>1 DEF PkgInv, MemoryOK, Targets, Loaded, Recorded, InPlace, Behind, Installed
<1>8. Synced'
  <2> SUFFICES ASSUME NEW r \in Names, outcome'[r] = "synced"
               PROVE  /\ IsClone(r)' /\ ~cache'[r].edited /\ cache'[r].n > 0
                      /\ op = "update" =>
                           /\ \A p \in Installed(index) :
                                index.packages[p].commit.url = cache'[r].origin =>
                                  index.packages[p].commit.n <= cache'[r].n
                           /\ \A p \in left :
                                dir[p] \in Copy /\ dir[p].commit.url = cache'[r].origin =>
                                  dir[p].commit.n <= cache'[r].n
    BY <1>1 DEF Synced, Installed
  <2>1. CASE r # d.name
    <3>1. cache'[r] = cache[r] /\ outcome[r] = "synced"
      BY <1>2, <1>3, <2>1 DEF PkgInv, DiskOK, MemoryOK, MemoryTypeOK
    <3> QED BY <3>1 DEF PkgInv, MemoryOK, Synced, IsClone
  <2>2. CASE r = d.name
    <3>1. cache'[r] = s[1] /\ s[2] = "synced"
      BY <1>2, <1>3, <2>2 DEF PkgInv, DiskOK, MemoryOK, MemoryTypeOK
    <3>2. PICK u \in Urls : s[1] = CloneOf(u, tip[u])
      BY <1>4, <3>1
    <3>3. cache'[r] = [origin |-> u, n |-> tip[u], edited |-> FALSE] /\ tip[u] \in Nat \ {0}
      BY <3>1, <3>2 DEF CloneOf, PkgInv, DiskOK
    <3>4. cache'[r] \in Clone
      BY <3>3 DEF Clone
    <3>5. IsClone(r)'
      BY <3>4, PkgAssumption DEF IsClone
    <3>6. left \subseteq Packages
      BY DEF PkgInv, MemoryOK, MemoryTypeOK
    <3> QED BY <3>3, <3>5, <3>6 DEF PkgInv, DiskOK, Behind, DirsBehind
  <2> QED BY <2>1, <2>2
<1>9. Current'
  BY <1>1 DEF PkgInv, MemoryOK, Flow, Current
<1> QED BY <1>5, <1>6, <1>7, <1>8, <1>9 DEF PkgInv, MemoryOK

LEMMA ReportsKeep == ASSUME PkgInv, RepoAdded \/ Searched PROVE PkgInv'
BY Ends, DiskUntouched DEF RepoAdded, Searched, PkgInv

LEMMA DropKeeps == ASSUME PkgInv, Drop PROVE PkgInv'
<1> DEFINE r == Head(todo).name
           old == cache[r]
<1>1. Exit("ok") /\ UNCHANGED <<world, tip, index, dir>>
  BY DEF Drop
<1>2. MemoryOK'
  BY <1>1, Ends
<1>3. PICK c \in {Absent} \cup (IF ~MayFail \/ old = Absent THEN {}
                                ELSE IF old = Half THEN {Half} ELSE {Half, old, Edited(old)}) :
        cache' = [cache EXCEPT ![r] = c]
  BY DEF Drop
<1> HIDE DEF r
<1>4. CASE r \in Names
  <2>1. old \in {Absent, Half} \cup Clone
    BY <1>4 DEF PkgInv, DiskOK
  <2>2. old \in Clone => /\ Edited(old) \in Clone /\ Edited(old).n = old.n
                         /\ Edited(old).origin = old.origin /\ old.n <= tip[old.origin]
    BY <1>4, PkgAssumption DEF Edited, Clone, PkgInv, DiskOK, ClonesBehind, IsClone
  <2>3. c \in {Absent, Half} \/ (old \in Clone /\ c \in {old, Edited(old)})
    BY <1>3, <2>1
  <2>4. c \in {Absent, Half} \cup Clone /\ (c \in Clone => c.n <= tip[c.origin])
    BY <2>2, <2>3, PkgAssumption
  <2> QED BY <1>1, <1>2, <1>3, <1>4, <2>4, CacheChanges DEF PkgInv
<1>5. CASE r \notin Names
  <2>1. cache' = cache
    BY <1>3, <1>5 DEF PkgInv, DiskOK
  <2> QED BY <1>1, <1>2, <2>1, DiskUntouched DEF PkgInv, disk
<1> QED BY <1>4, <1>5

LEMMA KillKeeps == ASSUME PkgInv, Kill PROVE PkgInv'
<1>1. UNCHANGED <<world, tip, index, dir>> /\ MemoryOK'
  BY Ends DEF Kill
<1>2. CASE pc = "sync" /\ todo # <<>>
  <2> DEFINE d == Head(todo)
  <2>1. d \in RepoDef /\ d.name \in Names
    <3>1. todo \in Seq(RepoDef)
      BY DEF PkgInv, MemoryOK, MemoryTypeOK
    <3>2. d \in RepoDef
      BY <1>2, <3>1, HeadTailProperties
    <3> QED BY <3>2 DEF RepoDef
  <2>2. PICK c \in CutSync(cache[d.name], d.url) : cache' = [cache EXCEPT ![d.name] = c]
    BY <1>2 DEF Kill
  <2> HIDE DEF d
  <2> QED BY <1>1, <2>1, <2>2, CutShort, CacheChanges DEF PkgInv
<1>3. CASE ~(pc = "sync" /\ todo # <<>>)
  BY <1>1, <1>3, DiskUntouched DEF Kill, PkgInv, disk
<1> QED BY <1>2, <1>3

LEMMA ChooseKeeps == ASSUME PkgInv, Choose PROVE PkgInv'
<1>1. DiskOK' /\ pc = "sync" /\ op = "add" /\ UNCHANGED <<world, tip, index, cache, dir>>
  BY DiskUntouched DEF Choose, PkgInv, disk
<1>2. CASE Exit("err")
  BY <1>1, <1>2, Ends DEF PkgInv
<1>3. ASSUME NEW p \in arg, MayInstall(p), NEW i \in DOMAIN file.repos,
             Holds(file.repos[i].name, p), todo' = <<file.repos[i]>>, pc' = "copy",
             UNCHANGED <<op, exit, arg, file, left, outcome, errored, changed>>
      PROVE  PkgInv'
  <2>1. file.repos[i] \in RepoDef /\ todo' \in Seq(RepoDef)
    BY <1>3, LenProperties, ElementOfSeq DEF PkgInv, MemoryOK, MemoryTypeOK, Loads
  <2>2. todo' # <<>> /\ Head(todo') = file.repos[i]
    BY <1>3
  <2>3. MemoryTypeOK' /\ Flow' /\ Loaded' /\ Current'
    BY <1>1, <1>3, <2>1
    DEF PkgInv, MemoryOK, MemoryTypeOK, Flow, Loaded, Current, Installed
  <2>4. Targets'
    <3>1. \A q \in arg : q = p
      BY <1>1 DEF PkgInv, MemoryOK, Flow
    <3>2. p \notin Installed(index) /\ dir[p] = Absent
      BY <1>1, <1>3 DEF PkgInv, MemoryOK, Targets, MayInstall
    <3>3. HasHead(Head(todo').name)
      BY <1>3, <2>2 DEF Holds
    <3> QED BY <1>1, <1>3, <2>2, <3>1, <3>2, <3>3 DEF Targets, HasHead, IsClone, Installed
  <2>5. Recorded' /\ Behind(file)' /\ Synced'
    BY <1>1, <1>3
    DEF PkgInv, MemoryOK, Recorded, InPlace, Behind, Synced, IsClone, Installed
  <2> QED BY <1>1, <2>3, <2>4, <2>5 DEF PkgInv, MemoryOK
<1> QED BY <1>2, <1>3 DEF Choose, GoOn

\* What is copied from a clone with a commit, and recorded of it.
LEMMA Copied ==
  ASSUME PkgInv, NEW r \in Names, HasHead(r), NEW torn \in BOOLEAN
  PROVE  /\ HeadCommit(r) \in Commit /\ HeadCommit(r).n <= tip[HeadCommit(r).url]
         /\ CopyOf(r, torn) \in Copy /\ CopyOf(r, torn).commit = HeadCommit(r)
         /\ CopyOf(r, torn).state =
              IF torn THEN "torn" ELSE IF cache[r].edited THEN "edited" ELSE "whole"
<1>1. cache[r] \in Clone /\ cache[r].n > 0 /\ cache[r].n <= tip[cache[r].origin]
  BY DEF PkgInv, DiskOK, ClonesBehind, HasHead, IsClone
<1>2. HeadCommit(r) \in Commit /\ HeadCommit(r).n <= tip[HeadCommit(r).url]
  BY <1>1 DEF HeadCommit, Commit, Clone
<1> QED BY <1>2 DEF CopyOf, Copy

LEMMA RecordLoads ==
  ASSUME PkgInv, NEW r \in Names, HasHead(r), NEW p \in Packages
  PROVE  /\ Loads(Record(p, r)) /\ Behind(Record(p, r))
         /\ Installed(Record(p, r)) = Installed(file) \cup {p}
         /\ Record(p, r).packages[p].commit = HeadCommit(r)
         /\ Record(p, r).packages[p].repo = r
         /\ \A q \in Installed(file) \ {p} : Record(p, r).packages[q] = file.packages[q]
<1>1. Loads(file) /\ Behind(file)
  BY DEF PkgInv, MemoryOK, MemoryTypeOK
<1>2. HeadCommit(r) \in Commit /\ HeadCommit(r).n <= tip[HeadCommit(r).url]
  BY Copied
<1>3. /\ Record(p, r).repos = file.repos /\ DOMAIN Record(p, r) = {"repos", "packages"}
      /\ Record(p, r).packages = [q \in Installed(file) \cup {p} |->
                                    IF q = p THEN [repo |-> r, commit |-> HeadCommit(r)]
                                    ELSE file.packages[q]]
  BY <1>1 DEF Record, Loads
<1>4. /\ Installed(Record(p, r)) = Installed(file) \cup {p}
      /\ Record(p, r).packages[p] = [repo |-> r, commit |-> HeadCommit(r)]
      /\ \A q \in Installed(file) \ {p} : Record(p, r).packages[q] = file.packages[q]
  BY <1>3 DEF Installed
<1>5. Loads(Record(p, r))
  <2>1. Record(p, r).packages[p] \in Entry
    BY <1>2, <1>4 DEF Entry
  <2>2. \A q \in DOMAIN Record(p, r).packages : Record(p, r).packages[q] \in Entry
    BY <1>1, <1>4, <2>1 DEF Loads, Installed
  <2> QED BY <1>1, <1>3, <1>4, <2>2 DEF Loads, Installed
<1>6. Behind(Record(p, r))
  BY <1>1, <1>2, <1>4 DEF Behind
<1> QED BY <1>4, <1>5, <1>6

LEMMA CopyInKeeps == ASSUME PkgInv, CopyIn PROVE PkgInv'
<1> DEFINE r == Head(todo).name
<1>1. pc = "copy" /\ op = "add" /\ UNCHANGED <<world, tip, index, cache>>
  BY DEF CopyIn, PkgInv, MemoryOK, Flow
<1>2. r \in Names /\ HasHead(r)
  <2>1. todo \in Seq(RepoDef) /\ todo # <<>> /\ HasHead(r)
    BY <1>1 DEF PkgInv, MemoryOK, MemoryTypeOK, Targets
  <2>2. Head(todo) \in RepoDef
    BY <2>1, HeadTailProperties
  <2> QED BY <2>1, <2>2 DEF RepoDef
<1>3. PICK p \in arg, torn \in {FALSE, MayFail} :
        /\ dir' = [dir EXCEPT ![p] = CopyOf(r, torn)]
        /\ \/ /\ ~torn /\ file' = Record(p, r) /\ pc' = "save"
              /\ UNCHANGED <<op, exit, arg, todo, left, outcome, errored, changed>>
           \/ Exit("err")
  BY DEF CopyIn, CopySucceeds, GoOn
<1> HIDE DEF r
<1>4. p \in Packages /\ p \notin Installed(index) /\ torn \in BOOLEAN /\ \A q \in arg : q = p
  BY <1>1, PkgAssumption DEF PkgInv, MemoryOK, MemoryTypeOK, Targets, Flow
<1>5. /\ CopyOf(r, torn) \in Copy /\ CopyOf(r, torn).commit = HeadCommit(r)
      /\ ~torn => CopyOf(r, torn).state \in {"whole", "edited"}
  BY <1>2, <1>4, Copied
<1>6. DiskOK'
  <2>1. HeadCommit(r).n <= tip[HeadCommit(r).url]
    BY <1>2, <1>4, Copied
  <2> QED BY <1>1, <1>3, <1>4, <1>5, <2>1, DirChanges DEF PkgInv
<1>7. CASE Exit("err")
  BY <1>6, <1>7, Ends DEF PkgInv
<1>8. CASE /\ ~torn /\ file' = Record(p, r) /\ pc' = "save"
           /\ UNCHANGED <<op, exit, arg, todo, left, outcome, errored, changed>>
  <2>1. /\ Loads(file') /\ Behind(Record(p, r)) /\ Installed(file') = Installed(file) \cup {p}
        /\ file'.packages[p].commit = HeadCommit(r)
        /\ \A q \in Installed(file) \ {p} : file'.packages[q] = file.packages[q]
    BY <1>2, <1>4, <1>8, RecordLoads
  <2>2. MemoryTypeOK' /\ Flow' /\ Targets' /\ Loaded' /\ Current'
    BY <1>1, <1>8, <2>1
    DEF PkgInv, MemoryOK, MemoryTypeOK, Flow, Targets, Loaded, Current
  <2>3. Behind(file)' /\ Synced'
    BY <1>1, <1>8, <2>1 DEF PkgInv, MemoryOK, Behind, Synced, IsClone
  <2>4. Recorded'
    <3> SUFFICES ASSUME NEW q \in Installed(file'),
                        q \notin Installed(index)
                          \/ file'.packages[q].commit # index.packages[q].commit
                 PROVE  InPlace(q)'
      BY <1>1 DEF Recorded, Installed
    <3>1. CASE q = p
      <4>1. dir'[p] = CopyOf(r, torn)
        BY <1>3, <1>4 DEF PkgInv, DiskOK
      <4> QED BY <1>1, <1>5, <1>8, <2>1, <3>1, <4>1 DEF InPlace
    <3>2. CASE q # p
      <4>1. dir'[q] = dir[q]
        BY <1>3, <3>2 DEF PkgInv, DiskOK
      <4>2. InPlace(q)
        BY <2>1, <3>2 DEF PkgInv, MemoryOK, Recorded
      <4> QED BY <1>8, <2>1, <3>2, <4>1, <4>2 DEF InPlace
    <3> QED BY <3>1, <3>2
  <2> QED BY <1>6, <2>2, <2>3, <2>4 DEF PkgInv, MemoryOK
<1> QED BY <1>3, <1>7, <1>8

LEMMA DeleteKeeps == ASSUME PkgInv, Delete PROVE PkgInv'
<1>1. pc = "delete" /\ op = "remove" /\ UNCHANGED <<world, tip, index, cache>>
  BY DEF Delete, PkgInv, MemoryOK, Flow
<1>2. PICK p \in arg :
        \/ /\ dir' = [dir EXCEPT ![p] = Absent] /\ pc' = "save"
           /\ UNCHANGED <<op, exit, arg, file, todo, left, outcome, errored, changed>>
        \/ \E d \in Ruins(dir[p]) : dir' = [dir EXCEPT ![p] = d] /\ Exit("err")
  BY DEF Delete, GoOn
<1>3. p \in Packages /\ p \in Installed(index) /\ dir[p] # Absent
  BY <1>1 DEF PkgInv, MemoryOK, MemoryTypeOK, Targets
<1>4. ASSUME NEW d \in Ruins(dir[p]), dir' = [dir EXCEPT ![p] = d], Exit("err") PROVE PkgInv'
  <2>1. CASE dir[p] = Own
    BY <1>1, <1>3, <1>4, <2>1, DirChanges, Ends, PkgAssumption DEF Ruins, PkgInv, Ahead
  <2>2. CASE dir[p] \in Copy
    <3> DEFINE ruin == [dir[p] EXCEPT !.state = "ruined"]
    <3>1. ruin \in Copy /\ ruin.state = "ruined" /\ ruin.commit = dir[p].commit
      BY <2>2 DEF Copy
    <3>2. d \in {dir[p], ruin}
      BY <1>4, <2>2, PkgAssumption DEF Ruins
    <3> HIDE DEF ruin
    <3>3. d \in Copy /\ Ahead(dir[p], index.packages[p].commit)
          /\ dir[p].commit.n <= tip[dir[p].commit.url]
      BY <1>3, <2>2, <3>1, <3>2 DEF PkgInv, DiskOK, DirsAhead, DirsBehind
    <3>4. Ahead(d, index.packages[p].commit) /\ d.commit.n <= tip[d.commit.url]
      BY <2>2, <3>1, <3>2, <3>3 DEF Ahead
    <3> QED BY <1>1, <1>3, <1>4, <3>3, <3>4, DirChanges, Ends DEF PkgInv
  <2> QED BY <1>3, <2>1, <2>2 DEF PkgInv, DiskOK
<1>5. CASE /\ dir' = [dir EXCEPT ![p] = Absent] /\ pc' = "save"
           /\ UNCHANGED <<op, exit, arg, file, todo, left, outcome, errored, changed>>
  <2>1. DiskOK'
    BY <1>1, <1>3, <1>5, DirChanges, PkgAssumption DEF PkgInv, Ahead
  <2>2. MemoryTypeOK' /\ Flow' /\ Targets' /\ Loaded' /\ Current'
    BY <1>1, <1>5 DEF PkgInv, MemoryOK, MemoryTypeOK, Flow, Targets, Loaded, Current, Installed
  <2>3. Behind(file)' /\ Synced'
    BY <1>1, <1>5 DEF PkgInv, MemoryOK, Behind, Synced, IsClone, Installed
  <2>4. Recorded'
    BY <1>1, <1>5 DEF PkgInv, MemoryOK, Loaded, Recorded, Installed
  <2> QED BY <2>1, <2>2, <2>3, <2>4 DEF PkgInv, MemoryOK
<1> QED BY <1>2, <1>4, <1>5

\* What an update finds whose recorded commit is the head of a clone it synced.
LEMMA FoundInDir ==
  ASSUME PkgInv, op = "update", NEW p \in left, outcome[file.packages[p].repo] = "synced",
         file.packages[p].commit = HeadCommit(file.packages[p].repo)
  PROVE  InDir(p, file.packages[p].commit)
<1> DEFINE at == index.packages[p].commit
           r == file.packages[p].repo
<1>1. /\ p \in Packages /\ p \in Installed(index) /\ file.packages[p] = index.packages[p]
      /\ p \in Installed(file)
  BY DEF PkgInv, MemoryOK, MemoryTypeOK, Targets, Loaded
<1>2. at = HeadCommit(r) /\ at \in Commit /\ r \in Names
  BY <1>1 DEF PkgInv, MemoryOK, MemoryTypeOK, Loads, Installed, Entry
<1>3. cache[r].origin = at.url /\ cache[r].n = at.n
  BY <1>2 DEF HeadCommit
<1>4. CASE dir[p] \in Copy /\ dir[p].commit.url = at.url /\ dir[p].state \in {"whole", "torn"}
  <2> DEFINE c == dir[p].commit
  <2>1. c \in Commit
    BY <1>4 DEF Copy
  <2>2. at.n <= c.n /\ (dir[p].state = "torn" => at.n < c.n)
    BY <1>1, <1>4 DEF PkgInv, DiskOK, DirsAhead, Ahead
  <2>3. c.n <= at.n
    BY <1>2, <1>3, <1>4 DEF PkgInv, MemoryOK, Synced
  <2>4. c.n = at.n /\ dir[p].state # "torn"
    BY <1>2, <2>1, <2>2, <2>3 DEF Commit
  <2>5. c = at
    BY <1>2, <1>4, <2>1, <2>4 DEF Commit
  <2>6. dir[p] = [commit |-> at, state |-> "whole"]
    BY <1>4, <2>4, <2>5 DEF Copy
  <2> QED BY <1>1, <2>6 DEF InDir, Whole
<1>5. CASE ~(dir[p] \in Copy /\ dir[p].commit.url = at.url /\ dir[p].state \in {"whole", "torn"})
  <2>1. Unseen(dir[p], at.url)
    BY <1>1, <1>5 DEF PkgInv, DiskOK, Copy, Unseen
  <2> QED BY <1>1, <2>1 DEF InDir
<1> QED BY <1>4, <1>5

\* An update passes on from a package: its recorded commit is that of its
\* repository's clone, or the clone is dirty, or the update will report an error.
LEMMA PassKeeps ==
  ASSUME PkgInv, pc = "sync", todo = <<>>, op = "update",
         NEW p \in left, NEW failed \in BOOLEAN, Pass(p, failed),
         UNCHANGED <<world, tip, cache, index, op, arg, todo, outcome>>,
         \/ failed \/ outcome[file.packages[p].repo] = "skipped"
         \/ /\ HasHead(file.packages[p].repo)
            /\ file.packages[p].commit = HeadCommit(file.packages[p].repo)
            /\ outcome[file.packages[p].repo] = "synced"
  PROVE  PkgInv'
<1>1. /\ left' = left \ {p} /\ errored' = (errored \/ failed)
      /\ UNCHANGED <<dir, file, changed, pc, exit>>
  BY DEF Pass
<1>2. DiskOK'
  BY <1>1, DiskUntouched DEF PkgInv, disk
<1>3. MemoryTypeOK' /\ Flow' /\ Targets'
  BY <1>1 DEF PkgInv, MemoryOK, MemoryTypeOK, Flow, Targets, Installed
<1>4. Loaded'
  BY <1>1 DEF PkgInv, MemoryOK, Loaded, Installed
<1>5. Recorded' /\ Behind(file)' /\ Synced'
  BY <1>1 DEF PkgInv, MemoryOK, Recorded, InPlace, Behind, Synced, IsClone, Installed
<1>6. Current'
  <2> SUFFICES ASSUME NEW q \in arg \ left', ~errored', outcome[file.packages[q].repo] # "skipped"
               PROVE  /\ HasHead(file.packages[q].repo)
                      /\ file.packages[q].commit = HeadCommit(file.packages[q].repo)
                      /\ InDir(q, file.packages[q].commit)
    BY <1>1 DEF Current, HasHead, IsClone, HeadCommit, InDir
  <2>1. ~errored /\ ~failed
    BY <1>1 DEF PkgInv, MemoryOK, MemoryTypeOK
  <2>2. CASE q = p
    BY <2>1, <2>2, FoundInDir
  <2>3. CASE q # p
    BY <1>1, <2>1, <2>3 DEF PkgInv, MemoryOK, Current
  <2> QED BY <2>2, <2>3
<1> QED BY <1>2, <1>3, <1>4, <1>5, <1>6 DEF PkgInv, MemoryOK

\* It replaces a package: the new commit is newer than the recorded one if it
\* is of the same url.
LEMMA ReplaceKeeps ==
  ASSUME PkgInv, pc = "sync", todo = <<>>, op = "update",
         NEW p \in left, NEW r, r = file.packages[p].repo, outcome[r] = "synced",
         HeadCommit(r) # file.packages[p].commit, Replace(p, r),
         UNCHANGED <<world, tip, cache>>
  PROVE  PkgInv'
<1>1. /\ p \in arg /\ p \in Packages /\ p \in Installed(index) /\ p \in Installed(file)
      /\ file.packages[p] = index.packages[p] /\ r \in Names
  <2>1. /\ p \in arg /\ p \in Packages /\ p \in Installed(index) /\ p \in Installed(file)
        /\ file.packages[p] = index.packages[p]
    BY DEF PkgInv, MemoryOK, MemoryTypeOK, Targets, Loaded
  <2> QED BY <2>1 DEF PkgInv, MemoryOK, MemoryTypeOK, Loads, Installed, Entry
<1>2. cache[r] \in Clone /\ HasHead(r) /\ ~cache[r].edited
  BY <1>1 DEF PkgInv, DiskOK, MemoryOK, Synced, HasHead, IsClone
<1>3. \A torn \in BOOLEAN :
        /\ CopyOf(r, torn) \in Copy /\ CopyOf(r, torn).commit = HeadCommit(r)
        /\ CopyOf(r, torn).state = IF torn THEN "torn" ELSE "whole"
        /\ HeadCommit(r) \in Commit /\ HeadCommit(r).n <= tip[HeadCommit(r).url]
  BY <1>1, <1>2, Copied
<1>4. ASSUME HeadCommit(r).url = index.packages[p].commit.url
      PROVE  index.packages[p].commit.n < HeadCommit(r).n
  <2>1. index.packages[p].commit \in Commit /\ HeadCommit(r) \in Commit
    BY <1>1, <1>2, Copied DEF PkgInv, DiskOK, Loads, Installed, Entry
  <2>2. HeadCommit(r).url = cache[r].origin /\ HeadCommit(r).n = cache[r].n
    BY DEF HeadCommit
  <2>3. index.packages[p].commit.n <= cache[r].n
    BY <1>1, <1>4, <2>2 DEF PkgInv, MemoryOK, Synced
  <2>4. index.packages[p].commit.n # HeadCommit(r).n
    BY <1>1, <1>4, <2>1 DEF Commit
  <2> QED BY <2>1, <2>2, <2>3, <2>4 DEF Commit
<1>5. \A torn \in BOOLEAN : Ahead(CopyOf(r, torn), index.packages[p].commit)
  <2>1. index.packages[p].commit \in Commit
    BY <1>1 DEF PkgInv, DiskOK, Loads, Installed, Entry
  <2> QED BY <1>3, <1>4, <2>1 DEF Ahead, Commit
<1>6. CASE /\ dir' = [dir EXCEPT ![p] = CopyOf(r, FALSE)] /\ file' = Record(p, r)
           /\ changed' = TRUE /\ left' = left \ {p}
           /\ UNCHANGED <<index, op, arg, todo, outcome, errored, pc, exit>>
  <2>1. DiskOK'
    BY <1>1, <1>3, <1>5, <1>6, DirChanges DEF PkgInv
  <2>2. /\ Loads(file') /\ Behind(Record(p, r)) /\ Installed(file') = Installed(file)
        /\ file'.packages[p].commit = HeadCommit(r) /\ file'.packages[p].repo = r
        /\ \A q \in Installed(file) \ {p} : file'.packages[q] = file.packages[q]
    <3>1. /\ Loads(Record(p, r)) /\ Behind(Record(p, r))
          /\ Installed(Record(p, r)) = Installed(file) \cup {p}
          /\ Record(p, r).packages[p].commit = HeadCommit(r)
          /\ Record(p, r).packages[p].repo = r
          /\ \A q \in Installed(file) \ {p} : Record(p, r).packages[q] = file.packages[q]
      BY <1>1, <1>2, RecordLoads
    <3>2. Installed(file) \cup {p} = Installed(file)
      BY <1>1
    <3> QED BY <1>6, <3>1, <3>2
  <2>3. MemoryTypeOK' /\ Flow' /\ Targets'
    BY <1>6, <2>2 DEF PkgInv, MemoryOK, MemoryTypeOK, Flow, Targets, Installed
  <2>4. Loaded'
    BY <1>1, <1>6, <2>2 DEF PkgInv, MemoryOK, Loaded, Installed
  <2>5. Behind(file)' /\ Synced'
    <3>1. Behind(file)'
      BY <1>6, <2>2 DEF Behind, Installed
    <3>2. \A q \in left' : q \in left /\ dir'[q] = dir[q]
      BY <1>6 DEF PkgInv, DiskOK, MemoryOK, MemoryTypeOK
    <3> QED BY <1>6, <3>1, <3>2 DEF PkgInv, MemoryOK, Synced, IsClone, Installed
  <2>6. Recorded'
    <3> SUFFICES ASSUME NEW q \in Installed(file'),
                        q \notin Installed(index)
                          \/ file'.packages[q].commit # index.packages[q].commit
                 PROVE  InPlace(q)'
      BY <1>6 DEF Recorded, Installed
    <3>1. CASE q = p
      <4>1. dir'[p] = CopyOf(r, FALSE)
        BY <1>1, <1>6 DEF PkgInv, DiskOK
      <4> QED BY <1>3, <2>2, <3>1, <4>1 DEF InPlace
    <3>2. CASE q # p
      <4>1. dir'[q] = dir[q]
        BY <1>6, <3>2 DEF PkgInv, DiskOK
      <4>2. InPlace(q)
        BY <2>2, <3>2 DEF PkgInv, MemoryOK, Recorded
      <4> QED BY <1>6, <2>2, <3>2, <4>1, <4>2 DEF InPlace
    <3> QED BY <3>1, <3>2
  <2>7. Current'
    <3> SUFFICES ASSUME NEW q \in arg \ left'
                 PROVE  \/ errored \/ outcome[file'.packages[q].repo] = "skipped"
                        \/ /\ HasHead(file'.packages[q].repo)
                           /\ file'.packages[q].commit = HeadCommit(file'.packages[q].repo)
                           /\ InDir(q, file.packages[q].commit)'
      BY <1>6 DEF Current, HasHead, IsClone, HeadCommit
    <3>1. CASE q = p
      <4>1. dir'[p] = Whole(HeadCommit(r))
        BY <1>1, <1>2, <1>6 DEF PkgInv, DiskOK, CopyOf, Whole
      <4> QED BY <1>2, <2>2, <3>1, <4>1 DEF InDir, Whole
    <3>2. CASE q # p
      <4>1. q \in arg \ left /\ q \in Installed(file) /\ q \in Packages
        BY <1>6, <3>2 DEF PkgInv, MemoryOK, MemoryTypeOK, Targets, Loaded
      <4>2. dir'[q] = dir[q]
        BY <1>6, <3>2, <4>1 DEF PkgInv, DiskOK
      <4>3. InDir(q, file.packages[q].commit) => InDir(q, file.packages[q].commit)'
        BY <1>6, <2>2, <3>2, <4>1, <4>2 DEF InDir, Unseen, Whole
      <4> QED BY <2>2, <3>2, <4>1, <4>3 DEF PkgInv, MemoryOK, Current
    <3> QED BY <3>1, <3>2
  <2> QED BY <2>1, <2>2, <2>3, <2>4, <2>5, <2>6, <2>7 DEF PkgInv, MemoryOK
<1>7. ASSUME NEW d \in {dir[p], CopyOf(r, TRUE)}, dir' = [dir EXCEPT ![p] = d],
             UNCHANGED index, Exit("err")
      PROVE  PkgInv'
  <2>1. d \in {Absent, Own} \cup Copy
    BY <1>1, <1>3, <1>7 DEF PkgInv, DiskOK
  <2>2. Ahead(d, index.packages[p].commit) /\ (d \in Copy => d.commit.n <= tip[d.commit.url])
    BY <1>1, <1>3, <1>5, <1>7 DEF PkgInv, DiskOK, DirsAhead, DirsBehind
  <2> QED BY <1>1, <1>7, <2>1, <2>2, DirChanges, Ends DEF PkgInv
<1> QED BY <1>6, <1>7 DEF Replace, Abandon

LEMMA UpdatePackageKeeps ==
  ASSUME PkgInv, NEW p \in Packages, UpdatePackage(p) PROVE PkgInv'
<1> DEFINE entry == file.packages[p]
           r == entry.repo
<1>1. /\ pc = "sync" /\ todo = <<>> /\ op = "update" /\ p \in left
      /\ UNCHANGED <<world, tip, cache>>
  BY DEF UpdatePackage
<1>2. r \in Names
  BY <1>1 DEF PkgInv, MemoryOK, MemoryTypeOK, Targets, Loaded, Loads, Installed, Entry
<1>3. CASE /\ outcome[r] # "synced" /\ Pass(p, outcome[r] = "error")
           /\ UNCHANGED <<index, op, arg, todo, outcome>>
  <2>1. outcome[r] = "error" \/ outcome[r] = "skipped"
    BY <1>2, <1>3 DEF PkgInv, MemoryOK, MemoryTypeOK
  <2> QED BY <1>1, <1>3, <2>1, PassKeeps
<1>4. CASE Exit("err") /\ UNCHANGED <<index, dir>>
  BY <1>1, <1>4, Ends, DiskUntouched DEF PkgInv, disk
<1>5. CASE /\ outcome[r] = "synced" /\ Pass(p, HeadCommit(r) # entry.commit)
           /\ UNCHANGED <<index, op, arg, todo, outcome>>
  <2>1. HasHead(r)
    BY <1>2, <1>5 DEF PkgInv, MemoryOK, Synced, HasHead
  <2>2. \/ HeadCommit(r) # entry.commit
        \/ HasHead(r) /\ entry.commit = HeadCommit(r) /\ outcome[r] = "synced"
    BY <1>5, <2>1
  <2> QED BY <1>1, <1>5, <2>2, PassKeeps
<1>6. CASE outcome[r] = "synced" /\ HeadCommit(r) # entry.commit /\ Replace(p, r)
  BY <1>1, <1>6, ReplaceKeeps
<1> QED BY <1>3, <1>4, <1>5, <1>6 DEF UpdatePackage

LEMMA UpdateEndKeeps == ASSUME PkgInv, UpdateEnd PROVE PkgInv'
<1>1. /\ DiskOK' /\ pc = "sync" /\ todo = <<>> /\ op = "update" /\ left = {}
      /\ UNCHANGED <<world, tip, index, cache, dir>>
  BY DiskUntouched DEF UpdateEnd, PkgInv, disk
<1>2. CASE Exit(UpdateCode)
  BY <1>1, <1>2, Ends DEF UpdateCode, PkgInv
<1>3. CASE /\ pc' = "save"
           /\ UNCHANGED <<op, exit, arg, file, todo, left, outcome, errored, changed>>
  <2>1. MemoryTypeOK' /\ Flow' /\ Targets' /\ Loaded'
    BY <1>1, <1>3 DEF PkgInv, MemoryOK, MemoryTypeOK, Flow, Targets, Loaded, Installed
  <2>2. Recorded' /\ Behind(file)' /\ Synced' /\ Current'
    BY <1>1, <1>3 DEF PkgInv, MemoryOK, Recorded, InPlace, Behind, Synced, Current, IsClone,
                      HasHead, HeadCommit, Installed, InDir
  <2> QED BY <1>1, <2>1, <2>2 DEF PkgInv, MemoryOK
<1> QED BY <1>2, <1>3 DEF UpdateEnd, GoOn

LEMMA StepKeeps == ASSUME PkgInv, Step PROVE PkgInv'
BY SaveKeeps, BeginSyncKeeps, SyncKeeps, ReportsKeep, DropKeeps, ChooseKeeps, CopyInKeeps,
   DeleteKeeps, UpdateEndKeeps, UpdatePackageKeeps
DEF Step

(* ------------------------------------------------------------- the theorems *)

LEMMA InvStarts == Init => PkgInv
<1> SUFFICES ASSUME Init PROVE PkgInv
  OBVIOUS
<1>1. Loads(index) /\ Loads(file) /\ Installed(index) = {} /\ Installed(file) = {}
  BY NothingLoaded DEF Init
<1>2. world \in WorldType /\ \A u \in Urls : Len(world.holds[u]) > 0
  BY PkgAssumption DEF Init
<1>3. \A u \in Urls : tip[u] = 1 /\ 1 \in 1 .. Len(world.holds[u])
  <2> SUFFICES ASSUME NEW u \in Urls PROVE tip[u] = 1 /\ 1 \in 1 .. Len(world.holds[u])
    OBVIOUS
  <2>1. world.holds[u] \in Seq(SUBSET Packages)
    BY <1>2 DEF WorldType
  <2> QED BY <1>2, <2>1, LenProperties DEF Init
<1>4. tip \in [Urls -> Nat] /\ cache \in [Names -> {Absent, Half} \cup Clone]
      /\ dir \in [Packages -> {Absent, Own} \cup Copy]
  BY DEF Init
<1>5. Behind(index) /\ Behind(file) /\ DirsAhead /\ DirsBehind
  BY <1>1, PkgAssumption DEF Behind, DirsAhead, DirsBehind, Init
<1>6. ClonesBehind
  BY DEF Init, ClonesBehind, IsClone
<1>7. DiskOK
  BY <1>1, <1>3, <1>4, <1>5, <1>6 DEF Init, DiskOK
<1>8. MemoryTypeOK
  <2>1. outcome \in [Names -> {"synced", "skipped", "error"}] /\ todo \in Seq(RepoDef)
    BY DEF Init, NoOutcome
  <2> QED BY <1>1, <2>1 DEF Init, MemoryTypeOK
<1>9. Flow /\ Targets /\ Loaded /\ Current
  BY DEF Init, Flow, Targets, Loaded, Current
<1>10. Recorded /\ Synced
  BY <1>1 DEF Init, Recorded, Synced, NoOutcome
<1> QED BY <1>5, <1>7, <1>8, <1>9, <1>10 DEF PkgInv, MemoryOK

LEMMA InvKept == PkgInv /\ [Next]_vars => PkgInv'
<1> SUFFICES ASSUME PkgInv, [Next]_vars PROVE PkgInv'
  OBVIOUS
<1>1. CASE Next
  BY <1>1, CommandKeeps, StepKeeps, KillKeeps, UserKeeps, PushKeeps DEF Next
<1>2. CASE UNCHANGED vars
  <2>1. UNCHANGED <<world, tip, disk, index, cache, dir, pc, op, arg, file, todo, left, outcome,
                    errored, changed, exit>>
    BY <1>2 DEF vars, disk, memory
  <2>2. DiskOK'
    BY <2>1, DiskUntouched DEF PkgInv, disk
  <2>3. MemoryTypeOK' /\ Flow' /\ Targets' /\ Loaded'
    BY <2>1 DEF PkgInv, MemoryOK, MemoryTypeOK, Flow, Targets, Loaded, HasHead, IsClone, Installed
  <2>4. Recorded' /\ Behind(file)' /\ Synced' /\ Current'
    BY <2>1 DEF PkgInv, MemoryOK, Recorded, InPlace, Behind, Synced, Current, HasHead, HeadCommit,
                IsClone, Installed, InDir
  <2> QED BY <2>2, <2>3, <2>4 DEF PkgInv, MemoryOK
<1> QED BY <1>1, <1>2

LEMMA Invariant == Spec => []PkgInv
BY InvStarts, InvKept, PTL DEF Spec

\* The variables keep their types, for any number of repositories, packages
\* and commits: the index never has two repositories of one name.
THEOREM PkgTypeOK == Spec => []TypeOK
<1>1. PkgInv => TypeOK
  BY DEF PkgInv, DiskOK, MemoryOK, MemoryTypeOK, TypeOK
<1> QED BY <1>1, Invariant, PTL

\* A package that an update from its recorded url left half replaced has a
\* recorded commit older than the one it was to become: the next update from
\* there does not take it for up to date (ops.rs: update). A torn copy from
\* another url may be taken for one.
THEOREM TornNoticed == Spec => []TornIsNoticed
<1>1. PkgInv => TornIsNoticed
  BY DEF PkgInv, DiskOK, DirsAhead, Ahead, TornIsNoticed
<1> QED BY <1>1, Invariant, PTL

\* What is recorded was copied: a commit comes into the index only when the
\* package's directory holds all of it (ops.rs: add and update).
THEOREM RecordedCopied == Spec => RecordedIsCopied
<1> DEFINE A == \A p \in Installed(index') :
       p \notin Installed(index) \/ index'.packages[p].commit # index.packages[p].commit
         => /\ dir[p] \in Copy /\ dir[p].commit = index'.packages[p].commit
            /\ dir[p].state = "whole" \/ (dir[p].state = "edited" /\ op = "add")
<1>1. ASSUME PkgInv, [Next]_vars PROVE A
  <2>1. CASE index' = file
    BY <1>1, <2>1 DEF PkgInv, MemoryOK, Recorded, InPlace, Installed
  <2>2. CASE index'.packages = index.packages
    BY <2>2 DEF Installed
  <2>3. CASE User
    <3>1. index' = index \/ \E i \in 1 .. Len(index.repos), d \in RepoDef :
                               index' = [index EXCEPT !.repos[i] = d]
      BY <1>1, <2>3, PkgAssumption
      DEF User, EditCache, DeleteCache, EditUrl, MakeOwn, DeleteDir, PkgInv, DiskOK, WorldType
    <3>2. index'.packages = index.packages
      BY <1>1, <3>1 DEF PkgInv, DiskOK, Loads
    <3> QED BY <2>2, <3>2
  <2>4. CASE Step
    BY <2>1, <2>2, <2>4
    DEF Step, Save, BeginSync, Sync, RepoAdded, Searched, Drop, Choose, CopyIn, Delete, UpdateEnd,
        UpdatePackage, Replace, Abandon, disk
  <2>5. CASE Command
    BY <2>2, <2>5
    DEF Command, RepoAdd, RepoRemove, AddOrSearch, Remove, UpdateAll, UpdateOne, Update, Begin,
        Refuse, disk
  <2>6. CASE Kill \/ (\E u \in Urls : Push(u)) \/ UNCHANGED vars
    BY <2>2, <2>6 DEF Kill, Push, vars, disk
  <2> QED BY <1>1, <2>3, <2>4, <2>5, <2>6 DEF Next
<1>2. PkgInv /\ [Next]_vars => [A]_vars
  BY <1>1
<1>3. Spec => [][A]_vars
  BY <1>2, Invariant, PTL DEF Spec
<1> QED BY <1>3 DEF RecordedIsCopied

\* Only these steps of a command change a directory, each that of one package
\* it is about.
LEMMA OnlyTheirs ==
  ASSUME PkgInv, [Next]_vars, pc # "idle", NEW q \in Packages, dir'[q] # dir[q]
  PROVE  (q \in arg /\ dir[q] = Absent) \/ q \in Installed(index)
<1>1. dir' # dir
  OBVIOUS
<1>2. CASE CopyIn
  <2>1. PICK p \in arg : \E d : dir' = [dir EXCEPT ![p] = d]
    BY <1>2 DEF CopyIn
  <2>2. dir[p] = Absent
    BY <1>2 DEF CopyIn, PkgInv, MemoryOK, Targets
  <2>3. q = p
    BY <2>1 DEF PkgInv, DiskOK
  <2> QED BY <2>2, <2>3
<1>3. CASE Delete
  <2>1. PICK p \in arg : \E d : dir' = [dir EXCEPT ![p] = d]
    BY <1>3 DEF Delete
  <2>2. p \in Installed(index)
    BY <1>3 DEF Delete, PkgInv, MemoryOK, Targets
  <2>3. q = p
    BY <2>1 DEF PkgInv, DiskOK
  <2> QED BY <2>2, <2>3
<1>4. ASSUME NEW p \in Packages, UpdatePackage(p) PROVE q \in Installed(index)
  <2>1. \E d : dir' = [dir EXCEPT ![p] = d]
    BY <1>1, <1>4 DEF UpdatePackage, Replace, Pass
  <2>2. p \in Installed(index)
    BY <1>4 DEF UpdatePackage, PkgInv, MemoryOK, MemoryTypeOK, Targets
  <2>3. q = p
    BY <2>1 DEF PkgInv, DiskOK
  <2> QED BY <2>2, <2>3
<1>5. CASE Save \/ BeginSync \/ Sync \/ RepoAdded \/ Searched \/ Drop \/ Choose \/ UpdateEnd
  BY <1>1, <1>5 DEF Save, BeginSync, Sync, RepoAdded, Searched, Drop, Choose, UpdateEnd, disk
<1>6. CASE Command \/ User
  BY <1>6 DEF Command, RepoAdd, RepoRemove, AddOrSearch, Remove, UpdateAll, UpdateOne, Update,
              Begin, Refuse, User, Idle, EditCache, DeleteCache, EditUrl, MakeOwn, DeleteDir
<1>7. CASE Kill \/ (\E u \in Urls : Push(u)) \/ UNCHANGED vars
  BY <1>1, <1>7 DEF Kill, Push, vars, disk
<1> QED BY <1>2, <1>3, <1>4, <1>5, <1>6, <1>7 DEF Next, Step

\* No command touches a directory of pkgs/ that the user made and the index
\* does not list (ops.rs: add, remove and update).
THEOREM OwnKept == Spec => OwnIsKept
<1> DEFINE A == \A p \in Packages :
                  dir[p] = Own /\ p \notin Installed(index) /\ pc # "idle" => dir'[p] = Own
<1>1. PkgInv /\ [Next]_vars => [A]_vars
  BY OnlyTheirs, PkgAssumption
<1>2. Spec => [][A]_vars
  BY <1>1, Invariant, PTL DEF Spec
<1> QED BY <1>2 DEF OwnIsKept

\* The edits somebody made in a clone are lost only by dropping its
\* repository, or by the user (git.rs: sync_repo).
THEOREM EditsKept == Spec => EditsAreKept
<1> DEFINE A == \A r \in Names :
                  IsClone(r) /\ cache[r].edited /\ pc # "idle" /\ op # "repo_remove"
                    => cache'[r] = cache[r]
<1>1. ASSUME PkgInv, [Next]_vars, NEW r \in Names, IsClone(r), cache[r].edited, pc # "idle",
             op # "repo_remove"
      PROVE  cache'[r] = cache[r]
  <2>1. CASE Sync
    <3> DEFINE d == Head(todo)
    <3>1. todo \in Seq(RepoDef) /\ todo # <<>>
      BY <1>1, <2>1 DEF Sync, PkgInv, MemoryOK, MemoryTypeOK
    <3>2. d \in RepoDef
      BY <3>1, HeadTailProperties
    <3>3. PICK s \in SyncResults(cache[d.name], d.url) : cache' = [cache EXCEPT ![d.name] = s[1]]
      BY <2>1 DEF Sync
    <3> HIDE DEF d
    <3>4. r = d.name => s[1] = cache[r]
      BY <1>1, <3>2, <3>3, SyncLeaves DEF PkgInv
    <3> QED BY <1>1, <3>3, <3>4 DEF PkgInv, DiskOK
  <2>2. CASE Kill
    <3>1. CASE pc = "sync" /\ todo # <<>>
      <4> DEFINE d == Head(todo)
      <4>1. todo \in Seq(RepoDef)
        BY <1>1 DEF PkgInv, MemoryOK, MemoryTypeOK
      <4>2. d \in RepoDef
        BY <3>1, <4>1, HeadTailProperties
      <4>3. PICK c \in CutSync(cache[d.name], d.url) : cache' = [cache EXCEPT ![d.name] = c]
        BY <2>2, <3>1 DEF Kill
      <4> HIDE DEF d
      <4>4. r = d.name => c = cache[r]
        BY <1>1, <4>2, <4>3, CutShort DEF PkgInv
      <4> QED BY <1>1, <4>3, <4>4 DEF PkgInv, DiskOK
    <3>2. CASE ~(pc = "sync" /\ todo # <<>>)
      BY <2>2, <3>2 DEF Kill
    <3> QED BY <3>1, <3>2
  <2>3. ~Drop
    BY <1>1 DEF Drop, PkgInv, MemoryOK, Flow
  <2>4. CASE Save \/ BeginSync \/ RepoAdded \/ Searched \/ Choose \/ CopyIn \/ Delete
             \/ UpdateEnd \/ (\E p \in Packages : UpdatePackage(p))
    BY <2>4 DEF Save, BeginSync, RepoAdded, Searched, Choose, CopyIn, Delete, UpdateEnd,
                UpdatePackage, disk
  <2>5. CASE Command \/ User
    BY <1>1, <2>5 DEF Command, RepoAdd, RepoRemove, AddOrSearch, Remove, UpdateAll, UpdateOne,
              Update, Begin, Refuse, User, Idle, EditCache, DeleteCache, EditUrl, MakeOwn, DeleteDir
  <2>6. CASE (\E u \in Urls : Push(u)) \/ UNCHANGED vars
    BY <2>6 DEF Push, vars, disk
  <2> QED BY <1>1, <2>1, <2>2, <2>3, <2>4, <2>5, <2>6 DEF Next, Step
<1>2. PkgInv /\ [Next]_vars => [A]_vars
  BY <1>1
<1>3. Spec => [][A]_vars
  BY <1>2, Invariant, PTL DEF Spec
<1> QED BY <1>3 DEF EditsAreKept

\* An update that reports success has brought every package to the head of
\* its repository's clone, unless that clone is dirty: the head is recorded and
\* all of it is in the directory, but for a directory in which an update that
\* compares commits sees nothing to do (ops.rs: update).
THEOREM OkCurrent == Spec => OkIsCurrent
<1> DEFINE A == op = "update" /\ exit = "none" /\ exit' = "ok" =>
                  \A p \in arg :
                    LET r == index'.packages[p].repo
                        head == HeadCommit(r)
                    IN \/ outcome[r] = "skipped"
                       \/ /\ HasHead(r) /\ index'.packages[p].commit = head
                          /\ \/ dir[p] = Whole(head)
                             \/ index.packages[p].commit = head /\ Unseen(dir[p], head.url)
<1>1. ASSUME PkgInv, [Next]_vars, op = "update", exit = "none", exit' = "ok", NEW p \in arg
      PROVE  LET r == index'.packages[p].repo
                 head == HeadCommit(r)
             IN \/ outcome[r] = "skipped"
                \/ HasHead(r) /\ index'.packages[p].commit = head /\ InDir(p, head)
  <2>1. pc # "idle"
    BY <1>1 DEF PkgInv, MemoryOK, Flow
  <2>2. Save \/ UpdateEnd
    <3>1. ~Command /\ ~User /\ ~UNCHANGED vars
      BY <1>1, <2>1 DEF Command, RepoAdd, RepoRemove, AddOrSearch, Remove, UpdateAll, UpdateOne,
           Update, Begin, Refuse, User, Idle, EditCache, DeleteCache, EditUrl, MakeOwn, DeleteDir,
           vars
    <3>2. ~Kill /\ ~(\E u \in Urls : Push(u))
      BY <1>1 DEF Kill, Exit, Push
    <3>3. ~BeginSync /\ ~Sync /\ ~RepoAdded /\ ~Searched /\ ~Drop /\ ~Choose /\ ~CopyIn /\ ~Delete
      BY <1>1 DEF PkgInv, MemoryOK, Flow, BeginSync, Sync, RepoAdded, Searched, Drop, Choose,
                  CopyIn, Delete
    <3>4. ~\E q \in Packages : UpdatePackage(q)
      BY <1>1 DEF UpdatePackage, Pass, Replace, Exit
    <3> QED BY <1>1, <3>1, <3>2, <3>3, <3>4 DEF Next, Step
  <2>3. left = {} /\ ~errored /\ index'.packages[p] = file.packages[p]
    <3>1. CASE Save
      BY <1>1, <2>1, <3>1 DEF Save, GoOn, Exit, UpdateCode, PkgInv, MemoryOK, Flow
    <3>2. CASE UpdateEnd
      <4>1. left = {} /\ ~changed /\ ~errored /\ index' = index
        BY <1>1, <3>2 DEF UpdateEnd, GoOn, Exit, UpdateCode, disk
      <4>2. p \in Installed(index)
        BY <1>1 DEF PkgInv, MemoryOK, Targets
      <4> QED BY <1>1, <4>1, <4>2 DEF PkgInv, MemoryOK, Loaded
    <3> QED BY <2>2, <3>1, <3>2
  <2> QED BY <1>1, <2>3 DEF PkgInv, MemoryOK, Current
<1>2. PkgInv /\ [Next]_vars => [A]_vars
  BY <1>1 DEF InDir
<1>3. Spec => [][A]_vars
  BY <1>2, Invariant, PTL DEF Spec
<1> QED BY <1>3 DEF OkIsCurrent
==============================================================================
