--------------------------- MODULE PrepareProofs ---------------------------
(***************************************************************************)
(* Proofs about the preparation of a run, for any documents, overrides and *)
(* packages, any number of gather blocks and gatherers that end in any     *)
(* order with any results: every variable has the value of its highest     *)
(* source and the same question has one answer; what validation accepts is *)
(* complete; a step runs under the tightest of its classes; and the        *)
(* preparation implements Variables. The playbook loader and the planner   *)
(* walk trees of blocks; here each walk is a function of the depth it has  *)
(* reached, and most lemmas say what one more level does.                  *)
(***************************************************************************)
EXTENDS PrepareProperties, FiniteSetTheorems, SequenceTheorems, WellFoundedInduction, TLAPS

\* A set of naturals has a least one.
LEMMA LeastOf ==
  ASSUME NEW S \in SUBSET Nat, S # {}
  PROVE  \E n \in S : \A m \in S : ~(m < n)
<1>1. PICK n \in S : \A m \in S : ~(<<m, n>> \in OpToRel(<, Nat))
  BY NatLessThanWellFounded, WFMin, Zenon
<1> QED BY <1>1 DEF OpToRel

(* --------------------------------------------- what InsertAll makes of it *)

\* The stores after each of the first N bindings: the local function of
\* InsertAll.
InsertedUpTo(after, before, bindings, origin, N) ==
  after = [i \in 0 .. N |->
             IF i = 0 THEN before
             ELSE Insert(after[i - 1], bindings[i].name, origin, bindings[i].value)]

\* The local function exists: by the least length for which it would not.
LEMMA InsertedByStep ==
  ASSUME NEW before, NEW bindings, NEW origin, NEW N \in Nat
  PROVE  \E after : InsertedUpTo(after, before, bindings, origin, N)
<1> DEFINE Missing == {n \in Nat : ~ \E after : InsertedUpTo(after, before, bindings, origin, n)}
<1> SUFFICES ASSUME Missing # {} PROVE FALSE
  OBVIOUS
<1>1. PICK n \in Missing : \A m \in Missing : ~(m < n)
  <2>1. Missing \in SUBSET Nat
    OBVIOUS
  <2> HIDE DEF Missing
  <2> QED BY <2>1, LeastOf
<1>2. CASE n = 0
  <2>1. InsertedUpTo([k \in 0 .. 0 |-> before], before, bindings, origin, 0)
    BY DEF InsertedUpTo
  <2> QED BY <1>1, <1>2, <2>1
<1>3. CASE n # 0
  <2>1. n - 1 \in Nat /\ n - 1 < n /\ n \in Nat
    BY <1>1, <1>3
  <2>2. PICK f : InsertedUpTo(f, before, bindings, origin, n - 1)
    BY <1>1, <2>1
  <2> DEFINE step(s, k) == Insert(s, bindings[k].name, origin, bindings[k].value)
             g == [k \in 0 .. n |-> IF k = n THEN step(f[n - 1], n) ELSE f[k]]
  <2>3. \A k \in 0 .. n - 1 : f[k] = IF k = 0 THEN before ELSE step(f[k - 1], k)
    BY <2>2 DEF InsertedUpTo
  <2>4. g = [k \in 0 .. n |-> IF k = 0 THEN before ELSE step(g[k - 1], k)]
    <3> HIDE DEF step
    <3>1. ASSUME NEW k \in 0 .. n
          PROVE  g[k] = IF k = 0 THEN before ELSE step(g[k - 1], k)
      <4>1. CASE k = n
        <5>1. g[n] = step(f[n - 1], n) /\ g[n - 1] = f[n - 1]
          BY <1>3, <2>1
        <5> HIDE DEF g
        <5> QED BY <1>3, <4>1, <5>1
      <4>2. CASE k # n
        <5>1. k \in 0 .. n - 1 /\ g[k] = f[k]
          BY <2>1, <4>2
        <5>2. k # 0 => g[k - 1] = f[k - 1]
          BY <2>1, <5>1
        <5> HIDE DEF g
        <5> QED BY <2>3, <5>1, <5>2
      <4> QED BY <4>1, <4>2
    <3>2. g = [k \in 0 .. n |-> g[k]]
      OBVIOUS
    <3> HIDE DEF g
    <3> QED BY <3>1, <3>2
  <2>5. InsertedUpTo(g, before, bindings, origin, n)
    BY <2>4 DEF InsertedUpTo
  <2> HIDE DEF g
  <2> QED BY <1>1, <2>5
<1> QED BY <1>2, <1>3

\* The last of the first n bindings of a name has the value v.
IsLast(bindings, n, name, v) ==
  \E j \in 1 .. n : /\ bindings[j].name = name /\ bindings[j].value = v
                    /\ \A k \in 1 .. n : bindings[k].name = name => k <= j

NamedUpTo(bindings, n) == {bindings[i].name : i \in 1 .. n}

\* What is stored for a name, of higher origin, is kept.
Outranked(before, name, origin) == name \in DOMAIN before /\ before[name].origin > origin

\* What inserting the first n bindings makes of a store.
Inserted(after, before, bindings, origin, n) ==
  /\ DOMAIN after = DOMAIN before \cup NamedUpTo(bindings, n)
  /\ \A x \in DOMAIN after :
       IF x \in NamedUpTo(bindings, n) /\ ~Outranked(before, x, origin)
       THEN after[x].origin = origin /\ IsLast(bindings, n, x, after[x].value)
       ELSE after[x] = before[x]

\* One more binding: Insert lets it through unless a higher origin has the name.
LEMMA InsertNext ==
  ASSUME NEW s, NEW before, NEW bindings, NEW origin \in Nat, NEW n \in Nat, n # 0,
         Inserted(s, before, bindings, origin, n - 1)
  PROVE  Inserted(Insert(s, bindings[n].name, origin, bindings[n].value),
                  before, bindings, origin, n)
<1> DEFINE b == bindings[n]
           t == Insert(s, b.name, origin, b.value)
           added == [x \in DOMAIN s \cup {b.name} |->
                       IF x = b.name THEN [origin |-> origin, value |-> b.value] ELSE s[x]]
<1>1. NamedUpTo(bindings, n) = NamedUpTo(bindings, n - 1) \cup {b.name}
  <2>1. 1 .. n = (1 .. n - 1) \cup {n}
    OBVIOUS
  <2> QED BY <2>1 DEF NamedUpTo
<1>2. /\ DOMAIN s = DOMAIN before \cup NamedUpTo(bindings, n - 1)
      /\ \A x \in DOMAIN s :
           IF x \in NamedUpTo(bindings, n - 1) /\ ~Outranked(before, x, origin)
           THEN s[x].origin = origin /\ IsLast(bindings, n - 1, x, s[x].value)
           ELSE s[x] = before[x]
  BY DEF Inserted
<1>3. ASSUME NEW x, NEW v, x # b.name, IsLast(bindings, n - 1, x, v)
      PROVE  IsLast(bindings, n, x, v)
  <2>1. PICK j \in 1 .. n - 1 :
          /\ bindings[j].name = x /\ bindings[j].value = v
          /\ \A k \in 1 .. n - 1 : bindings[k].name = x => k <= j
    BY <1>3 DEF IsLast
  <2>2. j \in 1 .. n /\ \A k \in 1 .. n : bindings[k].name = x => k <= j
    <3>1. \A k \in 1 .. n : k = n \/ k \in 1 .. n - 1
      OBVIOUS
    <3> QED BY <1>3, <2>1, <3>1
  <2> QED BY <2>1, <2>2 DEF IsLast
<1>4. IsLast(bindings, n, b.name, b.value)
  BY DEF IsLast
<1>5. CASE Outranked(s, b.name, origin)
  <2>1. t = s
    BY <1>5 DEF Insert, Outranked
  <2>2. Outranked(before, b.name, origin)
    <3>1. b.name \in DOMAIN s /\ s[b.name].origin > origin
      BY <1>5 DEF Outranked
    <3>2. s[b.name].origin # origin
      BY <3>1
    <3>3. /\ s[b.name] = before[b.name]
          /\ b.name \in NamedUpTo(bindings, n - 1) => Outranked(before, b.name, origin)
      BY <1>2, <3>1, <3>2
    <3> QED BY <1>2, <3>1, <3>3 DEF Outranked
  <2>3. b.name \in DOMAIN before
    BY <2>2 DEF Outranked
  <2>4. DOMAIN s = DOMAIN before \cup NamedUpTo(bindings, n)
    BY <1>1, <1>2, <2>3
  <2>5. ASSUME NEW x \in DOMAIN s
        PROVE  IF x \in NamedUpTo(bindings, n) /\ ~Outranked(before, x, origin)
               THEN s[x].origin = origin /\ IsLast(bindings, n, x, s[x].value)
               ELSE s[x] = before[x]
    <3>1. CASE x = b.name
      BY <1>2, <2>2, <3>1
    <3>2. CASE x # b.name
      BY <1>1, <1>2, <1>3, <3>2
    <3> QED BY <3>1, <3>2
  <2> HIDE DEF t
  <2> QED BY <2>1, <2>4, <2>5 DEF Inserted, t
<1>6. CASE ~Outranked(s, b.name, origin)
  <2>1. t = added
    BY <1>6 DEF Insert, Outranked
  <2>2. ~Outranked(before, b.name, origin)
    <3>1. ASSUME Outranked(before, b.name, origin) PROVE FALSE
      <4>1. b.name \in DOMAIN s /\ s[b.name] = before[b.name]
        BY <1>2, <3>1 DEF Outranked
      <4> QED BY <1>6, <3>1, <4>1 DEF Outranked
    <3> QED BY <3>1
  <2>3. /\ DOMAIN added = DOMAIN s \cup {b.name}
        /\ added[b.name].origin = origin /\ added[b.name].value = b.value
        /\ \A x \in DOMAIN s : x # b.name => added[x] = s[x]
    OBVIOUS
  <2> HIDE DEF added
  <2>4. DOMAIN added = DOMAIN before \cup NamedUpTo(bindings, n)
    BY <1>1, <1>2, <2>3
  <2>5. ASSUME NEW x \in DOMAIN added
        PROVE  IF x \in NamedUpTo(bindings, n) /\ ~Outranked(before, x, origin)
               THEN added[x].origin = origin /\ IsLast(bindings, n, x, added[x].value)
               ELSE added[x] = before[x]
    <3>1. CASE x = b.name
      BY <1>1, <1>4, <2>2, <2>3, <3>1
    <3>2. CASE x # b.name
      <4>1. x \in DOMAIN s /\ added[x] = s[x]
        BY <2>3, <3>2
      <4> QED BY <1>1, <1>2, <1>3, <3>2, <4>1
    <3> QED BY <3>1, <3>2
  <2> HIDE DEF t
  <2> QED BY <2>1, <2>4, <2>5 DEF Inserted, t
<1> QED BY <1>5, <1>6

\* InsertAll: a stored value of a higher origin is kept, every other name
\* has the last value that was bound to it.
LEMMA InsertAllIs ==
  ASSUME NEW before, NEW bindings, IsList(bindings), NEW origin \in Nat
  PROVE  Inserted(InsertAll(before, bindings, origin), before, bindings, origin, Len(bindings))
<1> DEFINE f == CHOOSE after : InsertedUpTo(after, before, bindings, origin, Len(bindings))
           Wrong == {n \in 0 .. Len(bindings) : ~Inserted(f[n], before, bindings, origin, n)}
<1>1. Len(bindings) \in Nat
  BY DEF IsList
<1>2. InsertAll(before, bindings, origin) = f[Len(bindings)]
  BY DEF InsertAll, InsertedUpTo
<1>3. InsertedUpTo(f, before, bindings, origin, Len(bindings))
  BY <1>1, InsertedByStep
<1> HIDE DEF f
<1>4. \A n \in 0 .. Len(bindings) :
        f[n] = IF n = 0 THEN before
               ELSE Insert(f[n - 1], bindings[n].name, origin, bindings[n].value)
  BY <1>3 DEF InsertedUpTo
<1>5. ASSUME Wrong # {} PROVE FALSE
  <2>1. PICK n \in Wrong : \A m \in Wrong : ~(m < n)
    <3>1. Wrong \in SUBSET Nat
      OBVIOUS
    <3> HIDE DEF Wrong
    <3> QED BY <1>5, <3>1, LeastOf
  <2>2. n # 0
    <3>1. f[0] = before
      BY <1>1, <1>4
    <3>2. NamedUpTo(bindings, 0) = {}
      BY DEF NamedUpTo
    <3>3. Inserted(before, before, bindings, origin, 0)
      BY <3>2 DEF Inserted
    <3> QED BY <2>1, <3>1, <3>3
  <2>3. n \in Nat /\ n \in 0 .. Len(bindings) /\ n - 1 \in 0 .. Len(bindings) /\ n - 1 < n
    BY <1>1, <2>1, <2>2
  <2>4. Inserted(f[n - 1], before, bindings, origin, n - 1)
    BY <2>1, <2>3
  <2>5. f[n] = Insert(f[n - 1], bindings[n].name, origin, bindings[n].value)
    BY <1>4, <2>2, <2>3
  <2> QED BY <2>1, <2>2, <2>3, <2>4, <2>5, InsertNext
<1>6. Len(bindings) \notin Wrong
  BY <1>5
<1> QED BY <1>1, <1>2, <1>6

(* --------------------------------------------------------- the overrides *)

\* The last value bound to a name is unique.
LEMMA LastIs ==
  ASSUME NEW bindings, IsList(bindings), NEW x, NEW v, IsLast(bindings, Len(bindings), x, v)
  PROVE  LastValue(bindings, x) = v
<1>1. DOMAIN bindings = 1 .. Len(bindings) /\ Len(bindings) \in Nat
  BY DEF IsList
<1>2. PICK j \in 1 .. Len(bindings) :
        /\ bindings[j].name = x /\ bindings[j].value = v
        /\ \A k \in 1 .. Len(bindings) : bindings[k].name = x => k <= j
  BY DEF IsLast
<1> DEFINE At == {i \in DOMAIN bindings : bindings[i].name = x}
           Lasts(i) == \A k \in DOMAIN bindings : bindings[k].name = x => k <= i
           c == CHOOSE i \in At : Lasts(i)
<1>3. j \in At /\ Lasts(j)
  BY <1>1, <1>2
<1>4. c \in At /\ Lasts(c)
  <2> HIDE DEF At, Lasts
  <2> QED BY <1>3
<1>5. LastValue(bindings, x) = bindings[c].value
  BY DEF LastValue
<1> HIDE DEF c
<1>6. c = j
  BY <1>1, <1>3, <1>4
<1> QED BY <1>2, <1>5, <1>6

\* All of a list names what its members name.
LEMMA NamedAll ==
  ASSUME NEW bindings, IsList(bindings)
  PROVE  NamedUpTo(bindings, Len(bindings)) = NamesOf(bindings)
BY DEF IsList, NamedUpTo, NamesOf

\* The last binding of one list or the other is the last of both together.
LEMMA LastOfBoth ==
  ASSUME NEW s, IsList(s), NEW t, IsList(t), NEW x, NEW v,
         \/ IsLast(t, Len(t), x, v)
         \/ x \notin NamesOf(t) /\ IsLast(s, Len(s), x, v)
  PROVE  LastValue(s \o t, x) = v
<1> DEFINE both == s \o t
           S == Range(s) \cup Range(t)
<1>1. /\ s \in Seq(S) /\ t \in Seq(S) /\ Len(s) \in Nat /\ Len(t) \in Nat
      /\ DOMAIN s = 1 .. Len(s) /\ DOMAIN t = 1 .. Len(t)
  BY DEF IsList
<1>2. /\ both \in Seq(S) /\ Len(both) = Len(s) + Len(t)
      /\ \A i \in 1 .. Len(s) : both[i] = s[i]
      /\ \A i \in 1 .. Len(t) : both[Len(s) + i] = t[i]
  <2> HIDE DEF S
  <2> QED BY <1>1
<1> HIDE DEF both, S
<1>3. IsList(both)
  <2>1. \A i \in 1 .. Len(both) : both[i] \in Range(both)
    BY <1>2 DEF Range
  <2>2. DOMAIN both = 1 .. Len(both) /\ both = [i \in DOMAIN both |-> both[i]] /\ Len(both) \in Nat
    BY <1>2
  <2>3. both \in [1 .. Len(both) -> Range(both)]
    BY <2>1, <2>2
  <2> QED BY <2>2, <2>3 DEF IsList
<1>4. \A k \in 1 .. Len(both) :
        k \in 1 .. Len(s) \/ (k - Len(s) \in 1 .. Len(t) /\ k = Len(s) + (k - Len(s)))
  BY <1>1, <1>2
<1>5. IsLast(both, Len(both), x, v)
  <2>1. CASE IsLast(t, Len(t), x, v)
    <3>1. PICK j \in 1 .. Len(t) :
            /\ t[j].name = x /\ t[j].value = v
            /\ \A k \in 1 .. Len(t) : t[k].name = x => k <= j
      BY <2>1 DEF IsLast
    <3>2. Len(s) + j \in 1 .. Len(both) /\ both[Len(s) + j] = t[j]
      BY <1>1, <1>2
    <3>3. ASSUME NEW k \in 1 .. Len(both), both[k].name = x PROVE k <= Len(s) + j
      <4>1. CASE k \in 1 .. Len(s)
        BY <1>1, <4>1
      <4>2. CASE k - Len(s) \in 1 .. Len(t) /\ k = Len(s) + (k - Len(s))
        <5>1. both[k] = t[k - Len(s)]
          BY <1>2, <4>2
        <5>2. k - Len(s) <= j
          BY <3>1, <3>3, <4>2, <5>1
        <5> QED BY <1>1, <1>2, <4>2, <5>2
      <4> QED BY <1>4, <4>1, <4>2
    <3> QED BY <3>1, <3>2, <3>3 DEF IsLast
  <2>2. CASE x \notin NamesOf(t) /\ IsLast(s, Len(s), x, v)
    <3>1. PICK j \in 1 .. Len(s) :
            /\ s[j].name = x /\ s[j].value = v
            /\ \A k \in 1 .. Len(s) : s[k].name = x => k <= j
      BY <2>2 DEF IsLast
    <3>2. j \in 1 .. Len(both) /\ both[j] = s[j]
      BY <1>1, <1>2
    <3>3. ASSUME NEW k \in 1 .. Len(both), both[k].name = x PROVE k <= j
      <4>1. CASE k \in 1 .. Len(s)
        BY <1>2, <3>1, <3>3, <4>1
      <4>2. CASE k - Len(s) \in 1 .. Len(t) /\ k = Len(s) + (k - Len(s))
        <5>1. both[k] = t[k - Len(s)]
          BY <1>2, <4>2
        <5> QED BY <1>1, <2>2, <3>3, <4>2, <5>1 DEF NamesOf
      <4> QED BY <1>4, <4>1, <4>2
    <3> QED BY <3>1, <3>2, <3>3 DEF IsLast
  <2> QED BY <2>1, <2>2
<1> QED BY <1>3, <1>5, LastIs DEF both

BindingLists(o) == IsList(o.varFile) /\ IsList(o.secretVarFile) /\ IsList(o.flags)

\* The names the overrides bind, and no other, have the value of the last
\* flag of the name, else of its last field in the files.
LEMMA OverrideStoreIs ==
  ASSUME NEW o, BindingLists(o)
  PROVE  LET given == OverrideStore(o)
             files == o.varFile \o o.secretVarFile
         IN /\ \A x \in DOMAIN given : given[x].origin \in {Origin.VarFile, Origin.Var}
            /\ \A x \in DOMAIN given :
                 IF x \in NamesOf(o.flags) THEN given[x].value = LastValue(o.flags, x)
                 ELSE x \in NamesOf(files) /\ given[x].value = LastValue(files, x)
            /\ NamesOf(o.flags) \cup NamesOf(files) \subseteq DOMAIN given
<1> DEFINE s == o.varFile
           t == o.secretVarFile
           u == o.flags
           A == InsertAll(NoStore, s, Origin.VarFile)
           B == InsertAll(A, t, Origin.VarFile)
           C == InsertAll(B, u, Origin.Var)
<1>1. IsList(s) /\ IsList(t) /\ IsList(u)
  BY DEF BindingLists
<1>2. Origin.VarFile = 2 /\ Origin.Var = 3 /\ OverrideStore(o) = C
  BY DEF Origin, OverrideStore
<1>3. DOMAIN NoStore = {}
  BY DEF NoStore
<1>4. NamesOf(s \o t) = NamesOf(s) \cup NamesOf(t)
  <2> DEFINE S == Range(s) \cup Range(t)
  <2>1. s \in Seq(S) /\ t \in Seq(S)
    BY <1>1 DEF IsList
  <2> HIDE DEF S, s, t
  <2>2. /\ DOMAIN (s \o t) = 1 .. Len(s) + Len(t)
        /\ Len(s) \in Nat /\ Len(t) \in Nat /\ DOMAIN s = 1 .. Len(s) /\ DOMAIN t = 1 .. Len(t)
        /\ \A i \in 1 .. Len(s) : (s \o t)[i] = s[i]
        /\ \A i \in 1 .. Len(t) : (s \o t)[Len(s) + i] = t[i]
    BY <2>1
  <2>3. ASSUME NEW x \in NamesOf(s \o t) PROVE x \in NamesOf(s) \cup NamesOf(t)
    <3>1. PICK i \in 1 .. Len(s) + Len(t) : x = (s \o t)[i].name
      BY <2>2 DEF NamesOf
    <3>2. CASE i \in 1 .. Len(s)
      BY <2>2, <3>1, <3>2 DEF NamesOf
    <3>3. CASE i \notin 1 .. Len(s)
      <4>1. i - Len(s) \in 1 .. Len(t) /\ i = Len(s) + (i - Len(s))
        BY <2>2, <3>3
      <4>2. (s \o t)[i] = t[i - Len(s)]
        BY <2>2, <4>1
      <4> QED BY <2>2, <3>1, <4>1, <4>2 DEF NamesOf
    <3> QED BY <3>2, <3>3
  <2>4. ASSUME NEW x \in NamesOf(s) PROVE x \in NamesOf(s \o t)
    <3>1. PICK i \in 1 .. Len(s) : x = s[i].name
      BY <2>2 DEF NamesOf
    <3>2. i \in 1 .. Len(s) + Len(t) /\ (s \o t)[i] = s[i]
      BY <2>2
    <3> QED BY <2>2, <3>1, <3>2 DEF NamesOf
  <2>5. ASSUME NEW x \in NamesOf(t) PROVE x \in NamesOf(s \o t)
    <3>1. PICK i \in 1 .. Len(t) : x = t[i].name
      BY <2>2 DEF NamesOf
    <3>2. Len(s) + i \in 1 .. Len(s) + Len(t) /\ (s \o t)[Len(s) + i] = t[i]
      BY <2>2
    <3> QED BY <2>2, <3>1, <3>2 DEF NamesOf
  <2> QED BY <2>3, <2>4, <2>5
<1> HIDE DEF s, t, u
<1>5. /\ DOMAIN A = NamesOf(s)
      /\ \A x \in DOMAIN A : A[x].origin = 2 /\ IsLast(s, Len(s), x, A[x].value)
  <2>1. Inserted(A, NoStore, s, 2, Len(s))
    BY <1>1, <1>2, InsertAllIs
  <2>2. NamedUpTo(s, Len(s)) = NamesOf(s)
    BY <1>1, NamedAll
  <2> HIDE DEF A
  <2> QED BY <1>3, <2>1, <2>2 DEF Inserted, Outranked
<1>6. Inserted(B, A, t, 2, Len(t)) /\ Inserted(C, B, u, 3, Len(u))
  <2> HIDE DEF A
  <2>1. Inserted(B, A, t, 2, Len(t))
    BY <1>1, <1>2, InsertAllIs
  <2> HIDE DEF B
  <2>2. Inserted(C, B, u, 3, Len(u))
    BY <1>1, <1>2, InsertAllIs
  <2> QED BY <2>1, <2>2
<1> HIDE DEF A, B, C
<1>7. NamedUpTo(t, Len(t)) = NamesOf(t) /\ NamedUpTo(u, Len(u)) = NamesOf(u)
  BY <1>1, NamedAll
<1>8. /\ DOMAIN B = NamesOf(s) \cup NamesOf(t)
      /\ \A x \in DOMAIN B :
           /\ B[x].origin = 2
           /\ IF x \in NamesOf(t) THEN IsLast(t, Len(t), x, B[x].value)
              ELSE IsLast(s, Len(s), x, B[x].value)
  <2>1. \A x : ~Outranked(A, x, 2)
    BY <1>5 DEF Outranked
  <2> QED BY <1>5, <1>6, <1>7, <2>1 DEF Inserted
<1>9. /\ DOMAIN C = DOMAIN B \cup NamesOf(u)
      /\ \A x \in DOMAIN C :
           IF x \in NamesOf(u) THEN C[x].origin = 3 /\ IsLast(u, Len(u), x, C[x].value)
           ELSE C[x] = B[x]
  <2>1. \A x : ~Outranked(B, x, 3)
    BY <1>8 DEF Outranked
  <2> QED BY <1>6, <1>7, <2>1 DEF Inserted
<1>10. \A x \in DOMAIN C :
         IF x \in NamesOf(u) THEN C[x].value = LastValue(u, x)
         ELSE x \in NamesOf(s \o t) /\ C[x].value = LastValue(s \o t, x)
  <2> SUFFICES ASSUME NEW x \in DOMAIN C
               PROVE  IF x \in NamesOf(u) THEN C[x].value = LastValue(u, x)
                      ELSE x \in NamesOf(s \o t) /\ C[x].value = LastValue(s \o t, x)
    OBVIOUS
  <2>1. CASE x \in NamesOf(u)
    BY <1>1, <1>9, <2>1, LastIs
  <2>2. CASE x \notin NamesOf(u)
    <3>1. x \in DOMAIN B /\ C[x] = B[x]
      BY <1>9, <2>2
    <3>2. \/ IsLast(t, Len(t), x, B[x].value)
          \/ x \notin NamesOf(t) /\ IsLast(s, Len(s), x, B[x].value)
      BY <1>8, <3>1
    <3>3. LastValue(s \o t, x) = B[x].value
      BY <1>1, <3>2, LastOfBoth
    <3> QED BY <1>4, <1>8, <2>2, <3>1, <3>3
  <2> QED BY <2>1, <2>2
<1>11. \A x \in DOMAIN C : C[x].origin \in {2, 3}
  BY <1>8, <1>9
<1> QED BY <1>2, <1>4, <1>8, <1>9, <1>10, <1>11 DEF s, t, u

(* ------------------------------------------------------- the invocations *)

\* What a list with one more member holds.
LEMMA RangeOfAppend ==
  ASSUME NEW S, NEW s \in Seq(S), NEW e \in S
  PROVE  Append(s, e) \in Seq(S) /\ Range(Append(s, e)) = Range(s) \cup {e}
<1>1. /\ Append(s, e) \in Seq(S) /\ DOMAIN Append(s, e) = 1 .. Len(s) + 1
      /\ \A i \in 1 .. Len(s) : Append(s, e)[i] = s[i]
      /\ Append(s, e)[Len(s) + 1] = e
      /\ DOMAIN s = 1 .. Len(s) /\ Len(s) \in Nat
  OBVIOUS
<1>2. \A x : x \in Range(Append(s, e)) <=> \E i \in 1 .. Len(s) + 1 : Append(s, e)[i] = x
  BY <1>1 DEF Range
<1>3. \A x : x \in Range(s) <=> \E i \in 1 .. Len(s) : s[i] = x
  BY <1>1 DEF Range
<1>4. \A i \in 1 .. Len(s) + 1 : i \in 1 .. Len(s) \/ i = Len(s) + 1
  BY <1>1
<1>5. (1 .. Len(s)) \subseteq 1 .. Len(s) + 1 /\ Len(s) + 1 \in 1 .. Len(s) + 1
  BY <1>1
<1>6. \A x : x \in Range(Append(s, e)) <=> x \in Range(s) \cup {e}
  BY <1>1, <1>2, <1>3, <1>4, <1>5
<1> QED BY <1>1, <1>6

\* The executions of the first invocations: the local function of Unique.
Collected(s, inv) ==
  IF Execution(inv) \in Range(s) THEN s ELSE Append(s, Execution(inv))

CollectedUpTo(upTo, invs, N) ==
  upTo = [i \in 0 .. N |-> IF i = 0 THEN << >> ELSE Collected(upTo[i - 1], invs[i])]

\* The local function exists, as above.
LEMMA CollectedByStep ==
  ASSUME NEW invs, NEW N \in Nat
  PROVE  \E upTo : CollectedUpTo(upTo, invs, N)
<1> DEFINE Missing == {n \in Nat : ~ \E upTo : CollectedUpTo(upTo, invs, n)}
<1> SUFFICES ASSUME Missing # {} PROVE FALSE
  OBVIOUS
<1>1. PICK n \in Missing : \A m \in Missing : ~(m < n)
  <2>1. Missing \in SUBSET Nat
    OBVIOUS
  <2> HIDE DEF Missing
  <2> QED BY <2>1, LeastOf
<1>2. CASE n = 0
  <2>1. CollectedUpTo([k \in 0 .. 0 |-> << >>], invs, 0)
    BY DEF CollectedUpTo
  <2> QED BY <1>1, <1>2, <2>1
<1>3. CASE n # 0
  <2>1. n - 1 \in Nat /\ n - 1 < n /\ n \in Nat
    BY <1>1, <1>3
  <2>2. PICK f : CollectedUpTo(f, invs, n - 1)
    BY <1>1, <2>1
  <2> DEFINE g == [k \in 0 .. n |-> IF k = n THEN Collected(f[n - 1], invs[n]) ELSE f[k]]
  <2>3. \A k \in 0 .. n - 1 : f[k] = IF k = 0 THEN << >> ELSE Collected(f[k - 1], invs[k])
    BY <2>2 DEF CollectedUpTo
  <2>4. ASSUME NEW k \in 0 .. n
        PROVE  g[k] = IF k = 0 THEN << >> ELSE Collected(g[k - 1], invs[k])
    <3>1. CASE k = n
      <4>1. g[n] = Collected(f[n - 1], invs[n]) /\ g[n - 1] = f[n - 1]
        BY <1>3, <2>1
      <4> HIDE DEF g
      <4> QED BY <1>3, <3>1, <4>1
    <3>2. CASE k # n
      <4>1. k \in 0 .. n - 1 /\ g[k] = f[k]
        BY <2>1, <3>2
      <4>2. k # 0 => g[k - 1] = f[k - 1]
        BY <2>1, <4>1
      <4> HIDE DEF g
      <4> QED BY <2>3, <4>1, <4>2
    <3> QED BY <3>1, <3>2
  <2>5. g = [k \in 0 .. n |-> g[k]]
    OBVIOUS
  <2> HIDE DEF g
  <2>6. CollectedUpTo(g, invs, n)
    BY <2>4, <2>5 DEF CollectedUpTo
  <2> QED BY <1>1, <2>6
<1> QED BY <1>2, <1>3

\* There is an execution for every invocation.
LEMMA UniqueIs ==
  ASSUME NEW invs, IsList(invs)
  PROVE  \A i \in DOMAIN invs : \E k \in DOMAIN Unique(invs) : Unique(invs)[k] = Execution(invs[i])
<1> DEFINE f == CHOOSE upTo : CollectedUpTo(upTo, invs, Len(invs))
           E == {Execution(invs[i]) : i \in DOMAIN invs}
           Of(n) == {Execution(invs[i]) : i \in 1 .. n}
           Wrong == {n \in 0 .. Len(invs) : ~(f[n] \in Seq(E) /\ Range(f[n]) = Of(n))}
<1>1. DOMAIN invs = 1 .. Len(invs) /\ Len(invs) \in Nat
  BY DEF IsList
<1>2. Unique(invs) = f[Len(invs)]
  BY DEF Unique, CollectedUpTo, Collected
<1>3. CollectedUpTo(f, invs, Len(invs))
  BY <1>1, CollectedByStep
<1> HIDE DEF f
<1>4. \A n \in 0 .. Len(invs) :
        f[n] = IF n = 0 THEN << >> ELSE Collected(f[n - 1], invs[n])
  BY <1>3 DEF CollectedUpTo
<1>5. ASSUME Wrong # {} PROVE FALSE
  <2>1. PICK n \in Wrong : \A m \in Wrong : ~(m < n)
    <3>1. Wrong \in SUBSET Nat
      OBVIOUS
    <3> HIDE DEF Wrong
    <3> QED BY <1>5, <3>1, LeastOf
  <2>2. n # 0
    <3>1. f[0] = << >> /\ Of(0) = {}
      BY <1>1, <1>4
    <3>2. << >> \in Seq(E) /\ Range(<< >>) = {}
      BY DEF Range
    <3> QED BY <2>1, <3>1, <3>2
  <2>3. n \in 1 .. Len(invs) /\ n - 1 \in 0 .. Len(invs) /\ n - 1 < n
    BY <1>1, <2>1, <2>2
  <2>4. f[n - 1] \in Seq(E) /\ Range(f[n - 1]) = Of(n - 1)
    BY <2>1, <2>3
  <2>5. f[n] = Collected(f[n - 1], invs[n]) /\ Execution(invs[n]) \in E
    BY <1>1, <1>4, <2>2, <2>3
  <2>6. Of(n) = Of(n - 1) \cup {Execution(invs[n])}
    <3>1. 1 .. n = (1 .. n - 1) \cup {n}
      BY <2>3
    <3> QED BY <3>1
  <2> HIDE DEF E, Of
  <2>7. CASE Execution(invs[n]) \in Range(f[n - 1])
    <3>1. f[n] = f[n - 1]
      BY <2>5, <2>7 DEF Collected
    <3>2. Of(n) = Of(n - 1)
      BY <2>4, <2>6, <2>7
    <3> QED BY <2>1, <2>4, <3>1, <3>2
  <2>8. CASE Execution(invs[n]) \notin Range(f[n - 1])
    <3>1. f[n] = Append(f[n - 1], Execution(invs[n]))
      BY <2>5, <2>8 DEF Collected
    <3>2. f[n] \in Seq(E) /\ Range(f[n]) = Range(f[n - 1]) \cup {Execution(invs[n])}
      BY <2>4, <2>5, <3>1, RangeOfAppend
    <3> QED BY <2>1, <2>4, <2>6, <3>2
  <2> QED BY <2>7, <2>8
<1>6. Range(Unique(invs)) = E
  <2>1. Len(invs) \in 0 .. Len(invs)
    BY <1>1
  <2>2. Len(invs) \notin Wrong
    BY <1>5
  <2>3. Of(Len(invs)) = E
    BY <1>1
  <2> HIDE DEF Of, E
  <2> QED BY <1>2, <2>1, <2>2, <2>3
<1> QED BY <1>6 DEF Range

(* --------------------------------------------------------- the invariant *)

Given == OverrideStore(input.overrides)
Asked == Invocations(pb, doc, AskedIn)

\* Where the store and the results of a phase come from.
VariablesInv ==
  /\ \E family \in DOMAIN Inputs : input \in Inputs[family]
  /\ phase \in {"override", "gather", "gathering", "plan", "planned"} => Distinct(doc.gathers)
  /\ phase \in {"gather", "gathering"} => store = Given
  /\ phase \in {"gathering", "plan", "planned"} => DOMAIN results = DOMAIN Unique(Asked)
  /\ phase \in {"plan", "planned"} => store = Bind(pb, Asked, results, Given)

\* What a call gives are lists, by the assumption on the inputs.
LEMMA CallIsLists ==
  ASSUME VariablesInv
  PROVE  IsList(doc.gathers) /\ BindingLists(input.overrides)
BY VariablesAssumption DEF VariablesInv, BindingLists, doc

\* The inductive invariant of Variables: in every phase what is bound and what the
\* gatherers have answered is what the steps of main.rs and gather.rs before made of the call.
THEOREM VariablesInvariant == VariablesSpec => []VariablesInv
<1>1. VariablesInit => VariablesInv
  BY DEF VariablesInit, VariablesInv
<1>2. VariablesInv /\ [VariablesNext]_variables => VariablesInv'
  <2> SUFFICES ASSUME VariablesInv, [VariablesNext]_variables PROVE VariablesInv'
    OBVIOUS
  <2> USE DEF VariablesInv
  <2>1. ASSUME input' = input
        PROVE  doc' = doc /\ pb' = pb /\ Given' = Given /\ AskedIn' = AskedIn /\ Asked' = Asked
    <3>1. doc' = doc
      BY <2>1 DEF doc
    <3>2. pb' = pb /\ Given' = Given
      BY <2>1, <3>1 DEF pb, Given
    <3>3. AskedIn' = AskedIn
      BY <2>1, <3>1 DEF AskedIn
    <3> QED BY <3>1, <3>2, <3>3 DEF Asked
  <2>2. ASSUME Refuse PROVE VariablesInv'
    BY <2>2 DEF Refuse
  <2>3. ASSUME LoadValidated PROVE VariablesInv'
    BY <2>1, <2>2, <2>3 DEF LoadValidated, Advance, Distinct
  <2>4. ASSUME Override PROVE VariablesInv'
    BY <2>1, <2>2, <2>4 DEF Override, Advance, Given, Distinct
  <2>5. ASSUME StartGatherers PROVE VariablesInv'
    <3>1. CASE Selected # {} /\ InvocationsAccepted(pb, doc, scope)
      <4>1. /\ phase = "gather" /\ phase' = "gathering" /\ input' = input /\ store' = store
            /\ results' = [k \in DOMAIN Unique(Invocations(pb, doc, scope)) |-> Running]
        BY <2>5, <3>1 DEF StartGatherers, Advance
      <4>2. Invocations(pb, doc, scope) = Asked
        BY <4>1 DEF scope, AskedIn, Asked, Given
      <4>3. DOMAIN results' = DOMAIN Unique(Asked)
        BY <4>1, <4>2
      <4> QED BY <2>1, <4>1, <4>3 DEF Distinct
    <3>2. CASE ~(Selected # {} /\ InvocationsAccepted(pb, doc, scope))
      BY <2>2, <2>5, <3>2 DEF StartGatherers
    <3> QED BY <3>1, <3>2
  <2>6. ASSUME BindResults PROVE VariablesInv'
    <3> DEFINE invs == Invocations(pb, doc, scope)
    <3>1. CASE ResultsAccepted(pb, invs, results)
      <4>1. /\ phase = "gathering" /\ phase' = "plan" /\ input' = input /\ results' = results
            /\ store' = Bind(pb, invs, results, store)
        BY <2>6, <3>1 DEF BindResults, Advance
      <4>2. invs = Asked
        BY <4>1 DEF scope, AskedIn, Asked, Given
      <4>3. store' = Bind(pb, Asked, results, Given)
        BY <4>1, <4>2
      <4> QED BY <2>1, <4>1, <4>3 DEF Distinct
    <3>2. CASE ~ResultsAccepted(pb, invs, results)
      BY <2>2, <2>6, <3>2 DEF BindResults
    <3> QED BY <3>1, <3>2
  <2>7. ASSUME PlanAll PROVE VariablesInv'
    BY <2>1, <2>7 DEF PlanAll, Advance, Distinct
  <2>8. ASSUME NEW k \in DOMAIN results, FinishGatherer(k) PROVE VariablesInv'
    <3>1. /\ phase = "gathering" /\ phase' = phase /\ input' = input /\ store' = store
          /\ DOMAIN results' = DOMAIN results
      BY <2>8 DEF FinishGatherer
    <3> QED BY <2>1, <3>1 DEF Distinct
  <2>9. ASSUME UNCHANGED variables PROVE VariablesInv'
    BY <2>1, <2>9 DEF variables, Distinct
  <2> QED BY <2>3, <2>4, <2>5, <2>6, <2>7, <2>8, <2>9 DEF VariablesNext
<1> QED BY <1>1, <1>2, PTL DEF VariablesSpec

(* ------------------------------------------- what the variables are bound to *)

\* Where names are distinct, a block is the one of its name.
LEMMA TheNamed ==
  ASSUME NEW blocks, Distinct(blocks), NEW i \in DOMAIN blocks
  PROVE  The(blocks, blocks[i].name) = blocks[i]
<1> DEFINE c == CHOOSE j \in DOMAIN blocks : blocks[j].name = blocks[i].name
<1>1. c \in DOMAIN blocks /\ blocks[c].name = blocks[i].name
  OBVIOUS
<1>2. The(blocks, blocks[i].name) = blocks[c]
  BY DEF The
<1> HIDE DEF c
<1>3. c = i
  BY <1>1 DEF Distinct
<1> QED BY <1>2, <1>3

\* What the result of an execution means to a gather block.
Answer(i) == Typed(results[Shares(Asked, i)].v, Returns(pb, Asked[i]))

\* There is one invocation for each gather block, at its place.
LEMMA AskedIs ==
  ASSUME IsList(doc.gathers)
  PROVE  /\ IsList(Asked) /\ Len(Asked) = Len(doc.gathers)
         /\ DOMAIN Asked = DOMAIN doc.gathers
         /\ \A i \in DOMAIN Asked :
              Asked[i] = [name |-> doc.gathers[i].name, key |-> doc.gathers[i].from,
                          params |-> GatherParams(pb, doc.gathers[i], AskedIn)]
<1> DEFINE n == Len(doc.gathers)
<1>1. DOMAIN doc.gathers = 1 .. n /\ n \in Nat
  BY DEF IsList
<1>2. /\ Asked = [i \in 1 .. n |-> Asked[i]] /\ DOMAIN Asked = 1 .. n
      /\ \A i \in 1 .. n :
              Asked[i] = [name |-> doc.gathers[i].name, key |-> doc.gathers[i].from,
                          params |-> GatherParams(pb, doc.gathers[i], AskedIn)]
  BY <1>1 DEF Asked, Invocations
<1>3. Asked \in [1 .. n -> Range(Asked)]
  BY <1>2 DEF Range
<1> HIDE DEF n
<1>4. Asked \in Seq(Range(Asked)) /\ Len(Asked) = n
  BY <1>1, <1>2, <1>3
<1> QED BY <1>1, <1>2, <1>4 DEF IsList, n

\* When the steps are planned, a variable has what the overrides say, or else
\* the answer to the gather block of its name.
LEMMA StoreIs ==
  ASSUME VariablesInv, phase \in {"plan", "planned"}
  PROVE  /\ DOMAIN store = DOMAIN Given \cup NamesOf(doc.gathers)
         /\ \A n \in DOMAIN Given : store[n] = Given[n] /\ store[n].origin # Origin.Gatherer
         /\ \A n \in DOMAIN store \ DOMAIN Given : \E i \in DOMAIN doc.gathers :
              /\ doc.gathers[i].name = n /\ The(doc.gathers, n) = doc.gathers[i]
              /\ store[n].value = Answer(i)
<1> DEFINE bound == [i \in DOMAIN Asked |-> [name |-> Asked[i].name, value |-> Answer(i)]]
           n == Len(doc.gathers)
<1>1. IsList(doc.gathers) /\ BindingLists(input.overrides) /\ Distinct(doc.gathers)
  BY CallIsLists DEF VariablesInv
<1>2. DOMAIN doc.gathers = 1 .. n /\ n \in Nat
  BY <1>1 DEF IsList
<1>3. DOMAIN Asked = 1 .. n /\ \A i \in 1 .. n : Asked[i].name = doc.gathers[i].name
  BY <1>1, <1>2, AskedIs
<1>4. store = InsertAll(Given, bound, Origin.Gatherer)
  BY DEF VariablesInv, Bind, Answer
<1>5. Origin.Gatherer = 1 /\ Origin.VarFile = 2 /\ Origin.Var = 3
  BY DEF Origin
<1>6. /\ DOMAIN bound = 1 .. n /\ bound = [i \in 1 .. n |-> bound[i]]
      /\ \A i \in 1 .. n : bound[i].name = doc.gathers[i].name /\ bound[i].value = Answer(i)
  BY <1>3
<1> HIDE DEF bound, n
<1>7. IsList(bound) /\ Len(bound) = n
  <2>1. bound \in [1 .. n -> Range(bound)]
    BY <1>6 DEF Range
  <2> QED BY <1>2, <1>6, <2>1 DEF IsList
<1>8. Inserted(store, Given, bound, 1, n)
  BY <1>4, <1>5, <1>7, InsertAllIs
<1>9. NamedUpTo(bound, n) = NamesOf(doc.gathers)
  BY <1>2, <1>6 DEF NamedUpTo, NamesOf
<1>10. \A x \in DOMAIN Given : Given[x].origin \in {2, 3}
  BY <1>1, <1>5, OverrideStoreIs DEF Given
<1>11. \A x \in DOMAIN Given : Outranked(Given, x, 1)
  BY <1>10 DEF Outranked
<1>12. \A x \in DOMAIN Given : store[x] = Given[x] /\ store[x].origin # 1
  BY <1>8, <1>10, <1>11 DEF Inserted
<1>13. ASSUME NEW x \in DOMAIN store \ DOMAIN Given
       PROVE  \E i \in DOMAIN doc.gathers :
                /\ doc.gathers[i].name = x /\ The(doc.gathers, x) = doc.gathers[i]
                /\ store[x].value = Answer(i)
  <2>1. x \in NamedUpTo(bound, n) /\ ~Outranked(Given, x, 1)
    BY <1>8 DEF Inserted, Outranked
  <2>2. IsLast(bound, n, x, store[x].value)
    BY <1>8, <2>1 DEF Inserted
  <2>3. PICK i \in 1 .. n : bound[i].name = x /\ bound[i].value = store[x].value
    BY <2>2 DEF IsLast
  <2>4. doc.gathers[i].name = x /\ store[x].value = Answer(i) /\ i \in DOMAIN doc.gathers
    BY <1>2, <1>6, <2>3
  <2>5. The(doc.gathers, x) = doc.gathers[i]
    BY <1>1, <2>4, TheNamed
  <2> QED BY <2>4, <2>5
<1> QED BY <1>5, <1>8, <1>9, <1>12, <1>13 DEF Inserted

\* A flag wins over a file, a file over a gatherer, and a later binding over
\* an earlier one, for any playbook, files and flags: VarStore::insert keeps
\* the ranks however override_store and gather::run order their calls.
THEOREM HighestWins == VariablesSpec => []HighestSourceWins
<1>1. ASSUME VariablesInv PROVE HighestSourceWins
  <2> SUFFICES ASSUME phase \in {"plan", "planned"}, NEW n \in DOMAIN store
      PROVE LET files == input.overrides.varFile \o input.overrides.secretVarFile
                g     == The(doc.gathers, n)
            IN CASE n \in NamesOf(input.overrides.flags) ->
                      store[n].value = LastValue(input.overrides.flags, n)
                 [] n \notin NamesOf(input.overrides.flags) /\ n \in NamesOf(files) ->
                      store[n].value = LastValue(files, n)
                 [] OTHER ->
                      \E k \in DOMAIN results :
                        /\ Unique(Invocations(pb, doc, AskedIn))[k]
                             = [key |-> g.from, params |-> GatherParams(pb, g, AskedIn)]
                        /\ store[n].value = Typed(results[k].v, GatherDecl(pb, g).returns)
    BY DEF HighestSourceWins
  <2> DEFINE flags == input.overrides.flags
             files == input.overrides.varFile \o input.overrides.secretVarFile
             g == The(doc.gathers, n)
             Asks(k) == /\ Unique(Invocations(pb, doc, AskedIn))[k]
                             = [key |-> g.from, params |-> GatherParams(pb, g, AskedIn)]
                        /\ store[n].value = Typed(results[k].v, GatherDecl(pb, g).returns)
  <2>1. IsList(doc.gathers) /\ BindingLists(input.overrides)
    BY <1>1, CallIsLists
  <2>2. /\ NamesOf(flags) \cup NamesOf(files) \subseteq DOMAIN Given
        /\ \A x \in DOMAIN Given :
             IF x \in NamesOf(flags) THEN Given[x].value = LastValue(flags, x)
             ELSE x \in NamesOf(files) /\ Given[x].value = LastValue(files, x)
    BY <2>1, OverrideStoreIs DEF Given
  <2>3. CASE n \in DOMAIN Given
    <3>1. store[n] = Given[n]
      BY <1>1, <2>3, StoreIs
    <3>2. IF n \in NamesOf(flags) THEN store[n].value = LastValue(flags, n)
          ELSE n \in NamesOf(files) /\ store[n].value = LastValue(files, n)
      BY <2>2, <2>3, <3>1
    <3> HIDE DEF flags, files, Asks
    <3>3. CASE n \in NamesOf(flags)
      BY <3>2, <3>3 DEF flags, files
    <3>4. CASE n \notin NamesOf(flags)
      BY <3>2, <3>4 DEF flags, files
    <3> QED BY <3>3, <3>4
  <2>4. CASE n \notin DOMAIN Given
    <3>1. n \notin NamesOf(flags) /\ n \notin NamesOf(files)
      BY <2>2, <2>4
    <3>2. PICK i \in DOMAIN doc.gathers :
            doc.gathers[i].name = n /\ g = doc.gathers[i] /\ store[n].value = Answer(i)
      BY <1>1, <2>4, StoreIs
    <3>3. /\ i \in DOMAIN Asked
          /\ Asked[i].key = g.from /\ Asked[i].params = GatherParams(pb, g, AskedIn)
      BY <2>1, <3>2, AskedIs
    <3> DEFINE k == Shares(Asked, i)
    <3>4. k \in DOMAIN Unique(Asked) /\ Unique(Asked)[k] = Execution(Asked[i])
      <4>1. \E e \in DOMAIN Unique(Asked) : Unique(Asked)[e] = Execution(Asked[i])
        BY <2>1, <3>3, AskedIs, UniqueIs
      <4> QED BY <4>1 DEF Shares
    <3> HIDE DEF g
    <3>5. Execution(Asked[i]) = [key |-> g.from, params |-> GatherParams(pb, g, AskedIn)]
      BY <3>3 DEF Execution
    <3>6. Returns(pb, Asked[i]) = GatherDecl(pb, g).returns
      BY <3>3 DEF Returns, GatherDecl
    <3>7. k \in DOMAIN results /\ Asks(k)
      BY <1>1, <3>2, <3>4, <3>5, <3>6 DEF VariablesInv, Asked, Answer
    <3>8. \E e \in DOMAIN results : Asks(e)
      BY <3>7
    <3> HIDE DEF Asks, flags, files, k
    <3> QED BY <3>1, <3>8 DEF Asks, flags, files, g
  <2> QED BY <2>3, <2>4
<1> QED BY <1>1, VariablesInvariant, PTL

\* Gather blocks of one gatherer and the same params share an execution, so
\* they agree, whatever the threads return and in whatever order: by_dedup
\* has one entry for them.
THEOREM SameAnswer == VariablesSpec => []SameQuestionSameAnswer
<1>1. ASSUME VariablesInv PROVE SameQuestionSameAnswer
  <2> SUFFICES ASSUME phase \in {"plan", "planned"},
                      NEW m \in NamesOf(doc.gathers), NEW n \in NamesOf(doc.gathers),
                      The(doc.gathers, m).from = The(doc.gathers, n).from,
                      GatherParams(pb, The(doc.gathers, m), AskedIn)
                        = GatherParams(pb, The(doc.gathers, n), AskedIn),
                      store[m].origin = Origin.Gatherer, store[n].origin = Origin.Gatherer
               PROVE  store[m].value = store[n].value
    BY DEF SameQuestionSameAnswer
  <2>1. IsList(doc.gathers)
    BY <1>1, CallIsLists
  <2>2. m \in DOMAIN store \ DOMAIN Given /\ n \in DOMAIN store \ DOMAIN Given
    BY <1>1, StoreIs
  <2>3. PICK i \in DOMAIN doc.gathers :
          The(doc.gathers, m) = doc.gathers[i] /\ store[m].value = Answer(i)
    BY <1>1, <2>2, StoreIs
  <2>4. PICK j \in DOMAIN doc.gathers :
          The(doc.gathers, n) = doc.gathers[j] /\ store[n].value = Answer(j)
    BY <1>1, <2>2, StoreIs
  <2>5. Asked[i].key = Asked[j].key /\ Asked[i].params = Asked[j].params
    <3>1. /\ Asked[i].key = doc.gathers[i].from
          /\ Asked[i].params = GatherParams(pb, doc.gathers[i], AskedIn)
          /\ Asked[j].key = doc.gathers[j].from
          /\ Asked[j].params = GatherParams(pb, doc.gathers[j], AskedIn)
      BY <2>1, AskedIs
    <3> QED BY <2>3, <2>4, <3>1
  <2>6. Execution(Asked[i]) = Execution(Asked[j])
    BY <2>5 DEF Execution
  <2>7. Shares(Asked, i) = Shares(Asked, j)
    BY <2>6 DEF Shares
  <2>8. Returns(pb, Asked[i]) = Returns(pb, Asked[j])
    BY <2>5 DEF Returns
  <2> QED BY <2>3, <2>4, <2>7, <2>8 DEF Answer
<1> QED BY <1>1, VariablesInvariant, PTL

(* ------------------------------------------------------------------ lists *)

\* What a list is, in the words the provers use.
LEMMA ListIs ==
  ASSUME NEW s, IsList(s)
  PROVE  Len(s) \in Nat /\ DOMAIN s = 1 .. Len(s) /\ \A i \in 1 .. Len(s) : s[i] \in Range(s)
BY DEF IsList, Range

\* A function on 1 .. n is a list of length n.
LEMMA ListOf ==
  ASSUME NEW n \in Nat, NEW s, DOMAIN s = 1 .. n, s = [i \in 1 .. n |-> s[i]]
  PROVE  IsList(s) /\ Len(s) = n
<1>1. \A i \in 1 .. n : s[i] \in Range(s)
  BY DEF Range
<1>2. s \in [1 .. n -> Range(s)]
  BY <1>1
<1>3. s \in Seq(Range(s))
  BY <1>2, SeqDef, Zenon
<1> QED BY <1>2, <1>3 DEF IsList

\* One list after another.
LEMMA ListJoined ==
  ASSUME NEW s, NEW t, IsList(s), IsList(t)
  PROVE  /\ IsList(s \o t) /\ Len(s \o t) = Len(s) + Len(t)
         /\ \A i \in 1 .. Len(s) + Len(t) :
              (s \o t)[i] = IF i <= Len(s) THEN s[i] ELSE t[i - Len(s)]
<1>1. s \in Seq(Range(s) \cup Range(t)) /\ t \in Seq(Range(s) \cup Range(t))
  <2>1. s \in Seq(Range(s)) /\ t \in Seq(Range(t))
    BY DEF IsList
  <2> QED BY <2>1
<1>2. /\ s \o t \in Seq(Range(s) \cup Range(t)) /\ Len(s \o t) = Len(s) + Len(t)
      /\ \A i \in 1 .. Len(s) + Len(t) : (s \o t)[i] = IF i <= Len(s) THEN s[i] ELSE t[i - Len(s)]
  BY <1>1, ConcatProperties
<1>3. Len(s) + Len(t) \in Nat
  BY ListIs
<1>4. s \o t = [i \in 1 .. Len(s) + Len(t) |-> (s \o t)[i]]
      /\ DOMAIN (s \o t) = 1 .. Len(s) + Len(t)
  <2> DEFINE r == s \o t
  <2>1. r \in Seq(Range(s) \cup Range(t)) /\ Len(r) = Len(s) + Len(t)
    BY <1>2
  <2> HIDE DEF r
  <2>2. DOMAIN r = 1 .. Len(r) /\ r = [i \in 1 .. Len(r) |-> r[i]]
    BY <2>1
  <2>3. DOMAIN r = 1 .. Len(s) + Len(t) /\ r = [i \in 1 .. Len(s) + Len(t) |-> r[i]]
    BY <2>1, <2>2
  <2> QED BY <2>3 DEF r
<1>5. IsList(s \o t)
  BY <1>3, <1>4, ListOf
<1> QED BY <1>2, <1>5

(* -------------------------------------------------------------- FlattenSeq *)

ListOfLists(ss) == IsList(ss) /\ \A i \in DOMAIN ss : IsList(ss[i])

SameShape(ss, tt) ==
  /\ ListOfLists(ss) /\ ListOfLists(tt) /\ DOMAIN ss = DOMAIN tt
  /\ \A i \in DOMAIN ss : Len(ss[i]) = Len(tt[i])

\* The places in the first n of some lists.
Places(ss, n) == {p \in (1 .. n) \X Nat : p[2] \in 1 .. Len(ss[p[1]])}

\* What stands in a flat list comes from these places, and each is there once.
ComesFrom(flat, at, ss, n) ==
  /\ IsList(flat) /\ at \in [1 .. Len(flat) -> Places(ss, n)]
  /\ \A p \in Places(ss, n) : \E k \in 1 .. Len(flat) : at[k] = p
  /\ \A k, m \in 1 .. Len(flat) : at[k] = at[m] => k = m
  /\ \A k \in 1 .. Len(flat) : flat[k] = ss[at[k][1]][at[k][2]]

FlattenUpTo(f, ss, n) == f = [i \in 1 .. n |-> IF i = 1 THEN ss[i] ELSE f[i - 1] \o ss[i]]

\* The local function of FlattenSeq exists, by the least length for which it would not.
LEMMA FlattenedByStep ==
  ASSUME NEW ss, NEW N \in Nat
  PROVE  \E f : FlattenUpTo(f, ss, N)
<1> DEFINE Missing == {n \in Nat : ~ \E f : FlattenUpTo(f, ss, n)}
<1> SUFFICES ASSUME Missing # {} PROVE FALSE
  OBVIOUS
<1>1. PICK n \in Missing : \A m \in Missing : ~(m < n)
  <2>1. Missing \in SUBSET Nat
    OBVIOUS
  <2> HIDE DEF Missing
  <2> QED BY <2>1, LeastOf
<1>2. CASE n = 0
  <2>1. FlattenUpTo([i \in {} |-> {}], ss, 0)
    BY DEF FlattenUpTo
  <2> QED BY <1>1, <1>2, <2>1
<1>3. CASE n # 0
  <2>1. n - 1 \in Nat /\ n - 1 < n /\ n \in Nat /\ 0 < n
    BY <1>1, <1>3
  <2>2. PICK f : FlattenUpTo(f, ss, n - 1)
    BY <1>1, <2>1
  <2> DEFINE step(s, k) == IF k = 1 THEN ss[k] ELSE s \o ss[k]
             g == [k \in 1 .. n |-> IF k = n THEN step(f[n - 1], n) ELSE f[k]]
  <2>3. \A k \in 1 .. n - 1 : f[k] = step(f[k - 1], k)
    BY <2>2 DEF FlattenUpTo
  <2>4. ASSUME NEW k \in 1 .. n
        PROVE  g[k] = step(g[k - 1], k)
    <3>1. CASE k = n /\ n # 1
      <4>1. n - 1 \in 1 .. n /\ n \in 1 .. n /\ n - 1 # n
        BY <2>1, <3>1
      <4> HIDE DEF step
      <4>2. g[n] = step(f[n - 1], n) /\ g[n - 1] = f[n - 1]
        BY <4>1
      <4> HIDE DEF g
      <4> QED BY <3>1, <4>2
    <3>2. CASE k = n /\ n = 1
      BY <3>2
    <3>3. CASE k # n
      <4>1. k \in 1 .. n - 1 /\ g[k] = f[k] /\ (k # 1 => g[k - 1] = f[k - 1])
        BY <2>1, <3>3
      <4> HIDE DEF g
      <4> QED BY <2>3, <4>1
    <3> QED BY <3>1, <3>2, <3>3
  <2>5. g = [k \in 1 .. n |-> g[k]]
    OBVIOUS
  <2>6. FlattenUpTo(g, ss, n)
    <3> HIDE DEF g
    <3> QED BY <2>4, <2>5 DEF FlattenUpTo
  <2> HIDE DEF g
  <2> QED BY <1>1, <2>6
<1> QED BY <1>2, <1>3

NextAt(at, l, m, n) == [k \in 1 .. l + m |-> IF k <= l THEN at[k] ELSE << n, k - l >>]

\* One more list is joined, and each member still comes from its place.
LEMMA FlattenNext ==
  ASSUME NEW ss, ListOfLists(ss), NEW n \in Nat, n + 1 \in DOMAIN ss,
         NEW at, NEW flat, ComesFrom(flat, at, ss, n)
  PROVE  ComesFrom(flat \o ss[n + 1], NextAt(at, Len(flat), Len(ss[n + 1]), n + 1), ss, n + 1)
<1> DEFINE more == ss[n + 1]  l == Len(flat)  m == Len(more)  r == flat \o more
           to == NextAt(at, l, m, n + 1)
<1> SUFFICES ComesFrom(r, to, ss, n + 1)
  OBVIOUS
<1>1. IsList(flat) /\ IsList(more) /\ l \in Nat /\ m \in Nat
  BY ListIs DEF ListOfLists, ComesFrom
<1>2. IsList(r) /\ Len(r) = l + m /\ \A i \in 1 .. l + m :
        r[i] = IF i <= l THEN flat[i] ELSE more[i - l]
  BY <1>1, ListJoined
<1>3. \A k \in 1 .. l + m : to[k] = IF k <= l THEN at[k] ELSE << n + 1, k - l >>
  BY DEF NextAt
<1>4. \A p : p \in Places(ss, n + 1) <=>
             p \in Places(ss, n) \/ \E j \in 1 .. m : p = << n + 1, j >>
  BY <1>1 DEF Places
<1>5. /\ at \in [1 .. l -> Places(ss, n)]
      /\ \A p \in Places(ss, n) : \E k \in 1 .. l : at[k] = p
      /\ \A j, k \in 1 .. l : at[j] = at[k] => j = k
      /\ \A k \in 1 .. l : flat[k] = ss[at[k][1]][at[k][2]]
  BY DEF ComesFrom
<1>6. to \in [1 .. Len(r) -> Places(ss, n + 1)]
  <2>1. ASSUME NEW k \in 1 .. l + m PROVE to[k] \in Places(ss, n + 1)
    <3>1. CASE k <= l
      <4>1. k \in 1 .. l
        BY <1>1, <3>1
      <4>2. to[k] = at[k]
        BY <1>3, <3>1
      <4> HIDE DEF l, m, to
      <4> QED BY <1>4, <1>5, <4>1, <4>2
    <3>2. CASE ~(k <= l)
      <4>1. k - l \in 1 .. m
        BY <1>1, <3>2
      <4>2. to[k] = << n + 1, k - l >>
        BY <1>3, <3>2
      <4> HIDE DEF l, m, to
      <4> QED BY <1>4, <4>1, <4>2
    <3> QED BY <3>1, <3>2
  <2>2. to = [k \in 1 .. l + m |-> to[k]]
    BY DEF NextAt
  <2> HIDE DEF to, r, l, m
  <2> QED BY <1>2, <2>1, <2>2
<1>7. ASSUME NEW p \in Places(ss, n + 1) PROVE \E k \in 1 .. Len(r) : to[k] = p
  <2>1. CASE p \in Places(ss, n)
    <3>1. PICK k \in 1 .. l : at[k] = p
      BY <1>5, <2>1
    <3>2. k \in 1 .. l + m /\ k <= l
      BY <1>1
    <3> HIDE DEF to, r, l, m
    <3> QED BY <1>2, <1>3, <3>1, <3>2
  <2>2. CASE \E j \in 1 .. m : p = << n + 1, j >>
    <3>1. PICK j \in 1 .. m : p = << n + 1, j >>
      BY <2>2
    <3>2. PICK k \in 1 .. l + m : k = l + j
      BY <1>1
    <3>3. ~(k <= l) /\ k - l = j
      BY <1>1, <3>2
    <3>4. to[k] = << n + 1, j >>
      BY <1>3, <3>3
    <3> HIDE DEF to, r, l, m
    <3> QED BY <1>2, <3>1, <3>4
  <2> QED BY <1>4, <2>1, <2>2
<1>8. ASSUME NEW k \in 1 .. Len(r) PROVE r[k] = ss[to[k][1]][to[k][2]]
  <2>1. CASE k <= l
    <3>1. k \in 1 .. l /\ k \in 1 .. l + m
      BY <1>1, <1>2, <2>1
    <3> HIDE DEF to, r, l, m
    <3> QED BY <1>2, <1>3, <1>5, <2>1, <3>1
  <2>2. CASE ~(k <= l)
    <3>1. k \in 1 .. l + m
      BY <1>2
    <3>2. to[k] = << n + 1, k - l >> /\ r[k] = more[k - l]
      BY <1>2, <1>3, <2>2, <3>1
    <3> HIDE DEF to, r, l, m
    <3> QED BY <3>2
  <2> QED BY <2>1, <2>2
<1>9. ASSUME NEW j \in 1 .. Len(r), NEW k \in 1 .. Len(r), to[j] = to[k] PROVE j = k
  <2>1. /\ \A i \in 1 .. l + m : i <= l => to[i] = at[i] /\ i \in 1 .. l
        /\ \A i \in 1 .. l + m : ~(i <= l) => to[i] = << n + 1, i - l >>
    <3>1. \A i \in 1 .. l + m : i <= l => i \in 1 .. l
      BY <1>1
    <3> HIDE DEF to, l, m
    <3> QED BY <1>3, <3>1
  <2>2. \A i \in 1 .. l : at[i] \in Places(ss, n)
    BY <1>5
  <2>3. \A i : << n + 1, i >> \notin Places(ss, n)
    BY DEF Places
  <2>4. j \in 1 .. l + m /\ k \in 1 .. l + m
    BY <1>2
  <2>5. CASE j <= l /\ k <= l
    <3> HIDE DEF to, l, m, r
    <3> QED BY <1>5, <1>9, <2>1, <2>4, <2>5
  <2>6. CASE (j <= l /\ ~(k <= l)) \/ (k <= l /\ ~(j <= l))
    <3> HIDE DEF to, l, m, r
    <3> QED BY <1>9, <2>1, <2>2, <2>3, <2>4, <2>6
  <2>7. CASE ~(j <= l) /\ ~(k <= l)
    <3>1. << n + 1, j - l >> = << n + 1, k - l >>
      <4> HIDE DEF to, l, m, r
      <4> QED BY <1>9, <2>1, <2>4, <2>7
    <3>2. j - l = k - l
      BY <3>1
    <3> HIDE DEF to
    <3> QED BY <1>1, <2>4, <3>2
  <2> HIDE DEF to, l, m, r
  <2> QED BY <2>5, <2>6, <2>7
<1> HIDE DEF to, r
<1> QED BY <1>2, <1>6, <1>7, <1>8, <1>9 DEF ComesFrom

\* Lists of lists of one shape are flattened alike: members of the same place meet.
LEMMA FlattenAlike ==
  ASSUME NEW ss, NEW tt, SameShape(ss, tt)
  PROVE  /\ IsList(FlattenSeq(ss)) /\ IsList(FlattenSeq(tt))
         /\ Len(FlattenSeq(ss)) = Len(FlattenSeq(tt))
         /\ \E at : /\ ComesFrom(FlattenSeq(ss), at, ss, Len(ss))
                    /\ ComesFrom(FlattenSeq(tt), at, tt, Len(ss))
<1>1. Len(ss) \in Nat /\ DOMAIN ss = 1 .. Len(ss) /\ Len(tt) = Len(ss) /\ DOMAIN tt = 1 .. Len(ss)
  BY ListIs DEF SameShape, ListOfLists
<1> SUFFICES \E at : /\ ComesFrom(FlattenSeq(ss), at, ss, Len(ss))
                    /\ ComesFrom(FlattenSeq(tt), at, tt, Len(ss))
  <2> SUFFICES ASSUME NEW at, ComesFrom(FlattenSeq(ss), at, ss, Len(ss)),
                              ComesFrom(FlattenSeq(tt), at, tt, Len(ss))
               PROVE  /\ IsList(FlattenSeq(ss)) /\ IsList(FlattenSeq(tt))
                      /\ Len(FlattenSeq(ss)) = Len(FlattenSeq(tt))
    OBVIOUS
  <2> DEFINE a == FlattenSeq(ss)  b == FlattenSeq(tt)
  <2> HIDE DEF a, b
  <2>1. /\ IsList(a) /\ IsList(b)
        /\ at \in [1 .. Len(a) -> Places(ss, Len(ss))]
        /\ at \in [1 .. Len(b) -> Places(tt, Len(ss))]
    BY DEF ComesFrom, a, b
  <2>2. 1 .. Len(a) = 1 .. Len(b) /\ Len(a) \in Nat /\ Len(b) \in Nat
    BY <2>1, ListIs
  <2>3. Len(a) = Len(b)
    BY <2>2
  <2> QED BY <2>1, <2>3 DEF a, b
<1>2. CASE Len(ss) = 0
  <2>1. FlattenSeq(ss) = ss /\ FlattenSeq(tt) = tt
    BY <1>1, <1>2 DEF FlattenSeq
  <2>2. Places(ss, 0) = {} /\ Places(tt, 0) = {}
    BY DEF Places
  <2>3. ComesFrom(ss, ss, ss, 0) /\ ComesFrom(tt, ss, tt, 0)
    BY <1>1, <1>2, <2>2 DEF ComesFrom, SameShape, ListOfLists, IsList
  <2> QED BY <1>2, <2>1, <2>3
<1>3. CASE Len(ss) # 0
  <2> DEFINE N == Len(ss)
             f == CHOOSE f : FlattenUpTo(f, ss, N)
             g == CHOOSE g : FlattenUpTo(g, tt, N)
             Good(n) == \E at : ComesFrom(f[n], at, ss, n) /\ ComesFrom(g[n], at, tt, n)
             Wrong == {n \in 1 .. N : ~Good(n)}
  <2>1. FlattenUpTo(f, ss, N) /\ FlattenUpTo(g, tt, N)
    BY <1>1, FlattenedByStep
  <2>2. FlattenSeq(ss) = f[N] /\ FlattenSeq(tt) = g[N]
    BY <1>1, <1>3 DEF FlattenSeq, FlattenUpTo
  <2> HIDE DEF f, g
  <2>3. Wrong = {}
    <3> SUFFICES ASSUME Wrong # {} PROVE FALSE
      OBVIOUS
    <3>1. PICK n \in Wrong : \A m \in Wrong : ~(m < n)
      <4>1. Wrong \in SUBSET Nat
        OBVIOUS
      <4> HIDE DEF Wrong
      <4> QED BY <4>1, LeastOf
    <3>2. n \in 1 .. N /\ ~Good(n)
      BY <3>1
    <3>3. CASE n = 1
      <4>1. f[1] = ss[1] /\ g[1] = tt[1] /\ 1 \in DOMAIN ss
        BY <1>1, <2>1, <3>2, <3>3 DEF FlattenUpTo
      <4>2. /\ IsList(ss[1]) /\ IsList(tt[1]) /\ Len(ss[1]) = Len(tt[1]) /\ Len(ss[1]) \in Nat
        BY <1>1, <4>1, ListIs DEF SameShape, ListOfLists
      <4> DEFINE at == [k \in 1 .. Len(ss[1]) |-> << 1, k >>]
      <4>3. ComesFrom(ss[1], at, ss, 1) /\ ComesFrom(tt[1], at, tt, 1)
        BY <4>2 DEF ComesFrom, Places
      <4> HIDE DEF at
      <4> QED BY <3>2, <3>3, <4>1, <4>3
    <3>4. CASE n # 1
      <4>1. n - 1 \in 1 .. N /\ n - 1 < n /\ n - 1 \in Nat /\ n - 1 + 1 = n
        BY <1>1, <3>2, <3>4
      <4>2. Good(n - 1)
        BY <3>1, <4>1
      <4>3. PICK at : ComesFrom(f[n - 1], at, ss, n - 1) /\ ComesFrom(g[n - 1], at, tt, n - 1)
        BY <4>2
      <4>4. f[n] = f[n - 1] \o ss[n] /\ g[n] = g[n - 1] \o tt[n]
        BY <2>1, <3>2, <3>4 DEF FlattenUpTo
      <4>5. Len(f[n - 1]) = Len(g[n - 1])
        <5>1. /\ Len(f[n - 1]) \in Nat /\ Len(g[n - 1]) \in Nat
              /\ DOMAIN at = 1 .. Len(f[n - 1]) /\ DOMAIN at = 1 .. Len(g[n - 1])
          BY <4>3, ListIs DEF ComesFrom
        <5> QED BY <5>1
      <4>6. /\ n - 1 + 1 \in DOMAIN ss /\ n - 1 + 1 \in DOMAIN tt /\ ListOfLists(ss)
            /\ ListOfLists(tt)
            /\ Len(ss[n]) = Len(tt[n])
        BY <1>1, <3>2, <4>1 DEF SameShape
      <4> DEFINE to == NextAt(at, Len(f[n - 1]), Len(ss[n]), n)
      <4>7. ComesFrom(f[n], to, ss, n)
        <5>1. ComesFrom(f[n - 1] \o ss[n - 1 + 1],
                        NextAt(at, Len(f[n - 1]), Len(ss[n - 1 + 1]), n - 1 + 1), ss, n - 1 + 1)
          BY <4>1, <4>3, <4>6, FlattenNext
        <5> QED BY <4>1, <4>4, <5>1
      <4>8. ComesFrom(g[n], to, tt, n)
        <5>1. ComesFrom(g[n - 1] \o tt[n - 1 + 1],
                        NextAt(at, Len(g[n - 1]), Len(tt[n - 1 + 1]), n - 1 + 1), tt, n - 1 + 1)
          BY <4>1, <4>3, <4>6, FlattenNext
        <5> QED BY <4>1, <4>4, <4>5, <4>6, <5>1
      <4> HIDE DEF to
      <4> QED BY <3>2, <4>7, <4>8
    <3> QED BY <3>3, <3>4
  <2>4. Good(N)
    BY <1>1, <1>3, <2>3
  <2> QED BY <2>2, <2>4
<1> QED BY <1>2, <1>3

(* ------------------------------------------------ functions defined by steps *)

\* The local function of Levels.
LevelsUpTo(f, items, N) ==
  f = [n \in 0 .. N |-> IF n = 0 THEN [i \in DOMAIN items |-> Row(<< >>, items[i])]
      ELSE OpenContainers(f[n - 1], n - 1)]

\* The local function of Levels exists.
LEMMA LevelsByStep ==
  ASSUME NEW items, NEW N \in Nat
  PROVE  \E f : LevelsUpTo(f, items, N)
<1> DEFINE Missing == {n \in Nat : ~ \E f : LevelsUpTo(f, items, n)}
<1> SUFFICES ASSUME Missing # {} PROVE FALSE
  OBVIOUS
<1>1. PICK n \in Missing : \A m \in Missing : ~(m < n)
  <2>1. Missing \in SUBSET Nat
    OBVIOUS
  <2> HIDE DEF Missing
  <2> QED BY <2>1, LeastOf
<1> DEFINE base == [i \in DOMAIN items |-> Row(<< >>, items[i])]
           step(s, k) == OpenContainers(s, k - 1)
<1>2. CASE n = 0
  <2>1. LevelsUpTo([k \in 0 .. 0 |-> base], items, 0)
    BY DEF LevelsUpTo
  <2> QED BY <1>1, <1>2, <2>1
<1>3. CASE n # 0
  <2>1. n - 1 \in Nat /\ n - 1 < n /\ n \in Nat
    BY <1>1, <1>3
  <2>2. PICK f : LevelsUpTo(f, items, n - 1)
    BY <1>1, <2>1
  <2> DEFINE g == [k \in 0 .. n |-> IF k = n THEN step(f[n - 1], n) ELSE f[k]]
  <2>3. \A k \in 0 .. n - 1 : f[k] = IF k = 0 THEN base ELSE step(f[k - 1], k)
    BY <2>2 DEF LevelsUpTo
  <2> HIDE DEF base, step
  <2>4. ASSUME NEW k \in 0 .. n
        PROVE  g[k] = IF k = 0 THEN base ELSE step(g[k - 1], k)
    <3>1. CASE k = n
      <4>1. g[n] = step(f[n - 1], n) /\ g[n - 1] = f[n - 1]
        BY <1>3, <2>1
      <4> HIDE DEF g
      <4> QED BY <1>3, <3>1, <4>1
    <3>2. CASE k # n
      <4>1. k \in 0 .. n - 1 /\ g[k] = f[k] /\ (k # 0 => g[k - 1] = f[k - 1])
        BY <2>1, <3>2
      <4> HIDE DEF g
      <4> QED BY <2>3, <4>1
    <3> QED BY <3>1, <3>2
  <2>5. g = [k \in 0 .. n |-> g[k]]
    OBVIOUS
  <2>6. LevelsUpTo(g, items, n)
    <3> HIDE DEF g
    <3> QED BY <2>4, <2>5 DEF LevelsUpTo, base, step
  <2> HIDE DEF g
  <2> QED BY <1>1, <2>6
<1> QED BY <1>2, <1>3

\* The local function of Expansion.
ExpansionUpTo(f, book, top, N) ==
  f = [n \in 0 .. N |-> IF n = 0 THEN top ELSE ExpandOnce(book, f[n - 1])]

\* The local function of Expansion exists.
LEMMA ExpansionByStep ==
  ASSUME NEW book, NEW top, NEW N \in Nat
  PROVE  \E f : ExpansionUpTo(f, book, top, N)
<1> DEFINE Missing == {n \in Nat : ~ \E f : ExpansionUpTo(f, book, top, n)}
<1> SUFFICES ASSUME Missing # {} PROVE FALSE
  OBVIOUS
<1>1. PICK n \in Missing : \A m \in Missing : ~(m < n)
  <2>1. Missing \in SUBSET Nat
    OBVIOUS
  <2> HIDE DEF Missing
  <2> QED BY <2>1, LeastOf
<1> DEFINE base == top
           step(s, k) == ExpandOnce(book, s)
<1>2. CASE n = 0
  <2>1. ExpansionUpTo([k \in 0 .. 0 |-> base], book, top, 0)
    BY DEF ExpansionUpTo
  <2> QED BY <1>1, <1>2, <2>1
<1>3. CASE n # 0
  <2>1. n - 1 \in Nat /\ n - 1 < n /\ n \in Nat
    BY <1>1, <1>3
  <2>2. PICK f : ExpansionUpTo(f, book, top, n - 1)
    BY <1>1, <2>1
  <2> DEFINE g == [k \in 0 .. n |-> IF k = n THEN step(f[n - 1], n) ELSE f[k]]
  <2>3. \A k \in 0 .. n - 1 : f[k] = IF k = 0 THEN base ELSE step(f[k - 1], k)
    BY <2>2 DEF ExpansionUpTo
  <2> HIDE DEF base, step
  <2>4. ASSUME NEW k \in 0 .. n
        PROVE  g[k] = IF k = 0 THEN base ELSE step(g[k - 1], k)
    <3>1. CASE k = n
      <4>1. g[n] = step(f[n - 1], n) /\ g[n - 1] = f[n - 1]
        BY <1>3, <2>1
      <4> HIDE DEF g
      <4> QED BY <1>3, <3>1, <4>1
    <3>2. CASE k # n
      <4>1. k \in 0 .. n - 1 /\ g[k] = f[k] /\ (k # 0 => g[k - 1] = f[k - 1])
        BY <2>1, <3>2
      <4> HIDE DEF g
      <4> QED BY <2>3, <4>1
    <3> QED BY <3>1, <3>2
  <2>5. g = [k \in 0 .. n |-> g[k]]
    OBVIOUS
  <2>6. ExpansionUpTo(g, book, top, n)
    <3> HIDE DEF g
    <3> QED BY <2>4, <2>5 DEF ExpansionUpTo, base, step
  <2> HIDE DEF g
  <2> QED BY <1>1, <2>6
<1> QED BY <1>2, <1>3

\* The local function of Below.
BelowUpTo(f, book, leaves, N) ==
  f = [n \in 0 .. N |-> IF n = 0 THEN leaves ELSE GoOnOnce(book, f[n - 1])]

\* The local function of Below exists.
LEMMA BelowByStep ==
  ASSUME NEW book, NEW leaves, NEW N \in Nat
  PROVE  \E f : BelowUpTo(f, book, leaves, N)
<1> DEFINE Missing == {n \in Nat : ~ \E f : BelowUpTo(f, book, leaves, n)}
<1> SUFFICES ASSUME Missing # {} PROVE FALSE
  OBVIOUS
<1>1. PICK n \in Missing : \A m \in Missing : ~(m < n)
  <2>1. Missing \in SUBSET Nat
    OBVIOUS
  <2> HIDE DEF Missing
  <2> QED BY <2>1, LeastOf
<1> DEFINE base == leaves
           step(s, k) == GoOnOnce(book, s)
<1>2. CASE n = 0
  <2>1. BelowUpTo([k \in 0 .. 0 |-> base], book, leaves, 0)
    BY DEF BelowUpTo
  <2> QED BY <1>1, <1>2, <2>1
<1>3. CASE n # 0
  <2>1. n - 1 \in Nat /\ n - 1 < n /\ n \in Nat
    BY <1>1, <1>3
  <2>2. PICK f : BelowUpTo(f, book, leaves, n - 1)
    BY <1>1, <2>1
  <2> DEFINE g == [k \in 0 .. n |-> IF k = n THEN step(f[n - 1], n) ELSE f[k]]
  <2>3. \A k \in 0 .. n - 1 : f[k] = IF k = 0 THEN base ELSE step(f[k - 1], k)
    BY <2>2 DEF BelowUpTo
  <2> HIDE DEF base, step
  <2>4. ASSUME NEW k \in 0 .. n
        PROVE  g[k] = IF k = 0 THEN base ELSE step(g[k - 1], k)
    <3>1. CASE k = n
      <4>1. g[n] = step(f[n - 1], n) /\ g[n - 1] = f[n - 1]
        BY <1>3, <2>1
      <4> HIDE DEF g
      <4> QED BY <1>3, <3>1, <4>1
    <3>2. CASE k # n
      <4>1. k \in 0 .. n - 1 /\ g[k] = f[k] /\ (k # 0 => g[k - 1] = f[k - 1])
        BY <2>1, <3>2
      <4> HIDE DEF g
      <4> QED BY <2>3, <4>1
    <3> QED BY <3>1, <3>2
  <2>5. g = [k \in 0 .. n |-> g[k]]
    OBVIOUS
  <2>6. BelowUpTo(g, book, leaves, n)
    <3> HIDE DEF g
    <3> QED BY <2>4, <2>5 DEF BelowUpTo, base, step
  <2> HIDE DEF g
  <2> QED BY <1>1, <2>6
<1> QED BY <1>2, <1>3

\* The local function of Chains.
ChainsUpTo(f, book, ref, N) ==
  f = [n \in 0 .. N |-> IF n = 0 THEN {<< ref >>} ELSE Longer(book, f[n - 1])]

\* The local function of Chains exists.
LEMMA ChainsByStep ==
  ASSUME NEW book, NEW ref, NEW N \in Nat
  PROVE  \E f : ChainsUpTo(f, book, ref, N)
<1> DEFINE Missing == {n \in Nat : ~ \E f : ChainsUpTo(f, book, ref, n)}
<1> SUFFICES ASSUME Missing # {} PROVE FALSE
  OBVIOUS
<1>1. PICK n \in Missing : \A m \in Missing : ~(m < n)
  <2>1. Missing \in SUBSET Nat
    OBVIOUS
  <2> HIDE DEF Missing
  <2> QED BY <2>1, LeastOf
<1> DEFINE base == {<< ref >>}
           step(s, k) == Longer(book, s)
<1>2. CASE n = 0
  <2>1. ChainsUpTo([k \in 0 .. 0 |-> base], book, ref, 0)
    BY DEF ChainsUpTo
  <2> QED BY <1>1, <1>2, <2>1
<1>3. CASE n # 0
  <2>1. n - 1 \in Nat /\ n - 1 < n /\ n \in Nat
    BY <1>1, <1>3
  <2>2. PICK f : ChainsUpTo(f, book, ref, n - 1)
    BY <1>1, <2>1
  <2> DEFINE g == [k \in 0 .. n |-> IF k = n THEN step(f[n - 1], n) ELSE f[k]]
  <2>3. \A k \in 0 .. n - 1 : f[k] = IF k = 0 THEN base ELSE step(f[k - 1], k)
    BY <2>2 DEF ChainsUpTo
  <2> HIDE DEF base, step
  <2>4. ASSUME NEW k \in 0 .. n
        PROVE  g[k] = IF k = 0 THEN base ELSE step(g[k - 1], k)
    <3>1. CASE k = n
      <4>1. g[n] = step(f[n - 1], n) /\ g[n - 1] = f[n - 1]
        BY <1>3, <2>1
      <4> HIDE DEF g
      <4> QED BY <1>3, <3>1, <4>1
    <3>2. CASE k # n
      <4>1. k \in 0 .. n - 1 /\ g[k] = f[k] /\ (k # 0 => g[k - 1] = f[k - 1])
        BY <2>1, <3>2
      <4> HIDE DEF g
      <4> QED BY <2>3, <4>1
    <3> QED BY <3>1, <3>2
  <2>5. g = [k \in 0 .. n |-> g[k]]
    OBVIOUS
  <2>6. ChainsUpTo(g, book, ref, n)
    <3> HIDE DEF g
    <3> QED BY <2>4, <2>5 DEF ChainsUpTo, base, step
  <2> HIDE DEF g
  <2> QED BY <1>1, <2>6
<1> QED BY <1>2, <1>3

\* The local function of CachedArgs.
ArgsUpTo(f, book, blocks, values, step, cache, N) ==
  f = [n \in 0 .. N |-> IF n = 0 THEN cache
      ELSE ArgsAt(book, blocks, values, step, n, cache, f[n - 1])]

\* The local function of CachedArgs exists.
LEMMA ArgsByStep ==
  ASSUME NEW book, NEW blocks, NEW values, NEW step, NEW cache, NEW N \in Nat
  PROVE  \E f : ArgsUpTo(f, book, blocks, values, step, cache, N)
<1> DEFINE Missing == {n \in Nat : ~ \E f : ArgsUpTo(f, book, blocks, values, step, cache, n)}
<1> SUFFICES ASSUME Missing # {} PROVE FALSE
  OBVIOUS
<1>1. PICK n \in Missing : \A m \in Missing : ~(m < n)
  <2>1. Missing \in SUBSET Nat
    OBVIOUS
  <2> HIDE DEF Missing
  <2> QED BY <2>1, LeastOf
<1> DEFINE base == cache
           next(s, k) == ArgsAt(book, blocks, values, step, k, cache, s)
<1>2. CASE n = 0
  <2>1. ArgsUpTo([k \in 0 .. 0 |-> base], book, blocks, values, step, cache, 0)
    BY DEF ArgsUpTo
  <2> QED BY <1>1, <1>2, <2>1
<1>3. CASE n # 0
  <2>1. n - 1 \in Nat /\ n - 1 < n /\ n \in Nat
    BY <1>1, <1>3
  <2>2. PICK f : ArgsUpTo(f, book, blocks, values, step, cache, n - 1)
    BY <1>1, <2>1
  <2> DEFINE g == [k \in 0 .. n |-> IF k = n THEN next(f[n - 1], n) ELSE f[k]]
  <2>3. \A k \in 0 .. n - 1 : f[k] = IF k = 0 THEN base ELSE next(f[k - 1], k)
    BY <2>2 DEF ArgsUpTo
  <2> HIDE DEF base, next
  <2>4. ASSUME NEW k \in 0 .. n
        PROVE  g[k] = IF k = 0 THEN base ELSE next(g[k - 1], k)
    <3>1. CASE k = n
      <4>1. g[n] = next(f[n - 1], n) /\ g[n - 1] = f[n - 1]
        BY <1>3, <2>1
      <4> HIDE DEF g
      <4> QED BY <1>3, <3>1, <4>1
    <3>2. CASE k # n
      <4>1. k \in 0 .. n - 1 /\ g[k] = f[k] /\ (k # 0 => g[k - 1] = f[k - 1])
        BY <2>1, <3>2
      <4> HIDE DEF g
      <4> QED BY <2>3, <4>1
    <3> QED BY <3>1, <3>2
  <2>5. g = [k \in 0 .. n |-> g[k]]
    OBVIOUS
  <2>6. ArgsUpTo(g, book, blocks, values, step, cache, n)
    <3> HIDE DEF g
    <3> QED BY <2>4, <2>5 DEF ArgsUpTo, base, next
  <2> HIDE DEF g
  <2> QED BY <1>1, <2>6
<1> QED BY <1>2, <1>3

\* The local function of CachedConditions.
ConditionsUpTo(f, blocks, values, path, cache, N) ==
  f = [n \in 0 .. N |-> IF n = 0 THEN [containers |-> cache, verdict |-> "true"]
      ELSE ConditionAt(blocks, values, path, n, f[n - 1])]

\* The local function of CachedConditions exists.
LEMMA ConditionsByStep ==
  ASSUME NEW blocks, NEW values, NEW path, NEW cache, NEW N \in Nat
  PROVE  \E f : ConditionsUpTo(f, blocks, values, path, cache, N)
<1> DEFINE Missing == {n \in Nat : ~ \E f : ConditionsUpTo(f, blocks, values, path, cache, n)}
<1> SUFFICES ASSUME Missing # {} PROVE FALSE
  OBVIOUS
<1>1. PICK n \in Missing : \A m \in Missing : ~(m < n)
  <2>1. Missing \in SUBSET Nat
    OBVIOUS
  <2> HIDE DEF Missing
  <2> QED BY <2>1, LeastOf
<1> DEFINE base == [containers |-> cache, verdict |-> "true"]
           step(s, k) == ConditionAt(blocks, values, path, k, s)
<1>2. CASE n = 0
  <2>1. ConditionsUpTo([k \in 0 .. 0 |-> base], blocks, values, path, cache, 0)
    BY DEF ConditionsUpTo
  <2> QED BY <1>1, <1>2, <2>1
<1>3. CASE n # 0
  <2>1. n - 1 \in Nat /\ n - 1 < n /\ n \in Nat
    BY <1>1, <1>3
  <2>2. PICK f : ConditionsUpTo(f, blocks, values, path, cache, n - 1)
    BY <1>1, <2>1
  <2> DEFINE g == [k \in 0 .. n |-> IF k = n THEN step(f[n - 1], n) ELSE f[k]]
  <2>3. \A k \in 0 .. n - 1 : f[k] = IF k = 0 THEN base ELSE step(f[k - 1], k)
    BY <2>2 DEF ConditionsUpTo
  <2> HIDE DEF base, step
  <2>4. ASSUME NEW k \in 0 .. n
        PROVE  g[k] = IF k = 0 THEN base ELSE step(g[k - 1], k)
    <3>1. CASE k = n
      <4>1. g[n] = step(f[n - 1], n) /\ g[n - 1] = f[n - 1]
        BY <1>3, <2>1
      <4> HIDE DEF g
      <4> QED BY <1>3, <3>1, <4>1
    <3>2. CASE k # n
      <4>1. k \in 0 .. n - 1 /\ g[k] = f[k] /\ (k # 0 => g[k - 1] = f[k - 1])
        BY <2>1, <3>2
      <4> HIDE DEF g
      <4> QED BY <2>3, <4>1
    <3> QED BY <3>1, <3>2
  <2>5. g = [k \in 0 .. n |-> g[k]]
    OBVIOUS
  <2>6. ConditionsUpTo(g, blocks, values, path, cache, n)
    <3> HIDE DEF g
    <3> QED BY <2>4, <2>5 DEF ConditionsUpTo, base, step
  <2> HIDE DEF g
  <2> QED BY <1>1, <2>6
<1> QED BY <1>2, <1>3


(* ---------------------------------------------------------- lists at work *)

\* A list of one.
LEMMA SingleIs ==
  ASSUME NEW x
  PROVE  IsList(<< x >>) /\ Len(<< x >>) = 1 /\ DOMAIN << x >> = {1} /\ << x >>[1] = x
<1>1. << x >> \in Seq({x}) /\ Len(<< x >>) = 1 /\ DOMAIN << x >> = {1} /\ << x >>[1] = x
  OBVIOUS
<1>2. Range(<< x >>) = {x}
  BY DEF Range
<1> QED BY <1>1, <1>2 DEF IsList

\* A list with one more member.
LEMMA AppendIs ==
  ASSUME NEW s, IsList(s), NEW x
  PROVE  /\ IsList(Append(s, x)) /\ Len(Append(s, x)) = Len(s) + 1
         /\ Append(s, x)[Len(s) + 1] = x /\ \A i \in 1 .. Len(s) : Append(s, x)[i] = s[i]
<1> DEFINE t == Append(s, x)  S == Range(s) \cup {x}
<1>1. s \in Seq(S) /\ x \in S
  BY DEF IsList
<1> HIDE DEF S
<1>2. /\ t \in Seq(S) /\ Len(t) = Len(s) + 1 /\ t[Len(s) + 1] = x
      /\ \A i \in 1 .. Len(s) : t[i] = s[i]
  BY <1>1
<1> HIDE DEF t
<1>3. Len(t) \in Nat /\ DOMAIN t = 1 .. Len(t) /\ t = [i \in 1 .. Len(t) |-> t[i]]
  BY <1>2
<1>4. IsList(t)
  BY <1>3, ListOf
<1> QED BY <1>2, <1>4 DEF t

\* Lists of one domain are of one length.
LEMMA SameLen ==
  ASSUME NEW s, NEW t, IsList(s), IsList(t), DOMAIN s = DOMAIN t
  PROVE  Len(s) = Len(t)
<1> DEFINE a == Len(s)  b == Len(t)
<1>1. a \in Nat /\ b \in Nat /\ 1 .. a = 1 .. b
  BY ListIs
<1> HIDE DEF a, b
<1>2. a = b
  BY <1>1
<1> QED BY <1>2 DEF a, b

\* The first of a list.
FirstOf(s, n) == [i \in 1 .. n |-> s[i]]

\* The first members of a list, as a function.
LEMMA SubSeqIs ==
  ASSUME NEW s, NEW n \in Nat
  PROVE  SubSeq(s, 1, n) = FirstOf(s, n)
BY DEF FirstOf

\* They are a list.
LEMMA FirstOfIs ==
  ASSUME NEW s, NEW n \in Nat
  PROVE  IsList(FirstOf(s, n)) /\ Len(FirstOf(s, n)) = n /\ \A i \in 1 .. n :
           FirstOf(s, n)[i] = s[i]
<1> DEFINE t == FirstOf(s, n)
<1>1. DOMAIN t = 1 .. n /\ \A i \in 1 .. n : t[i] = s[i]
  BY DEF FirstOf
<1>2. t = [i \in 1 .. n |-> t[i]]
  BY DEF FirstOf
<1> HIDE DEF t
<1>3. IsList(t) /\ Len(t) = n
  BY <1>1, <1>2, ListOf
<1> QED BY <1>1, <1>3 DEF t

\* All of a list are its first members.
LEMMA WholeOf ==
  ASSUME NEW s, IsList(s)
  PROVE  FirstOf(s, Len(s)) = s
BY DEF FirstOf, IsList

\* What a list of lists flattens to has their elements and no others.
LEMMA FlattenIs ==
  ASSUME NEW ss, ListOfLists(ss)
  PROVE  LET flat == FlattenSeq(ss)
         IN /\ IsList(flat)
            /\ \A k \in DOMAIN flat : \E i \in DOMAIN ss : \E j \in DOMAIN ss[i] :
                 flat[k] = ss[i][j]
            /\ \A i \in DOMAIN ss : \A j \in DOMAIN ss[i] : \E k \in DOMAIN flat :
                 flat[k] = ss[i][j]
<1> DEFINE flat == FlattenSeq(ss)
<1>1. SameShape(ss, ss)
  BY DEF SameShape
<1>2. PICK at : ComesFrom(flat, at, ss, Len(ss))
  BY <1>1, FlattenAlike
<1> HIDE DEF flat
<1>3. IsList(flat) /\ Len(flat) \in Nat /\ DOMAIN flat = 1 .. Len(flat)
  BY <1>2, ListIs DEF ComesFrom
<1>4. DOMAIN ss = 1 .. Len(ss) /\ \A i \in DOMAIN ss :
        DOMAIN ss[i] = 1 .. Len(ss[i]) /\ Len(ss[i]) \in Nat
  BY ListIs DEF ListOfLists
<1>5. ASSUME NEW k \in DOMAIN flat
      PROVE  \E i \in DOMAIN ss : \E j \in DOMAIN ss[i] : flat[k] = ss[i][j]
  <2>1. at[k] \in Places(ss, Len(ss)) /\ flat[k] = ss[at[k][1]][at[k][2]]
    BY <1>2, <1>3 DEF ComesFrom
  <2> QED BY <1>4, <2>1 DEF Places
<1>6. ASSUME NEW i \in DOMAIN ss, NEW j \in DOMAIN ss[i]
      PROVE  \E k \in DOMAIN flat : flat[k] = ss[i][j]
  <2>1. << i, j >> \in Places(ss, Len(ss))
    BY <1>4 DEF Places
  <2>2. PICK k \in 1 .. Len(flat) : at[k] = << i, j >> /\ flat[k] = ss[at[k][1]][at[k][2]]
    BY <1>2, <2>1 DEF ComesFrom
  <2> QED BY <1>3, <2>2
<1> QED BY <1>3, <1>5, <1>6 DEF flat

\* Two lists of lists of one shape flatten to lists whose elements come from
\* the same places.
LEMMA FlattenBoth ==
  ASSUME NEW ss, NEW tt, SameShape(ss, tt)
  PROVE  /\ IsList(FlattenSeq(ss)) /\ IsList(FlattenSeq(tt))
         /\ DOMAIN FlattenSeq(ss) = DOMAIN FlattenSeq(tt)
         /\ \A k \in DOMAIN FlattenSeq(ss) : \E i \in DOMAIN ss : \E j \in DOMAIN ss[i] :
              FlattenSeq(ss)[k] = ss[i][j] /\ FlattenSeq(tt)[k] = tt[i][j]
<1> DEFINE a == FlattenSeq(ss)  b == FlattenSeq(tt)
<1> SUFFICES /\ IsList(a) /\ IsList(b) /\ DOMAIN a = DOMAIN b
             /\ \A k \in DOMAIN a : \E i \in DOMAIN ss : \E j \in DOMAIN ss[i] :
                  a[k] = ss[i][j] /\ b[k] = tt[i][j]
  OBVIOUS
<1>1. IsList(a) /\ IsList(b) /\ Len(a) = Len(b)
  BY FlattenAlike
<1>2. PICK at : ComesFrom(a, at, ss, Len(ss)) /\ ComesFrom(b, at, tt, Len(ss))
  BY FlattenAlike
<1> HIDE DEF a, b
<1>3. DOMAIN a = 1 .. Len(a) /\ DOMAIN b = 1 .. Len(a)
  BY <1>1, ListIs
<1>4. DOMAIN ss = 1 .. Len(ss) /\ \A i \in DOMAIN ss :
        DOMAIN ss[i] = 1 .. Len(ss[i]) /\ Len(ss[i]) \in Nat
  BY ListIs DEF SameShape, ListOfLists
<1>5. ASSUME NEW k \in DOMAIN a
      PROVE  \E i \in DOMAIN ss : \E j \in DOMAIN ss[i] : a[k] = ss[i][j] /\ b[k] = tt[i][j]
  <2>1. /\ at[k] \in Places(ss, Len(ss))
        /\ a[k] = ss[at[k][1]][at[k][2]] /\ b[k] = tt[at[k][1]][at[k][2]]
    BY <1>1, <1>2, <1>3 DEF ComesFrom
  <2> QED BY <1>4, <2>1 DEF Places
<1> QED BY <1>1, <1>3, <1>5

(* ------------------------------------------------- the blocks of a play *)

\* A container a block stands in is among the blocks, at the place it is
\* looked up under.
RowsSound(rows) ==
  /\ IsList(rows)
  /\ \A i \in DOMAIN rows :
       /\ rows[i] = Row(rows[i].within, rows[i].block) /\ IsList(rows[i].within)
       /\ \A d \in 1 .. Len(rows[i].within) :
            /\ rows[i].within[d].kind = "container"
            /\ \E j \in DOMAIN rows :
                 rows[j] = Row(FirstOf(rows[i].within, d - 1), rows[i].within[d])

HoldLists(rows) ==
  \A i \in DOMAIN rows :
    rows[i].block.kind = "container" => IsList(rows[i].block.items)

\* Opening containers keeps what is known of the rows: see RowsSound.
LEMMA RowsOpened ==
  ASSUME NEW rows, RowsSound(rows), HoldLists(rows), NEW depth
  PROVE  RowsSound(OpenContainers(rows, depth))
<1> DEFINE opens(i) == rows[i].block.kind = "container" /\ Len(rows[i].within) = depth
           inner(i) == [j \in DOMAIN rows[i].block.items |->
                          Row(Append(rows[i].within, rows[i].block), rows[i].block.items[j])]
           ss == [i \in DOMAIN rows |->
                    IF opens(i) THEN << rows[i] >> \o inner(i) ELSE << rows[i] >>]
           new == OpenContainers(rows, depth)
<1>1. new = FlattenSeq(ss)
  BY DEF OpenContainers
<1>2. ASSUME NEW i \in DOMAIN rows
      PROVE  /\ IsList(ss[i]) /\ 1 \in DOMAIN ss[i] /\ ss[i][1] = rows[i]
             /\ \A j \in DOMAIN ss[i] :
                  \/ ss[i][j] = rows[i]
                  \/ /\ rows[i].block.kind = "container"
                     /\ \E b : ss[i][j] = Row(Append(rows[i].within, rows[i].block), b)
  <2>1. CASE opens(i)
    <3>1. ss[i] = << rows[i] >> \o inner(i)
      BY <2>1
    <3>2. IsList(rows[i].block.items)
      BY <2>1 DEF HoldLists
    <3>3. Len(rows[i].block.items) \in Nat /\ DOMAIN inner(i) = 1 .. Len(rows[i].block.items)
      BY <3>2, ListIs
    <3> DEFINE list == inner(i)
    <3>4. list = [j \in 1 .. Len(rows[i].block.items) |-> list[j]]
      BY <3>3
    <3>5. \A j \in 1 .. Len(rows[i].block.items) :
            list[j] = Row(Append(rows[i].within, rows[i].block), rows[i].block.items[j])
      BY <3>3
    <3>6. IsList(list) /\ Len(list) = Len(rows[i].block.items)
      <4> HIDE DEF list
      <4> QED BY <3>3, <3>4, ListOf DEF list
    <3> HIDE DEF list
    <3>7. IsList(<< rows[i] >>) /\ Len(<< rows[i] >>) = 1 /\ << rows[i] >>[1] = rows[i]
      BY SingleIs
    <3>8. /\ IsList(<< rows[i] >> \o list) /\ Len(<< rows[i] >> \o list) = 1 + Len(list)
          /\ \A j \in 1 .. 1 + Len(list) :
               (<< rows[i] >> \o list)[j] = IF j <= 1 THEN << rows[i] >>[1] ELSE list[j - 1]
      <4>1. Len(list) \in Nat
        BY <3>3, <3>6
      <4>2. \A j \in 1 .. 1 + Len(list) : j <= 1 => j = 1
        BY <4>1
      <4> QED BY <3>6, <3>7, <4>2, ListJoined
    <3> DEFINE all == << rows[i] >> \o list
    <3>9. ss[i] = all
      BY <3>1 DEF list
    <3> HIDE DEF all, ss
    <3>10. Len(list) \in Nat /\ DOMAIN all = 1 .. 1 + Len(list)
      BY <3>3, <3>6, <3>8, ListIs DEF all
    <3>11. 1 \in DOMAIN all /\ all[1] = rows[i]
      BY <3>7, <3>8, <3>10 DEF all
    <3>12. ASSUME NEW j \in DOMAIN all
           PROVE  \/ all[j] = rows[i]
                  \/ \E b : all[j] = Row(Append(rows[i].within, rows[i].block), b)
      <4>1. CASE j <= 1
        BY <3>7, <3>8, <3>10, <4>1 DEF all
      <4>2. CASE ~(j <= 1)
        <5>1. all[j] = list[j - 1]
          BY <3>8, <3>10, <4>2 DEF all
        <5>2. j - 1 \in 1 .. Len(rows[i].block.items)
          BY <3>6, <3>10, <4>2
        <5> QED BY <3>5, <5>1, <5>2
      <4> QED BY <4>1, <4>2
    <3> QED BY <2>1, <3>8, <3>9, <3>11, <3>12 DEF all
  <2>2. CASE ~opens(i)
    <3>1. ss[i] = << rows[i] >>
      BY <2>2
    <3> HIDE DEF ss
    <3> QED BY <3>1, SingleIs
  <2> QED BY <2>1, <2>2
<1>3. ListOfLists(ss) /\ DOMAIN ss = DOMAIN rows
  <2>1. DOMAIN ss = DOMAIN rows /\ Len(rows) \in Nat /\ DOMAIN rows = 1 .. Len(rows)
    BY ListIs DEF RowsSound
  <2>2. ss = [i \in 1 .. Len(rows) |-> ss[i]]
    BY <2>1
  <2> HIDE DEF ss
  <2>3. IsList(ss)
    BY <2>1, <2>2, ListOf
  <2> QED BY <1>2, <2>1, <2>3 DEF ListOfLists
<1> HIDE DEF ss, opens, inner, new
<1>4. IsList(new)
  BY <1>1, <1>3, FlattenIs
<1>5. \A i \in DOMAIN rows : \E k \in DOMAIN new : new[k] = rows[i]
  BY <1>1, <1>2, <1>3, FlattenIs
<1>6. ASSUME NEW k \in DOMAIN new
      PROVE  \E i \in DOMAIN rows :
               \/ new[k] = rows[i]
               \/ /\ rows[i].block.kind = "container"
                  /\ \E b : new[k] = Row(Append(rows[i].within, rows[i].block), b)
  <2>1. PICK i \in DOMAIN ss : \E j \in DOMAIN ss[i] : new[k] = ss[i][j]
    BY <1>1, <1>3, FlattenIs
  <2> QED BY <1>2, <1>3, <2>1
<1>7. ASSUME NEW k \in DOMAIN new
      PROVE  /\ new[k] = Row(new[k].within, new[k].block) /\ IsList(new[k].within)
             /\ \A d \in 1 .. Len(new[k].within) :
                  /\ new[k].within[d].kind = "container"
                  /\ \E j \in DOMAIN new :
                       new[j] = Row(FirstOf(new[k].within, d - 1), new[k].within[d])
  <2>1. PICK i \in DOMAIN rows :
          \/ new[k] = rows[i]
          \/ /\ rows[i].block.kind = "container"
             /\ \E b : new[k] = Row(Append(rows[i].within, rows[i].block), b)
    BY <1>6
  <2> DEFINE w == rows[i].within
  <2>2. /\ rows[i] = Row(w, rows[i].block) /\ IsList(w)
        /\ \A d \in 1 .. Len(w) :
             /\ w[d].kind = "container"
             /\ \E j \in DOMAIN rows : rows[j] = Row(FirstOf(w, d - 1), w[d])
    BY DEF RowsSound
  <2>3. CASE new[k] = rows[i]
    BY <1>5, <2>2, <2>3
  <2>4. CASE rows[i].block.kind = "container" /\ \E b : new[k] = Row(Append(w, rows[i].block), b)
    <3> DEFINE v == Append(w, rows[i].block)
    <3>1. PICK b : new[k] = Row(v, b)
      BY <2>4
    <3> HIDE DEF w
    <3>2. /\ IsList(v) /\ Len(v) = Len(w) + 1 /\ v[Len(w) + 1] = rows[i].block
          /\ \A d \in 1 .. Len(w) : v[d] = w[d]
      BY <2>2, AppendIs
    <3>3. Len(w) \in Nat
      BY <2>2, ListIs
    <3> HIDE DEF v
    <3>4. ASSUME NEW d \in 1 .. Len(v)
          PROVE  v[d].kind = "container" /\ \E j \in DOMAIN new :
                   new[j] = Row(FirstOf(v, d - 1), v[d])
      <4>1. CASE d = Len(w) + 1
        <5>1. FirstOf(v, Len(w)) = w
          <6>1. FirstOf(v, Len(w)) = FirstOf(w, Len(w))
            BY <3>2 DEF FirstOf
          <6> QED BY <2>2, <6>1, WholeOf
        <5>2. d - 1 = Len(w) /\ v[d] = rows[i].block
          BY <3>2, <3>3, <4>1
        <5>3. PICK j \in DOMAIN new : new[j] = rows[i]
          BY <1>5
        <5> QED BY <2>2, <2>4, <5>1, <5>2, <5>3
      <4>2. CASE d # Len(w) + 1
        <5>1. d \in 1 .. Len(w) /\ d - 1 \in 0 .. Len(w)
          BY <3>2, <3>3, <4>2
        <5>2. v[d] = w[d] /\ FirstOf(v, d - 1) = FirstOf(w, d - 1)
          <6>1. v[d] = w[d] /\ \A e \in 1 .. d - 1 : v[e] = w[e]
            BY <3>2, <3>3, <5>1
          <6> QED BY <6>1 DEF FirstOf
        <5>3. PICK j \in DOMAIN rows : rows[j] = Row(FirstOf(w, d - 1), w[d])
          BY <2>2, <5>1
        <5>4. PICK m \in DOMAIN new : new[m] = rows[j]
          BY <1>5
        <5> QED BY <2>2, <5>1, <5>2, <5>3, <5>4
      <4> QED BY <4>1, <4>2
    <3>5. new[k].within = v /\ new[k] = Row(new[k].within, new[k].block)
      BY <3>1 DEF Row
    <3> QED BY <3>2, <3>4, <3>5
  <2> QED BY <2>1, <2>3, <2>4
<1> QED BY <1>4, <1>7 DEF RowsSound, new

\* All the blocks of a play, in whatever containers, and the steps of them.
LEMMA RowsOfPlay ==
  ASSUME NEW items, PlayIsTree(items)
  PROVE  /\ RowsSound(PlayBlocks(items))
         /\ \A i \in DOMAIN PlayBlocks(items) :
              PlayBlocks(items)[i].block.kind # "container" =>
                /\ IsRef(PlayBlocks(items)[i].block.resource)
                /\ IsRef(PlayBlocks(items)[i].block.waitFor)
<1> DEFINE f == Levels(items)
           Wrong == {n \in 0 .. MaxNesting : ~RowsSound(f[n])}
<1>1. MaxNesting \in Nat
  BY DepthAssumption
<1>2. LevelsUpTo(f, items, MaxNesting)
  <2>1. f = CHOOSE g : LevelsUpTo(g, items, MaxNesting)
    BY DEF Levels, LevelsUpTo
  <2> HIDE DEF f
  <2> QED BY <1>1, <2>1, LevelsByStep
<1> HIDE DEF f
<1>3. /\ f[0] = [i \in DOMAIN items |-> Row(<< >>, items[i])]
      /\ \A n \in 0 .. MaxNesting : n # 0 => f[n] = OpenContainers(f[n - 1], n - 1)
  BY <1>1, <1>2 DEF LevelsUpTo
<1>4. /\ IsList(items)
      /\ \A n \in 0 .. MaxNesting : \A row \in Range(f[n]) :
           IF row.block.kind = "container" THEN IsList(row.block.items)
           ELSE IsRef(row.block.resource) /\ IsRef(row.block.waitFor)
  BY DEF PlayIsTree, f
<1>5. RowsSound(f[0])
  <2> DEFINE rows == f[0]
  <2>1. DOMAIN rows = 1 .. Len(items) /\ Len(items) \in Nat
    BY <1>3, <1>4, ListIs
  <2>2. \A i \in DOMAIN rows : rows[i] = Row(<< >>, items[i])
    BY <1>3
  <2>3. rows = [i \in 1 .. Len(items) |-> rows[i]]
    BY <1>3, <2>1
  <2> HIDE DEF rows
  <2>4. IsList(rows)
    BY <2>1, <2>3, ListOf
  <2>5. IsList(<< >>) /\ Len(<< >>) = 0
    BY DEF IsList
  <2>6. \A i \in DOMAIN rows : rows[i].within = << >> /\ rows[i] = Row(<< >>, rows[i].block)
    BY <2>2 DEF Row
  <2> QED BY <2>4, <2>5, <2>6 DEF RowsSound, rows
<1>6. Wrong = {}
  <2> SUFFICES ASSUME Wrong # {} PROVE FALSE
    OBVIOUS
  <2>1. PICK n \in Wrong : \A m \in Wrong : ~(m < n)
    <3>1. Wrong \in SUBSET Nat
      OBVIOUS
    <3> HIDE DEF Wrong
    <3> QED BY <3>1, LeastOf
  <2>2. n \in 0 .. MaxNesting /\ ~RowsSound(f[n]) /\ n # 0
    BY <1>5, <2>1
  <2>3. n - 1 \in 0 .. MaxNesting /\ n - 1 < n
    BY <1>1, <2>2
  <2>4. RowsSound(f[n - 1])
    BY <2>1, <2>3
  <2>5. HoldLists(f[n - 1])
    BY <1>4, <2>3 DEF HoldLists, Range
  <2>6. f[n] = OpenContainers(f[n - 1], n - 1)
    BY <1>3, <2>2
  <2> QED BY <2>2, <2>4, <2>5, <2>6, RowsOpened
<1>7. MaxNesting \in 0 .. MaxNesting /\ PlayBlocks(items) = f[MaxNesting]
  BY <1>1 DEF PlayBlocks, f
<1>8. RowsSound(f[MaxNesting])
  BY <1>6, <1>7
<1> QED BY <1>4, <1>7, <1>8 DEF Range

\* The steps among the blocks.
LEMMA StepRowsAre ==
  ASSUME NEW items, IsList(PlayBlocks(items))
  PROVE  /\ IsList(StepRows(items))
         /\ \A i \in DOMAIN StepRows(items) : \E j \in DOMAIN PlayBlocks(items) :
              StepRows(items)[i] = PlayBlocks(items)[j] /\ PlayBlocks(items)[j].block.kind = "step"
         /\ \A j \in DOMAIN PlayBlocks(items) : PlayBlocks(items)[j].block.kind = "step" =>
              \E i \in DOMAIN StepRows(items) : StepRows(items)[i] = PlayBlocks(items)[j]
<1> DEFINE rows == PlayBlocks(items)
           ss == [i \in DOMAIN rows |-> IF rows[i].block.kind = "step" THEN << rows[i] >>
                                      ELSE << >>]
<1>1. StepRows(items) = FlattenSeq(ss)
  BY DEF StepRows
<1> HIDE DEF rows
<1>2. Len(rows) \in Nat /\ DOMAIN rows = 1 .. Len(rows)
  BY ListIs DEF rows
<1>3. \A i \in DOMAIN rows :
        /\ rows[i].block.kind = "step" => ss[i] = << rows[i] >>
        /\ rows[i].block.kind # "step" => ss[i] = << >>
  OBVIOUS
<1>4. DOMAIN ss = DOMAIN rows /\ ss = [i \in 1 .. Len(rows) |-> ss[i]]
  BY <1>2
<1> HIDE DEF ss
<1>5. IsList(<< >>) /\ DOMAIN << >> = {}
  BY DEF IsList
<1>6. ListOfLists(ss)
  <2>1. IsList(ss)
    BY <1>2, <1>4, ListOf
  <2>2. \A i \in DOMAIN rows : IsList(ss[i])
    BY <1>3, <1>5, SingleIs
  <2> QED BY <1>4, <2>1, <2>2 DEF ListOfLists
<1>7. ASSUME NEW i \in DOMAIN StepRows(items)
      PROVE  \E j \in DOMAIN rows : StepRows(items)[i] = rows[j] /\ rows[j].block.kind = "step"
  <2>1. PICK j \in DOMAIN ss : \E e \in DOMAIN ss[j] : StepRows(items)[i] = ss[j][e]
    BY <1>1, <1>6, FlattenIs
  <2>2. PICK e \in DOMAIN ss[j] : StepRows(items)[i] = ss[j][e]
    BY <2>1
  <2>3. rows[j].block.kind = "step"
    BY <1>3, <1>4, <1>5, <2>2
  <2>4. ss[j] = << rows[j] >>
    BY <1>3, <1>4, <2>3
  <2>5. DOMAIN ss[j] = {1} /\ ss[j][1] = rows[j]
    BY <2>4, SingleIs
  <2> QED BY <1>4, <2>2, <2>3, <2>5
<1>8. ASSUME NEW j \in DOMAIN rows, rows[j].block.kind = "step"
      PROVE  \E i \in DOMAIN StepRows(items) : StepRows(items)[i] = rows[j]
  <2>1. 1 \in DOMAIN ss[j] /\ ss[j][1] = rows[j]
    BY <1>3, <1>8, SingleIs
  <2>2. \A i \in DOMAIN ss : \A e \in DOMAIN ss[i] :
          \E k \in DOMAIN FlattenSeq(ss) : FlattenSeq(ss)[k] = ss[i][e]
    BY <1>6, FlattenIs
  <2>3. j \in DOMAIN ss
    BY <1>4
  <2>4. \E k \in DOMAIN FlattenSeq(ss) : FlattenSeq(ss)[k] = ss[j][1]
    BY <2>1, <2>2, <2>3
  <2> QED BY <1>1, <2>1, <2>4
<1>9. IsList(StepRows(items))
  BY <1>1, <1>6, FlattenIs
<1> QED BY <1>7, <1>8, <1>9 DEF rows

(* ---------------------------------------------------------- expansion *)

\* Lists of the same members in the same places are equal.
LEMMA ListsEqual ==
  ASSUME NEW s, NEW t, IsList(s), IsList(t), Len(s) = Len(t), \A i \in 1 .. Len(s) : s[i] = t[i]
  PROVE  s = t
<1>1. s = [i \in 1 .. Len(s) |-> s[i]] /\ t = [i \in 1 .. Len(s) |-> t[i]]
  BY DEF IsList
<1> QED BY <1>1

\* A leaf as the author sees it: from a block of the play, through the bodies
\* of what each link invokes.
Rooted(book, rows, leaf) ==
  /\ leaf = [containers |-> leaf.containers, chain |-> leaf.chain]
  /\ IsList(leaf.chain) /\ Len(leaf.chain) # 0
  /\ \E j \in DOMAIN rows :
       /\ leaf.containers = rows[j].within
       /\ leaf.chain[1] = Link(j, rows[j].block, Target(rows[j].block))
  /\ \A d \in 1 .. Len(leaf.chain) - 1 :
       LET ref  == leaf.chain[d].target
           body == Declared(book, "composites", ref).steps
       IN /\ IsInvocation(book, leaf.chain[d].block, ref)
          /\ \E i \in DOMAIN body :
               leaf.chain[d + 1] = Link(i, body[i], Resolved(Target(body[i]), ref.pkg))

\* After the containers a path has the names of the first n links of a chain.
NamesChain(path, leaf, n) ==
  \A d \in 1 .. n : path[Len(leaf.containers) + d] = leaf.chain[d].block.name

\* The class of the nearest of the first n links that declares one, if any does.
IsNearest(class, chain, n) ==
  \/ class = NoClass /\ \A d \in 1 .. n : chain[d].block.concurrency = NoClass
  \/ \E d \in 1 .. n :
       /\ class = chain[d].block.concurrency /\ class # NoClass
       /\ \A e \in 1 .. n : e > d => chain[e].block.concurrency = NoClass

\* An invocation passes on its own class, or else the one passed on to it.
LEMMA NearestFurther ==
  ASSUME NEW class, NEW s, NEW t, NEW l \in Nat \ {0}, IsNearest(class, s, l - 1),
         \A d \in 1 .. l : t[d] = s[d]
  PROVE  IsNearest(PassedOn(s[l].block.concurrency, class), t, l)
<1>1. l \in 1 .. l /\ \A d \in 1 .. l : d = l \/ d \in 1 .. l - 1
  OBVIOUS
<1>2. \A d \in 1 .. l - 1 : d \in 1 .. l
  OBVIOUS
<1>3. CASE s[l].block.concurrency # NoClass
  <2>1. \A e \in 1 .. l : ~(e > l)
    OBVIOUS
  <2>2. t[l].block.concurrency = s[l].block.concurrency
    BY <1>1
  <2> QED BY <1>1, <1>3, <2>1, <2>2 DEF IsNearest, PassedOn
<1>4. CASE s[l].block.concurrency = NoClass
  <2>1. PassedOn(s[l].block.concurrency, class) = class
    BY <1>4 DEF PassedOn
  <2>2. CASE class = NoClass /\ \A d \in 1 .. l - 1 : s[d].block.concurrency = NoClass
    <3>1. \A d \in 1 .. l : t[d].block.concurrency = NoClass
      BY <1>1, <1>4, <2>2
    <3> QED BY <2>1, <2>2, <3>1 DEF IsNearest
  <2>3. ASSUME NEW d \in 1 .. l - 1, class = s[d].block.concurrency, class # NoClass,
               \A e \in 1 .. l - 1 : e > d => s[e].block.concurrency = NoClass
        PROVE  IsNearest(class, t, l)
    <3>1. d \in 1 .. l /\ class = t[d].block.concurrency
      BY <1>2, <2>3
    <3>2. \A e \in 1 .. l : e > d => t[e].block.concurrency = NoClass
      BY <1>1, <1>4, <2>3
    <3> QED BY <2>3, <3>1, <3>2 DEF IsNearest
  <2> QED BY <2>1, <2>2, <2>3 DEF IsNearest
<1> QED BY <1>3, <1>4

\* What the loader has made of it.
StandsFor(p, leaf) ==
  LET l == Len(leaf.chain)
  IN /\ p.block = leaf.chain[l].block /\ p.target = leaf.chain[l].target
     /\ p.frames = [d \in 1 .. l - 1 |-> Frame(leaf.chain[d].block.name, leaf.chain[d].target,
                                               leaf.chain[d].block.requires)]
     /\ IsList(p.path) /\ Len(p.path) = Len(leaf.containers) + (l - 1)
     /\ \A d \in 1 .. Len(leaf.containers) : p.path[d] = leaf.containers[d].name
     /\ NamesChain(p.path, leaf, l - 1)
     /\ IsNearest(p.around, leaf.chain, l - 1)

BodiesAreLists(book) ==
  \A ref : Declares(book, "composites", ref) => IsList(Declared(book, "composites", ref).steps)

\* The i-th step of a body, for the author and for the loader.
Further(book, rows, leaf, p, i) ==
  /\ i \in DOMAIN GoOn(book, leaf) /\ i \in DOMAIN BodyOf(book, p)
  /\ Rooted(book, rows, GoOn(book, leaf)[i])
  /\ StandsFor(BodyOf(book, p)[i], GoOn(book, leaf)[i])
  /\ Len(GoOn(book, leaf)[i].chain) = Len(leaf.chain) + 1
  /\ \A d \in 1 .. Len(leaf.chain) : GoOn(book, leaf)[i].chain[d] = leaf.chain[d]
  /\ GoOn(book, leaf)[i].chain[Len(leaf.chain) + 1].target
       = Resolved(Target(Declared(book, "composites", p.target).steps[i]), p.target.pkg)
  /\ GoOn(book, leaf)[i].chain[Len(leaf.chain) + 1].block
       = Declared(book, "composites", p.target).steps[i]

\* One step further down a body.
LEMMA GoneOn ==
  ASSUME NEW book, NEW rows, \A j \in DOMAIN rows : IsList(rows[j].within),
         NEW leaf, Rooted(book, rows, leaf), NEW p, StandsFor(p, leaf),
         IsInvocation(book, p.block, p.target),
         NEW i \in DOMAIN Declared(book, "composites", p.target).steps
  PROVE  Further(book, rows, leaf, p, i)
<1> DEFINE l == Len(leaf.chain)
           body == Declared(book, "composites", p.target).steps
           link == Link(i, body[i], Resolved(Target(body[i]), p.target.pkg))
           chain == Append(leaf.chain, link)
           further == GoOn(book, leaf)[i]
           q == BodyOf(book, p)[i]
<1>1. /\ IsList(leaf.chain) /\ l \in Nat /\ l # 0
      /\ leaf = [containers |-> leaf.containers, chain |-> leaf.chain]
  BY ListIs DEF Rooted
<1>2. p.block = leaf.chain[l].block /\ p.target = leaf.chain[l].target
  BY DEF StandsFor
<1>3. /\ IsList(chain) /\ Len(chain) = l + 1 /\ chain[l + 1] = link
      /\ \A d \in 1 .. l : chain[d] = leaf.chain[d]
  BY <1>1, AppendIs
<1>4. i \in DOMAIN GoOn(book, leaf) /\ further = [leaf EXCEPT !.chain = chain]
  BY <1>2 DEF GoOn, Last
<1>5. further = [containers |-> leaf.containers, chain |-> chain]
  <2> HIDE DEF chain, further
  <2> QED BY <1>1, <1>4
<1>6. /\ i \in DOMAIN BodyOf(book, p)
      /\ q = Pending(body[i], Resolved(Target(body[i]), p.target.pkg), Append(p.path, p.block.name),
                     Append(p.frames, Frame(p.block.name, p.target, p.block.requires)),
                     PassedOn(p.block.concurrency, p.around))
  BY DEF BodyOf
<1> HIDE DEF further, q, chain
<1>7. further.containers = leaf.containers /\ further.chain = chain
  BY <1>5
<1>8. link.block = body[i] /\ link.target = Resolved(Target(body[i]), p.target.pkg)
  BY DEF Link
<1>9. Rooted(book, rows, further)
  <2>1. PICK j \in DOMAIN rows :
          /\ leaf.containers = rows[j].within
          /\ leaf.chain[1] = Link(j, rows[j].block, Target(rows[j].block))
    BY DEF Rooted
  <2>2. chain[1] = leaf.chain[1]
    BY <1>1, <1>3
  <2>3. ASSUME NEW d \in 1 .. Len(chain) - 1
        PROVE  /\ IsInvocation(book, chain[d].block, chain[d].target)
               /\ \E e \in DOMAIN Declared(book, "composites", chain[d].target).steps :
                    chain[d + 1] =
                      Link(e, Declared(book, "composites", chain[d].target).steps[e],
                           Resolved(Target(Declared(book, "composites", chain[d].target).steps[e]),
                                    chain[d].target.pkg))
    <3>1. CASE d = l
      <4>1. chain[d] = leaf.chain[l] /\ chain[d + 1] = link
        BY <1>1, <1>3, <3>1
      <4> QED BY <1>2, <4>1
    <3>2. CASE d # l
      <4>1. d \in 1 .. l - 1 /\ d \in 1 .. l /\ d + 1 \in 1 .. l
        BY <1>1, <1>3, <3>2
      <4>2. chain[d] = leaf.chain[d] /\ chain[d + 1] = leaf.chain[d + 1]
        BY <1>3, <4>1
      <4> HIDE DEF l
      <4> QED BY <4>1, <4>2 DEF Rooted, l
    <3> QED BY <3>1, <3>2
  <2>4. further = [containers |-> further.containers, chain |-> further.chain]
    BY <1>5, <1>7
  <2>5. Len(chain) # 0
    BY <1>1, <1>3
  <2> HIDE DEF l, body, link
  <2> QED BY <1>3, <1>7, <2>1, <2>2, <2>3, <2>4, <2>5 DEF Rooted
<1>10. StandsFor(q, further)
  <2>1. q.block = body[i] /\ q.target = Resolved(Target(body[i]), p.target.pkg)
    BY <1>6 DEF Pending
  <2>2. l + 1 - 1 = l /\ \A d \in 1 .. l - 1 : d \in 1 .. l
    BY <1>1
  <2> DEFINE frame(d) == Frame(chain[d].block.name, chain[d].target, chain[d].block.requires)
             frames == [d \in 1 .. l |-> frame(d)]
  <2>3. q.frames = frames
    <3>1. p.frames = [d \in 1 .. l - 1 |-> frame(d)]
      BY <1>3, <2>2 DEF StandsFor
    <3>2. Frame(p.block.name, p.target, p.block.requires) = frame(l)
      <4>1. chain[l] = leaf.chain[l]
        BY <1>1, <1>3
      <4> QED BY <1>2, <4>1
    <3>3. q.frames = Append(p.frames, frame(l))
      BY <1>6, <3>2 DEF Pending
    <3> HIDE DEF frame
    <3>4. l - 1 \in Nat
      BY <1>1
    <3>5. IsList(p.frames) /\ Len(p.frames) = l - 1
      <4> DEFINE s == p.frames
      <4>1. DOMAIN s = 1 .. l - 1 /\ s = [d \in 1 .. l - 1 |-> s[d]]
        BY <3>1
      <4> HIDE DEF s
      <4> QED BY <3>4, <4>1, ListOf DEF s
    <3> DEFINE more == Append(p.frames, frame(l))
    <3>6. /\ IsList(more) /\ Len(more) = l - 1 + 1 /\ more[l - 1 + 1] = frame(l)
          /\ \A d \in 1 .. l - 1 : more[d] = p.frames[d]
      BY <3>5, AppendIs
    <3> HIDE DEF more
    <3>7. \A d \in 1 .. l : more[d] = frame(d)
      <4>1. \A d \in 1 .. l - 1 : more[d] = frame(d)
        BY <3>1, <3>6
      <4>2. l - 1 + 1 = l /\ \A d \in 1 .. l : d = l \/ d \in 1 .. l - 1
        BY <1>1
      <4> QED BY <3>6, <4>1, <4>2
    <3>8. more = [d \in 1 .. l |-> more[d]]
      <4>1. Len(more) = l
        BY <1>1, <3>6
      <4> QED BY <3>6, <4>1 DEF IsList
    <3> QED BY <3>3, <3>7, <3>8 DEF more
  <2>4. /\ IsList(q.path) /\ Len(q.path) = Len(leaf.containers) + l
        /\ \A d \in 1 .. Len(leaf.containers) : q.path[d] = leaf.containers[d].name
        /\ \A d \in 1 .. l : q.path[Len(leaf.containers) + d] = chain[d].block.name
    <3>1. /\ IsList(p.path) /\ Len(p.path) = Len(leaf.containers) + (l - 1)
          /\ \A d \in 1 .. Len(leaf.containers) : p.path[d] = leaf.containers[d].name
          /\ \A d \in 1 .. l - 1 : p.path[Len(leaf.containers) + d] = leaf.chain[d].block.name
      BY DEF StandsFor, NamesChain
    <3>2. IsList(leaf.containers)
      BY DEF Rooted
    <3>3. Len(leaf.containers) \in Nat
      BY <3>2, ListIs
    <3> DEFINE path == Append(p.path, p.block.name)
    <3>4. q.path = path
      BY <1>6 DEF Pending
    <3>5. /\ IsList(path) /\ Len(path) = Len(p.path) + 1
          /\ path[Len(p.path) + 1] = p.block.name
          /\ \A d \in 1 .. Len(p.path) : path[d] = p.path[d]
      <4> DEFINE s == p.path
                 x == p.block.name
      <4>1. IsList(s)
        BY <3>1
      <4> HIDE DEF s, x
      <4>2. /\ IsList(Append(s, x)) /\ Len(Append(s, x)) = Len(s) + 1
            /\ Append(s, x)[Len(s) + 1] = x /\ \A d \in 1 .. Len(s) : Append(s, x)[d] = s[d]
        BY <4>1, AppendIs
      <4> QED BY <4>2 DEF s, x
    <3> HIDE DEF path
    <3>6. \A d \in 1 .. Len(leaf.containers) : d \in 1 .. Len(p.path)
      BY <1>1, <3>1, <3>3
    <3>7. ASSUME NEW d \in 1 .. l
          PROVE  path[Len(leaf.containers) + d] = chain[d].block.name
      <4>1. chain[d] = leaf.chain[d] /\ p.block = leaf.chain[l].block
        BY <1>2, <1>3
      <4>2. CASE d = l
        <5>1. Len(leaf.containers) + d = Len(p.path) + 1
          BY <1>1, <3>1, <3>3, <4>2
        <5> QED BY <3>5, <4>1, <4>2, <5>1
      <4>3. CASE d # l
        <5>1. d \in 1 .. l - 1 /\ Len(leaf.containers) + d \in 1 .. Len(p.path)
          BY <1>1, <3>1, <3>3, <4>3
        <5> QED BY <3>1, <3>5, <4>1, <5>1
      <4> QED BY <4>2, <4>3
    <3> QED BY <1>1, <3>1, <3>3, <3>4, <3>5, <3>6, <3>7
  <2>5. q.around = PassedOn(leaf.chain[l].block.concurrency, p.around)
    BY <1>2, <1>6 DEF Pending
  <2>6. IsNearest(q.around, chain, l)
    <3>1. IsNearest(p.around, leaf.chain, l - 1)
      BY DEF StandsFor
    <3> HIDE DEF l
    <3> QED BY <1>1, <1>3, <2>5, <3>1, NearestFurther
  <2>7. Len(chain) - 1 = l
    BY <1>1, <1>3
  <2> DEFINE m == Len(chain)
  <2>8. q.block = chain[m].block /\ q.target = chain[m].target
    <3> HIDE DEF body, link
    <3> QED BY <1>3, <1>8, <2>1
  <2>9. q.frames = [d \in 1 .. m - 1 |-> Frame(chain[d].block.name, chain[d].target,
                                               chain[d].block.requires)]
    BY <2>3, <2>7
  <2>10. Len(q.path) = Len(leaf.containers) + (m - 1) /\ NamesChain(q.path, further, m - 1)
    BY <1>7, <2>4, <2>7 DEF NamesChain
  <2>11. IsNearest(q.around, chain, m - 1)
    <3> HIDE DEF l, m
    <3> QED BY <2>6, <2>7 DEF m
  <2> HIDE DEF l, body, link
  <2> QED BY <1>7, <2>4, <2>8, <2>9, <2>10, <2>11 DEF StandsFor
<1> HIDE DEF l, body, link
<1>11. /\ further.chain[l + 1].target = Resolved(Target(body[i]), p.target.pkg)
       /\ further.chain[l + 1].block = body[i]
  BY <1>3, <1>7 DEF link, Link
<1> QED BY <1>3, <1>4, <1>6, <1>7, <1>9, <1>10, <1>11 DEF Further, l, body, further, q

TargetsOf(leaf) == [d \in 1 .. Len(leaf.chain) |-> leaf.chain[d].target]

\* What is still to be expanded, n levels down, ends a chain of n + 1
\* composites of which each invokes the next.
Deep(book, leaf, n) ==
  LET last == leaf.chain[Len(leaf.chain)]
  IN IsInvocation(book, last.block, last.target) =>
       /\ Len(leaf.chain) = n + 1
       /\ TargetsOf(leaf) \in Chains(book, leaf.chain[1].target)[n]

\* The chains of composites, without their local function.
LEMMA ChainsAre ==
  ASSUME NEW book, NEW ref
  PROVE  /\ Chains(book, ref)[0] = {<< ref >>}
         /\ \A n \in 0 .. MaxCompositeDepth :
              n # 0 => Chains(book, ref)[n] = Longer(book, Chains(book, ref)[n - 1])
<1> DEFINE f == Chains(book, ref)
<1>1. MaxCompositeDepth \in Nat
  BY DepthAssumption
<1>2. ChainsUpTo(f, book, ref, MaxCompositeDepth)
  <2>1. f = CHOOSE g : ChainsUpTo(g, book, ref, MaxCompositeDepth)
    BY DEF Chains, ChainsUpTo
  <2> HIDE DEF f
  <2> QED BY <1>1, <2>1, ChainsByStep
<1> HIDE DEF f
<1>3. f[0] = {<< ref >>} /\ \A n \in 0 .. MaxCompositeDepth : n # 0 => f[n] = Longer(book, f[n - 1])
  <2> DEFINE base == {<< ref >>}
  <2>1. f = [n \in 0 .. MaxCompositeDepth |-> IF n = 0 THEN base ELSE Longer(book, f[n - 1])]
    BY <1>2 DEF ChainsUpTo
  <2> HIDE DEF base
  <2>2. f[0] = base /\ \A n \in 0 .. MaxCompositeDepth : n # 0 => f[n] = Longer(book, f[n - 1])
    BY <1>1, <2>1
  <2> QED BY <2>2 DEF base
<1> QED BY <1>3 DEF f

\* What the links of a leaf name, as a list.
LEMMA TargetsIs ==
  ASSUME NEW leaf, IsList(leaf.chain)
  PROVE  /\ IsList(TargetsOf(leaf)) /\ Len(TargetsOf(leaf)) = Len(leaf.chain)
         /\ \A d \in 1 .. Len(leaf.chain) : TargetsOf(leaf)[d] = leaf.chain[d].target
<1> DEFINE s == TargetsOf(leaf)
<1>1. Len(leaf.chain) \in Nat
  BY ListIs
<1>2. DOMAIN s = 1 .. Len(leaf.chain) /\ \A d \in 1 .. Len(leaf.chain) : s[d] = leaf.chain[d].target
  BY DEF TargetsOf
<1>3. s = [d \in 1 .. Len(leaf.chain) |-> s[d]]
  BY DEF TargetsOf
<1> HIDE DEF s
<1>4. IsList(s) /\ Len(s) = Len(leaf.chain)
  BY <1>1, <1>2, <1>3, ListOf
<1> QED BY <1>2, <1>4 DEF s

\* One more composite in the chain.
LEMMA Deeper ==
  ASSUME NEW book, NEW n \in Nat, n + 1 \in 0 .. MaxCompositeDepth,
         NEW leaf, IsList(leaf.chain), Len(leaf.chain) = n + 1,
         NEW further, IsList(further.chain), Len(further.chain) = n + 2,
         \A d \in 1 .. n + 1 : further.chain[d] = leaf.chain[d],
         TargetsOf(leaf) \in Chains(book, leaf.chain[1].target)[n],
         further.chain[n + 2].target \in InvokedBy(book, leaf.chain[n + 1].target)
  PROVE  TargetsOf(further) \in Chains(book, further.chain[1].target)[n + 1]
<1> DEFINE s == TargetsOf(leaf)  t == TargetsOf(further)  new == further.chain[n + 2].target
           ref == leaf.chain[1].target
<1>1. /\ IsList(s) /\ Len(s) = n + 1 /\ \A d \in 1 .. n + 1 : s[d] = leaf.chain[d].target
      /\ IsList(t) /\ Len(t) = n + 2 /\ \A d \in 1 .. n + 2 : t[d] = further.chain[d].target
  BY TargetsIs
<1>2. further.chain[1] = leaf.chain[1] /\ n + 1 \in 1 .. n + 1 /\ n + 2 \in 1 .. n + 2
  OBVIOUS
<1> HIDE DEF s, t
<1>3. t = Append(s, new)
  <2> DEFINE u == Append(s, new)
  <2>1. /\ IsList(u) /\ Len(u) = n + 1 + 1 /\ u[n + 1 + 1] = new
        /\ \A d \in 1 .. n + 1 : u[d] = s[d]
    BY <1>1, AppendIs
  <2>2. n + 1 + 1 = n + 2
    OBVIOUS
  <2>3. t[n + 2] = new
    BY <1>1, <1>2
  <2> HIDE DEF u, new
  <2>4. \A d \in 1 .. n + 2 : t[d] = u[d]
    <3>1. ASSUME NEW d \in 1 .. n + 1 PROVE t[d] = u[d]
      <4>1. d \in 1 .. n + 2 /\ further.chain[d] = leaf.chain[d]
        OBVIOUS
      <4> QED BY <1>1, <2>1, <4>1
    <3>2. \A d \in 1 .. n + 2 : d = n + 2 \/ d \in 1 .. n + 1
      OBVIOUS
    <3> QED BY <2>1, <2>2, <2>3, <3>1, <3>2
  <2>5. Len(t) = Len(u) /\ \A d \in 1 .. Len(t) : t[d] = u[d]
    BY <1>1, <2>1, <2>2, <2>4
  <2>6. t = u
    BY <1>1, <2>1, <2>5, ListsEqual
  <2> QED BY <2>6 DEF u
<1>4. Last(s) = leaf.chain[n + 1].target
  BY <1>1, <1>2 DEF Last
<1>5. n + 1 # 0 /\ n + 1 - 1 = n
  OBVIOUS
<1>6. Chains(book, ref)[n + 1] = Longer(book, Chains(book, ref)[n])
  BY <1>5, ChainsAre
<1>7. s \in Chains(book, ref)[n]
  BY DEF s
<1> HIDE DEF ref, new
<1>8. t \in Longer(book, Chains(book, ref)[n])
  BY <1>3, <1>4, <1>7 DEF Longer, new
<1> QED BY <1>2, <1>6, <1>8 DEF ref, t

\* Two leaves are different where they part.
Part(a, b) == \E d \in 1 .. Len(a.chain) : PartAt(a, b, d)

InStep(book, rows, ps, leaves, n) ==
  /\ IsList(ps) /\ IsList(leaves) /\ DOMAIN ps = DOMAIN leaves
  /\ \A i \in DOMAIN ps :
       Rooted(book, rows, leaves[i]) /\ StandsFor(ps[i], leaves[i]) /\ Deep(book, leaves[i], n)
  /\ \A i, j \in DOMAIN ps : i # j => Part(leaves[i], leaves[j])

\* Going on from two leaves that part, one comes to leaves that part.
LEMMA PartFurther ==
  ASSUME NEW a, NEW b, IsList(a.chain), IsList(b.chain), Part(a, b),
         NEW c, Len(c.chain) \in Nat, Len(c.chain) >= Len(a.chain),
         \A e \in 1 .. Len(a.chain) : c.chain[e] = a.chain[e],
         NEW d, Len(d.chain) \in Nat, Len(d.chain) >= Len(b.chain),
         \A e \in 1 .. Len(b.chain) : d.chain[e] = b.chain[e]
  PROVE  Part(c, d)
<1>1. PICK e \in 1 .. Len(a.chain) : PartAt(a, b, e)
  BY DEF Part
<1>2. Len(a.chain) \in Nat /\ Len(b.chain) \in Nat
  BY ListIs
<1>3. /\ e \in 1 .. Len(b.chain) /\ e \in 1 .. Len(c.chain)
      /\ e <= Len(c.chain) /\ e <= Len(d.chain)
      /\ \A k \in 1 .. e - 1 : k \in 1 .. Len(a.chain) /\ k \in 1 .. Len(b.chain)
  BY <1>1, <1>2 DEF PartAt
<1>4. c.chain[e].at # d.chain[e].at
  BY <1>1, <1>3 DEF PartAt
<1>5. ASSUME NEW k \in 1 .. e - 1 PROVE c.chain[k].at = d.chain[k].at
  BY <1>1, <1>3 DEF PartAt
<1>6. PartAt(c, d, e)
  BY <1>3, <1>4, <1>5 DEF PartAt
<1> QED BY <1>3, <1>6 DEF Part

\* Two blocks of one body part at the body.
LEMMA PartThere ==
  ASSUME NEW c, NEW d, NEW l \in Nat, Len(c.chain) = l + 1, Len(d.chain) = l + 1,
         \A e \in 1 .. l : c.chain[e] = d.chain[e],
         c.chain[l + 1].at # d.chain[l + 1].at
  PROVE  Part(c, d)
<1>1. PICK e \in 1 .. l + 1 : e = l + 1
  OBVIOUS
<1>2. e <= l + 1 /\ \A k \in 1 .. e - 1 : k \in 1 .. l
  BY <1>1
<1>3. c.chain[e].at # d.chain[e].at
  BY <1>1
<1>4. \A k \in 1 .. e - 1 : c.chain[k].at = d.chain[k].at
  BY <1>2
<1>5. PartAt(c, d, e)
  BY <1>2, <1>3, <1>4 DEF PartAt
<1> QED BY <1>1, <1>5 DEF Part

\* One more level is expanded for the loader and for the author.
LEMMA StaysInStep ==
  ASSUME NEW book, BodiesAreLists(book),
         NEW rows, \A j \in DOMAIN rows : IsList(rows[j].within),
         NEW n \in Nat, n + 1 \in 0 .. MaxCompositeDepth,
         NEW ps, NEW leaves, InStep(book, rows, ps, leaves, n)
  PROVE  InStep(book, rows, ExpandOnce(book, ps), GoOnOnce(book, leaves), n + 1)
<1> DEFINE invokes(i) == IsInvocation(book, ps[i].block, ps[i].target)
           body(i) == Declared(book, "composites", ps[i].target).steps
           ss == [i \in DOMAIN ps |-> IF invokes(i) THEN BodyOf(book, ps[i]) ELSE << ps[i] >>]
           tt == [i \in DOMAIN leaves |-> GoOn(book, leaves[i])]
<1>1. ExpandOnce(book, ps) = FlattenSeq(ss) /\ GoOnOnce(book, leaves) = FlattenSeq(tt)
  BY DEF ExpandOnce, GoOnOnce
<1>2. /\ IsList(ps) /\ IsList(leaves) /\ DOMAIN ps = DOMAIN leaves
      /\ \A i \in DOMAIN ps :
           Rooted(book, rows, leaves[i]) /\ StandsFor(ps[i], leaves[i]) /\ Deep(book, leaves[i], n)
      /\ \A i, j \in DOMAIN ps : i # j => Part(leaves[i], leaves[j])
  BY DEF InStep
<1>3. ASSUME NEW i \in DOMAIN ps
      PROVE  /\ Last(leaves[i].chain).block = ps[i].block
             /\ Last(leaves[i].chain).target = ps[i].target
             /\ Last(leaves[i].chain) = leaves[i].chain[Len(leaves[i].chain)]
             /\ IsList(leaves[i].chain) /\ Len(leaves[i].chain) \in Nat
  BY <1>2, ListIs DEF StandsFor, Rooted, Last
<1>4. ASSUME NEW i \in DOMAIN ps, ~invokes(i)
      PROVE  ss[i] = << ps[i] >> /\ tt[i] = << leaves[i] >>
  BY <1>2, <1>3, <1>4 DEF GoOn
<1>5. ASSUME NEW i \in DOMAIN ps, invokes(i)
      PROVE  /\ ss[i] = BodyOf(book, ps[i]) /\ tt[i] = GoOn(book, leaves[i])
             /\ IsList(body(i)) /\ IsList(ss[i]) /\ IsList(tt[i])
             /\ DOMAIN ss[i] = DOMAIN body(i) /\ DOMAIN tt[i] = DOMAIN body(i)
  <2>1. ss[i] = BodyOf(book, ps[i]) /\ tt[i] = GoOn(book, leaves[i])
    BY <1>2, <1>5
  <2>2. IsList(body(i))
    BY <1>5 DEF BodiesAreLists, IsInvocation
  <2>3. Len(body(i)) \in Nat /\ DOMAIN body(i) = 1 .. Len(body(i))
    BY <2>2, ListIs
  <2> DEFINE a == BodyOf(book, ps[i])  b == GoOn(book, leaves[i])  m == Len(body(i))
  <2>4. DOMAIN a = 1 .. m /\ a = [j \in 1 .. m |-> a[j]]
    BY <2>3 DEF BodyOf
  <2>5. DOMAIN b = 1 .. m /\ b = [j \in 1 .. m |-> b[j]]
    BY <1>3, <1>5, <2>3 DEF GoOn
  <2> HIDE DEF a, b
  <2>6. IsList(a) /\ IsList(b)
    BY <2>3, <2>4, <2>5, ListOf
  <2> QED BY <2>1, <2>2, <2>3, <2>4, <2>5, <2>6 DEF a, b
<1>6. DOMAIN ss = DOMAIN ps /\ DOMAIN tt = DOMAIN ps
  BY <1>2
<1>7. IsList(ss) /\ IsList(tt)
  <2>1. Len(ps) \in Nat /\ DOMAIN ps = 1 .. Len(ps)
    BY <1>2, ListIs
  <2>2. ss = [i \in 1 .. Len(ps) |-> ss[i]] /\ tt = [i \in 1 .. Len(ps) |-> tt[i]]
    BY <1>2, <2>1
  <2> HIDE DEF ss, tt
  <2> QED BY <1>6, <2>1, <2>2, ListOf
<1> HIDE DEF ss, tt
<1>8. SameShape(ss, tt)
  <2>1. ASSUME NEW i \in DOMAIN ps
        PROVE  IsList(ss[i]) /\ IsList(tt[i]) /\ Len(ss[i]) = Len(tt[i])
    <3>1. CASE invokes(i)
      <4>1. IsList(ss[i]) /\ IsList(tt[i]) /\ DOMAIN ss[i] = DOMAIN tt[i]
        BY <1>5, <3>1
      <4> QED BY <4>1, SameLen
    <3>2. CASE ~invokes(i)
      <4>1. ss[i] = << ps[i] >> /\ tt[i] = << leaves[i] >>
        BY <1>4, <3>2
      <4>2. /\ IsList(<< ps[i] >>) /\ Len(<< ps[i] >>) = 1
            /\ IsList(<< leaves[i] >>) /\ Len(<< leaves[i] >>) = 1
        BY SingleIs
      <4> QED BY <4>1, <4>2
    <3> QED BY <3>1, <3>2
  <2> HIDE DEF invokes
  <2> QED BY <1>6, <1>7, <2>1 DEF SameShape, ListOfLists
<1> DEFINE qs == FlattenSeq(ss)  more == FlattenSeq(tt)
<1>9. IsList(qs) /\ IsList(more) /\ DOMAIN qs = DOMAIN more
  BY <1>8, FlattenBoth
<1>10. ASSUME NEW k \in DOMAIN qs
       PROVE  /\ Rooted(book, rows, more[k]) /\ StandsFor(qs[k], more[k])
              /\ Deep(book, more[k], n + 1)
  <2>1. \E i \in DOMAIN ss : \E j \in DOMAIN ss[i] : qs[k] = ss[i][j] /\ more[k] = tt[i][j]
    BY <1>8, FlattenBoth
  <2> HIDE DEF qs, more
  <2>2. PICK i \in DOMAIN ps : \E j \in DOMAIN ss[i] : qs[k] = ss[i][j] /\ more[k] = tt[i][j]
    BY <1>6, <2>1
  <2>3. PICK j \in DOMAIN ss[i] : qs[k] = ss[i][j] /\ more[k] = tt[i][j]
    BY <2>2
  <2>4. CASE ~invokes(i)
    <3>1. ss[i] = << ps[i] >> /\ tt[i] = << leaves[i] >>
      BY <1>4, <2>4
    <3>2. qs[k] = ps[i] /\ more[k] = leaves[i]
      BY <2>3, <3>1
    <3>3. Deep(book, leaves[i], n + 1)
      BY <1>3, <2>4 DEF Deep
    <3> QED BY <1>2, <3>2, <3>3
  <2>5. CASE invokes(i)
    <3> DEFINE leaf == leaves[i]  p == ps[i]
    <3>1. /\ Rooted(book, rows, leaf) /\ StandsFor(p, leaf)
          /\ IsInvocation(book, p.block, p.target)
      BY <1>2, <2>5
    <3>2. /\ j \in DOMAIN Declared(book, "composites", p.target).steps
          /\ qs[k] = BodyOf(book, p)[j] /\ more[k] = GoOn(book, leaf)[j]
      BY <1>5, <2>3, <2>5
    <3>3. /\ Deep(book, leaf, n) /\ leaf.chain[Len(leaf.chain)].target = p.target
          /\ leaf.chain[Len(leaf.chain)].block = p.block /\ IsList(leaf.chain)
      BY <1>2, <1>3
    <3> HIDE DEF leaf, p
    <3> DEFINE further == GoOn(book, leaf)[j]  ref == p.target
               block == Declared(book, "composites", ref).steps[j]
    <3>4. /\ Rooted(book, rows, further) /\ StandsFor(BodyOf(book, p)[j], further)
          /\ Len(further.chain) = Len(leaf.chain) + 1
          /\ \A d \in 1 .. Len(leaf.chain) : further.chain[d] = leaf.chain[d]
          /\ further.chain[Len(leaf.chain) + 1].target = Resolved(Target(block), ref.pkg)
          /\ further.chain[Len(leaf.chain) + 1].block = block
      <4>1. Further(book, rows, leaf, p, j)
        BY <3>1, <3>2, GoneOn
      <4> QED BY <4>1 DEF Further
    <3>5. IsList(further.chain)
      BY <3>4 DEF Rooted
    <3> HIDE DEF further
    <3>8. /\ Len(leaf.chain) = n + 1 /\ leaf.chain[n + 1].target = ref
          /\ TargetsOf(leaf) \in Chains(book, leaf.chain[1].target)[n]
      BY <3>1, <3>3 DEF Deep
    <3>9. n + 1 + 1 = n + 2 /\ Len(further.chain) = n + 2
      BY <3>4, <3>8
    <3>6. ASSUME IsInvocation(book, block, Resolved(Target(block), ref.pkg))
          PROVE  Resolved(Target(block), ref.pkg) \in InvokedBy(book, ref)
      BY <3>1, <3>2, <3>6 DEF InvokedBy, IsInvocation
    <3> HIDE DEF block, ref
    <3>7. Deep(book, further, n + 1)
      <4> SUFFICES ASSUME IsInvocation(book, further.chain[n + 2].block,
                                       further.chain[n + 2].target)
                   PROVE  TargetsOf(further) \in Chains(book, further.chain[1].target)[n + 1]
        BY <3>9 DEF Deep
      <4>1. further.chain[n + 2].block = block
            /\ further.chain[n + 2].target = Resolved(Target(block), ref.pkg)
        BY <3>4, <3>8, <3>9
      <4>2. further.chain[n + 2].target \in InvokedBy(book, leaf.chain[n + 1].target)
        BY <3>6, <3>8, <4>1
      <4>3. \A d \in 1 .. n + 1 : further.chain[d] = leaf.chain[d]
        BY <3>4, <3>8
      <4> QED BY <3>3, <3>5, <3>8, <3>9, <4>2, <4>3, Deeper
    <3> QED BY <3>2, <3>4, <3>7 DEF further
  <2> QED BY <2>4, <2>5
<1>11. ASSUME NEW i \in DOMAIN ps, NEW x \in DOMAIN tt[i]
       PROVE  /\ IsList(leaves[i].chain) /\ Len(tt[i][x].chain) \in Nat
              /\ Len(tt[i][x].chain) >= Len(leaves[i].chain)
              /\ \A e \in 1 .. Len(leaves[i].chain) : tt[i][x].chain[e] = leaves[i].chain[e]
              /\ invokes(i) => /\ Len(tt[i][x].chain) = Len(leaves[i].chain) + 1
                               /\ tt[i][x].chain[Len(leaves[i].chain) + 1].at = x
              /\ ~invokes(i) => x = 1
  <2> DEFINE leaf == leaves[i]  p == ps[i]  further == tt[i][x]
  <2>1. IsList(leaf.chain) /\ Len(leaf.chain) \in Nat
    BY <1>3
  <2>2. CASE ~invokes(i)
    <3>1. tt[i] = << leaf >>
      BY <1>4, <2>2
    <3>2. x = 1 /\ further = leaf
      BY <3>1, SingleIs
    <3> HIDE DEF further, leaf
    <3>3. Len(leaf.chain) >= Len(leaf.chain)
      BY <2>1
    <3> QED BY <2>1, <2>2, <3>2, <3>3 DEF further, leaf
  <2>3. CASE invokes(i)
    <3>1. /\ Rooted(book, rows, leaf) /\ tt[i] = GoOn(book, leaf)
          /\ DOMAIN tt[i] = DOMAIN body(i)
      BY <1>2, <1>5, <2>3
    <3>2. /\ IsInvocation(book, Last(leaf.chain).block, Last(leaf.chain).target)
          /\ Last(leaf.chain).target = p.target
      BY <1>3, <2>3
    <3> DEFINE link == Link(x, body(i)[x], Resolved(Target(body(i)[x]), p.target.pkg))
               chain == Append(leaf.chain, link)
    <3>3. further = [leaf EXCEPT !.chain = chain]
      BY <3>1, <3>2 DEF GoOn
    <3>4. /\ IsList(chain) /\ Len(chain) = Len(leaf.chain) + 1
          /\ chain[Len(leaf.chain) + 1] = link
          /\ \A e \in 1 .. Len(leaf.chain) : chain[e] = leaf.chain[e]
      BY <2>1, AppendIs
    <3>5. link.at = x
      BY DEF Link
    <3> HIDE DEF chain, link, leaf, further
    <3>6. further.chain = chain
      BY <3>1, <3>3 DEF Rooted
    <3>7. Len(leaf.chain) + 1 \in Nat /\ Len(leaf.chain) + 1 >= Len(leaf.chain)
      BY <2>1
    <3> QED BY <2>1, <2>3, <3>4, <3>5, <3>6, <3>7 DEF leaf, further
  <2> QED BY <2>2, <2>3
<1>12. ASSUME NEW j \in DOMAIN qs, NEW k \in DOMAIN qs, j # k
       PROVE  Part(more[j], more[k])
  <2>1. SameShape(tt, tt) /\ IsList(tt)
    BY <1>8 DEF SameShape, ListOfLists
  <2>2. PICK at : ComesFrom(more, at, tt, Len(tt))
    BY <2>1, FlattenAlike
  <2> HIDE DEF qs, more, invokes, body
  <2>3. DOMAIN more = 1 .. Len(more) /\ DOMAIN tt = 1 .. Len(tt)
    BY <1>9, <2>1, ListIs
  <2>4. \A i \in DOMAIN tt : DOMAIN tt[i] = 1 .. Len(tt[i])
    BY <1>8, ListIs DEF SameShape, ListOfLists
  <2>5. /\ at[j] # at[k] /\ at[j] \in Places(tt, Len(tt)) /\ at[k] \in Places(tt, Len(tt))
        /\ more[j] = tt[at[j][1]][at[j][2]] /\ more[k] = tt[at[k][1]][at[k][2]]
    BY <1>9, <1>12, <2>2, <2>3 DEF ComesFrom
  <2> DEFINE Standing(p) == \E i \in DOMAIN ps : \E x \in DOMAIN tt[i] : p = << i, x >>
  <2>6. ASSUME NEW p \in Places(tt, Len(tt)) PROVE Standing(p)
    <3>1. p = << p[1], p[2] >> /\ p[1] \in DOMAIN ps /\ p[2] \in DOMAIN tt[p[1]]
      BY <1>6, <2>3, <2>4 DEF Places
    <3> QED BY <3>1
  <2>7. Standing(at[j]) /\ Standing(at[k])
    BY <2>5, <2>6
  <2>8. PICK i1 \in DOMAIN ps : \E x \in DOMAIN tt[i1] : at[j] = << i1, x >>
    BY <2>7
  <2>9. PICK x1 \in DOMAIN tt[i1] : at[j] = << i1, x1 >>
    BY <2>8
  <2>10. PICK i2 \in DOMAIN ps : \E x \in DOMAIN tt[i2] : at[k] = << i2, x >>
    BY <2>7
  <2>11. PICK x2 \in DOMAIN tt[i2] : at[k] = << i2, x2 >>
    BY <2>10
  <2>12. more[j] = tt[i1][x1] /\ more[k] = tt[i2][x2] /\ (i1 = i2 => x1 # x2)
    BY <2>5, <2>9, <2>11
  <2>13. CASE i1 # i2
    <3> DEFINE a == leaves[i1]  b == leaves[i2]  c == tt[i1][x1]  d == tt[i2][x2]
    <3>1. Part(a, b)
      BY <1>2, <2>13
    <3>2. /\ IsList(a.chain) /\ Len(c.chain) \in Nat /\ Len(c.chain) >= Len(a.chain)
          /\ \A e \in 1 .. Len(a.chain) : c.chain[e] = a.chain[e]
      BY <1>11
    <3>3. /\ IsList(b.chain) /\ Len(d.chain) \in Nat /\ Len(d.chain) >= Len(b.chain)
          /\ \A e \in 1 .. Len(b.chain) : d.chain[e] = b.chain[e]
      BY <1>11
    <3> HIDE DEF a, b, c, d
    <3>4. Part(c, d)
      BY <3>1, <3>2, <3>3, PartFurther
    <3> QED BY <2>12, <3>4 DEF c, d
  <2>14. CASE i1 = i2
    <3> DEFINE l == Len(leaves[i1].chain)  c == tt[i1][x1]  d == tt[i1][x2]
    <3>1. x1 # x2 /\ x2 \in DOMAIN tt[i1]
      BY <2>12, <2>14
    <3>2. invokes(i1)
      <4>1. ~invokes(i1) => x1 = 1
        BY <1>11
      <4>2. ~invokes(i1) => x2 = 1
        BY <1>11, <3>1
      <4> QED BY <3>1, <4>1, <4>2
    <3>3. /\ IsList(leaves[i1].chain) /\ Len(c.chain) = l + 1 /\ c.chain[l + 1].at = x1
          /\ \A e \in 1 .. l : c.chain[e] = leaves[i1].chain[e]
      BY <1>11, <3>2
    <3>4. /\ Len(d.chain) = l + 1 /\ d.chain[l + 1].at = x2
          /\ \A e \in 1 .. l : d.chain[e] = leaves[i1].chain[e]
      BY <1>11, <3>1, <3>2
    <3>5. l \in Nat
      BY <3>3, ListIs
    <3> HIDE DEF c, d, l
    <3>6. c.chain[l + 1].at # d.chain[l + 1].at /\ \A e \in 1 .. l : c.chain[e] = d.chain[e]
      BY <3>1, <3>3, <3>4
    <3>7. Part(c, d)
      <4>1. Len(c.chain) = l + 1 /\ Len(d.chain) = l + 1
        BY <3>3, <3>4
      <4> QED BY <3>5, <3>6, <4>1, PartThere, Zenon
    <3> QED BY <2>12, <2>14, <3>7 DEF c, d
  <2> QED BY <2>13, <2>14
<1> HIDE DEF qs, more
<1> QED BY <1>1, <1>9, <1>10, <1>12 DEF InStep, qs, more

\* The steps of a play as the loader has them, and its leaves as the author
\* sees them, correspond one to one.
LEMMA LoadedInStep ==
  ASSUME NEW book, BodiesAreLists(book), NEW written, PlayIsTree(written.items)
  PROVE  InStep(book, StepRows(written.items), LoadItems(book, written.items),
                Leaves(book, written), MaxCompositeDepth)
<1> DEFINE rows == StepRows(written.items)
           target(i) == Target(rows[i].block)
           top == [i \in DOMAIN rows |->
                     Pending(rows[i].block, Target(rows[i].block), PathOf(rows[i]), << >>, NoClass)]
           first == [i \in DOMAIN rows |->
                       [containers |-> rows[i].within,
                        chain |-> << Link(i, rows[i].block, Target(rows[i].block)) >>]]
           f == Expansion(book, top)
           g == CHOOSE g : BelowUpTo(g, book, first, MaxCompositeDepth)
           Wrong == {n \in 0 .. MaxCompositeDepth : ~InStep(book, rows, f[n], g[n], n)}
<1>1. MaxCompositeDepth \in Nat
  BY DepthAssumption
<1>2. IsList(rows) /\ \A i \in DOMAIN rows : IsList(rows[i].within)
  <2>1. RowsSound(PlayBlocks(written.items))
    BY RowsOfPlay
  <2> QED BY <2>1, StepRowsAre DEF RowsSound
<1>3. LoadItems(book, written.items) = f[MaxCompositeDepth]
  BY DEF LoadItems
<1>4. Leaves(book, written) = g[MaxCompositeDepth]
  BY DEF Leaves, Below, BelowUpTo
<1>5. ExpansionUpTo(f, book, top, MaxCompositeDepth)
  <2>1. f = CHOOSE h : ExpansionUpTo(h, book, top, MaxCompositeDepth)
    BY DEF Expansion, ExpansionUpTo
  <2> HIDE DEF f, top
  <2> QED BY <1>1, <2>1, ExpansionByStep
<1>6. BelowUpTo(g, book, first, MaxCompositeDepth)
  <2> HIDE DEF first
  <2> QED BY <1>1, BelowByStep
<1> HIDE DEF f, g, rows
<1>7. /\ f[0] = top /\ g[0] = first
      /\ \A n \in 0 .. MaxCompositeDepth :
           n # 0 => f[n] = ExpandOnce(book, f[n - 1]) /\ g[n] = GoOnOnce(book, g[n - 1])
  <2> HIDE DEF top, first
  <2> QED BY <1>1, <1>5, <1>6 DEF ExpansionUpTo, BelowUpTo
<1>8. InStep(book, rows, top, first, 0)
  <2>1. /\ Len(rows) \in Nat /\ DOMAIN rows = 1 .. Len(rows)
        /\ DOMAIN top = DOMAIN rows /\ DOMAIN first = DOMAIN rows
    BY <1>2, ListIs
  <2>2. top = [i \in 1 .. Len(rows) |-> top[i]] /\ first = [i \in 1 .. Len(rows) |-> first[i]]
    BY <2>1
  <2>3. IsList(top) /\ IsList(first)
    <3> HIDE DEF top, first
    <3> QED BY <2>1, <2>2, ListOf
  <2>4. ASSUME NEW i \in DOMAIN rows
        PROVE  /\ Rooted(book, rows, first[i]) /\ StandsFor(top[i], first[i])
               /\ Deep(book, first[i], 0)
    <3> DEFINE link == Link(i, rows[i].block, target(i))
               leaf == first[i]
               p == top[i]
               w == rows[i].within
    <3>1. leaf.containers = w /\ leaf.chain = << link >>
      OBVIOUS
    <3>2. leaf = [containers |-> leaf.containers, chain |-> leaf.chain]
      OBVIOUS
    <3>3. /\ p.block = rows[i].block /\ p.target = target(i) /\ p.path = PathOf(rows[i])
          /\ p.frames = << >> /\ p.around = NoClass
      BY DEF Pending
    <3>4. link.block = rows[i].block /\ link.target = target(i)
      BY DEF Link
    <3>5. IsList(w) /\ Len(w) \in Nat /\ DOMAIN w = 1 .. Len(w)
      BY <1>2, ListIs
    <3> DEFINE path == PathOf(rows[i])
    <3>6. DOMAIN path = 1 .. Len(w) /\ path = [d \in 1 .. Len(w) |-> path[d]]
      BY <3>5 DEF PathOf
    <3>7. \A d \in 1 .. Len(w) : path[d] = w[d].name
      BY <3>5 DEF PathOf
    <3> HIDE DEF path, leaf, p, link, w, target
    <3>8. IsList(path) /\ Len(path) = Len(w)
      BY <3>5, <3>6, ListOf
    <3>9. IsList(<< link >>) /\ Len(<< link >>) = 1 /\ << link >>[1] = link
      BY SingleIs
    <3>10. Rooted(book, rows, leaf)
      <4>1. leaf.containers = rows[i].within
            /\ leaf.chain[1] = Link(i, rows[i].block, Target(rows[i].block))
        BY <3>1, <3>9 DEF w, link, target
      <4>2. 1 .. Len(leaf.chain) - 1 = {} /\ IsList(leaf.chain) /\ Len(leaf.chain) # 0
        BY <3>1, <3>9
      <4> QED BY <3>2, <4>1, <4>2 DEF Rooted
    <3>11. StandsFor(p, leaf)
      <4>1. Len(leaf.chain) = 1 /\ leaf.chain[1] = link
        BY <3>1, <3>9
      <4>2. Len(p.path) = Len(leaf.containers) + (1 - 1)
        BY <3>1, <3>3, <3>5, <3>8 DEF path
      <4>3. << >> = [d \in 1 .. 1 - 1 |-> Frame(leaf.chain[d].block.name, leaf.chain[d].target,
                                               leaf.chain[d].block.requires)]
        OBVIOUS
      <4>4. \A d \in 1 .. Len(leaf.containers) : p.path[d] = leaf.containers[d].name
        BY <3>1, <3>3, <3>7 DEF path
      <4>5. NamesChain(p.path, leaf, Len(leaf.chain) - 1)
        BY <4>1 DEF NamesChain
      <4>6. IsNearest(p.around, leaf.chain, Len(leaf.chain) - 1)
        BY <3>3, <4>1 DEF IsNearest
      <4> QED BY <3>3, <3>4, <3>8, <4>1, <4>2, <4>3, <4>4, <4>5, <4>6 DEF StandsFor, path
    <3>12. Deep(book, leaf, 0)
      <4>1. Len(leaf.chain) = 1 /\ leaf.chain[1] = link /\ IsList(leaf.chain)
        BY <3>1, <3>9
      <4>2. TargetsOf(leaf) = << link.target >>
        BY <4>1 DEF TargetsOf
      <4>3. Chains(book, link.target)[0] = {<< link.target >>}
        BY ChainsAre
      <4> QED BY <4>1, <4>2, <4>3 DEF Deep
    <3> QED BY <3>10, <3>11, <3>12 DEF leaf, p
  <2>5. ASSUME NEW i \in DOMAIN rows, NEW j \in DOMAIN rows, i # j
        PROVE  Part(first[i], first[j])
    <3> DEFINE a == first[i]  b == first[j]
               s == Link(i, rows[i].block, target(i))  t == Link(j, rows[j].block, target(j))
    <3>1. a.chain = << s >> /\ b.chain = << t >>
      OBVIOUS
    <3>2. s.at = i /\ t.at = j
      BY DEF Link
    <3> HIDE DEF a, b, s, t
    <3>3. /\ Len(a.chain) = 0 + 1 /\ a.chain[0 + 1] = s
          /\ Len(b.chain) = 0 + 1 /\ b.chain[0 + 1] = t
      BY <3>1, SingleIs
    <3>4. \A e \in 1 .. 0 : a.chain[e] = b.chain[e]
      OBVIOUS
    <3>5. Part(a, b)
      BY <2>5, <3>2, <3>3, <3>4, PartThere
    <3> QED BY <3>5 DEF a, b
  <2> HIDE DEF top, first
  <2> QED BY <2>1, <2>3, <2>4, <2>5 DEF InStep
<1>9. Wrong = {}
  <2> HIDE DEF top, first
  <2> SUFFICES ASSUME Wrong # {} PROVE FALSE
    OBVIOUS
  <2>1. PICK n \in Wrong : \A m \in Wrong : ~(m < n)
    <3>1. Wrong \in SUBSET Nat
      OBVIOUS
    <3> HIDE DEF Wrong
    <3> QED BY <3>1, LeastOf
  <2>2. n \in 0 .. MaxCompositeDepth /\ ~InStep(book, rows, f[n], g[n], n) /\ n # 0
    BY <1>7, <1>8, <2>1
  <2>3. n - 1 \in 0 .. MaxCompositeDepth /\ n - 1 < n /\ n - 1 \in Nat /\ n - 1 + 1 = n
    BY <1>1, <2>2
  <2>4. InStep(book, rows, f[n - 1], g[n - 1], n - 1)
    BY <2>1, <2>3
  <2>5. InStep(book, rows, ExpandOnce(book, f[n - 1]), GoOnOnce(book, g[n - 1]), n - 1 + 1)
    <3> DEFINE k == n - 1
    <3>1. k \in Nat /\ k + 1 \in 0 .. MaxCompositeDepth /\ InStep(book, rows, f[k], g[k], k)
      BY <2>2, <2>3, <2>4
    <3> HIDE DEF k
    <3>2. InStep(book, rows, ExpandOnce(book, f[k]), GoOnOnce(book, g[k]), k + 1)
      BY <1>2, <3>1, StaysInStep
    <3> QED BY <3>2 DEF k
  <2> QED BY <1>7, <2>2, <2>3, <2>5
<1>10. InStep(book, rows, f[MaxCompositeDepth], g[MaxCompositeDepth], MaxCompositeDepth)
  <2>1. MaxCompositeDepth \in 0 .. MaxCompositeDepth
    BY <1>1
  <2> QED BY <1>9, <2>1
<1> QED BY <1>3, <1>4, <1>10 DEF rows

(* ------------------------------------------- what an accepted playbook has *)

\* A name that is used is the name of a block.
LEMMA TheIs ==
  ASSUME NEW blocks, NEW n \in NamesOf(blocks)
  PROVE  \E i \in DOMAIN blocks : blocks[i].name = n /\ The(blocks, n) = blocks[i]
<1> DEFINE c == CHOOSE i \in DOMAIN blocks : blocks[i].name = n
<1>1. \E i \in DOMAIN blocks : blocks[i].name = n
  BY DEF NamesOf
<1>2. c \in DOMAIN blocks /\ blocks[c].name = n
  BY <1>1
<1>3. The(blocks, n) = blocks[c]
  BY DEF The
<1> HIDE DEF c
<1> QED BY <1>2, <1>3

\* The tables the loader makes of a playbook.
LEMMA TablesAre ==
  ASSUME NEW d
  PROVE  LET book == LoadPlaybook(d)
         IN /\ book.composites
               = [n \in NamesOf(d.composites) |-> LoadComposite(The(d.composites, n))]
            /\ book.probes = [n \in NamesOf(d.probes) |-> LoadProbe(The(d.probes, n))]
            /\ book.packages = [n \in NamesOf(d.packages) |-> LoadPackage(The(d.packages, n))]
            /\ book["composites"] = book.composites /\ book["probes"] = book.probes
BY DEF LoadPlaybook, ByName

Table(package, kind) == package[kind]

\* The tables the loader makes of a package.
LEMMA PackageTablesAre ==
  ASSUME NEW d
  PROVE  /\ Table(LoadPackage(d), "resources")
              = [n \in NamesOf(d.resources) |-> LoadResource(The(d.resources, n))]
         /\ DOMAIN Table(LoadPackage(d), "gatherers") = NamesOf(d.gatherers)
         /\ Table(LoadPackage(d), "composites")
              = [n \in NamesOf(d.composites) |-> LoadComposite(The(d.composites, n))]
         /\ DOMAIN Table(LoadPackage(d), "probes") = NamesOf(d.probes)
BY DEF LoadPackage, ByName, Table

\* What a package declares is a block of it.
DeclaredBy(d, kind, ref, i) ==
  /\ d.packages[i].name = ref.pkg
  /\ ref.name \in DOMAIN Table(LoadPackage(d.packages[i]), kind)
  /\ Declared(LoadPlaybook(d), kind, ref) = Table(LoadPackage(d.packages[i]), kind)[ref.name]

\* What is declared under a package's name is a block of that package.
LEMMA DeclaredInPackage ==
  ASSUME NEW d, NEW kind, NEW ref, ref.pkg # "", Declares(LoadPlaybook(d), kind, ref)
  PROVE  \E i \in DOMAIN d.packages : DeclaredBy(d, kind, ref, i)
<1> DEFINE book == LoadPlaybook(d)
<1>1. ref.pkg \in DOMAIN book.packages /\ ref.name \in DOMAIN book.packages[ref.pkg][kind]
  BY DEF Declares
<1>2. Declared(book, kind, ref) = book.packages[ref.pkg][kind][ref.name]
  BY DEF Declared
<1>3. book.packages = [n \in NamesOf(d.packages) |-> LoadPackage(The(d.packages, n))]
  BY TablesAre
<1> HIDE DEF book
<1>4. ref.pkg \in NamesOf(d.packages)
      /\ book.packages[ref.pkg] = LoadPackage(The(d.packages, ref.pkg))
  BY <1>1, <1>3
<1>5. PICK i \in DOMAIN d.packages :
        d.packages[i].name = ref.pkg /\ The(d.packages, ref.pkg) = d.packages[i]
  BY <1>4, TheIs
<1> QED BY <1>1, <1>2, <1>4, <1>5 DEF book, Table, DeclaredBy

\* A resource is one of its package.
ResourceOf(d, ref, i, j) ==
  LET r == d.packages[i].resources[j]
  IN /\ d.packages[i].name = ref.pkg /\ r.name = ref.name
     /\ Declared(LoadPlaybook(d), "resources", ref) = LoadResource(r)

\* Every resource is a block of a package.
LEMMA DeclaredResource ==
  ASSUME NEW d, "" \notin NamesOf(d.packages), NEW ref, Declares(LoadPlaybook(d), "resources", ref)
  PROVE  /\ ref.pkg # ""
         /\ \E i \in DOMAIN d.packages : \E j \in DOMAIN d.packages[i].resources :
              ResourceOf(d, ref, i, j)
<1>1. ref.pkg # ""
  BY TablesAre DEF Declares
<1>2. PICK i \in DOMAIN d.packages : DeclaredBy(d, "resources", ref, i)
  BY <1>1, DeclaredInPackage
<1> DEFINE blocks == d.packages[i].resources
<1>3. Table(LoadPackage(d.packages[i]), "resources")
      = [n \in NamesOf(blocks) |-> LoadResource(The(blocks, n))]
  BY PackageTablesAre
<1>4. PICK j \in DOMAIN blocks : blocks[j].name = ref.name /\ The(blocks, ref.name) = blocks[j]
  <2> HIDE DEF blocks
  <2> QED BY <1>2, <1>3, TheIs DEF DeclaredBy
<1>5. Declared(LoadPlaybook(d), "resources", ref) = LoadResource(blocks[j])
  <2> HIDE DEF blocks
  <2> QED BY <1>2, <1>3, <1>4 DEF DeclaredBy
<1> QED BY <1>1, <1>2, <1>4, <1>5 DEF DeclaredBy, ResourceOf

\* Every gatherer is a block of a package.
LEMMA DeclaredGatherer ==
  ASSUME NEW d, "" \notin NamesOf(d.packages), NEW ref, Declares(LoadPlaybook(d), "gatherers", ref)
  PROVE  \E i \in DOMAIN d.packages :
           d.packages[i].name = ref.pkg /\ ref.name \in NamesOf(d.packages[i].gatherers)
<1>1. ref.pkg # ""
  BY TablesAre DEF Declares
<1>2. PICK i \in DOMAIN d.packages : DeclaredBy(d, "gatherers", ref, i)
  BY <1>1, DeclaredInPackage
<1>3. DOMAIN Table(LoadPackage(d.packages[i]), "gatherers") = NamesOf(d.packages[i].gatherers)
  BY PackageTablesAre
<1> QED BY <1>2, <1>3 DEF DeclaredBy

\* A probe is one of the playbook or one of a package.
LEMMA DeclaredProbe ==
  ASSUME NEW d, "" \notin NamesOf(d.packages), NEW ref, Declares(LoadPlaybook(d), "probes", ref)
  PROVE  \/ ref.pkg = "" /\ ref.name \in NamesOf(d.probes)
         \/ \E i \in DOMAIN d.packages :
              d.packages[i].name = ref.pkg /\ ref.name \in NamesOf(d.packages[i].probes)
<1>1. CASE ref.pkg = ""
  BY <1>1, TablesAre DEF Declares
<1>2. CASE ref.pkg # ""
  <2>1. PICK i \in DOMAIN d.packages : DeclaredBy(d, "probes", ref, i)
    BY <1>2, DeclaredInPackage
  <2>2. DOMAIN Table(LoadPackage(d.packages[i]), "probes") = NamesOf(d.packages[i].probes)
    BY PackageTablesAre
  <2> QED BY <2>1, <2>2 DEF DeclaredBy
<1> QED BY <1>1, <1>2

\* So is a composite.
Composed(d, ref, c) == Declared(LoadPlaybook(d), "composites", ref) = LoadComposite(c)

\* Every composite is a block of the playbook or of a package.
LEMMA DeclaredComposite ==
  ASSUME NEW d, "" \notin NamesOf(d.packages), NEW ref, Declares(LoadPlaybook(d), "composites", ref)
  PROVE  \/ ref.pkg = "" /\ \E j \in DOMAIN d.composites : Composed(d, ref, d.composites[j])
         \/ \E i \in DOMAIN d.packages : \E j \in DOMAIN d.packages[i].composites :
              d.packages[i].name = ref.pkg /\ Composed(d, ref, d.packages[i].composites[j])
<1>1. CASE ref.pkg = ""
  <2>1. ref.name \in NamesOf(d.composites)
    BY <1>1, TablesAre DEF Declares
  <2>2. Declared(LoadPlaybook(d), "composites", ref) = LoadComposite(The(d.composites, ref.name))
    <3>1. Declared(LoadPlaybook(d), "composites", ref) = LoadPlaybook(d)["composites"][ref.name]
      BY <1>1 DEF Declared
    <3>2. LoadPlaybook(d)["composites"]
          = [n \in NamesOf(d.composites) |-> LoadComposite(The(d.composites, n))]
      BY TablesAre
    <3> QED BY <2>1, <3>1, <3>2
  <2>3. PICK j \in DOMAIN d.composites : The(d.composites, ref.name) = d.composites[j]
    BY <2>1, TheIs
  <2> QED BY <1>1, <2>2, <2>3 DEF Composed
<1>2. CASE ref.pkg # ""
  <2>1. PICK i \in DOMAIN d.packages : DeclaredBy(d, "composites", ref, i)
    BY <1>2, DeclaredInPackage
  <2> DEFINE blocks == d.packages[i].composites
  <2>2. Table(LoadPackage(d.packages[i]), "composites")
        = [n \in NamesOf(blocks) |-> LoadComposite(The(blocks, n))]
    BY PackageTablesAre
  <2>3. PICK j \in DOMAIN blocks : The(blocks, ref.name) = blocks[j]
    <3> HIDE DEF blocks
    <3> QED BY <2>1, <2>2, TheIs DEF DeclaredBy
  <2>4. Declared(LoadPlaybook(d), "composites", ref) = LoadComposite(blocks[j])
    <3> HIDE DEF blocks
    <3> QED BY <2>1, <2>2, <2>3 DEF DeclaredBy
  <2> QED BY <2>1, <2>3, <2>4 DEF DeclaredBy, Composed
<1> QED BY <1>1, <1>2

\* What is known from the packages alone is known from the playbook.
LEMMA DeclaredAnyway ==
  ASSUME NEW d, NEW kind, NEW ref, Declares(LoadPackages(d.packages), kind, ref),
         kind \in {"resources", "composites", "probes", "gatherers"}
  PROVE  Declares(LoadPlaybook(d), kind, ref)
<1> DEFINE some == LoadPackages(d.packages)
<1>1. /\ some["composites"] = [n \in {} |-> {}] /\ some["probes"] = [n \in {} |-> {}]
      /\ some.packages = [n \in NamesOf(d.packages) |-> LoadPackage(The(d.packages, n))]
  BY DEF LoadPackages, ByName
<1>2. LoadPlaybook(d).packages = some.packages
  BY <1>1, TablesAre
<1> HIDE DEF some
<1>3. kind \in {"composites", "probes"} => DOMAIN some[kind] = {}
  BY <1>1
<1> QED BY <1>2, <1>3 DEF Declares, some

\* What a step names is there, in a play or in a body, and it does not
\* require itself.
StepSound(book, s, target) ==
  /\ IsRef(target) /\ ClassAccepted(s.concurrency) /\ s.name \notin s.requires
  /\ IsWait(s) => Declares(book, "probes", target)
  /\ ~IsWait(s) /\ ~Declares(book, "composites", target) => Declares(book, "resources", target)

\* An accepted document has no package without a name.
LEMMA PackagesNamed ==
  ASSUME NEW d, PlaybookAccepted(d), DocumentIsTree(d)
  PROVE  "" \notin NamesOf(d.packages)
BY DEF PlaybookAccepted, PackagesAccepted, DocumentIsTree, NamesOf

\* A reference that is resolved is a reference.
LEMMA ResolvedIsRef ==
  ASSUME NEW ref, IsRef(ref), NEW owner
  PROVE  IsRef(Resolved(ref, owner))
BY DEF IsRef, Resolved, RefTo

\* The second pass of the loader, over a body of the playbook and over one of
\* a package.
LEMMA BodyStepSound ==
  ASSUME NEW d, NEW owner, NEW s, IsRef(s.resource), IsRef(s.waitFor), ClassAccepted(s.concurrency),
         s.name \notin s.requires,
         \/ BodyStepResolves(LoadPlaybook(d), owner, s)
         \/ BodyStepResolves(LoadPackages(d.packages), owner, s)
  PROVE  StepSound(LoadPlaybook(d), s, Resolved(Target(s), owner))
<1> DEFINE t == Resolved(Target(s), owner)
<1>1. IsRef(t)
  <2>1. IsRef(Target(s))
    BY DEF Target
  <2> QED BY <2>1, ResolvedIsRef
<1>2. ASSUME NEW book, BodyStepResolves(book, owner, s)
      PROVE  /\ IsWait(s) => Declares(book, "probes", t)
             /\ ~IsWait(s) => Declares(book, "composites", t) \/ Declares(book, "resources", t)
  <2>1. CASE IsWait(s)
    BY <1>2, <2>1 DEF BodyStepResolves
  <2>2. CASE ~IsWait(s) /\ ~Declares(book, "composites", t)
    BY <1>2, <2>2 DEF BodyStepResolves
  <2> QED BY <2>1, <2>2
<1> HIDE DEF t
<1>3. \A kind \in {"resources", "composites", "probes", "gatherers"} :
        Declares(LoadPackages(d.packages), kind, t) => Declares(LoadPlaybook(d), kind, t)
  BY DeclaredAnyway
<1>4. /\ IsWait(s) => Declares(LoadPlaybook(d), "probes", t)
      /\ ~IsWait(s) => \/ Declares(LoadPlaybook(d), "composites", t)
                       \/ Declares(LoadPlaybook(d), "resources", t)
  BY <1>2, <1>3
<1> QED BY <1>1, <1>4 DEF StepSound, t

\* The body of a composite the loader accepts has only steps that it resolves.
LEMMA BodiesSound ==
  ASSUME NEW d, PlaybookAccepted(d), DocumentIsTree(d),
         NEW ref, Declares(LoadPlaybook(d), "composites", ref)
  PROVE  LET body == Declared(LoadPlaybook(d), "composites", ref).steps
         IN /\ IsList(body) /\ Distinct(body)
            /\ \A i \in DOMAIN body :
                 StepSound(LoadPlaybook(d), body[i], Resolved(Target(body[i]), ref.pkg))
<1> DEFINE declared == Declared(LoadPlaybook(d), "composites", ref)
<1> SUFFICES ASSUME NEW c, declared = LoadComposite(c), BodyIsList(c.steps), CompositeAccepted(c),
                    \A i \in DOMAIN c.steps :
                      \/ BodyStepResolves(LoadPlaybook(d), ref.pkg, c.steps[i])
                      \/ BodyStepResolves(LoadPackages(d.packages), ref.pkg, c.steps[i])
             PROVE  /\ IsList(declared.steps) /\ Distinct(declared.steps)
                    /\ \A i \in DOMAIN declared.steps :
                         StepSound(LoadPlaybook(d), declared.steps[i],
                                   Resolved(Target(declared.steps[i]), ref.pkg))
  <2>1. "" \notin NamesOf(d.packages)
    BY PackagesNamed
  <2>2. CASE ref.pkg = "" /\ \E j \in DOMAIN d.composites :
          declared = LoadComposite(d.composites[j])
    <3>1. PICK j \in DOMAIN d.composites : declared = LoadComposite(d.composites[j])
      BY <2>2
    <3> HIDE DEF declared
    <3> DEFINE c == d.composites[j]
    <3>2. BodyIsList(c.steps)
      BY DEF DocumentIsTree
    <3>3. CompositeAccepted(c) /\ BodiesResolve(LoadPlaybook(d), "", d.composites)
      BY DEF PlaybookAccepted
    <3>4. \A i \in DOMAIN c.steps : BodyStepResolves(LoadPlaybook(d), "", c.steps[i])
      BY <3>3 DEF BodiesResolve
    <3> HIDE DEF c
    <3> QED BY <2>2, <3>1, <3>2, <3>3, <3>4 DEF c, declared
  <2>3. CASE \E i \in DOMAIN d.packages : \E j \in DOMAIN d.packages[i].composites :
               /\ d.packages[i].name = ref.pkg
               /\ declared = LoadComposite(d.packages[i].composites[j])
    <3>1. PICK i \in DOMAIN d.packages : \E j \in DOMAIN d.packages[i].composites :
                 /\ d.packages[i].name = ref.pkg
                 /\ declared = LoadComposite(d.packages[i].composites[j])
      BY <2>3
    <3>2. PICK j \in DOMAIN d.packages[i].composites :
                 /\ d.packages[i].name = ref.pkg
                 /\ declared = LoadComposite(d.packages[i].composites[j])
      BY <3>1
    <3> HIDE DEF declared
    <3> DEFINE c == d.packages[i].composites[j]
    <3>3. BodyIsList(c.steps)
      BY DEF DocumentIsTree
    <3>4. /\ PackageAccepted(d.packages[i])
          /\ BodiesResolve(LoadPackages(d.packages), d.packages[i].name, d.packages[i].composites)
      BY DEF PlaybookAccepted, PackagesAccepted
    <3>5. CompositeAccepted(c)
      BY <3>4 DEF PackageAccepted
    <3>6. \A k \in DOMAIN c.steps : BodyStepResolves(LoadPackages(d.packages), ref.pkg, c.steps[k])
      BY <3>2, <3>4 DEF BodiesResolve
    <3> HIDE DEF c
    <3> QED BY <3>2, <3>3, <3>5, <3>6 DEF c, declared
  <2>4. \/ /\ ref.pkg = ""
           /\ \E j \in DOMAIN d.composites : declared = LoadComposite(d.composites[j])
        \/ \E i \in DOMAIN d.packages : \E j \in DOMAIN d.packages[i].composites :
             d.packages[i].name = ref.pkg /\ declared = LoadComposite(d.packages[i].composites[j])
    <3>1. \/ ref.pkg = "" /\ \E j \in DOMAIN d.composites : Composed(d, ref, d.composites[j])
          \/ \E i \in DOMAIN d.packages : \E j \in DOMAIN d.packages[i].composites :
               d.packages[i].name = ref.pkg /\ Composed(d, ref, d.packages[i].composites[j])
      BY <2>1, DeclaredComposite
    <3> QED BY <3>1 DEF Composed
  <2> QED BY <2>2, <2>3, <2>4
<1>1. declared.steps = c.steps
  BY DEF LoadComposite
<1>2. /\ IsList(c.steps)
      /\ \A i \in DOMAIN c.steps : IsRef(c.steps[i].resource) /\ IsRef(c.steps[i].waitFor)
  BY DEF BodyIsList
<1>3. /\ Distinct(c.steps)
      /\ \A i \in DOMAIN c.steps :
           ClassAccepted(c.steps[i].concurrency) /\ c.steps[i].name \notin c.steps[i].requires
  BY DEF CompositeAccepted, RequiresAccepted
<1> HIDE DEF declared
<1>4. \A i \in DOMAIN c.steps :
        StepSound(LoadPlaybook(d), c.steps[i], Resolved(Target(c.steps[i]), ref.pkg))
  BY <1>2, <1>3, BodyStepSound
<1> QED BY <1>1, <1>2, <1>3, <1>4

\* It is a list.
LEMMA BodiesListed ==
  ASSUME NEW d, PlaybookAccepted(d), DocumentIsTree(d)
  PROVE  BodiesAreLists(LoadPlaybook(d))
BY BodiesSound DEF BodiesAreLists

\* The steps the author declared in a play.
LEMMA PlaySound ==
  ASSUME NEW d, PlaybookAccepted(d), DocumentIsTree(d), NEW k \in DOMAIN d.plays
  PROVE  LET book == LoadPlaybook(d)
             rows == StepRows(d.plays[k].items)
         IN /\ \A i, j \in DOMAIN rows : rows[i].block.name = rows[j].block.name => i = j
            /\ \A i \in DOMAIN rows :
                 /\ StepAccepted(book, rows[i].block)
                 /\ Invokes(book, rows[i].block) => ExpansionAccepted(book, rows[i].block.resource)
                 /\ StepSound(book, rows[i].block, Target(rows[i].block))
<1> DEFINE book == LoadPlaybook(d)
           items == d.plays[k].items
           rows == StepRows(items)
<1>1. PlayAccepted(book, d.plays[k])
  BY DEF PlaybookAccepted
<1>2. PlayIsTree(items)
  BY DEF DocumentIsTree
<1> HIDE DEF book
<1>3. DeclaredSteps(items) = [i \in DOMAIN rows |-> rows[i].block]
  BY DEF DeclaredSteps
<1>4. /\ Distinct(DeclaredSteps(items))
      /\ \A i \in DOMAIN DeclaredSteps(items) :
           /\ DeclaredSteps(items)[i].name \notin DeclaredSteps(items)[i].requires
           /\ StepAccepted(book, DeclaredSteps(items)[i])
           /\ Invokes(book, DeclaredSteps(items)[i]) =>
                ExpansionAccepted(book, DeclaredSteps(items)[i].resource)
  BY <1>1 DEF PlayAccepted, RequiresAccepted
<1>5. ASSUME NEW i \in DOMAIN rows
      PROVE  IsRef(rows[i].block.resource) /\ IsRef(rows[i].block.waitFor)
  <2>1. /\ IsList(PlayBlocks(items))
        /\ \A j \in DOMAIN PlayBlocks(items) :
             PlayBlocks(items)[j].block.kind # "container" =>
               /\ IsRef(PlayBlocks(items)[j].block.resource)
               /\ IsRef(PlayBlocks(items)[j].block.waitFor)
    BY <1>2, RowsOfPlay DEF RowsSound
  <2>2. PICK j \in DOMAIN PlayBlocks(items) :
          rows[i] = PlayBlocks(items)[j] /\ PlayBlocks(items)[j].block.kind = "step"
    BY <2>1, StepRowsAre
  <2> QED BY <2>1, <2>2
<1> HIDE DEF rows
<1>6. ASSUME NEW i \in DOMAIN rows
      PROVE  /\ rows[i].block.name \notin rows[i].block.requires
             /\ StepAccepted(book, rows[i].block)
             /\ Invokes(book, rows[i].block) => ExpansionAccepted(book, rows[i].block.resource)
  BY <1>3, <1>4
<1>7. ASSUME NEW i \in DOMAIN rows
      PROVE  StepSound(book, rows[i].block, Target(rows[i].block))
  <2> DEFINE s == rows[i].block
  <2>1. IsRef(s.resource) /\ IsRef(s.waitFor) /\ StepAccepted(book, s)
       /\ s.name \notin s.requires
    BY <1>5, <1>6
  <2> HIDE DEF s
  <2>2. ClassAccepted(s.concurrency) /\ IsRef(Target(s))
    BY <2>1 DEF StepAccepted, Target
  <2>3. IsWait(s) => Declares(book, "probes", Target(s))
    <3>1. IsWait(s) => Declares(book, "probes", s.waitFor)
      BY <2>1 DEF StepAccepted, Invokes
    <3> QED BY <3>1 DEF Target
  <2>4. ~IsWait(s)
        /\ ~Declares(book, "composites", Target(s)) => Declares(book, "resources", Target(s))
    BY <2>1 DEF StepAccepted, Target, Invokes
  <2> QED BY <2>1, <2>2, <2>3, <2>4 DEF StepSound, s
<1>8. \A i, j \in DOMAIN rows : rows[i].block.name = rows[j].block.name => i = j
  BY <1>3, <1>4 DEF Distinct
<1> QED BY <1>6, <1>7, <1>8 DEF book, rows

\* Every step of an accepted play: all that its leaf is made of names what is
\* there, and no invocation is left.
LEMMA LoadedSound ==
  ASSUME NEW d, PlaybookAccepted(d), DocumentIsTree(d), NEW k \in DOMAIN d.plays
  PROVE  LET book == LoadPlaybook(d)
             ps   == LoadItems(book, d.plays[k].items)
             ls   == Leaves(book, d.plays[k])
         IN /\ InStep(book, StepRows(d.plays[k].items), ps, ls, MaxCompositeDepth)
            /\ \A i \in DOMAIN ps :
                 /\ ~IsInvocation(book, ps[i].block, ps[i].target)
                 /\ \A e \in 1 .. Len(ls[i].chain) :
                      StepSound(book, ls[i].chain[e].block, ls[i].chain[e].target)
<1> DEFINE book == LoadPlaybook(d)
           rows == StepRows(d.plays[k].items)
           ps   == LoadItems(book, d.plays[k].items)
           ls   == Leaves(book, d.plays[k])
<1>1. BodiesAreLists(book)
  BY BodiesListed
<1>2. PlayIsTree(d.plays[k].items)
  BY DEF DocumentIsTree
<1>3. InStep(book, rows, ps, ls, MaxCompositeDepth)
  <2> HIDE DEF book
  <2> QED BY <1>1, <1>2, LoadedInStep
<1>4. \A i \in DOMAIN rows :
        /\ Invokes(book, rows[i].block) => ExpansionAccepted(book, rows[i].block.resource)
        /\ StepSound(book, rows[i].block, Target(rows[i].block))
  BY PlaySound
<1>5. \A ref : Declares(book, "composites", ref) =>
        \A i \in DOMAIN Declared(book, "composites", ref).steps :
          StepSound(book, Declared(book, "composites", ref).steps[i],
                    Resolved(Target(Declared(book, "composites", ref).steps[i]), ref.pkg))
  BY BodiesSound
<1> HIDE DEF book, rows, ps, ls
<1>6. ASSUME NEW i \in DOMAIN ps
      PROVE  /\ ~IsInvocation(book, ps[i].block, ps[i].target)
             /\ \A e \in 1 .. Len(ls[i].chain) :
                  StepSound(book, ls[i].chain[e].block, ls[i].chain[e].target)
  <2> DEFINE chain == ls[i].chain
  <2>1. /\ Rooted(book, rows, ls[i]) /\ StandsFor(ps[i], ls[i])
        /\ Deep(book, ls[i], MaxCompositeDepth)
    BY <1>3 DEF InStep
  <2>2. PICK j \in DOMAIN rows : chain[1] = Link(j, rows[j].block, Target(rows[j].block))
    BY <2>1 DEF Rooted
  <2>3. chain[1].block = rows[j].block /\ chain[1].target = Target(rows[j].block)
    BY <2>2 DEF Link
  <2>4. Len(chain) \in Nat /\ Len(chain) # 0
    BY <2>1, ListIs DEF Rooted
  <2>5. \A e \in 1 .. Len(chain) - 1 :
          /\ IsInvocation(book, chain[e].block, chain[e].target)
          /\ \E m \in DOMAIN Declared(book, "composites", chain[e].target).steps :
               chain[e + 1] =
                 Link(m, Declared(book, "composites", chain[e].target).steps[m],
                      Resolved(Target(Declared(book, "composites", chain[e].target).steps[m]),
                               chain[e].target.pkg))
    BY <2>1 DEF Rooted
  <2>6. ASSUME NEW e \in 1 .. Len(chain)
        PROVE  StepSound(book, chain[e].block, chain[e].target)
    <3>1. CASE e = 1
      BY <1>4, <2>3, <3>1
    <3>2. CASE e # 1
      <4> DEFINE c == e - 1
      <4>1. c \in 1 .. Len(chain) - 1 /\ c + 1 = e
        BY <2>4, <3>2
      <4> HIDE DEF c
      <4>2. Declares(book, "composites", chain[c].target)
        BY <2>5, <4>1 DEF IsInvocation
      <4> DEFINE body == Declared(book, "composites", chain[c].target).steps
      <4>3. PICK m \in DOMAIN body :
              chain[c + 1] = Link(m, body[m], Resolved(Target(body[m]), chain[c].target.pkg))
        BY <2>5, <4>1
      <4>4. StepSound(book, body[m], Resolved(Target(body[m]), chain[c].target.pkg))
        BY <1>5, <4>2
      <4> HIDE DEF body
      <4>5. /\ chain[e].block = body[m]
            /\ chain[e].target = Resolved(Target(body[m]), chain[c].target.pkg)
        BY <4>1, <4>3 DEF Link
      <4> QED BY <4>4, <4>5
    <3> QED BY <3>1, <3>2
  <2>7. ~IsInvocation(book, ps[i].block, ps[i].target)
    <3> SUFFICES ASSUME IsInvocation(book, ps[i].block, ps[i].target) PROVE FALSE
      OBVIOUS
    <3>1. IsInvocation(book, chain[Len(chain)].block, chain[Len(chain)].target)
      BY <2>1 DEF StandsFor
    <3>2. /\ Len(chain) = MaxCompositeDepth + 1
          /\ TargetsOf(ls[i]) \in Chains(book, chain[1].target)[MaxCompositeDepth]
      BY <2>1, <3>1 DEF Deep
    <3>3. 1 \in 1 .. Len(chain) - 1
      BY <3>2, DepthAssumption
    <3>4. IsInvocation(book, rows[j].block, Target(rows[j].block))
      BY <2>3, <2>5, <3>3
    <3>5. Invokes(book, rows[j].block) /\ Target(rows[j].block) = rows[j].block.resource
      BY <3>4 DEF IsInvocation, Invokes, Target
    <3>6. Chains(book, rows[j].block.resource)[MaxCompositeDepth] = {}
      BY <1>4, <3>5 DEF ExpansionAccepted
    <3> QED BY <2>3, <3>2, <3>5, <3>6
  <2> QED BY <2>6, <2>7
<1> QED BY <1>3, <1>6 DEF book, rows, ps, ls

(* ------------------------------------------------------------- classes *)

Classes == DOMAIN Tightness \cup {NoClass}

\* The classes and their ranks.
LEMMA RanksAre ==
  /\ DOMAIN Tightness = {"parallel", "exclusive", "global"}
  /\ \A c \in DOMAIN Tightness : Tightness[c] \in Nat
  /\ NoClass \notin DOMAIN Tightness
BY DEF Tightness, NoClass

\* The tighter of two classes is no looser than either.
LEMMA TighterIs ==
  ASSUME NEW a \in Classes, NEW b \in Classes
  PROVE  /\ Tighter(a, b) \in Classes /\ Tighter(a, b) \in {a, b}
         /\ a # NoClass => Tighter(a, b) # NoClass /\ ~Looser(Tighter(a, b), a)
         /\ b # NoClass => Tighter(a, b) # NoClass /\ ~Looser(Tighter(a, b), b)
<1>1. CASE a = NoClass
  BY <1>1, RanksAre DEF Tighter, Looser, Classes
<1>2. CASE a # NoClass /\ b = NoClass
  BY <1>2, RanksAre DEF Tighter, Looser, Classes
<1>3. CASE a # NoClass /\ b # NoClass
  <2>1. /\ a \in DOMAIN Tightness /\ b \in DOMAIN Tightness
        /\ Tightness[a] \in Nat /\ Tightness[b] \in Nat
    BY <1>3, RanksAre DEF Classes
  <2>2. CASE Looser(a, b)
    <3>1. Tighter(a, b) = b
      BY <1>3, <2>2 DEF Tighter
    <3> QED BY <1>3, <2>1, <2>2, <3>1 DEF Looser, Classes
  <2>3. CASE ~Looser(a, b)
    <3>1. Tighter(a, b) = a
      BY <1>3, <2>3 DEF Tighter
    <3> QED BY <1>3, <2>1, <2>3, <3>1 DEF Looser, Classes
  <2> QED BY <2>2, <2>3
<1> QED BY <1>1, <1>2, <1>3

\* Tighter than what is tighter.
LEMMA NotLooserThrough ==
  ASSUME NEW a \in Classes, NEW b \in Classes, NEW c \in Classes,
         a # NoClass, b # NoClass, c # NoClass, ~Looser(a, b), ~Looser(b, c)
  PROVE  ~Looser(a, c)
<1>1. Tightness[a] \in Nat /\ Tightness[b] \in Nat /\ Tightness[c] \in Nat
  BY RanksAre DEF Classes
<1> QED BY <1>1 DEF Looser

\* Every resource has one of the three classes.
LEMMA ResourceClass ==
  ASSUME NEW d, PlaybookAccepted(d), DocumentIsTree(d),
         NEW ref, Declares(LoadPlaybook(d), "resources", ref)
  PROVE  Declared(LoadPlaybook(d), "resources", ref).concurrency \in DOMAIN Tightness
<1>1. "" \notin NamesOf(d.packages)
  BY PackagesNamed
<1>2. PICK i \in DOMAIN d.packages : \E j \in DOMAIN d.packages[i].resources :
             ResourceOf(d, ref, i, j)
  BY <1>1, DeclaredResource
<1>3. PICK j \in DOMAIN d.packages[i].resources : ResourceOf(d, ref, i, j)
  BY <1>2
<1>4. ResourceAccepted(d.packages[i].resources[j])
  BY DEF PlaybookAccepted, PackagesAccepted, PackageAccepted
<1>5. d.packages[i].resources[j].concurrency \in DOMAIN Tightness
  BY <1>4 DEF ResourceAccepted
<1>6. Declared(LoadPlaybook(d), "resources", ref) = LoadResource(d.packages[i].resources[j])
  BY <1>3 DEF ResourceOf
<1> DEFINE r == d.packages[i].resources[j]
<1> HIDE DEF r
<1>7. LoadResource(r).concurrency = r.concurrency
  BY DEF LoadResource
<1> QED BY <1>5, <1>6, <1>7 DEF r

\* The classes that decide, where that of the nearest invocation is known.
LEMMA DecidingIs ==
  ASSUME NEW chain, NEW l \in Nat \ {0}, l = Len(chain), NEW own, NEW around,
         IsNearest(around, chain, l - 1)
  PROVE  Deciding(own, chain) = {own, chain[l].block.concurrency, around} \ {NoClass}
<1> DEFINE classed == {d \in 1 .. l - 1 : chain[d].block.concurrency # NoClass}
           nearest == {d \in classed : \A e \in classed : e <= d}
<1>1. Deciding(own, chain)
        = ({own} \cup {chain[d].block.concurrency : d \in nearest \cup {l}}) \ {NoClass}
  BY DEF Deciding
<1>2. CASE around = NoClass /\ \A d \in 1 .. l - 1 : chain[d].block.concurrency = NoClass
  <2>1. nearest = {}
    BY <1>2
  <2> HIDE DEF nearest
  <2> QED BY <1>1, <1>2, <2>1
<1>3. ASSUME NEW d \in 1 .. l - 1, around = chain[d].block.concurrency, around # NoClass,
             \A e \in 1 .. l - 1 : e > d => chain[e].block.concurrency = NoClass
      PROVE  Deciding(own, chain) = {own, chain[l].block.concurrency, around} \ {NoClass}
  <2>1. d \in classed /\ \A e \in classed : e \in 1 .. l - 1 /\ ~(e > d)
    BY <1>3
  <2>2. \A e \in classed : e <= d
    BY <2>1
  <2>3. \A n \in nearest : n = d
    BY <2>1, <2>2
  <2>4. nearest = {d}
    <3>1. d \in nearest
      BY <2>1, <2>2
    <3> HIDE DEF nearest
    <3> QED BY <2>3, <3>1
  <2> HIDE DEF nearest
  <2> QED BY <1>1, <1>3, <2>4
<1> QED BY <1>2, <1>3 DEF IsNearest

\* What a step runs with is the tightest of the classes that decide.
LEMMA StaysTight ==
  ASSUME NEW d, PlaybookAccepted(d), DocumentIsTree(d), NEW k \in DOMAIN d.plays,
         NEW i \in DOMAIN LoadItems(LoadPlaybook(d), d.plays[k].items),
         NEW p, p = LoadItems(LoadPlaybook(d), d.plays[k].items)[i], ~IsWait(p.block),
         NEW own \in DOMAIN Tightness
  PROVE  LET chain == Leaves(LoadPlaybook(d), d.plays[k])[i].chain
             class == Tighter(LoadStep(p).concurrency, own)
         IN /\ class \in Deciding(own, chain)
            /\ \A c \in Deciding(own, chain) : ~Looser(class, c)
<1> DEFINE book == LoadPlaybook(d)
           leaf == Leaves(book, d.plays[k])[i]
           chain == leaf.chain
           l == Len(chain)
           near == Tighter(p.block.concurrency, p.around)
           class == Tighter(near, own)
<1>1. LoadStep(p).concurrency = near
  BY DEF LoadStep, PlayStep
<1>2. /\ Rooted(book, StepRows(d.plays[k].items), leaf) /\ StandsFor(p, leaf)
      /\ \A e \in 1 .. l : StepSound(book, chain[e].block, chain[e].target)
  BY LoadedSound DEF InStep
<1> HIDE DEF leaf
<1>3. IsList(chain) /\ l \in Nat /\ l # 0 /\ DOMAIN chain = 1 .. l
  BY <1>2, ListIs DEF Rooted
<1>4. \A e \in 1 .. l : chain[e].block.concurrency \in Classes
  BY <1>2 DEF StepSound, ClassAccepted, Classes
<1>5. /\ p.block.concurrency = chain[l].block.concurrency
      /\ IsNearest(p.around, chain, l - 1)
  BY <1>2 DEF StandsFor
<1>5a. Deciding(own, chain) = {own, p.block.concurrency, p.around} \ {NoClass}
  BY <1>3, <1>5, DecidingIs
<1> HIDE DEF chain, l
<1>6. p.block.concurrency \in Classes /\ p.around \in Classes /\ own \in Classes /\ own # NoClass
  <2>1. l \in 1 .. l /\ \A e \in 1 .. l - 1 : e \in 1 .. l
    BY <1>3
  <2> QED BY <1>4, <1>5, <2>1, RanksAre DEF Classes, IsNearest
<1>7. /\ near \in Classes /\ near \in {p.block.concurrency, p.around}
      /\ p.block.concurrency # NoClass => near # NoClass /\ ~Looser(near, p.block.concurrency)
      /\ p.around # NoClass => near # NoClass /\ ~Looser(near, p.around)
  BY <1>6, TighterIs
<1> HIDE DEF near
<1>8. /\ class \in Classes /\ class # NoClass /\ ~Looser(class, own) /\ class \in {near, own}
      /\ near # NoClass => ~Looser(class, near)
  BY <1>6, <1>7, TighterIs
<1> HIDE DEF class
<1>9. ASSUME NEW c \in Deciding(own, chain) PROVE ~Looser(class, c)
  <2>1. c # NoClass /\ c \in {own, p.block.concurrency, p.around}
    BY <1>9, <1>5a
  <2>2. CASE c = own
    BY <1>8, <2>2
  <2>3. CASE c # own
    <3>1. near # NoClass /\ ~Looser(near, c) /\ c \in Classes
      BY <1>6, <1>7, <2>1, <2>3
    <3> QED BY <1>7, <1>8, <2>1, <3>1, NotLooserThrough
  <2> QED BY <2>2, <2>3
<1>10. class \in Deciding(own, chain)
  BY <1>7, <1>8, <1>5a
<1> QED BY <1>1, <1>9, <1>10 DEF class, near, chain, leaf, l

(* ------------------------------------------------------------------ plans *)

\* A plan is of the step it was made for.
PlanFits(book, step, plan) ==
  /\ plan.kind \in {"skip", "fail", "run", "wait"}
  /\ plan.kind = "run" =>
       /\ ~step.wait /\ Declares(book, "resources", step.target)
       /\ plan.resource = step.target
       /\ plan.concurrency
            = Tighter(step.concurrency, Declared(book, "resources", step.target).concurrency)
  /\ plan.kind = "wait" =>
       step.wait /\ Declares(book, "probes", step.target) /\ plan.probe = step.target

\* A step that is not to run has no class to be wrong.
LEMMA NoPlanFits ==
  ASSUME NEW book, NEW step, NEW plan, plan = Skip \/ \E why : plan = Fail(why)
  PROVE  PlanFits(book, step, plan)
BY DEF PlanFits, Skip, Fail

\* The plan made from a block takes its class from its resource and its step.
LEMMA PlanFromBlockFits ==
  ASSUME NEW book, NEW step, NEW block, NEW values, step.wait \in BOOLEAN
  PROVE  PlanFits(book, step, PlanFromBlock(book, step, block, values))
<1> DEFINE kind == IF step.wait THEN "probes" ELSE "resources"
           decl == Declared(book, kind, step.target)
           plan == PlanFromBlock(book, step, block, values)
<1>1. \/ plan = Skip \/ plan = Fail("value") \/ plan = Fail("missing")
      \/ /\ Declares(book, kind, step.target)
         /\ plan = IF step.wait THEN WaitPlan(step, block, decl, values)
                   ELSE RunPlan(step, block, decl, values)
  BY DEF PlanFromBlock
<1> SUFFICES PlanFits(book, step, plan)
  OBVIOUS
<1> HIDE DEF plan
<1>2. CASE plan = Skip \/ plan = Fail("value") \/ plan = Fail("missing")
  BY <1>2, NoPlanFits
<1>3. CASE ~step.wait /\ Declares(book, kind, step.target)
           /\ plan = RunPlan(step, block, decl, values)
  <2>1. decl = Declared(book, "resources", step.target)
    BY <1>3
  <2> HIDE DEF decl
  <2> QED BY <1>3, <2>1 DEF PlanFits, RunPlan
<1>4. CASE step.wait /\ Declares(book, kind, step.target)
           /\ plan = WaitPlan(step, block, decl, values)
  <2>1. \/ plan = Fail("value")
        \/ plan.kind = "wait" /\ plan.probe = step.target
    <3> HIDE DEF decl
    <3> QED BY <1>4 DEF WaitPlan
  <2>2. CASE plan.kind = "wait" /\ plan.probe = step.target
    BY <1>4, <2>2 DEF PlanFits
  <2> QED BY <2>1, <2>2, NoPlanFits
<1>5. step.wait = TRUE \/ step.wait = FALSE
  OBVIOUS
<1> QED BY <1>1, <1>2, <1>3, <1>4, <1>5 DEF plan

\* So does the plan of a step, whatever is cached.
LEMMA PlanStepFits ==
  ASSUME NEW book, NEW blocks, NEW values, NEW step, NEW known, step.wait \in BOOLEAN
  PROVE  PlanFits(book, step, PlanStep(book, blocks, values, step, known).plan)
<1> DEFINE within == CachedConditions(blocks, values, PlaybookPath(step), known.containers)
           args == CachedArgs(book, blocks, values, step, known.args)
           inner == args[ArgsKey(step, Len(step.frames))]
           plan == PlanStep(book, blocks, values, step, known).plan
<1>1. PlanFits(book, step, CompositePlan(book, step, inner))
  <2> HIDE DEF inner
  <2> DEFINE b == InBody(book, Last(step.frames), step.name)
             v == CompositeScope(inner.v)
  <2>1. \/ CompositePlan(book, step, inner) = Skip
        \/ CompositePlan(book, step, inner) = Fail(inner.why)
        \/ CompositePlan(book, step, inner) = PlanFromBlock(book, step, b, v)
    BY DEF CompositePlan
  <2>2. PlanFits(book, step, PlanFromBlock(book, step, b, v))
    BY PlanFromBlockFits
  <2> HIDE DEF b, v
  <2> QED BY <2>1, <2>2, NoPlanFits
<1>2. \/ plan = Skip \/ plan = Fail("value") \/ plan = Fail("missing")
      \/ plan = CompositePlan(book, step, inner)
      \/ plan = PlanFromBlock(book, step, BlockAt(blocks, "step", step.path, step.name), values)
  <2> HIDE DEF within, args
  <2> QED BY DEF PlanStep, within, args
<1> HIDE DEF plan, inner
<1> QED BY <1>1, <1>2, NoPlanFits, PlanFromBlockFits DEF plan

(* ----------------------------------------------------- plans are of steps *)

\* The steps of a play, one for each block that was loaded.
LEMMA StepsAre ==
  ASSUME NEW d, PlaybookAccepted(d), DocumentIsTree(d), NEW k \in DOMAIN d.plays
  PROVE  LET all == LoadPlay(LoadPlaybook(d), d.plays[k])
             ps  == LoadItems(LoadPlaybook(d), d.plays[k].items)
         IN /\ IsList(all) /\ DOMAIN all = DOMAIN ps
            /\ \A i \in DOMAIN ps : all[i] = LoadStep(ps[i])
<1> DEFINE ps == LoadItems(LoadPlaybook(d), d.plays[k].items)
           all == LoadPlay(LoadPlaybook(d), d.plays[k])
<1>1. IsList(ps)
  BY LoadedSound DEF InStep
<1>2. all = [i \in DOMAIN ps |-> LoadStep(ps[i])]
  BY DEF LoadPlay
<1> HIDE DEF ps, all
<1>3. Len(ps) \in Nat /\ DOMAIN ps = 1 .. Len(ps)
  BY <1>1, ListIs
<1>4. DOMAIN all = 1 .. Len(ps) /\ all = [i \in 1 .. Len(ps) |-> all[i]]
  BY <1>2, <1>3
<1>5. IsList(all)
  BY <1>3, <1>4, ListOf
<1> QED BY <1>2, <1>3, <1>4, <1>5 DEF ps, all

PlansAreOf(all, ps) ==
  /\ IsList(ps) /\ Len(ps) <= Len(all)
  /\ \A i \in DOMAIN ps : PlanFits(pb, all[i], ps[i])

PlanInv ==
  /\ \E family \in DOMAIN Inputs : input \in Inputs[family]
  /\ phase \notin {"load", "refused"} => Accepted
  /\ phase \in {"gathering", "plan", "planned"} => Selected # {}
  /\ phase \notin {"plan", "planned"} => plans = << >>
  /\ PlansAreOf(steps, plans)

\* Nothing that is read of the input changes while the input does not.
LEMMA InputStays ==
  ASSUME input' = input
  PROVE  /\ doc' = doc /\ pb' = pb /\ Selected' = Selected /\ play' = play
         /\ steps' = steps /\ Accepted' = Accepted
<1>1. doc' = doc
  BY DEF doc
<1>2. pb' = pb
  BY <1>1 DEF pb
<1>3. Selected' = Selected
  BY <1>1 DEF Selected
<1>4. play' = play
  BY <1>1, <1>3 DEF play
<1>5. steps' = steps
  BY <1>2, <1>4 DEF steps
<1>6. Accepted' = Accepted
  BY <1>1, <1>2 DEF Accepted, Validated
<1> QED BY <1>1, <1>2, <1>3, <1>4, <1>5, <1>6

\* Every document is a tree, by the assumption on the inputs.
LEMMA InputIsTree ==
  ASSUME PlanInv
  PROVE  DocumentIsTree(doc)
BY PrepareAssumption DEF PlanInv, doc

\* The play is one of the document.
LEMMA PlayIs ==
  ASSUME DocumentIsTree(doc), Selected # {}
  PROVE  \E k \in DOMAIN doc.plays : play = doc.plays[k]
<1> DEFINE k == CHOOSE i \in Selected : \A j \in Selected : i <= j
<1>1. IsList(doc.plays)
  BY DEF DocumentIsTree
<1>2. DOMAIN doc.plays \subseteq Nat
  BY <1>1, ListIs
<1>3. Selected \in SUBSET Nat /\ Selected \subseteq DOMAIN doc.plays
  BY <1>2 DEF Selected
<1>4. PICK least \in Selected : \A m \in Selected : ~(m < least)
  BY <1>3, LeastOf
<1>5. \A j \in Selected : least <= j
  BY <1>3, <1>4
<1>6. k \in Selected
  BY <1>5
<1> QED BY <1>3, <1>6 DEF play

\* Every action keeps it; only PlanNext adds to the plans.
LEMMA PlanInvStep ==
  ASSUME PlanInv, [Next]_vars
  PROVE  PlanInv'
<1>1. input' = input
  BY DEF Next, vars, Load, Override, StartGatherers, FinishGatherer, BindResults, PlanNext,
         Planned, PlanAll, Refuse
<1>2. /\ doc' = doc /\ pb' = pb /\ Selected' = Selected /\ steps' = steps /\ Accepted' = Accepted
  BY <1>1, InputStays
<1>3. CASE PlanNext
  <2> DEFINE n == Len(plans)
             blocks == IndexBlocks(play.items)
             known == PlanStep(pb, blocks, scope, steps[n + 1], memory)
  <2>1. /\ phase = "plan" /\ phase' = phase /\ n < Len(steps) /\ plans' = Append(plans, known.plan)
    BY <1>3 DEF PlanNext
  <2>2. IsList(plans) /\ n \in Nat /\ DOMAIN plans = 1 .. n
    BY ListIs DEF PlanInv, PlansAreOf
  <2>3. /\ IsList(plans') /\ Len(plans') = n + 1 /\ plans'[n + 1] = known.plan
        /\ \A i \in 1 .. n : plans'[i] = plans[i]
    <3> HIDE DEF known
    <3> QED BY <2>1, <2>2, AppendIs
  <2>4. DOMAIN plans' = 1 .. n + 1
    BY <2>2, <2>3, ListIs
  <2>5. steps[n + 1].wait \in BOOLEAN /\ Len(steps) \in Nat
    <3>1. PlaybookAccepted(doc) /\ DocumentIsTree(doc)
      BY <2>1, InputIsTree DEF PlanInv, Accepted
    <3>2. PICK k \in DOMAIN doc.plays : play = doc.plays[k]
      BY <2>1, <3>1, PlayIs DEF PlanInv
    <3> DEFINE ps == LoadItems(LoadPlaybook(doc), doc.plays[k].items)
    <3>3. steps = LoadPlay(LoadPlaybook(doc), doc.plays[k])
      BY <3>2 DEF steps, pb
    <3>4. IsList(steps) /\ DOMAIN steps = DOMAIN ps /\ \A i \in DOMAIN ps :
            steps[i] = LoadStep(ps[i])
      BY <3>1, <3>3, StepsAre
    <3> HIDE DEF ps
    <3>5. n + 1 \in DOMAIN ps /\ Len(steps) \in Nat
      BY <2>1, <2>2, <3>4, ListIs
    <3>6. LoadStep(ps[n + 1]).wait = IsWait(ps[n + 1].block)
      BY DEF LoadStep, PlayStep
    <3> QED BY <3>4, <3>5, <3>6 DEF IsWait
  <2>6. PlanFits(pb, steps[n + 1], known.plan)
    BY <2>5, PlanStepFits
  <2> HIDE DEF known, n
  <2>7. \A i \in 1 .. n : PlanFits(pb, steps[i], plans[i])
    BY <2>2 DEF PlanInv, PlansAreOf
  <2>8. \A i \in DOMAIN plans' : PlanFits(pb, steps[i], plans'[i])
    BY <2>2, <2>3, <2>4, <2>6, <2>7
  <2>9. Len(plans') <= Len(steps)
    BY <2>1, <2>2, <2>3, <2>5
  <2> QED BY <1>1, <1>2, <2>1, <2>3, <2>8, <2>9 DEF PlanInv, PlansAreOf
<1>4. CASE ~PlanNext
  <2>1. plans' = plans
    BY <1>4 DEF Next, vars, Unplanned
  <2>2. PlansAreOf(steps, plans)'
    BY <1>2, <2>1 DEF PlanInv, PlansAreOf
  <2>3. phase' \notin {"load", "refused"} => Accepted
    BY <1>4 DEF PlanInv, Next, vars, Load, Override, StartGatherers, FinishGatherer, BindResults,
                Planned, PlanAll, Refuse, Advance
  <2>4. phase' \in {"gathering", "plan", "planned"} => Selected # {}
    BY <1>4 DEF PlanInv, Next, vars, Load, Override, StartGatherers, FinishGatherer, BindResults,
                Planned, PlanAll, Refuse, Advance
  <2>5. phase' \notin {"plan", "planned"} => plans = << >>
    BY <1>4 DEF PlanInv, Next, vars, Load, Override, StartGatherers, FinishGatherer, BindResults,
                Planned, PlanAll, Refuse, Advance
  <2> QED BY <1>1, <1>2, <2>1, <2>2, <2>3, <2>4, <2>5 DEF PlanInv
<1> QED BY <1>3, <1>4

\* The inductive invariant of the planner of run.rs: there is a plan for each of the
\* first steps of the play the loader made, of that step's class.
THEOREM PlanInvariant == Spec => []PlanInv
<1>1. Init => PlanInv
  <2> SUFFICES ASSUME Init PROVE PlanInv
    OBVIOUS
  <2>1. IsList(<< >>) /\ Len(<< >>) = 0 /\ DOMAIN << >> = {}
    BY DEF IsList
  <2> QED BY <2>1 DEF Init, VariablesInit, PlanInv, PlansAreOf
<1>2. PlanInv /\ [Next]_vars => PlanInv'
  BY PlanInvStep
<1> QED BY <1>1, <1>2, PTL DEF Spec

\* Every step of a play comes to the scheduler with the tightest of its classes.
LEMMA TightFollows ==
  ASSUME PlanInv
  PROVE  RunsUnderTightest
<1> SUFFICES ASSUME NEW i \in DOMAIN plans, plans[i].kind = "run"
             PROVE  LET c == Leaves(pb, play)[i].chain
                        class == Declared(pb, "resources", plans[i].resource).concurrency
                    IN /\ plans[i].concurrency \in Deciding(class, c)
                       /\ \A x \in Deciding(class, c) : ~Looser(plans[i].concurrency, x)
  BY DEF RunsUnderTightest
<1>1. phase \in {"plan", "planned"}
  BY DEF PlanInv
<1>2. PlaybookAccepted(doc) /\ DocumentIsTree(doc)
  BY <1>1, InputIsTree DEF PlanInv, Accepted
<1>3. PICK k \in DOMAIN doc.plays : play = doc.plays[k]
  BY <1>1, <1>2, PlayIs DEF PlanInv
<1> DEFINE ps == LoadItems(LoadPlaybook(doc), doc.plays[k].items)
           p == ps[i]
           ref == p.target
           own == Declared(pb, "resources", ref).concurrency
           chain == Leaves(pb, play)[i].chain
<1>4. /\ steps = LoadPlay(LoadPlaybook(doc), doc.plays[k]) /\ pb = LoadPlaybook(doc)
      /\ chain = Leaves(LoadPlaybook(doc), doc.plays[k])[i].chain
  BY <1>3 DEF steps, pb
<1>5. IsList(steps) /\ DOMAIN steps = DOMAIN ps /\ \A j \in DOMAIN ps : steps[j] = LoadStep(ps[j])
  BY <1>2, <1>4, StepsAre
<1>6. IsList(plans) /\ Len(plans) <= Len(steps) /\ PlanFits(pb, steps[i], plans[i])
  BY DEF PlanInv, PlansAreOf
<1>7. i \in DOMAIN ps
  <2> HIDE DEF ps
  <2> QED BY <1>5, <1>6, ListIs
<1>8. /\ LoadStep(p).wait = IsWait(p.block) /\ LoadStep(p).target = ref
  <2> HIDE DEF p, ps
  <2> QED BY DEF LoadStep, PlayStep, ref
<1>9. /\ ~IsWait(p.block) /\ Declares(pb, "resources", ref) /\ plans[i].resource = ref
      /\ plans[i].concurrency = Tighter(LoadStep(p).concurrency, own)
  <2>1. steps[i] = LoadStep(p)
    BY <1>5, <1>7
  <2> HIDE DEF p, ref
  <2> QED BY <1>6, <1>8, <2>1 DEF PlanFits
<1>10. own \in DOMAIN Tightness
  <2> HIDE DEF ref
  <2> QED BY <1>2, <1>4, <1>9, ResourceClass
<1> HIDE DEF own
<1>11. LET c == Leaves(LoadPlaybook(doc), doc.plays[k])[i].chain
           class == Tighter(LoadStep(p).concurrency, own)
       IN /\ class \in Deciding(own, c)
          /\ \A x \in Deciding(own, c) : ~Looser(class, x)
  BY <1>2, <1>7, <1>9, <1>10, StaysTight
<1> HIDE DEF chain, p
<1> QED BY <1>4, <1>9, <1>11 DEF own, chain

\* Through any number of invocations, a step comes to the scheduler with the tightest
\* of the classes of its resource, its own and the nearest invocation that declares
\* one: max_opt and `or` of load.rs, and max of run.rs.
THEOREM Tight == Spec => []RunsUnderTightest
BY PlanInvariant, TightFollows, PTL

(* ----------------------------------------------------- the planner's caches *)

Verdicts == {"true", "false", "error"}

\* What the caches hold once every name is found: conditions that were
\* evaluated, and arguments, or why there are none - never that a block or a
\* composite is missing.
Decided(cache) == \A p \in DOMAIN cache : cache[p] \in Verdicts

CleanArgs(a) == a.r \in {"args", "off", "error"} /\ (a.r = "error" => a.why = "value")
Clean(cache) == \A p \in DOMAIN cache : CleanArgs(cache[p])

\* A cache that is clean stays so with one more clean entry.
LEMMA PutClean ==
  ASSUME NEW cache, Clean(cache), NEW key, NEW value, CleanArgs(value)
  PROVE  Clean(Put(cache, key, value)) /\ key \in DOMAIN Put(cache, key, value)
BY DEF Clean, Put

\* A condition is true, false or an error.
LEMMA ConditionIs ==
  ASSUME NEW e, NEW values
  PROVE  Condition(e, values) \in Verdicts
BY DEF Condition, Verdicts

\* The arguments of an invocation do not say that something is missing.
LEMMA InvocationClean ==
  ASSUME NEW block, NEW params, NEW values
  PROVE  CleanArgs(InvocationArgs(block, params, values))
<1> DEFINE read == WithDefaults(ReadProperties(block.props, values), params)
<1>1. \/ InvocationArgs(block, params, values) = RuledOut
      \/ InvocationArgs(block, params, values) = NoArgs("value")
      \/ InvocationArgs(block, params, values) = Args(read)
  BY DEF InvocationArgs
<1> HIDE DEF read
<1> QED BY <1>1 DEF CleanArgs, RuledOut, NoArgs, Args

\* The arguments of the invocation at frame k, given those around it.
LEMMA ArgsNext ==
  ASSUME NEW book, NEW blocks, NEW values, NEW step, NEW k,
         Declares(book, "composites", step.frames[k].composite),
         k = 1 => Found(blocks, "step", PlaybookPath(step), step.frames[1].step) # {},
         NEW cache, Clean(cache), NEW around, Clean(around),
         k # 1 => ArgsKey(step, k - 1) \in DOMAIN around
  PROVE  /\ Clean(ArgsAt(book, blocks, values, step, k, cache, around))
         /\ ArgsKey(step, k) \in DOMAIN ArgsAt(book, blocks, values, step, k, cache, around)
<1> DEFINE key == ArgsKey(step, k)
           frame == step.frames[k]
           params == Declared(book, "composites", frame.composite).params
           outer == around[ArgsKey(step, k - 1)]
           first == InvocationArgs(BlockAt(blocks, "step", PlaybookPath(step), frame.step), params,
                                   values)
           inner == InvocationArgs(InBody(book, step.frames[k - 1], frame.step), params,
                                   CompositeScope(outer.v))
           new == ArgsAt(book, blocks, values, step, k, cache, around)
<1>1. CleanArgs(first) /\ CleanArgs(inner)
  BY InvocationClean
<1> HIDE DEF first, inner
<1>2. CASE key \in DOMAIN cache
  <2>1. new = cache
    BY <1>2 DEF ArgsAt
  <2> QED BY <1>2, <2>1
<1>3. CASE key \notin DOMAIN cache /\ k = 1
  <2>1. new = Put(cache, key, first)
    BY <1>3 DEF ArgsAt, first
  <2> HIDE DEF key, new
  <2> QED BY <1>1, <2>1, PutClean DEF key, new
<1>4. CASE key \notin DOMAIN cache /\ k # 1
  <2>1. new = Put(around, key, IF outer.r # "args" THEN outer ELSE inner)
    BY <1>4 DEF ArgsAt, inner
  <2>2. CleanArgs(outer)
    BY <1>4 DEF Clean
  <2> HIDE DEF key, new, outer
  <2>3. CleanArgs(IF outer.r # "args" THEN outer ELSE inner)
    BY <1>1, <2>2
  <2> QED BY <2>1, <2>3, PutClean DEF key, new
<1> QED BY <1>2, <1>3, <1>4

\* Nor do those the planner finds or puts in its cache, since every frame of a step
\* names a composite that is declared.
LEMMA CachedArgsClean ==
  ASSUME NEW book, NEW blocks, NEW values, NEW step, NEW cache, Clean(cache),
         NEW N \in Nat, N = Len(step.frames),
         \A k \in 1 .. N : Declares(book, "composites", step.frames[k].composite),
         N # 0 => Found(blocks, "step", PlaybookPath(step), step.frames[1].step) # {}
  PROVE  /\ Clean(CachedArgs(book, blocks, values, step, cache))
         /\ N # 0 => ArgsKey(step, N) \in DOMAIN CachedArgs(book, blocks, values, step, cache)
<1> DEFINE f == CHOOSE g : ArgsUpTo(g, book, blocks, values, step, cache, Len(step.frames))
           Good(n) == Clean(f[n]) /\ (n # 0 => ArgsKey(step, n) \in DOMAIN f[n])
           Wrong == {n \in 0 .. N : ~Good(n)}
<1>1. CachedArgs(book, blocks, values, step, cache) = f[Len(step.frames)]
  BY DEF CachedArgs, ArgsUpTo
<1>2. ArgsUpTo(f, book, blocks, values, step, cache, N)
  BY ArgsByStep
<1> HIDE DEF f
<1>3. \A n \in 0 .. N :
        f[n] = IF n = 0 THEN cache ELSE ArgsAt(book, blocks, values, step, n, cache, f[n - 1])
  BY <1>2 DEF ArgsUpTo
<1>4. Wrong = {}
  <2> SUFFICES ASSUME Wrong # {} PROVE FALSE
    OBVIOUS
  <2>1. PICK n \in Wrong : \A m \in Wrong : ~(m < n)
    <3>1. Wrong \in SUBSET Nat
      OBVIOUS
    <3> HIDE DEF Wrong
    <3> QED BY <3>1, LeastOf
  <2>2. n \in 0 .. N /\ ~Good(n)
    BY <2>1
  <2>3. n # 0
    BY <1>3, <2>2
  <2>4. n - 1 \in 0 .. N /\ n - 1 < n /\ n \in 1 .. N /\ N # 0 /\ (n # 1 => n - 1 # 0)
    BY <2>2, <2>3
  <2>5. Good(n - 1)
    BY <2>1, <2>4
  <2> DEFINE a == f[n - 1]
  <2>6. Clean(a) /\ (n # 1 => ArgsKey(step, n - 1) \in DOMAIN a)
    BY <2>4, <2>5
  <2>7. f[n] = ArgsAt(book, blocks, values, step, n, cache, a)
    BY <1>3, <2>2, <2>3
  <2> HIDE DEF a
  <2>8. Declares(book, "composites", step.frames[n].composite)
    BY <2>4
  <2>9. /\ Clean(ArgsAt(book, blocks, values, step, n, cache, a))
        /\ ArgsKey(step, n) \in DOMAIN ArgsAt(book, blocks, values, step, n, cache, a)
    BY <2>4, <2>6, <2>8, ArgsNext
  <2> QED BY <2>2, <2>7, <2>9
<1>5. Good(N)
  BY <1>4
<1> QED BY <1>1, <1>5

\* The containers around a step.
LEMMA ConditionNext ==
  ASSUME NEW blocks, NEW values, NEW path, NEW d, NEW before,
         Decided(before.containers), before.verdict \in Verdicts,
         Found(blocks, "container", SubSeq(path, 1, d - 1), path[d]) # {}
  PROVE  LET after == ConditionAt(blocks, values, path, d, before)
         IN Decided(after.containers) /\ after.verdict \in Verdicts
<1> DEFINE key == SubSeq(path, 1, d)
           at == SubSeq(path, 1, d - 1)
           asked == Condition(BlockAt(blocks, "container", at, path[d]).condition, values)
           here == IF key \in DOMAIN before.containers THEN before.containers[key] ELSE asked
           after == ConditionAt(blocks, values, path, d, before)
<1>1. asked \in Verdicts
  BY ConditionIs
<1>2. after = IF before.verdict # "true" THEN before
              ELSE [containers |-> Put(before.containers, key, here), verdict |-> here]
  BY DEF ConditionAt
<1> HIDE DEF asked, after, key
<1>3. here \in Verdicts
  BY <1>1 DEF Decided
<1> HIDE DEF here
<1>4. Decided(Put(before.containers, key, here))
  BY <1>3 DEF Decided, Put
<1>5. Decided(after.containers) /\ after.verdict \in Verdicts
  BY <1>2, <1>3, <1>4
<1> QED BY <1>5 DEF after

\* Every container on the way to a step is found, so its condition is decided.
LEMMA CachedConditionsDecided ==
  ASSUME NEW blocks, NEW values, NEW path, NEW cache, Decided(cache),
         NEW N \in Nat, N = Len(path),
         \A d \in 1 .. N : Found(blocks, "container", SubSeq(path, 1, d - 1), path[d]) # {}
  PROVE  LET after == CachedConditions(blocks, values, path, cache)
         IN /\ Decided(after.containers) /\ after.verdict \in Verdicts
            /\ N = 0 => after.verdict = "true"
<1> DEFINE f == CHOOSE g : ConditionsUpTo(g, blocks, values, path, cache, Len(path))
           Good(n) == Decided(f[n].containers) /\ f[n].verdict \in Verdicts
           Wrong == {n \in 0 .. N : ~Good(n)}
<1>1. CachedConditions(blocks, values, path, cache) = f[Len(path)]
  BY DEF CachedConditions, ConditionsUpTo
<1>2. ConditionsUpTo(f, blocks, values, path, cache, N)
  BY ConditionsByStep
<1> HIDE DEF f
<1>3. /\ f[0] = [containers |-> cache, verdict |-> "true"]
      /\ \A n \in 1 .. N : f[n] = ConditionAt(blocks, values, path, n, f[n - 1])
  BY <1>2 DEF ConditionsUpTo
<1>4. Good(0) /\ f[0].verdict = "true"
  BY <1>3 DEF Verdicts
<1>5. Wrong = {}
  <2> SUFFICES ASSUME Wrong # {} PROVE FALSE
    OBVIOUS
  <2>1. PICK n \in Wrong : \A m \in Wrong : ~(m < n)
    <3>1. Wrong \in SUBSET Nat
      OBVIOUS
    <3> HIDE DEF Wrong
    <3> QED BY <3>1, LeastOf
  <2>2. n \in 0 .. N /\ ~Good(n) /\ n # 0
    BY <1>4, <2>1
  <2>3. n - 1 \in 0 .. N /\ n - 1 < n /\ n \in 1 .. N
    BY <2>2
  <2>4. Good(n - 1)
    BY <2>1, <2>3
  <2> DEFINE a == f[n - 1]
  <2>5. Decided(a.containers) /\ a.verdict \in Verdicts
    BY <2>4
  <2>6. f[n] = ConditionAt(blocks, values, path, n, a)
    BY <1>3, <2>3
  <2> HIDE DEF a
  <2>7. Found(blocks, "container", SubSeq(path, 1, n - 1), path[n]) # {}
    BY <2>3
  <2> QED BY <2>2, <2>5, <2>6, <2>7, ConditionNext
<1>6. Good(N)
  BY <1>5
<1> QED BY <1>1, <1>4, <1>6

(* ------------------------------------------------ what the planner looks up *)

\* The path of a row, as a list.
LEMMA PathOfIs ==
  ASSUME NEW row, IsList(row.within)
  PROVE  /\ IsList(PathOf(row)) /\ Len(PathOf(row)) = Len(row.within)
         /\ \A d \in 1 .. Len(row.within) : PathOf(row)[d] = row.within[d].name
<1>1. Len(row.within) \in Nat /\ DOMAIN row.within = 1 .. Len(row.within)
  BY ListIs
<1>2. PathOf(row) = [d \in 1 .. Len(row.within) |-> row.within[d].name]
  BY <1>1 DEF PathOf
<1> DEFINE path == PathOf(row)
<1>3. DOMAIN path = 1 .. Len(row.within) /\ path = [d \in 1 .. Len(row.within) |-> path[d]]
  BY <1>2
<1>4. \A d \in 1 .. Len(row.within) : path[d] = row.within[d].name
  BY <1>2
<1> HIDE DEF path
<1>5. IsList(path) /\ Len(path) = Len(row.within)
  BY <1>1, <1>3, ListOf
<1> QED BY <1>4, <1>5 DEF path

\* A block of the play is found under its kind, its path and its name.
LEMMA FoundAt ==
  ASSUME NEW items, NEW i \in DOMAIN PlayBlocks(items), NEW kind, NEW path, NEW name,
         kind = PlayBlocks(items)[i].block.kind, path = PathOf(PlayBlocks(items)[i]),
         name = PlayBlocks(items)[i].block.name
  PROVE  i \in Found(IndexBlocks(items), kind, path, name)
<1> DEFINE rows == PlayBlocks(items)
           blocks == IndexBlocks(items)
<1>1. DOMAIN blocks = DOMAIN rows /\ blocks[i].path = PathOf(rows[i])
      /\ blocks[i].block = rows[i].block
  BY DEF IndexBlocks
<1> HIDE DEF blocks, rows
<1> QED BY <1>1 DEF Found, blocks, rows

\* A container around a step is a block of the play too, under the names of
\* those around it.
IsAround(other, row, d) ==
  /\ other.block = row.within[d]
  /\ row.within[d].kind = "container" /\ row.within[d].name = PathOf(row)[d]
  /\ PathOf(other) = SubSeq(PathOf(row), 1, d - 1)

LEMMA ContainerRow ==
  ASSUME NEW items, PlayIsTree(items), NEW row, NEW j \in DOMAIN StepRows(items),
         row = StepRows(items)[j], NEW d \in 1 .. Len(row.within)
  PROVE  \E k \in DOMAIN PlayBlocks(items) : IsAround(PlayBlocks(items)[k], row, d)
<1> DEFINE rows == PlayBlocks(items)
           path == PathOf(row)
           outer == Row(FirstOf(row.within, d - 1), row.within[d])
<1>1. RowsSound(rows)
  BY RowsOfPlay
<1>2. PICK i \in DOMAIN rows : row = rows[i]
  BY <1>1, StepRowsAre DEF RowsSound
<1>3. IsList(row.within)
  BY <1>1, <1>2 DEF RowsSound
<1>4. row.within[d].kind = "container" /\ \E k \in DOMAIN rows : rows[k] = outer
  BY <1>1, <1>2 DEF RowsSound
<1>5. PICK k \in DOMAIN rows : rows[k] = outer
  BY <1>4
<1>6. outer.within = FirstOf(row.within, d - 1) /\ outer.block = row.within[d]
  BY DEF Row
<1> HIDE DEF outer, rows
<1>7. Len(row.within) \in Nat /\ d - 1 \in Nat /\ d \in Nat
  BY <1>3, ListIs
<1>8. /\ IsList(outer.within) /\ Len(outer.within) = d - 1
      /\ \A e \in 1 .. d - 1 : outer.within[e] = row.within[e]
  BY <1>6, <1>7, FirstOfIs
<1>9. /\ IsList(path) /\ Len(path) = Len(row.within)
      /\ \A e \in 1 .. Len(row.within) : path[e] = row.within[e].name
  BY <1>3, PathOfIs
<1>10. /\ IsList(PathOf(outer)) /\ Len(PathOf(outer)) = d - 1
       /\ \A e \in 1 .. d - 1 : PathOf(outer)[e] = outer.within[e].name
  BY <1>8, PathOfIs
<1>11. /\ IsList(FirstOf(path, d - 1)) /\ Len(FirstOf(path, d - 1)) = d - 1
       /\ \A e \in 1 .. d - 1 : FirstOf(path, d - 1)[e] = path[e]
  BY <1>7, FirstOfIs
<1> HIDE DEF path
<1>12. PathOf(outer) = FirstOf(path, d - 1)
  <2>1. \A e \in 1 .. d - 1 : e \in 1 .. Len(row.within)
    BY <1>7
  <2>2. \A e \in 1 .. d - 1 : PathOf(outer)[e] = FirstOf(path, d - 1)[e]
    BY <1>8, <1>9, <1>10, <1>11, <2>1
  <2> QED BY <1>10, <1>11, <2>2, ListsEqual
<1>13. SubSeq(path, 1, d - 1) = PathOf(outer)
  BY <1>7, <1>12, SubSeqIs
<1>14. path[d] = row.within[d].name
  BY <1>9
<1>15. IsAround(rows[k], row, d)
  BY <1>4, <1>5, <1>6, <1>13, <1>14 DEF IsAround, path
<1> QED BY <1>15 DEF rows

\* The step an author declared is found, and so are its containers.
LEMMA StepFound ==
  ASSUME NEW items, PlayIsTree(items), NEW j \in DOMAIN StepRows(items)
  PROVE  LET row == StepRows(items)[j]
         IN /\ IsList(row.within)
            /\ Found(IndexBlocks(items), "step", PathOf(row), row.block.name) # {}
            /\ \A d \in 1 .. Len(row.within) :
                 Found(IndexBlocks(items), "container", SubSeq(PathOf(row), 1, d - 1),
                       PathOf(row)[d]) # {}
<1> DEFINE row == StepRows(items)[j]
           rows == PlayBlocks(items)
           path == PathOf(row)
<1>1. RowsSound(rows)
  BY RowsOfPlay
<1>2. IsList(rows)
  BY <1>1 DEF RowsSound
<1>3. PICK i \in DOMAIN rows : row = rows[i] /\ rows[i].block.kind = "step"
  BY <1>2, StepRowsAre
<1>4. IsList(row.within)
  BY <1>1, <1>3 DEF RowsSound
<1>5. i \in Found(IndexBlocks(items), "step", path, row.block.name)
  BY <1>3, FoundAt
<1>6. ASSUME NEW d \in 1 .. Len(row.within)
      PROVE  Found(IndexBlocks(items), "container", SubSeq(path, 1, d - 1), path[d]) # {}
  <2>0. row = StepRows(items)[j] /\ d \in 1 .. Len(row.within) /\ j \in DOMAIN StepRows(items)
    OBVIOUS
  <2> HIDE DEF row
  <2>1. PICK k \in DOMAIN rows : IsAround(rows[k], row, d)
    BY <2>0, ContainerRow
  <2>2. k \in Found(IndexBlocks(items), "container", SubSeq(path, 1, d - 1), path[d])
    <3> HIDE DEF path
    <3> QED BY <2>1, FoundAt DEF rows, IsAround, path
  <2> QED BY <2>2
<1> QED BY <1>4, <1>5, <1>6

\* The path a step has in the play is that of the containers of its leaf.
StandsAt(items, path, leaf) ==
  \E j \in DOMAIN StepRows(items) :
    leaf.containers = StepRows(items)[j].within /\ path = PathOf(StepRows(items)[j])

\* Where a step stands, by its path and its frames.
Standing(book, items, step, leaf) ==
  LET l     == Len(leaf.chain)
      path  == PlaybookPath(step)
      block == leaf.chain[1].block
      blocks == IndexBlocks(items)
  IN /\ l \in Nat \ {0} /\ Len(step.frames) = l - 1 /\ Len(leaf.containers) \in Nat
     /\ step.frames = << >> <=> l = 1
     /\ Len(path) = Len(leaf.containers) /\ StandsAt(items, path, leaf)
     /\ l = 1 => step.path = path /\ step.name = block.name
     /\ l # 1 => step.frames[1].step = block.name
     /\ \A k \in 1 .. l - 1 : Declares(book, "composites", step.frames[k].composite)
     /\ Found(blocks, "step", path, block.name) # {}
     /\ \A d \in 1 .. Len(leaf.containers) :
          Found(blocks, "container", SubSeq(path, 1, d - 1), path[d]) # {}

\* A step of the loader stands where its leaf stands: everything on its path is found.
LEMMA StepStanding ==
  ASSUME NEW book, NEW items, PlayIsTree(items), NEW leaf, Rooted(book, StepRows(items), leaf),
         NEW p, StandsFor(p, leaf)
  PROVE  Standing(book, items, LoadStep(p), leaf)
<1> DEFINE l == Len(leaf.chain)
           c == Len(leaf.containers)
           step == LoadStep(p)
           rows == StepRows(items)
           blocks == IndexBlocks(items)
<1>1. /\ step.path = p.path /\ step.frames = p.frames /\ step.name = p.block.name
  BY DEF LoadStep, PlayStep
<1>2. PICK j \in DOMAIN rows :
        /\ leaf.containers = rows[j].within
        /\ leaf.chain[1] = Link(j, rows[j].block, Target(rows[j].block))
  BY DEF Rooted
<1>3. leaf.chain[1].block = rows[j].block
  BY <1>2 DEF Link
<1>4. l \in Nat /\ l # 0
  BY ListIs DEF Rooted
<1>5. /\ IsList(rows[j].within)
      /\ Found(blocks, "step", PathOf(rows[j]), rows[j].block.name) # {}
      /\ \A d \in 1 .. Len(rows[j].within) :
           Found(blocks, "container", SubSeq(PathOf(rows[j]), 1, d - 1), PathOf(rows[j])[d]) # {}
  BY StepFound
<1>6. /\ p.frames = [d \in 1 .. l - 1 |-> Frame(leaf.chain[d].block.name, leaf.chain[d].target,
                                                leaf.chain[d].block.requires)]
      /\ IsList(p.path) /\ Len(p.path) = c + (l - 1)
      /\ \A d \in 1 .. c : p.path[d] = leaf.containers[d].name
      /\ p.block = leaf.chain[l].block
  BY DEF StandsFor
<1>7. c \in Nat /\ c = Len(rows[j].within)
  BY <1>2, <1>5, ListIs
<1>8. /\ Len(p.frames) = l - 1 /\ IsList(p.frames)
      /\ \A d \in 1 .. l - 1 :
           /\ p.frames[d].step = leaf.chain[d].block.name
           /\ p.frames[d].composite = leaf.chain[d].target
  <2> DEFINE frames == p.frames
  <2>1. l - 1 \in Nat
    BY <1>4
  <2>2. DOMAIN frames = 1 .. l - 1 /\ frames = [d \in 1 .. l - 1 |-> frames[d]]
    BY <1>6
  <2>3. \A d \in 1 .. l - 1 :
          /\ frames[d].step = leaf.chain[d].block.name /\ frames[d].composite = leaf.chain[d].target
    BY <1>6 DEF Frame
  <2> HIDE DEF frames
  <2>4. IsList(frames) /\ Len(frames) = l - 1
    BY <2>1, <2>2, ListOf
  <2> QED BY <2>3, <2>4 DEF frames
<1>9. step.frames = << >> <=> l = 1
  <2>1. IsList(<< >>) /\ Len(<< >>) = 0
    BY DEF IsList
  <2>2. Len(p.frames) = 0 => p.frames = << >>
    BY <1>8, <2>1, ListsEqual
  <2>3. p.frames = << >> <=> Len(p.frames) = 0
    BY <2>1, <2>2
  <2>4. Len(p.frames) = 0 <=> l = 1
    <3> HIDE DEF l
    <3> QED BY <1>4, <1>8
  <2> QED BY <1>1, <2>3, <2>4
<1>10. PlaybookPath(step) = PathOf(rows[j])
  <2>1. PlaybookPath(step) = SubSeq(p.path, 1, c)
    <3>1. Len(p.path) - Len(p.frames) = c
      <4>1. Len(p.path) = c + (l - 1) /\ Len(p.frames) = l - 1 /\ l \in Nat /\ c \in Nat
        BY <1>4, <1>6, <1>7, <1>8
      <4> HIDE DEF l, c
      <4> QED BY <4>1
    <3> HIDE DEF step, c
    <3> QED BY <1>1, <3>1 DEF PlaybookPath
  <2>2. /\ IsList(FirstOf(p.path, c)) /\ Len(FirstOf(p.path, c)) = c
        /\ \A d \in 1 .. c : FirstOf(p.path, c)[d] = p.path[d]
    BY <1>7, FirstOfIs
  <2>3. /\ IsList(PathOf(rows[j])) /\ Len(PathOf(rows[j])) = c
        /\ \A d \in 1 .. c : PathOf(rows[j])[d] = rows[j].within[d].name
    BY <1>5, <1>7, PathOfIs
  <2>4. \A d \in 1 .. c : FirstOf(p.path, c)[d] = PathOf(rows[j])[d]
    BY <1>2, <1>6, <2>2, <2>3
  <2>5. FirstOf(p.path, c) = PathOf(rows[j])
    <3> HIDE DEF c
    <3> QED BY <2>2, <2>3, <2>4, ListsEqual
  <2> QED BY <1>7, <2>1, <2>5, SubSeqIs
<1>11. l = 1 => step.path = PlaybookPath(step) /\ step.name = leaf.chain[1].block.name
  <2>1. l = 1 => Len(p.path) = c
    BY <1>6, <1>7
  <2>2. l = 1 => p.path = SubSeq(p.path, 1, c)
    BY <1>6, <1>7, <2>1, WholeOf, SubSeqIs
  <2>3. l = 1 => Len(p.path) - Len(p.frames) = c
    BY <1>7, <1>8, <2>1
  <2>4. PlaybookPath(step) = SubSeq(p.path, 1, Len(p.path) - Len(p.frames))
    <3> HIDE DEF step
    <3> QED BY <1>1 DEF PlaybookPath
  <2> QED BY <1>1, <1>6, <2>2, <2>3, <2>4
<1>12. \A k \in 1 .. l - 1 : Declares(book, "composites", step.frames[k].composite)
  <2>1. \A k \in 1 .. l - 1 : IsInvocation(book, leaf.chain[k].block, leaf.chain[k].target)
    BY DEF Rooted
  <2> HIDE DEF step
  <2> QED BY <1>1, <1>8, <2>1 DEF IsInvocation
<1>13. Len(PlaybookPath(step)) = c
  BY <1>5, <1>7, <1>10, PathOfIs
<1>14. l # 1 => step.frames[1].step = leaf.chain[1].block.name
  <2>1. l # 1 => 1 \in 1 .. l - 1
    <3> HIDE DEF l
    <3> QED BY <1>4
  <2> HIDE DEF step
  <2> QED BY <1>1, <1>8, <2>1
<1>14a. StandsAt(items, PlaybookPath(step), leaf)
  BY <1>2, <1>10 DEF StandsAt
<1> HIDE DEF step, blocks
<1>15. /\ Found(blocks, "step", PlaybookPath(step), leaf.chain[1].block.name) # {}
       /\ \A d \in 1 .. c :
            Found(blocks, "container", SubSeq(PlaybookPath(step), 1, d - 1), PlaybookPath(step)[d]) # {}
  BY <1>3, <1>5, <1>7, <1>10
<1> HIDE DEF l, c
<1>16. Len(step.frames) = l - 1
  BY <1>1, <1>8
<1> QED BY <1>4, <1>7, <1>9, <1>11, <1>12, <1>13, <1>14, <1>15, <1>16, <1>14a
    DEF Standing, step, blocks, l, c

(* ------------------------------------------------- a plan lacks no name *)

Complete(plan) == plan.kind = "fail" => plan.why = "value"

\* Leaving a step out is not failing.
LEMMA SkipComplete ==
  Complete(Skip) /\ Complete(Fail("value"))
BY DEF Complete, Skip, Fail

\* A block that names something declared is planned without anything missing.
LEMMA BlockComplete ==
  ASSUME NEW book, NEW step, NEW block, NEW values, step.wait \in BOOLEAN,
         Declares(book, IF step.wait THEN "probes" ELSE "resources", step.target)
  PROVE  Complete(PlanFromBlock(book, step, block, values))
<1> DEFINE kind == IF step.wait THEN "probes" ELSE "resources"
           decl == Declared(book, kind, step.target)
           plan == PlanFromBlock(book, step, block, values)
<1>1. \/ plan = Skip \/ plan = Fail("value")
      \/ plan = IF step.wait THEN WaitPlan(step, block, decl, values)
                ELSE RunPlan(step, block, decl, values)
  BY DEF PlanFromBlock
<1> SUFFICES Complete(plan)
  OBVIOUS
<1> HIDE DEF plan, decl
<1>2. CASE plan = RunPlan(step, block, decl, values)
  <2>1. plan.kind = "run"
    BY <1>2 DEF RunPlan
  <2> QED BY <2>1 DEF Complete
<1>3. CASE plan = WaitPlan(step, block, decl, values)
  <2>1. plan = Fail("value") \/ plan.kind = "wait"
    BY <1>3 DEF WaitPlan
  <2> QED BY <2>1, SkipComplete DEF Complete
<1> QED BY <1>1, <1>2, <1>3, SkipComplete

\* The fields of a block that are literals have the values the loader saw.
LEMMA LiteralIs ==
  ASSUME NEW e, e.k = "lit", NEW values
  PROVE  /\ FieldValue(e, values) = FieldValue(e, NoScope)
         /\ FieldValue(e, values).r = "ok" /\ e.k # "block"
BY DEF FieldValue

\* A step without a condition runs.
LEMMA AlwaysIs ==
  ASSUME NEW values
  PROVE  Condition(Always, values) = "true"
<1> DEFINE v == WclValue("bool", "true")
<1>1. v.ty = "bool" /\ v.tok = "true" /\ ToDyn(v).ty = "bool" /\ ToDyn(v).tok = "true"
  BY DEF WclValue, ToDyn
<1> HIDE DEF v
<1>2. FieldValue(Lit(v), values).r = "ok" /\ FieldValue(Lit(v), values).v = ToDyn(v)
  BY DEF FieldValue, Lit
<1>3. Condition(Lit(v), values) = "true"
  BY <1>1, <1>2 DEF Condition
<1> QED BY <1>3 DEF Always, v

\* What the loader has checked of literals, apply_param_defaults accepts.
LEMMA StaticFits ==
  ASSUME NEW fields, Static(fields), NEW decls, CheckParams(fields, decls), NEW values
  PROVE  Readable(fields, values) /\ Fits(ReadProperties(fields, values), decls)
<1> DEFINE read == ReadProperties(fields, values)
<1>1. \A n \in DOMAIN fields :
        /\ FieldValue(fields[n], values) = FieldValue(fields[n], NoScope)
        /\ FieldValue(fields[n], values).r = "ok" /\ fields[n].k # "block"
  BY LiteralIs DEF Static
<1>2. Attributes(fields) = DOMAIN fields
  BY <1>1 DEF Attributes
<1>3. DOMAIN read = DOMAIN fields /\ \A n \in DOMAIN fields :
        read[n] = FieldValue(fields[n], values).v
  BY <1>2 DEF ReadProperties
<1>4. /\ \A n \in DOMAIN fields : FieldAccepted(fields[n], n, decls, FALSE)
      /\ NothingMissing(decls, DOMAIN fields)
  BY DEF CheckParams, FieldsAccepted
<1> HIDE DEF read
<1>5. ASSUME NEW n \in DOMAIN decls, n \in DOMAIN fields
      PROVE  Matches(decls[n].ty, read[n]) /\ ~SymbolViolation(decls[n].symbols, read[n])
  <2>1. ValueAccepted(decls[n], FieldValue(fields[n], NoScope))
    <3>1. FieldAccepted(fields[n], n, decls, FALSE) /\ FieldValue(fields[n], NoScope).r = "ok"
      BY <1>1, <1>4, <1>5
    <3> QED BY <3>1 DEF FieldAccepted
  <2>2. read[n] = FieldValue(fields[n], NoScope).v
    BY <1>1, <1>3, <1>5
  <2> QED BY <2>1, <2>2 DEF ValueAccepted
<1>6. ASSUME NEW n \in DOMAIN decls, n \notin DOMAIN fields
      PROVE  decls[n].default # NoDefault \/ ~decls[n].required
  BY <1>4, <1>6 DEF NothingMissing
<1>7. Readable(fields, values)
  BY <1>1, <1>2 DEF Readable
<1> QED BY <1>3, <1>5, <1>6, <1>7 DEF Fits, read

\* A block whose fields are literals, and which the loader accepted, is
\* planned.
LEMMA StaticPlanned ==
  ASSUME NEW book, NEW s, StepAccepted(book, s), ~Invokes(book, s),
         Static(s.props), Static(s.wait), s.condition = Always,
         NEW step, step.wait = IsWait(s), step.target = Target(s), NEW values
  PROVE  PlanFromBlock(book, step, s, values).kind # "fail"
<1> DEFINE kind == IF step.wait THEN "probes" ELSE "resources"
           decl == Declared(book, kind, step.target)
           plan == PlanFromBlock(book, step, s, values)
<1>1. Condition(s.condition, values) = "true"
  BY AlwaysIs
<1>2. Declares(book, kind, step.target) /\ CheckParams(s.props, decl.params)
  <2>1. CASE IsWait(s)
    <3>1. Declares(book, "probes", s.waitFor) /\ StepFits(book, s, "probes")
      BY <2>1 DEF StepAccepted, Invokes
    <3> QED BY <2>1, <3>1 DEF StepFits, Target
  <2>2. CASE ~IsWait(s)
    <3>1. Declares(book, "resources", s.resource) /\ StepFits(book, s, "resources")
      BY <2>2 DEF StepAccepted
    <3> QED BY <2>2, <3>1 DEF StepFits, Target
  <2> QED BY <2>1, <2>2
<1>3. Readable(s.props, values) /\ Fits(ReadProperties(s.props, values), decl.params)
  <2> HIDE DEF decl
  <2> QED BY <1>2, StaticFits
<1>4. plan = IF step.wait THEN WaitPlan(step, s, decl, values) ELSE RunPlan(step, s, decl, values)
  <2> HIDE DEF kind
  <2>1. step.wait => kind = "probes"
    BY DEF kind
  <2>2. ~step.wait => kind = "resources"
    BY DEF kind
  <2> QED BY <1>1, <1>2, <1>3 DEF PlanFromBlock, kind
<1> SUFFICES plan.kind # "fail"
  OBVIOUS
<1> HIDE DEF plan, decl
<1>5. CASE ~step.wait
  BY <1>4, <1>5 DEF RunPlan
<1>6. CASE step.wait
  <2>1. /\ "timeout" \in DOMAIN s.wait
        /\ \A n \in DOMAIN s.wait :
             \/ FieldValue(s.wait[n], NoScope).r = "unresolved"
             \/ /\ FieldValue(s.wait[n], NoScope).r = "ok"
                /\ WaitValueFits(n, FieldValue(s.wait[n], NoScope).v)
    BY <1>6 DEF StepAccepted, WaitFieldsAccepted
  <2>2. \A n \in DOMAIN s.wait :
          /\ FieldValue(s.wait[n], values) = FieldValue(s.wait[n], NoScope)
          /\ FieldValue(s.wait[n], values).r = "ok"
    BY LiteralIs DEF Static
  <2>3. \A n \in DOMAIN s.wait :
          /\ FieldValue(s.wait[n], values).r = "ok"
          /\ WaitValueFits(n, FieldValue(s.wait[n], values).v)
    BY <2>1, <2>2
  <2>4. WaitPlan(step, s, decl, values).kind = "wait"
    BY <2>1, <2>3 DEF WaitPlan
  <2> QED BY <1>4, <1>6, <2>4
<1> QED BY <1>5, <1>6

(* ------------------------------------------------ the block that is found *)

\* A set of naturals up to n has a greatest one.
LEMMA GreatestOf ==
  ASSUME NEW n \in Nat, NEW S \in SUBSET (1 .. n), S # {}
  PROVE  \E i \in S : \A j \in S : j <= i
<1> DEFINE T == {n - i : i \in S}
<1>1. T \in SUBSET Nat /\ T # {}
  <2>1. \A i \in S : n - i \in Nat
    <3>1. \A i \in 1 .. n : n - i \in Nat
      OBVIOUS
    <3> QED BY <3>1
  <2>2. PICK i \in S : TRUE
    OBVIOUS
  <2>3. n - i \in T
    OBVIOUS
  <2> QED BY <2>1, <2>3
<1>2. PICK t \in T : \A u \in T : ~(u < t)
  <2> HIDE DEF T
  <2> QED BY <1>1, LeastOf
<1>3. PICK i \in S : t = n - i
  BY <1>2
<1>4. ASSUME NEW j \in S PROVE j <= i
  <2>1. ~(n - j < n - i)
    BY <1>2, <1>3
  <2>2. i \in Nat /\ j \in Nat
    OBVIOUS
  <2> QED BY <2>1, <2>2
<1> QED BY <1>4

\* Under the name of a step nothing but this step is found.
LEMMA OwnBlock ==
  ASSUME NEW items, PlayIsTree(items), NEW j \in DOMAIN StepRows(items),
         \A i, k \in DOMAIN StepRows(items) :
           StepRows(items)[i].block.name = StepRows(items)[k].block.name => i = k,
         NEW path, Found(IndexBlocks(items), "step", path, StepRows(items)[j].block.name) # {}
  PROVE  BlockAt(IndexBlocks(items), "step", path, StepRows(items)[j].block.name)
           = StepRows(items)[j].block
<1> DEFINE rows == PlayBlocks(items)
           steprows == StepRows(items)
           blocks == IndexBlocks(items)
           name == steprows[j].block.name
           S == Found(blocks, "step", path, name)
           c == CHOOSE i \in S : \A k \in S : k <= i
<1>1. IsList(rows)
  BY RowsOfPlay DEF RowsSound
<1>2. /\ \A i \in DOMAIN rows : rows[i].block.kind = "step" =>
           \E k \in DOMAIN steprows : steprows[k] = rows[i]
  BY <1>1, StepRowsAre
<1>3. DOMAIN blocks = DOMAIN rows /\ \A i \in DOMAIN rows : blocks[i].block = rows[i].block
  BY DEF IndexBlocks
<1>4. Len(rows) \in Nat /\ DOMAIN rows = 1 .. Len(rows)
  BY <1>1, ListIs
<1> HIDE DEF blocks, rows, steprows
<1>5. \A i \in S : /\ i \in DOMAIN rows /\ rows[i].block.kind = "step"
                   /\ rows[i].block.name = name /\ blocks[i].block = rows[i].block
  BY <1>3 DEF Found
<1>6. \E i \in S : \A k \in S : k <= i
  <2>1. S \in SUBSET (1 .. Len(rows)) /\ S # {}
    BY <1>4, <1>5 DEF blocks, steprows
  <2> HIDE DEF S
  <2> QED BY <1>4, <2>1, GreatestOf
<1>7. c \in S
  <2> HIDE DEF S
  <2> QED BY <1>6
<1>8. BlockAt(blocks, "step", path, name) = blocks[c].block
  BY DEF BlockAt
<1> HIDE DEF c, S
<1>9. PICK k \in DOMAIN steprows : steprows[k] = rows[c]
  BY <1>2, <1>5, <1>7
<1>10. steprows[k].block.name = steprows[j].block.name
  BY <1>5, <1>7, <1>9
<1>11. k = j
  BY <1>10 DEF steprows
<1> QED BY <1>5, <1>7, <1>8, <1>9, <1>11 DEF blocks, steprows

(* --------------------------------------------------- planning is complete *)

Kind(step) == IF step.wait THEN "probes" ELSE "resources"

KnownSound(known) == Decided(known.containers) /\ Clean(known.args)

\* A step whose path and target are found is planned without anything missing.
LEMMA PlanStepComplete ==
  ASSUME NEW book, NEW items, NEW leaf, NEW step, Standing(book, items, step, leaf),
         step.wait \in BOOLEAN, Declares(book, Kind(step), step.target),
         NEW known, KnownSound(known), NEW values
  PROVE  /\ Complete(PlanStep(book, IndexBlocks(items), values, step, known).plan)
         /\ KnownSound(PlanStep(book, IndexBlocks(items), values, step, known).memory)
<1> DEFINE blocks == IndexBlocks(items)
           path == PlaybookPath(step)
           within == CachedConditions(blocks, values, path, known.containers)
           args == CachedArgs(book, blocks, values, step, known.args)
           inner == args[ArgsKey(step, Len(step.frames))]
           new == PlanStep(book, blocks, values, step, known)
           N == Len(step.frames)
<1>1. Decided(within.containers) /\ within.verdict \in Verdicts
  <2> DEFINE n == Len(path)
  <2>1. n \in Nat /\ \A e \in 1 .. n :
          Found(blocks, "container", SubSeq(path, 1, e - 1), path[e]) # {}
    BY DEF Standing
  <2>2. Decided(known.containers)
    BY DEF KnownSound
  <2> HIDE DEF blocks, path
  <2> QED BY <2>1, <2>2, CachedConditionsDecided
<1>2. /\ Clean(args) /\ (N # 0 => ArgsKey(step, N) \in DOMAIN args)
      /\ N \in Nat /\ (step.frames = << >> <=> N = 0)
  <2> DEFINE l == Len(leaf.chain)
  <2>1. /\ l \in Nat /\ l # 0 /\ N = l - 1 /\ (step.frames = << >> <=> l = 1)
        /\ l # 1 => step.frames[1].step = leaf.chain[1].block.name
        /\ Found(blocks, "step", path, leaf.chain[1].block.name) # {}
        /\ \A e \in 1 .. l - 1 : Declares(book, "composites", step.frames[e].composite)
    BY DEF Standing
  <2> HIDE DEF l, blocks, N
  <2>2. N \in Nat /\ (N # 0 <=> l # 1)
    BY <2>1
  <2>3. /\ N # 0 => Found(blocks, "step", PlaybookPath(step), step.frames[1].step) # {}
        /\ \A e \in 1 .. N : Declares(book, "composites", step.frames[e].composite)
    BY <2>1, <2>2
  <2>4. Clean(known.args)
    BY DEF KnownSound
  <2>5. /\ Clean(CachedArgs(book, blocks, values, step, known.args))
        /\ N # 0 => ArgsKey(step, N) \in DOMAIN CachedArgs(book, blocks, values, step, known.args)
    <3>1. N = Len(step.frames)
      BY DEF N
    <3> QED BY <2>2, <2>3, <2>4, <3>1, CachedArgsClean
  <2> QED BY <2>1, <2>2, <2>5
<1>3. step.frames = << >> =>
        /\ Found(blocks, "step", step.path, step.name) # {}
  BY DEF Standing
<1>4. N # 0 => CleanArgs(inner)
  BY <1>2 DEF Clean
<1>5. N # 0 => Complete(CompositePlan(book, step, inner))
  <2> HIDE DEF inner
  <2> DEFINE b == InBody(book, Last(step.frames), step.name)
             v == CompositeScope(inner.v)
  <2>1. N # 0 =>
          \/ CompositePlan(book, step, inner) = Skip
          \/ CompositePlan(book, step, inner) = Fail("value")
          \/ CompositePlan(book, step, inner) = PlanFromBlock(book, step, b, v)
    BY <1>4 DEF CompositePlan, CleanArgs
  <2>2. Complete(PlanFromBlock(book, step, b, v))
    BY BlockComplete DEF Kind
  <2> HIDE DEF b, v
  <2> QED BY <2>1, <2>2, SkipComplete
<1> HIDE DEF within, args, inner, N, path
<1>6. /\ \/ new.plan = Skip \/ new.plan = Fail("value")
         \/ N # 0 /\ new.plan = CompositePlan(book, step, inner)
         \/ new.plan
            = PlanFromBlock(book, step, BlockAt(blocks, "step", step.path, step.name), values)
      /\ new.memory.containers = within.containers
      /\ new.memory.args = known.args \/ new.memory.args = args
  <2> HIDE DEF blocks
  <2> QED BY <1>1, <1>2, <1>3 DEF PlanStep, within, args, inner, path, N, Verdicts
<1>7. Complete(PlanFromBlock(book, step, BlockAt(blocks, "step", step.path, step.name), values))
  BY BlockComplete DEF Kind
<1>8. Complete(new.plan) /\ KnownSound(new.memory)
  <2>1. Complete(new.plan)
    <3> DEFINE top == PlanFromBlock(book, step, BlockAt(blocks, "step", step.path, step.name),
                                    values)
               body == CompositePlan(book, step, inner)
    <3> HIDE DEF new, top, body
    <3>1. \/ new.plan = Skip \/ new.plan = Fail("value")
          \/ N # 0 /\ new.plan = body
          \/ new.plan = top
      BY <1>6 DEF top, body
    <3>2. Complete(top) /\ (N # 0 => Complete(body))
      BY <1>5, <1>7 DEF top, body
    <3> QED BY <3>1, <3>2, SkipComplete
  <2>2. Decided(new.memory.containers) /\ Clean(new.memory.args)
    <3> HIDE DEF new
    <3>1. Clean(known.args)
      BY DEF KnownSound
    <3> QED BY <1>1, <1>2, <1>6, <3>1
  <2> HIDE DEF new
  <2> QED BY <2>1, <2>2 DEF KnownSound
<1> QED BY <1>8

\* A step that stands in the playbook itself, where nothing waits for a value.
Plain(leaf) ==
  /\ leaf.containers = << >> /\ Len(leaf.chain) = 1
  /\ LET b == leaf.chain[1].block IN Static(b.props) /\ Static(b.wait) /\ b.condition = Always

\* A step of the playbook whose fields are literals does not fail to be planned.
LEMMA PlainPlanned ==
  ASSUME NEW book, NEW items, NEW leaf, NEW step, Standing(book, items, step, leaf), Plain(leaf),
         NEW known, KnownSound(known), NEW values,
         NEW s, s = leaf.chain[1].block, StepAccepted(book, s), ~Invokes(book, s),
         step.wait = IsWait(s), step.target = Target(s),
         BlockAt(IndexBlocks(items), "step", step.path, step.name) = s
  PROVE  PlanStep(book, IndexBlocks(items), values, step, known).plan.kind # "fail"
<1> DEFINE blocks == IndexBlocks(items)
           path == PlaybookPath(step)
           within == CachedConditions(blocks, values, path, known.containers)
           own == PlanFromBlock(book, step, s, values)
           new == PlanStep(book, blocks, values, step, known)
<1>1. /\ Len(path) = 0 /\ step.frames = << >>
      /\ Found(blocks, "step", step.path, step.name) # {}
  <2>1. Len(<< >>) = 0
    OBVIOUS
  <2> QED BY <2>1 DEF Standing, Plain
<1>2. within.verdict = "true"
  <2> DEFINE n == Len(path)
  <2>1. n = 0 /\ n \in Nat
    BY <1>1
  <2>2. \A e \in 1 .. n : Found(blocks, "container", SubSeq(path, 1, e - 1), path[e]) # {}
    BY <2>1
  <2>3. Decided(known.containers)
    BY DEF KnownSound
  <2> HIDE DEF blocks, path
  <2> QED BY <2>1, <2>2, <2>3, CachedConditionsDecided
<1>3. own.kind # "fail"
  <2>1. Static(s.props) /\ Static(s.wait) /\ s.condition = Always
    BY DEF Plain
  <2> QED BY <2>1, StaticPlanned
<1>4. new.plan = own
  <2> HIDE DEF within, own, blocks
  <2> QED BY <1>1, <1>2 DEF PlanStep, within, path, own, blocks
<1> QED BY <1>3, <1>4

\* The next step of an accepted play is planned, and leaves the planner's
\* memory without a gap.
LEMMA NextPlanned ==
  ASSUME NEW d, PlaybookAccepted(d), DocumentIsTree(d), NEW k \in DOMAIN d.plays,
         NEW i \in DOMAIN LoadItems(LoadPlaybook(d), d.plays[k].items),
         NEW step, step = LoadStep(LoadItems(LoadPlaybook(d), d.plays[k].items)[i]),
         NEW known, KnownSound(known), NEW values
  PROVE  LET new == PlanStep(LoadPlaybook(d), IndexBlocks(d.plays[k].items), values, step, known)
         IN /\ Complete(new.plan) /\ KnownSound(new.memory)
            /\ Plain(Leaves(LoadPlaybook(d), d.plays[k])[i]) => new.plan.kind # "fail"
<1> DEFINE book == LoadPlaybook(d)
           items == d.plays[k].items
           rows == StepRows(items)
           leaf == Leaves(book, d.plays[k])[i]
           p == LoadItems(book, items)[i]
           chain == leaf.chain
           l == Len(chain)
           new == PlanStep(book, IndexBlocks(items), values, step, known)
<1>1. PlayIsTree(items)
  BY DEF DocumentIsTree
<1>2. /\ Rooted(book, rows, leaf) /\ StandsFor(p, leaf)
      /\ ~IsInvocation(book, p.block, p.target)
      /\ \A e \in 1 .. l : StepSound(book, chain[e].block, chain[e].target)
  BY LoadedSound DEF InStep
<1>3. /\ \A a, b \in DOMAIN rows : rows[a].block.name = rows[b].block.name => a = b
      /\ \A a \in DOMAIN rows : StepAccepted(book, rows[a].block)
  BY PlaySound
<1>4. /\ step.wait = IsWait(p.block) /\ step.target = p.target
  <2> HIDE DEF p
  <2> QED BY DEF LoadStep, PlayStep, p
<1> HIDE DEF book, items, rows, leaf, p
<1>5. p.block = chain[l].block /\ p.target = chain[l].target
  BY <1>2 DEF StandsFor
<1>6. l \in 1 .. l
  <2>1. l \in Nat /\ l # 0
    BY <1>2, ListIs DEF Rooted
  <2> HIDE DEF l
  <2> QED BY <2>1
<1>7. step.wait \in BOOLEAN /\ Declares(book, Kind(step), step.target)
  <2>1. StepSound(book, p.block, p.target)
    BY <1>2, <1>5, <1>6
  <2> QED BY <1>2, <1>4, <2>1 DEF StepSound, IsInvocation, Kind, IsWait
<1>8. Standing(book, items, step, leaf)
  BY <1>1, <1>2, StepStanding DEF rows, p, book, items
<1>9. Complete(new.plan) /\ KnownSound(new.memory)
  BY <1>7, <1>8, PlanStepComplete
<1>10. ASSUME Plain(leaf) PROVE new.plan.kind # "fail"
  <2> DEFINE s == chain[1].block
  <2>1. l = 1
    BY <1>10 DEF Plain
  <2>2. PICK j \in DOMAIN rows : chain[1] = Link(j, rows[j].block, Target(rows[j].block))
    BY <1>2 DEF Rooted
  <2>3. s = rows[j].block /\ chain[1].target = Target(s)
    BY <2>2 DEF Link
  <2>4. step.wait = IsWait(s) /\ step.target = Target(s) /\ StepAccepted(book, s)
    BY <1>3, <1>4, <1>5, <2>1, <2>3
  <2>5. ~Invokes(book, s)
    <3>1. ~IsInvocation(book, s, Target(s))
      BY <1>2, <1>5, <2>1, <2>3
    <3> QED BY <3>1 DEF Invokes, IsInvocation, Target
  <2>6. step.name = s.name /\ Found(IndexBlocks(items), "step", step.path, step.name) # {}
    BY <1>8, <2>1 DEF Standing
  <2>7. BlockAt(IndexBlocks(items), "step", step.path, step.name) = s
    <3> DEFINE path == step.path
    <3>1. step.name = StepRows(items)[j].block.name /\ s = StepRows(items)[j].block
      BY <2>3, <2>6 DEF rows
    <3>2. /\ j \in DOMAIN StepRows(items)
          /\ \A a, b \in DOMAIN StepRows(items) :
               StepRows(items)[a].block.name = StepRows(items)[b].block.name => a = b
      BY <1>3 DEF rows
    <3> HIDE DEF path, s
    <3>3. Found(IndexBlocks(items), "step", path, StepRows(items)[j].block.name) # {}
      BY <2>6, <3>1 DEF path
    <3>4. BlockAt(IndexBlocks(items), "step", path, StepRows(items)[j].block.name)
            = StepRows(items)[j].block
      BY <1>1, <3>2, <3>3, OwnBlock
    <3> QED BY <3>1, <3>4 DEF path
  <2> HIDE DEF s
  <2> QED BY <1>8, <1>10, <2>4, <2>5, <2>7, PlainPlanned DEF s
<1> QED BY <1>9, <1>10 DEF book, items, leaf

(* ---------------------------------------------- what is named has a script *)

ScriptsUnder(d, kind) ==
  UNION { {RefTo(d.packages[i].name, n) : n \in NamesOf(d.packages[i][kind])}
          : i \in DOMAIN d.packages }

\* The scripts that compile_all registers.
LEMMA ScriptSetIs ==
  ASSUME NEW d
  PROVE  /\ ScriptSet(d).resources = ScriptsUnder(d, "resources")
         /\ ScriptSet(d).gatherers = ScriptsUnder(d, "gatherers")
         /\ ScriptSet(d).probes
              = ScriptsUnder(d, "probes") \cup {RefTo("", n) : n \in NamesOf(d.probes)}
BY DEF ScriptSet, ScriptsUnder

\* A block of a package has its script under the name of both.
LEMMA UnderIs ==
  ASSUME NEW d, NEW kind, NEW i \in DOMAIN d.packages, NEW ref, IsRef(ref),
         d.packages[i].name = ref.pkg, ref.name \in NamesOf(d.packages[i][kind])
  PROVE  ref \in ScriptsUnder(d, kind)
BY DEF ScriptsUnder, IsRef

\* What the loader declares has a script.
LEMMA ScriptOf ==
  ASSUME NEW d, PlaybookAccepted(d), DocumentIsTree(d), NEW ref, IsRef(ref)
  PROVE  /\ Declares(LoadPlaybook(d), "resources", ref) => ref \in ScriptSet(d).resources
         /\ Declares(LoadPlaybook(d), "gatherers", ref) => ref \in ScriptSet(d).gatherers
         /\ Declares(LoadPlaybook(d), "probes", ref) => ref \in ScriptSet(d).probes
<1>1. "" \notin NamesOf(d.packages)
  BY PackagesNamed
<1>2. ASSUME Declares(LoadPlaybook(d), "resources", ref) PROVE ref \in ScriptSet(d).resources
  <2>1. PICK i \in DOMAIN d.packages : \E j \in DOMAIN d.packages[i].resources :
          ResourceOf(d, ref, i, j)
    BY <1>1, <1>2, DeclaredResource
  <2>2. d.packages[i].name = ref.pkg /\ ref.name \in NamesOf(d.packages[i].resources)
    BY <2>1 DEF ResourceOf, NamesOf
  <2>3. ref \in ScriptsUnder(d, "resources")
    BY <2>2, UnderIs
  <2> QED BY <2>3, ScriptSetIs
<1>3. ASSUME Declares(LoadPlaybook(d), "gatherers", ref) PROVE ref \in ScriptSet(d).gatherers
  <2>1. PICK i \in DOMAIN d.packages :
          d.packages[i].name = ref.pkg /\ ref.name \in NamesOf(d.packages[i].gatherers)
    BY <1>1, <1>3, DeclaredGatherer
  <2>2. ref \in ScriptsUnder(d, "gatherers")
    BY <2>1, UnderIs
  <2> QED BY <2>2, ScriptSetIs
<1>4. ASSUME Declares(LoadPlaybook(d), "probes", ref) PROVE ref \in ScriptSet(d).probes
  <2>1. CASE ref.pkg = "" /\ ref.name \in NamesOf(d.probes)
    <3>1. ref = RefTo("", ref.name)
      BY <2>1 DEF IsRef
    <3>2. ref \in {RefTo("", n) : n \in NamesOf(d.probes)}
      BY <2>1, <3>1
    <3> QED BY <3>2, ScriptSetIs
  <2>2. CASE \E i \in DOMAIN d.packages :
               d.packages[i].name = ref.pkg /\ ref.name \in NamesOf(d.packages[i].probes)
    <3>1. PICK i \in DOMAIN d.packages :
            d.packages[i].name = ref.pkg /\ ref.name \in NamesOf(d.packages[i].probes)
      BY <2>2
    <3>2. ref \in ScriptsUnder(d, "probes")
      BY <3>1, UnderIs
    <3> QED BY <3>2, ScriptSetIs
  <2> QED BY <1>1, <1>4, <2>1, <2>2, DeclaredProbe
<1> QED BY <1>2, <1>3, <1>4

(* --------------------------------------------------- the second invariant *)

PlannedSound(leaves, ps) ==
  \A i \in DOMAIN ps : Complete(ps[i]) /\ (Plain(leaves[i]) => ps[i].kind # "fail")

CompleteInv == PlanInv /\ KnownSound(memory) /\ PlannedSound(Leaves(pb, play), plans)

\* Every action keeps it; only PlanNext adds to the plans and the caches.
LEMMA CompleteInvStep ==
  ASSUME CompleteInv, [Next]_vars
  PROVE  CompleteInv'
<1>1. PlanInv /\ PlanInv'
  BY PlanInvStep DEF CompleteInv
<1>2. input' = input
  BY DEF Next, vars, Load, Override, StartGatherers, FinishGatherer, BindResults, PlanNext,
         Planned, PlanAll, Refuse
<1>3. pb' = pb /\ play' = play
  BY <1>2, InputStays
<1> DEFINE leaves == Leaves(pb, play)
<1>4. CASE PlanNext
  <2> DEFINE n == Len(plans)
             blocks == IndexBlocks(play.items)
             new == PlanStep(pb, blocks, scope, steps[n + 1], memory)
  <2>1. /\ phase = "plan" /\ n < Len(steps)
        /\ plans' = Append(plans, new.plan) /\ memory' = new.memory
    BY <1>4 DEF PlanNext
  <2>2. IsList(plans) /\ n \in Nat /\ DOMAIN plans = 1 .. n
    BY <1>1, ListIs DEF PlanInv, PlansAreOf
  <2>3. Complete(new.plan) /\ KnownSound(new.memory)
        /\ (Plain(leaves[n + 1]) => new.plan.kind # "fail")
    <3>1. PlaybookAccepted(doc) /\ DocumentIsTree(doc)
      BY <1>1, <2>1, InputIsTree DEF PlanInv, Accepted
    <3>2. PICK k \in DOMAIN doc.plays : play = doc.plays[k]
      BY <1>1, <2>1, <3>1, PlayIs DEF PlanInv
    <3> DEFINE ps == LoadItems(LoadPlaybook(doc), doc.plays[k].items)
               step == steps[n + 1]
               i == n + 1
    <3>3. /\ steps = LoadPlay(LoadPlaybook(doc), doc.plays[k])
          /\ leaves = Leaves(LoadPlaybook(doc), doc.plays[k])
          /\ new = PlanStep(LoadPlaybook(doc), IndexBlocks(doc.plays[k].items), scope, step, memory)
      BY <3>2 DEF steps, pb
    <3>4. IsList(steps) /\ DOMAIN steps = DOMAIN ps /\ \A e \in DOMAIN ps :
            steps[e] = LoadStep(ps[e])
      BY <3>1, <3>3, StepsAre
    <3>5. i \in DOMAIN ps
      <4> HIDE DEF ps
      <4> QED BY <2>1, <2>2, <3>4, ListIs
    <3>6. step = LoadStep(ps[i])
      BY <3>4, <3>5
    <3>7. KnownSound(memory)
      BY DEF CompleteInv
    <3> HIDE DEF step, i, new, leaves
    <3> DEFINE got == PlanStep(LoadPlaybook(doc), IndexBlocks(doc.plays[k].items), scope, step,
                               memory)
    <3>8. /\ Complete(got.plan) /\ KnownSound(got.memory)
          /\ Plain(Leaves(LoadPlaybook(doc), doc.plays[k])[i]) => got.plan.kind # "fail"
      BY <3>1, <3>5, <3>6, <3>7, NextPlanned
    <3> HIDE DEF got
    <3>9. new = got
      BY <3>3 DEF got
    <3> QED BY <3>3, <3>8, <3>9 DEF i
  <2> HIDE DEF new, leaves
  <2>4. /\ IsList(plans') /\ Len(plans') = n + 1 /\ plans'[n + 1] = new.plan
        /\ \A i \in 1 .. n : plans'[i] = plans[i]
    BY <2>1, <2>2, AppendIs
  <2> HIDE DEF n
  <2>5. DOMAIN plans' = 1 .. n + 1
    BY <2>4, ListIs
  <2>6. \A i \in 1 .. n : Complete(plans[i]) /\ (Plain(leaves[i]) => plans[i].kind # "fail")
    BY <2>2 DEF CompleteInv, PlannedSound, leaves
  <2>7. \A i \in DOMAIN plans' :
          Complete(plans'[i]) /\ (Plain(leaves[i]) => plans'[i].kind # "fail")
    BY <2>2, <2>3, <2>4, <2>5, <2>6
  <2>8. PlannedSound(leaves, plans')
    BY <2>7 DEF PlannedSound
  <2> QED BY <1>1, <1>3, <2>1, <2>3, <2>8 DEF CompleteInv, leaves
<1>5. CASE ~PlanNext
  <2>1. plans' = plans /\ memory' = memory
    BY <1>5 DEF Next, vars, Unplanned
  <2> QED BY <1>1, <1>3, <2>1 DEF CompleteInv
<1> QED BY <1>4, <1>5

\* The inductive invariant behind completeness: no cache of struct Planner and no plan
\* has ever met a name that is not there.
THEOREM CompleteInvariant == Spec => []CompleteInv
<1>1. Init => CompleteInv
  <2> SUFFICES ASSUME Init PROVE CompleteInv
    OBVIOUS
  <2>1. IsList(<< >>) /\ Len(<< >>) = 0 /\ DOMAIN << >> = {}
    BY DEF IsList
  <2>2. PlanInv
    BY <2>1 DEF Init, VariablesInit, PlanInv, PlansAreOf
  <2>3. KnownSound(memory)
    BY DEF Init, KnownSound, Decided, Clean, NoCache
  <2>4. PlannedSound(Leaves(pb, play), plans)
    BY <2>1 DEF Init, PlannedSound
  <2> QED BY <2>2, <2>3, <2>4 DEF CompleteInv
<1>2. CompleteInv /\ [Next]_vars => CompleteInv'
  BY CompleteInvStep
<1> QED BY <1>1, <1>2, PTL DEF Spec

\* What the invariant says of the scripts, names and literals of a document.
LEMMA CompleteFollows ==
  ASSUME CompleteInv
  PROVE  AcceptedIsComplete
<1>1. PlanInv
  BY DEF CompleteInv
<1>2. phase \notin {"load", "refused"} => PlaybookAccepted(doc) /\ DocumentIsTree(doc)
  BY <1>1, InputIsTree DEF PlanInv, Accepted
<1>3. ASSUME phase = "gathering", NEW i \in DOMAIN doc.gathers
      PROVE  doc.gathers[i].from \in ScriptSet(doc).gatherers
  <2>1. PlaybookAccepted(doc) /\ DocumentIsTree(doc)
    BY <1>2, <1>3
  <2>2. GatherAccepted(LoadPlaybook(doc), doc.gathers[i]) /\ IsRef(doc.gathers[i].from)
    BY <2>1 DEF PlaybookAccepted, DocumentIsTree
  <2> DEFINE ref == doc.gathers[i].from
  <2>3. Declares(LoadPlaybook(doc), "gatherers", ref)
    BY <2>2 DEF GatherAccepted
  <2> QED BY <2>1, <2>2, <2>3, ScriptOf
<1>4. ASSUME NEW i \in DOMAIN plans
      PROVE  /\ plans[i].kind = "fail" => plans[i].why # "missing"
             /\ plans[i].kind = "run" => plans[i].resource \in ScriptSet(doc).resources
             /\ plans[i].kind = "wait" => plans[i].probe \in ScriptSet(doc).probes
             /\ plans[i].kind = "fail" => ~Plain(Leaves(pb, play)[i])
  <2>1. phase \in {"plan", "planned"}
    BY <1>1 DEF PlanInv
  <2>2. PlaybookAccepted(doc) /\ DocumentIsTree(doc)
    BY <1>2, <2>1
  <2>3. PICK k \in DOMAIN doc.plays : play = doc.plays[k]
    BY <1>1, <2>1, <2>2, PlayIs DEF PlanInv
  <2> DEFINE ps == LoadItems(LoadPlaybook(doc), doc.plays[k].items)
             ls == Leaves(LoadPlaybook(doc), doc.plays[k])
             rows == StepRows(doc.plays[k].items)
             ref == ps[i].target
             chain == ls[i].chain
  <2>4. steps = LoadPlay(LoadPlaybook(doc), doc.plays[k]) /\ pb = LoadPlaybook(doc)
    BY <2>3 DEF steps, pb
  <2>5. IsList(steps) /\ DOMAIN steps = DOMAIN ps /\ \A e \in DOMAIN ps : steps[e] = LoadStep(ps[e])
    BY <2>2, <2>4, StepsAre
  <2>6. IsList(plans) /\ Len(plans) <= Len(steps) /\ PlanFits(pb, steps[i], plans[i])
    BY <1>1 DEF PlanInv, PlansAreOf
  <2>7. i \in DOMAIN ps
    <3> HIDE DEF ps
    <3> QED BY <2>5, <2>6, ListIs
  <2>8. IsRef(ref)
    <3>1. /\ Rooted(LoadPlaybook(doc), rows, ls[i]) /\ StandsFor(ps[i], ls[i])
          /\ \A e \in 1 .. Len(chain) :
               StepSound(LoadPlaybook(doc), chain[e].block, chain[e].target)
      BY <2>2, <2>7, LoadedSound DEF InStep
    <3> HIDE DEF ps, ls, rows
    <3>2. Len(chain) \in Nat /\ Len(chain) # 0
      BY <3>1, ListIs DEF Rooted
    <3>3. Len(chain) \in 1 .. Len(chain)
      <4> DEFINE l == Len(chain)
      <4>1. l \in Nat /\ l # 0
        BY <3>2
      <4> HIDE DEF l
      <4>2. l \in 1 .. l
        BY <4>1
      <4> QED BY <4>2 DEF l
    <3>4. ref = chain[Len(chain)].target
      BY <3>1 DEF StandsFor
    <3> HIDE DEF ref, chain
    <3> QED BY <3>1, <3>3, <3>4 DEF StepSound
  <2>9. steps[i].target = ref
    <3>1. steps[i] = LoadStep(ps[i])
      BY <2>5, <2>7
    <3> DEFINE p == ps[i]
    <3> HIDE DEF p, ps
    <3>2. LoadStep(p).target = p.target
      BY DEF LoadStep, PlayStep
    <3> QED BY <3>1, <3>2 DEF p
  <2> HIDE DEF ref, ps
  <2>10. /\ plans[i].kind = "run" => Declares(pb, "resources", ref) /\ plans[i].resource = ref
         /\ plans[i].kind = "wait" => Declares(pb, "probes", ref) /\ plans[i].probe = ref
    BY <2>6, <2>9 DEF PlanFits
  <2>11. /\ plans[i].kind = "run" => ref \in ScriptSet(doc).resources
         /\ plans[i].kind = "wait" => ref \in ScriptSet(doc).probes
    BY <2>2, <2>4, <2>8, <2>10, ScriptOf
  <2>12. /\ plans[i].kind = "fail" => plans[i].why = "value"
         /\ Plain(Leaves(pb, play)[i]) => plans[i].kind # "fail"
    BY DEF CompleteInv, PlannedSound, Complete
  <2> QED BY <2>10, <2>11, <2>12
<1>5. \A i \in DOMAIN plans :
        plans[i].kind = "fail" =>
          LET leaf == Leaves(pb, play)[i]
          IN ~ /\ leaf.containers = << >> /\ Len(leaf.chain) = 1
               /\ LET b == leaf.chain[1].block
                  IN Static(b.props) /\ Static(b.wait) /\ b.condition = Always
  BY <1>4 DEF Plain
<1> QED BY <1>3, <1>4, <1>5 DEF AcceptedIsComplete

\* What validation accepts has everything the engine looks up by name: load_step,
\* check_params and compile_all against plan_from_block, apply_param_defaults and run_single.
THEOREM AllFound == Spec => []AcceptedIsComplete
BY CompleteInvariant, CompleteFollows, PTL

(* ------------------------------------------------ keys keep leaves apart *)

\* The names on the way to a leaf: those of its containers, then those of the
\* first n links of its chain.
KeyOf(leaf, n) ==
  LET m == Len(leaf.containers)
  IN [e \in 1 .. m + n |-> IF e <= m THEN leaf.containers[e].name
                           ELSE leaf.chain[e - m].block.name]

\* Names as the loader makes sure of them: of the steps of a play, and of the
\* steps of a body.
StepsApart(rows) ==
  \A i, j \in DOMAIN rows : rows[i].block.name = rows[j].block.name => i = j
BodiesApart(book) ==
  \A ref : Declares(book, "composites", ref) => Distinct(Declared(book, "composites", ref).steps)

\* A key of a leaf, name by name.
LEMMA KeyIs ==
  ASSUME NEW leaf, IsList(leaf.containers), NEW n \in Nat
  PROVE  /\ IsList(KeyOf(leaf, n)) /\ Len(KeyOf(leaf, n)) = Len(leaf.containers) + n
         /\ \A e \in 1 .. Len(leaf.containers) : KeyOf(leaf, n)[e] = leaf.containers[e].name
         /\ \A e \in 1 .. n :
              KeyOf(leaf, n)[Len(leaf.containers) + e] = leaf.chain[e].block.name
<1> DEFINE m == Len(leaf.containers)
           key == KeyOf(leaf, n)
<1>1. m \in Nat
  BY ListIs
<1>2. /\ DOMAIN key = 1 .. m + n /\ key = [e \in 1 .. m + n |-> key[e]]
      /\ \A e \in 1 .. m + n : key[e] = IF e <= m THEN leaf.containers[e].name
                                        ELSE leaf.chain[e - m].block.name
  BY DEF KeyOf
<1> HIDE DEF key, m
<1>3. IsList(key) /\ Len(key) = m + n
  <2>1. m + n \in Nat
    BY <1>1
  <2> QED BY <1>2, <2>1, ListOf
<1>4. ASSUME NEW e \in 1 .. m PROVE key[e] = leaf.containers[e].name
  <2>1. e \in 1 .. m + n /\ e <= m
    BY <1>1
  <2> QED BY <1>2, <2>1
<1>5. ASSUME NEW e \in 1 .. n PROVE key[m + e] = leaf.chain[e].block.name
  <2>1. PICK c \in 1 .. m + n : c = m + e /\ ~(c <= m) /\ c - m = e
    <3> DEFINE x == m + e
    <3>1. x \in 1 .. m + n /\ x = m + e /\ ~(x <= m) /\ x - m = e
      BY <1>1
    <3> HIDE DEF x
    <3> QED BY <3>1
  <2>2. key[c] = leaf.chain[c - m].block.name
    BY <1>2, <2>1
  <2> QED BY <2>1, <2>2
<1> QED BY <1>3, <1>4, <1>5 DEF key, m

\* The planner's key of an invocation is that of the leaf it looks for.
LEMMA ArgsKeyIs ==
  ASSUME NEW leaf, IsList(leaf.containers), IsList(leaf.chain), Len(leaf.chain) # 0,
         NEW p, StandsFor(p, leaf), NEW k \in 0 .. Len(leaf.chain) - 1
  PROVE  ArgsKey(LoadStep(p), k) = KeyOf(leaf, k)
<1> DEFINE l == Len(leaf.chain)
           m == Len(leaf.containers)
           step == LoadStep(p)
           key == KeyOf(leaf, k)
           path == p.path
<1>1. l \in Nat /\ l # 0 /\ m \in Nat /\ k \in Nat
  BY ListIs
<1>2. step.path = path /\ step.frames = p.frames
  BY DEF LoadStep, PlayStep
<1>3. /\ IsList(path) /\ Len(path) = m + (l - 1)
      /\ \A d \in 1 .. m : path[d] = leaf.containers[d].name
      /\ NamesChain(path, leaf, l - 1)
  BY DEF StandsFor
<1>4. Len(p.frames) = l - 1
  <2> DEFINE frames == p.frames
  <2>1. l - 1 \in Nat
    BY <1>1
  <2>2. DOMAIN frames = 1 .. l - 1 /\ frames = [d \in 1 .. l - 1 |-> frames[d]]
    BY DEF StandsFor
  <2> HIDE DEF frames, l
  <2> QED BY <2>1, <2>2, ListOf DEF frames
<1>5. ArgsKey(step, k) = SubSeq(path, 1, m + k)
  <2>1. Len(path) - Len(p.frames) + k = m + k
    <3> HIDE DEF l, m, path
    <3> QED BY <1>1, <1>3, <1>4
  <2> HIDE DEF step, m
  <2> QED BY <1>2, <2>1 DEF ArgsKey, path
<1>6. /\ IsList(key) /\ Len(key) = m + k
      /\ \A e \in 1 .. m : key[e] = leaf.containers[e].name
      /\ \A e \in 1 .. k : key[m + e] = leaf.chain[e].block.name
  BY <1>1, KeyIs
<1> HIDE DEF l, m, step, key, path
<1>7. m + k \in Nat
  BY <1>1
<1>8. /\ IsList(FirstOf(path, m + k)) /\ Len(FirstOf(path, m + k)) = m + k
      /\ \A d \in 1 .. m + k : FirstOf(path, m + k)[d] = path[d]
  BY <1>7, FirstOfIs
<1>9. ASSUME NEW e \in 1 .. m + k PROVE FirstOf(path, m + k)[e] = key[e]
  <2>1. CASE e \in 1 .. m
    BY <1>3, <1>6, <1>8, <2>1
  <2>2. CASE e \notin 1 .. m
    <3>1. PICK c \in 1 .. k : e = m + c
      <4>1. e - m \in 1 .. k /\ e = m + (e - m)
        BY <1>1, <2>2
      <4> QED BY <4>1
    <3>2. c \in 1 .. l - 1
      BY <1>1 DEF l
    <3> QED BY <1>3, <1>6, <1>8, <3>1, <3>2 DEF NamesChain, m
  <2> QED BY <2>1, <2>2
<1>10. FirstOf(path, m + k) = key
  BY <1>6, <1>8, <1>9, ListsEqual
<1> QED BY <1>5, <1>7, <1>10, SubSeqIs DEF step, key

\* A leaf whose key agrees with another's up to its own first link has no
\* fewer containers: else one of the other's would have the path and name of
\* its invocation.
LEMMA NotShorter ==
  ASSUME NEW book, NEW items, PlayIsTree(items), NamesApart(book, items),
         NEW a, Rooted(book, StepRows(items), a), NEW k \in 1 .. Len(a.chain) - 1,
         NEW b, Rooted(book, StepRows(items), b), NEW n \in Nat,
         \A e \in 1 .. Len(a.containers) + 1 : KeyOf(a, k)[e] = KeyOf(b, n)[e]
  PROVE  ~(Len(a.containers) < Len(b.containers))
<1> DEFINE rows == PlayBlocks(items)
           m == Len(a.containers)
           key == KeyOf(a, k)
<1>1. RowsSound(rows)
  BY RowsOfPlay
<1>2. /\ IsList(StepRows(items))
      /\ \A i \in DOMAIN StepRows(items) : \E j \in DOMAIN rows :
           StepRows(items)[i] = rows[j] /\ rows[j].block.kind = "step"
  BY <1>1, StepRowsAre DEF RowsSound
<1> HIDE DEF rows
<1>3. PICK i \in DOMAIN rows :
        /\ a.containers = rows[i].within /\ rows[i].block.kind = "step"
        /\ a.chain[1].block = rows[i].block /\ a.chain[1].target = Target(rows[i].block)
  <2>1. PICK e \in DOMAIN StepRows(items) :
          /\ a.containers = StepRows(items)[e].within
          /\ a.chain[1] = Link(e, StepRows(items)[e].block, Target(StepRows(items)[e].block))
    BY DEF Rooted
  <2>2. PICK i \in DOMAIN rows : StepRows(items)[e] = rows[i] /\ rows[i].block.kind = "step"
    BY <1>2
  <2>3. a.chain[1].block = rows[i].block /\ a.chain[1].target = Target(rows[i].block)
    BY <2>1, <2>2 DEF Link
  <2> QED BY <2>1, <2>2, <2>3
<1>4. PICK j \in DOMAIN rows : b.containers = rows[j].within
  BY <1>2 DEF Rooted
<1>5. IsList(a.containers) /\ IsList(b.containers)
  BY <1>1, <1>3, <1>4 DEF RowsSound
<1>6. m \in Nat /\ Len(b.containers) \in Nat /\ k \in Nat /\ n \in Nat
  BY <1>5, ListIs DEF Rooted
<1> SUFFICES ASSUME m < Len(b.containers) PROVE FALSE
  OBVIOUS
<1>7. m + 1 \in 1 .. Len(b.containers) /\ 1 \in 1 .. k
  BY <1>6
<1>8. /\ \A e \in 1 .. m : key[e] = a.containers[e].name
      /\ \A e \in 1 .. k : key[m + e] = a.chain[e].block.name
  BY <1>5, <1>6, KeyIs
<1>9. \A e \in 1 .. m + 1 : key[e] = b.containers[e].name
  <2>1. \A e \in 1 .. Len(b.containers) : KeyOf(b, n)[e] = b.containers[e].name
    BY <1>5, <1>6, KeyIs
  <2>2. \A e \in 1 .. m + 1 : e \in 1 .. Len(b.containers)
    BY <1>6
  <2>3. \A e \in 1 .. m + 1 : KeyOf(a, k)[e] = KeyOf(b, n)[e]
    OBVIOUS
  <2> QED BY <2>1, <2>2, <2>3
<1>10. /\ b.containers[m + 1].kind = "container"
       /\ \E c \in DOMAIN rows : rows[c] = Row(FirstOf(b.containers, m + 1 - 1), b.containers[m + 1])
  BY <1>1, <1>4, <1>7 DEF RowsSound
<1>11. m + 1 - 1 = m
  BY <1>6
<1> HIDE DEF m, key
<1>12. PICK c \in DOMAIN rows : rows[c] = Row(FirstOf(b.containers, m), b.containers[m + 1])
  BY <1>10, <1>11
<1>13. /\ rows[c].within = FirstOf(b.containers, m) /\ rows[c].block = b.containers[m + 1]
  BY <1>12 DEF Row
<1>14. PathOf(rows[c]) = PathOf(rows[i])
  <2>1. /\ IsList(rows[c].within) /\ Len(rows[c].within) = m
        /\ \A e \in 1 .. m : rows[c].within[e] = b.containers[e]
    BY <1>6, <1>13, FirstOfIs
  <2>2. /\ IsList(PathOf(rows[c])) /\ Len(PathOf(rows[c])) = m
        /\ \A e \in 1 .. m : PathOf(rows[c])[e] = rows[c].within[e].name
    BY <2>1, PathOfIs
  <2>3. /\ IsList(PathOf(rows[i])) /\ Len(PathOf(rows[i])) = m
        /\ \A e \in 1 .. m : PathOf(rows[i])[e] = a.containers[e].name
    BY <1>3, <1>5, PathOfIs DEF m
  <2>4. \A e \in 1 .. m : e \in 1 .. m + 1
    BY <1>6
  <2>5. ASSUME NEW e \in 1 .. m PROVE PathOf(rows[c])[e] = PathOf(rows[i])[e]
    <3>1. key[e] = b.containers[e].name /\ key[e] = a.containers[e].name
      BY <1>8, <1>9, <2>4
    <3>2. PathOf(rows[c])[e] = rows[c].within[e].name /\ rows[c].within[e] = b.containers[e]
      BY <2>1, <2>2
    <3>3. PathOf(rows[i])[e] = a.containers[e].name
      BY <2>3
    <3> QED BY <3>1, <3>2, <3>3
  <2> QED BY <2>2, <2>3, <2>5, ListsEqual
<1>15. rows[c].block.name = rows[i].block.name
  <2>1. m + 1 \in 1 .. m + 1
    BY <1>6
  <2> QED BY <1>3, <1>7, <1>8, <1>9, <1>13, <2>1
<1>16. ~Invokes(book, rows[i].block)
  BY <1>3, <1>10, <1>13, <1>14, <1>15 DEF NamesApart, rows
<1>17. IsInvocation(book, a.chain[1].block, a.chain[1].target)
  <2>1. 1 \in 1 .. Len(a.chain) - 1
    BY <1>6 DEF Rooted
  <2> QED BY <2>1 DEF Rooted
<1> QED BY <1>3, <1>16, <1>17 DEF Invokes, IsInvocation, Target

\* Two leaves with one key for an invocation of each are in the same
\* invocations down to there.
LEMMA SameKey ==
  ASSUME NEW book, NEW items, PlayIsTree(items), NamesApart(book, items),
         StepsApart(StepRows(items)), BodiesApart(book),
         NEW a, Rooted(book, StepRows(items), a), NEW k \in 1 .. Len(a.chain) - 1,
         NEW b, Rooted(book, StepRows(items), b), NEW n \in 1 .. Len(b.chain) - 1,
         KeyOf(a, k) = KeyOf(b, n)
  PROVE  n = k /\ \A e \in 1 .. k : a.chain[e] = b.chain[e]
<1> DEFINE rows == StepRows(items)
           m == Len(a.containers)
           Wrong == {e \in 1 .. k : a.chain[e] # b.chain[e]}
<1>1. IsList(rows) /\ \A j \in DOMAIN rows : IsList(rows[j].within)
  <2>1. RowsSound(PlayBlocks(items))
    BY RowsOfPlay
  <2> QED BY <2>1, StepRowsAre DEF RowsSound
<1>2. IsList(a.containers) /\ IsList(b.containers)
  BY <1>1 DEF Rooted
<1>3. /\ m \in Nat /\ Len(b.containers) \in Nat /\ k \in Nat /\ n \in Nat
      /\ Len(a.chain) \in Nat /\ Len(b.chain) \in Nat
  BY <1>2, ListIs DEF Rooted
<1>4. Len(b.containers) = m
  <2>1. ~(m < Len(b.containers))
    BY <1>3, NotShorter
  <2>2. ~(Len(b.containers) < m)
    BY <1>3, NotShorter
  <2> HIDE DEF m
  <2> QED BY <1>3, <2>1, <2>2
<1>5. /\ Len(KeyOf(a, k)) = m + k
      /\ \A e \in 1 .. k : KeyOf(a, k)[m + e] = a.chain[e].block.name
  BY <1>2, <1>3, KeyIs
<1>6. /\ Len(KeyOf(b, n)) = m + n
      /\ \A e \in 1 .. n : KeyOf(b, n)[m + e] = b.chain[e].block.name
  <2>1. /\ Len(KeyOf(b, n)) = Len(b.containers) + n
        /\ \A e \in 1 .. n : KeyOf(b, n)[Len(b.containers) + e] = b.chain[e].block.name
    BY <1>2, <1>3, KeyIs
  <2> HIDE DEF m
  <2> QED BY <1>4, <2>1
<1> HIDE DEF m
<1>7. n = k
  BY <1>3, <1>5, <1>6
<1>8. \A e \in 1 .. k : a.chain[e].block.name = b.chain[e].block.name
  BY <1>5, <1>6, <1>7
<1> HIDE DEF rows
<1>9. 1 \in 1 .. k => a.chain[1] = b.chain[1]
  <2>1. PICK i \in DOMAIN rows : a.chain[1] = Link(i, rows[i].block, Target(rows[i].block))
    BY DEF Rooted, rows
  <2>2. PICK j \in DOMAIN rows : b.chain[1] = Link(j, rows[j].block, Target(rows[j].block))
    BY DEF Rooted, rows
  <2>3. a.chain[1].block = rows[i].block /\ b.chain[1].block = rows[j].block
    BY <2>1, <2>2 DEF Link
  <2>4. 1 \in 1 .. k => i = j
    BY <1>8, <2>3 DEF StepsApart, rows
  <2> QED BY <2>1, <2>2, <2>4
<1>10. ASSUME NEW e \in 1 .. k, e - 1 \in 1 .. k, a.chain[e - 1] = b.chain[e - 1]
       PROVE  a.chain[e] = b.chain[e]
  <2> DEFINE c == e - 1
             ref == a.chain[c].target
             body == Declared(book, "composites", ref).steps
  <2>1. c \in 1 .. Len(a.chain) - 1 /\ c \in 1 .. Len(b.chain) - 1 /\ c + 1 = e
    BY <1>3, <1>7, <1>10
  <2> HIDE DEF c
  <2>2. a.chain[c] = b.chain[c]
    BY <1>10 DEF c
  <2>3. /\ IsInvocation(book, a.chain[c].block, ref)
        /\ \E i \in DOMAIN body : a.chain[c + 1] = Link(i, body[i], Resolved(Target(body[i]), ref.pkg))
    BY <2>1 DEF Rooted
  <2>4. \E i \in DOMAIN body : b.chain[c + 1] = Link(i, body[i], Resolved(Target(body[i]), ref.pkg))
    BY <2>1, <2>2 DEF Rooted
  <2>5. Distinct(body)
    BY <2>3 DEF BodiesApart, IsInvocation
  <2> HIDE DEF body, ref
  <2>6. PICK i \in DOMAIN body : a.chain[e] = Link(i, body[i], Resolved(Target(body[i]), ref.pkg))
    BY <2>1, <2>3
  <2>7. PICK j \in DOMAIN body : b.chain[e] = Link(j, body[j], Resolved(Target(body[j]), ref.pkg))
    BY <2>1, <2>4
  <2>8. a.chain[e].block = body[i] /\ b.chain[e].block = body[j]
    BY <2>6, <2>7 DEF Link
  <2>9. i = j
    BY <1>8, <2>5, <2>8 DEF Distinct
  <2> QED BY <2>6, <2>7, <2>9
<1>11. Wrong = {}
  <2> SUFFICES ASSUME Wrong # {} PROVE FALSE
    OBVIOUS
  <2>1. PICK e \in Wrong : \A c \in Wrong : ~(c < e)
    <3>1. Wrong \in SUBSET Nat
      OBVIOUS
    <3> HIDE DEF Wrong
    <3> QED BY <3>1, LeastOf
  <2>2. e \in 1 .. k /\ e # 1
    BY <1>9, <2>1
  <2>3. e - 1 \in 1 .. k /\ e - 1 < e
    BY <1>3, <2>2
  <2>4. a.chain[e - 1] = b.chain[e - 1]
    BY <2>1, <2>3
  <2> QED BY <1>10, <2>1, <2>2, <2>3, <2>4
<1> QED BY <1>7, <1>11

(* ------------------------------------------------ conditions of containers *)

\* What the planner makes of the condition of the container under a key.
ConditionUnder(blocks, values, at, name) ==
  Condition(BlockAt(blocks, "container", at, name).condition, values)

\* A cache of conditions holds that of each container under its key.
ConditionsMean(blocks, values, cache) ==
  \A key \in DOMAIN cache :
    cache[key] = ConditionUnder(blocks, values, SubSeq(key, 1, Len(key) - 1), key[Len(key)])

\* Where names are apart, what is found in the place of a container has its
\* condition.
LEMMA OwnCondition ==
  ASSUME NEW book, NEW items, PlayIsTree(items), NamesApart(book, items),
         NEW j \in DOMAIN StepRows(items), NEW d \in 1 .. Len(StepRows(items)[j].within), NEW values
  PROVE  LET row == StepRows(items)[j]
         IN ConditionUnder(IndexBlocks(items), values, SubSeq(PathOf(row), 1, d - 1), PathOf(row)[d])
              = Condition(row.within[d].condition, values)
<1> DEFINE row == StepRows(items)[j]
           rows == PlayBlocks(items)
           blocks == IndexBlocks(items)
           at == SubSeq(PathOf(row), 1, d - 1)
           name == PathOf(row)[d]
           S == Found(blocks, "container", at, name)
           c == CHOOSE i \in S : \A k \in S : k <= i
<1>1. IsList(rows)
  BY RowsOfPlay DEF RowsSound
<1>2. PICK k \in DOMAIN rows :
        /\ rows[k].block = row.within[d] /\ row.within[d].kind = "container"
        /\ row.within[d].name = name /\ PathOf(rows[k]) = at
  <2>1. row = StepRows(items)[j] /\ j \in DOMAIN StepRows(items) /\ d \in 1 .. Len(row.within)
    OBVIOUS
  <2> HIDE DEF row
  <2>2. PICK k \in DOMAIN rows : IsAround(rows[k], row, d)
    BY <2>1, ContainerRow
  <2> QED BY <2>2 DEF IsAround
<1>3. Len(rows) \in Nat /\ DOMAIN rows = 1 .. Len(rows)
  BY <1>1, ListIs
<1>4. /\ DOMAIN blocks = DOMAIN rows
      /\ \A i \in DOMAIN rows : blocks[i].block = rows[i].block /\ blocks[i].path = PathOf(rows[i])
  BY DEF IndexBlocks
<1> HIDE DEF row, rows, blocks, at, name
<1>5. k \in S
  BY <1>2, FoundAt DEF rows, blocks
<1>6. \A i \in S : /\ i \in DOMAIN rows /\ rows[i].block.kind = "container"
                   /\ rows[i].block.name = name /\ PathOf(rows[i]) = at
                   /\ blocks[i].block = rows[i].block
  BY <1>4 DEF Found
<1>7. \E i \in S : \A e \in S : e <= i
  <2>1. S \in SUBSET (1 .. Len(rows)) /\ S # {}
    BY <1>3, <1>5, <1>6
  <2> HIDE DEF S
  <2> QED BY <1>3, <2>1, GreatestOf
<1>8. c \in S
  <2> HIDE DEF S
  <2> QED BY <1>7
<1>9. BlockAt(blocks, "container", at, name) = blocks[c].block
  BY DEF BlockAt
<1> HIDE DEF c, S
<1>10. rows[c].block.condition = rows[k].block.condition
  BY <1>2, <1>6, <1>8 DEF NamesApart, rows
<1> QED BY <1>2, <1>6, <1>8, <1>9, <1>10 DEF ConditionUnder, blocks, at, name, row

\* A path up to a depth, as a key.
LEMMA KeyOfDepth ==
  ASSUME NEW path, NEW d \in Nat \ {0}
  PROVE  LET key == SubSeq(path, 1, d)
         IN SubSeq(key, 1, Len(key) - 1) = SubSeq(path, 1, d - 1) /\ key[Len(key)] = path[d]
<1> DEFINE key == FirstOf(path, d)
<1>1. IsList(key) /\ Len(key) = d /\ \A e \in 1 .. d : key[e] = path[e]
  BY FirstOfIs
<1>2. SubSeq(path, 1, d) = key /\ SubSeq(path, 1, d - 1) = FirstOf(path, d - 1)
  BY SubSeqIs
<1> HIDE DEF key
<1>3. SubSeq(key, 1, d - 1) = FirstOf(key, d - 1)
  BY SubSeqIs
<1>4. FirstOf(key, d - 1) = FirstOf(path, d - 1)
  <2>1. \A e \in 1 .. d - 1 : key[e] = path[e]
    BY <1>1
  <2> QED BY <2>1 DEF FirstOf
<1>5. key[d] = path[d]
  BY <1>1
<1> QED BY <1>1, <1>2, <1>3, <1>4, <1>5

\* What the walk through the containers knows at a depth: the verdict is that
\* of the first one, so far, whose condition is not true.
Decides(verdict, conditions, n) ==
  \/ verdict = "true" /\ \A e \in 1 .. n : conditions[e] = "true"
  \/ verdict # "true" /\ \E e \in 1 .. n : /\ conditions[e] = verdict
                                          /\ \A c \in 1 .. e - 1 : conditions[c] = "true"

\* One container further.
LEMMA ConditionMeant ==
  ASSUME NEW blocks, NEW values, NEW path, NEW d \in Nat \ {0}, NEW before,
         ConditionsMean(blocks, values, before.containers),
         Found(blocks, "container", SubSeq(path, 1, d - 1), path[d]) # {},
         NEW conditions,
         conditions[d] = ConditionUnder(blocks, values, SubSeq(path, 1, d - 1), path[d]),
         Decides(before.verdict, conditions, d - 1)
  PROVE  LET after == ConditionAt(blocks, values, path, d, before)
         IN ConditionsMean(blocks, values, after.containers) /\ Decides(after.verdict, conditions, d)
<1> DEFINE key == SubSeq(path, 1, d)
           at == SubSeq(path, 1, d - 1)
           asked == Condition(BlockAt(blocks, "container", at, path[d]).condition, values)
           here == IF key \in DOMAIN before.containers THEN before.containers[key] ELSE asked
           after == ConditionAt(blocks, values, path, d, before)
<1>1. asked = conditions[d]
  BY DEF ConditionUnder
<1>2. after = IF before.verdict # "true" THEN before
              ELSE [containers |-> Put(before.containers, key, here), verdict |-> here]
  BY DEF ConditionAt
<1>3. ConditionUnder(blocks, values, SubSeq(key, 1, Len(key) - 1), key[Len(key)]) = conditions[d]
  BY KeyOfDepth
<1> HIDE DEF asked, after, key, at
<1>4. here = conditions[d]
  BY <1>1, <1>3 DEF ConditionsMean
<1> HIDE DEF here
<1>5. ConditionsMean(blocks, values, Put(before.containers, key, here))
  BY <1>3, <1>4 DEF ConditionsMean, Put
<1>6. CASE before.verdict # "true"
  <2>1. after = before
    BY <1>2, <1>6
  <2>2. PICK e \in 1 .. d - 1 : /\ conditions[e] = before.verdict
                                /\ \A c \in 1 .. e - 1 : conditions[c] = "true"
    BY <1>6 DEF Decides
  <2>3. e \in 1 .. d
    OBVIOUS
  <2> QED BY <1>6, <2>1, <2>2, <2>3 DEF Decides, after
<1>7. CASE before.verdict = "true"
  <2>1. after.containers = Put(before.containers, key, here) /\ after.verdict = conditions[d]
    BY <1>2, <1>4, <1>7
  <2>2. \A e \in 1 .. d - 1 : conditions[e] = "true"
    BY <1>7 DEF Decides
  <2>3. d \in 1 .. d /\ \A e \in 1 .. d : e = d \/ e \in 1 .. d - 1
    OBVIOUS
  <2>4. Decides(after.verdict, conditions, d)
    BY <2>1, <2>2, <2>3 DEF Decides
  <2> QED BY <1>5, <2>1, <2>4 DEF after
<1> QED BY <1>6, <1>7

\* All of them.
LEMMA ConditionsMeant ==
  ASSUME NEW blocks, NEW values, NEW path, NEW cache, ConditionsMean(blocks, values, cache),
         NEW N \in Nat, N = Len(path),
         \A d \in 1 .. N : Found(blocks, "container", SubSeq(path, 1, d - 1), path[d]) # {},
         NEW conditions,
         \A d \in 1 .. N :
           conditions[d] = ConditionUnder(blocks, values, SubSeq(path, 1, d - 1), path[d])
  PROVE  LET after == CachedConditions(blocks, values, path, cache)
         IN ConditionsMean(blocks, values, after.containers) /\ Decides(after.verdict, conditions, N)
<1> DEFINE f == CHOOSE g : ConditionsUpTo(g, blocks, values, path, cache, Len(path))
           Good(n) == /\ ConditionsMean(blocks, values, f[n].containers)
                      /\ Decides(f[n].verdict, conditions, n)
           Wrong == {n \in 0 .. N : ~Good(n)}
<1>1. CachedConditions(blocks, values, path, cache) = f[Len(path)]
  BY DEF CachedConditions, ConditionsUpTo
<1>2. ConditionsUpTo(f, blocks, values, path, cache, N)
  BY ConditionsByStep
<1> HIDE DEF f
<1>3. /\ f[0] = [containers |-> cache, verdict |-> "true"]
      /\ \A n \in 1 .. N : f[n] = ConditionAt(blocks, values, path, n, f[n - 1])
  BY <1>2 DEF ConditionsUpTo
<1>4. Good(0)
  <2>1. \A e \in 1 .. 0 : conditions[e] = "true"
    OBVIOUS
  <2> QED BY <1>3, <2>1 DEF Decides
<1>5. Wrong = {}
  <2> SUFFICES ASSUME Wrong # {} PROVE FALSE
    OBVIOUS
  <2>1. PICK n \in Wrong : \A m \in Wrong : ~(m < n)
    <3>1. Wrong \in SUBSET Nat
      OBVIOUS
    <3> HIDE DEF Wrong
    <3> QED BY <3>1, LeastOf
  <2>2. n \in 0 .. N /\ ~Good(n) /\ n # 0
    BY <1>4, <2>1
  <2>3. n - 1 \in 0 .. N /\ n - 1 < n /\ n \in 1 .. N /\ n \in Nat \ {0}
    BY <2>2
  <2>4. Good(n - 1)
    BY <2>1, <2>3
  <2> DEFINE a == f[n - 1]
  <2>5. ConditionsMean(blocks, values, a.containers) /\ Decides(a.verdict, conditions, n - 1)
    BY <2>4
  <2>6. f[n] = ConditionAt(blocks, values, path, n, a)
    BY <1>3, <2>3
  <2> HIDE DEF a
  <2>7. Found(blocks, "container", SubSeq(path, 1, n - 1), path[n]) # {}
    BY <2>3
  <2>8. conditions[n] = ConditionUnder(blocks, values, SubSeq(path, 1, n - 1), path[n])
    BY <2>3
  <2>9. LET after == ConditionAt(blocks, values, path, n, a)
        IN ConditionsMean(blocks, values, after.containers) /\ Decides(after.verdict, conditions, n)
    BY <2>3, <2>5, <2>7, <2>8, ConditionMeant
  <2> QED BY <2>2, <2>6, <2>9
<1>6. Good(N)
  BY <1>5
<1> QED BY <1>1, <1>6

(* ------------------------------------------------ arguments as written *)

\* What an invocation makes for its body, in a scope; and in that of the
\* invocation around it, if there is one.
MadeIn(book, link, values) ==
  InvocationArgs(link.block, Declared(book, "composites", link.target).params, values)
MadeUnder(book, link, outer) ==
  IF outer.r # "args" THEN outer ELSE MadeIn(book, link, CompositeScope(outer.v))

\* The local function of ArgsOf.
MeantUpTo(f, book, values, leaf, N) ==
  f = [d \in 1 .. N |-> IF d = 1 THEN MadeIn(book, leaf.chain[1], values)
                        ELSE MadeUnder(book, leaf.chain[d], f[d - 1])]

LEMMA MeantByStep ==
  ASSUME NEW book, NEW values, NEW leaf, NEW N \in Nat
  PROVE  \E f : MeantUpTo(f, book, values, leaf, N)
<1> DEFINE Missing == {n \in Nat : ~ \E f : MeantUpTo(f, book, values, leaf, n)}
<1> SUFFICES ASSUME Missing # {} PROVE FALSE
  OBVIOUS
<1>1. PICK n \in Missing : \A m \in Missing : ~(m < n)
  <2>1. Missing \in SUBSET Nat
    OBVIOUS
  <2> HIDE DEF Missing
  <2> QED BY <2>1, LeastOf
<1> DEFINE first == MadeIn(book, leaf.chain[1], values)
           step(s, k) == MadeUnder(book, leaf.chain[k], s)
<1>2. CASE n = 0
  <2> DEFINE g == [d \in 1 .. 0 |-> first]
  <2>1. g = [d \in 1 .. 0 |-> IF d = 1 THEN first ELSE step(g[d - 1], d)]
    <3> HIDE DEF first, step
    <3> QED OBVIOUS
  <2>2. MeantUpTo(g, book, values, leaf, 0)
    <3> HIDE DEF g
    <3> QED BY <2>1 DEF MeantUpTo
  <2> HIDE DEF g
  <2> QED BY <1>1, <1>2, <2>2
<1>3. CASE n # 0
  <2>1. n - 1 \in Nat /\ n - 1 < n /\ n \in Nat
    BY <1>1, <1>3
  <2>2. PICK f : MeantUpTo(f, book, values, leaf, n - 1)
    BY <1>1, <2>1
  <2> DEFINE more == IF n = 1 THEN first ELSE step(f[n - 1], n)
             g == [d \in 1 .. n |-> IF d = n THEN more ELSE f[d]]
  <2>3. \A d \in 1 .. n - 1 : f[d] = IF d = 1 THEN first ELSE step(f[d - 1], d)
    BY <2>2 DEF MeantUpTo
  <2> HIDE DEF first, step
  <2>4. ASSUME NEW d \in 1 .. n
        PROVE  g[d] = IF d = 1 THEN first ELSE step(g[d - 1], d)
    <3>1. CASE d = n
      <4>1. g[n] = more /\ (n # 1 => g[n - 1] = f[n - 1])
        <5>1. n \in 1 .. n /\ (n # 1 => n - 1 \in 1 .. n /\ n - 1 # n)
          BY <1>3, <2>1
        <5> HIDE DEF more
        <5> QED BY <5>1
      <4> HIDE DEF g
      <4> QED BY <3>1, <4>1
    <3>2. CASE d # n
      <4>1. d \in 1 .. n - 1 /\ (d # 1 => d - 1 \in 1 .. n /\ d - 1 # n)
        BY <2>1, <3>2
      <4>2. g[d] = f[d] /\ (d # 1 => g[d - 1] = f[d - 1])
        <5> HIDE DEF more
        <5> QED BY <3>2, <4>1
      <4> HIDE DEF g
      <4> QED BY <2>3, <4>1, <4>2
    <3> QED BY <3>1, <3>2
  <2>5. g = [d \in 1 .. n |-> g[d]]
    OBVIOUS
  <2>6. MeantUpTo(g, book, values, leaf, n)
    <3> HIDE DEF g
    <3> QED BY <2>4, <2>5 DEF MeantUpTo, first, step
  <2> HIDE DEF g
  <2> QED BY <1>1, <2>6
<1> QED BY <1>2, <1>3

\* Leaves that are in the same invocations down to a depth have the same
\* arguments there.
LEMMA MeantAlike ==
  ASSUME NEW book, NEW values, NEW a, NEW b, NEW N \in Nat, NEW M \in Nat,
         NEW f, MeantUpTo(f, book, values, a, N), NEW g, MeantUpTo(g, book, values, b, M),
         NEW k \in 1 .. N, k \in 1 .. M, \A e \in 1 .. k : a.chain[e] = b.chain[e]
  PROVE  f[k] = g[k]
<1> DEFINE Wrong == {e \in 1 .. k : f[e] # g[e]}
<1>1. \A d \in 1 .. N : f[d] = IF d = 1 THEN MadeIn(book, a.chain[1], values)
                               ELSE MadeUnder(book, a.chain[d], f[d - 1])
  BY DEF MeantUpTo
<1>2. \A d \in 1 .. M : g[d] = IF d = 1 THEN MadeIn(book, b.chain[1], values)
                               ELSE MadeUnder(book, b.chain[d], g[d - 1])
  BY DEF MeantUpTo
<1>3. Wrong = {}
  <2> SUFFICES ASSUME Wrong # {} PROVE FALSE
    OBVIOUS
  <2>1. PICK e \in Wrong : \A c \in Wrong : ~(c < e)
    <3>1. Wrong \in SUBSET Nat
      OBVIOUS
    <3> HIDE DEF Wrong
    <3> QED BY <3>1, LeastOf
  <2>2. e \in 1 .. k /\ e \in 1 .. N /\ e \in 1 .. M /\ f[e] # g[e]
    BY <2>1
  <2>3. e # 1 => e - 1 \in 1 .. k /\ e - 1 < e
    BY <2>2
  <2>4. e # 1 => f[e - 1] = g[e - 1]
    BY <2>1, <2>3
  <2>5. a.chain[e] = b.chain[e]
    BY <2>2
  <2> QED BY <1>1, <1>2, <2>2, <2>4, <2>5
<1> QED BY <1>3

\* The arguments of an invocation, and that they depend on nothing but the
\* invocations around it.
LEMMA ArgsOfIs ==
  ASSUME NEW book, NEW values, NEW leaf, NEW k \in Nat \ {0}
  PROVE  ArgsOf(book, values, leaf, k)
           = IF k = 1 THEN MadeIn(book, leaf.chain[1], values)
             ELSE MadeUnder(book, leaf.chain[k], ArgsOf(book, values, leaf, k - 1))
<1> DEFINE f(n) == CHOOSE g : MeantUpTo(g, book, values, leaf, n)
<1>1. \A n \in Nat : ArgsOf(book, values, leaf, n) = f(n)[n]
  BY DEF ArgsOf, MeantUpTo, MadeIn, MadeUnder
<1>2. \A n \in Nat : MeantUpTo(f(n), book, values, leaf, n)
  BY MeantByStep
<1> HIDE DEF f
<1>3. f(k)[k] = IF k = 1 THEN MadeIn(book, leaf.chain[1], values)
                ELSE MadeUnder(book, leaf.chain[k], f(k)[k - 1])
  <2>1. k \in 1 .. k
    OBVIOUS
  <2> QED BY <1>2, <2>1 DEF MeantUpTo
<1>4. k # 1 => f(k)[k - 1] = f(k - 1)[k - 1]
  <2> SUFFICES ASSUME k # 1 PROVE f(k)[k - 1] = f(k - 1)[k - 1]
    OBVIOUS
  <2> DEFINE c == k - 1
  <2>1. c \in Nat /\ c \in 1 .. k /\ c \in 1 .. c
    OBVIOUS
  <2>2. MeantUpTo(f(k), book, values, leaf, k) /\ MeantUpTo(f(c), book, values, leaf, c)
    BY <1>2, <2>1
  <2> HIDE DEF c
  <2> QED BY <2>1, <2>2, MeantAlike DEF c
<1> QED BY <1>1, <1>3, <1>4

LEMMA ArgsOfAlike ==
  ASSUME NEW book, NEW values, NEW a, NEW b, NEW k \in Nat \ {0},
         \A e \in 1 .. k : a.chain[e] = b.chain[e]
  PROVE  ArgsOf(book, values, a, k) = ArgsOf(book, values, b, k)
<1> DEFINE f == CHOOSE g : MeantUpTo(g, book, values, a, k)
           h == CHOOSE g : MeantUpTo(g, book, values, b, k)
<1>1. ArgsOf(book, values, a, k) = f[k] /\ ArgsOf(book, values, b, k) = h[k]
  BY DEF ArgsOf, MeantUpTo, MadeIn, MadeUnder
<1>2. MeantUpTo(f, book, values, a, k) /\ MeantUpTo(h, book, values, b, k)
  BY MeantByStep
<1> HIDE DEF f, h
<1>3. k \in 1 .. k
  OBVIOUS
<1>4. f[k] = h[k]
  BY <1>2, <1>3, MeantAlike
<1> QED BY <1>1, <1>4

\* A cache of arguments holds, under the key of an invocation, what the
\* invocation makes as its author wrote it.
ArgsMean(book, values, leaves, cache) ==
  \A j \in DOMAIN leaves : \A n \in 1 .. Len(leaves[j].chain) - 1 :
    KeyOf(leaves[j], n) \in DOMAIN cache =>
      cache[KeyOf(leaves[j], n)] = ArgsOf(book, values, leaves[j], n)

\* The leaves of a play whose names are apart.
Apart(book, items, leaves) ==
  /\ PlayIsTree(items) /\ NamesApart(book, items)
  /\ StepsApart(StepRows(items)) /\ BodiesApart(book)
  /\ \A j \in DOMAIN leaves : Rooted(book, StepRows(items), leaves[j])

\* A step as the planner finds the blocks of its leaf again, by frames and keys.
Placed(book, items, step, leaf) ==
  LET l == Len(leaf.chain)
  IN /\ \A k \in 1 .. l - 1 :
          /\ step.frames[k].step = leaf.chain[k].block.name
          /\ step.frames[k].composite = leaf.chain[k].target
          /\ InBody(book, step.frames[k], leaf.chain[k + 1].block.name) = leaf.chain[k + 1].block
     /\ \A k \in 0 .. l - 1 : ArgsKey(step, k) = KeyOf(leaf, k)
     /\ BlockAt(IndexBlocks(items), "step", PlaybookPath(step), leaf.chain[1].block.name)
          = leaf.chain[1].block
     /\ step.name = leaf.chain[l].block.name
     /\ Last(step.frames) = step.frames[l - 1]

\* What is put under the key of an invocation is right for all leaves in it,
\* and no other leaf has that key.
LEMMA PutMeant ==
  ASSUME NEW book, NEW items, NEW leaves, Apart(book, items, leaves), NEW values,
         NEW i \in DOMAIN leaves, NEW k \in 1 .. Len(leaves[i].chain) - 1,
         NEW cache, ArgsMean(book, values, leaves, cache),
         NEW key, key = KeyOf(leaves[i], k),
         NEW args, args = ArgsOf(book, values, leaves[i], k)
  PROVE  ArgsMean(book, values, leaves, Put(cache, key, args)) /\ key \in DOMAIN Put(cache, key, args)
<1> DEFINE more == Put(cache, key, args)
<1>1. /\ DOMAIN more = DOMAIN cache \cup {key} /\ more[key] = args
      /\ \A x \in DOMAIN cache : x # key => more[x] = cache[x]
  BY DEF Put
<1> HIDE DEF more
<1>2. ASSUME NEW j \in DOMAIN leaves, NEW n \in 1 .. Len(leaves[j].chain) - 1,
             KeyOf(leaves[j], n) \in DOMAIN more
      PROVE  more[KeyOf(leaves[j], n)] = ArgsOf(book, values, leaves[j], n)
  <2>1. CASE KeyOf(leaves[j], n) # key
    BY <1>1, <1>2, <2>1 DEF ArgsMean
  <2>2. CASE KeyOf(leaves[j], n) = key
    <3> DEFINE a == leaves[i]
               b == leaves[j]
    <3>1. /\ Rooted(book, StepRows(items), a) /\ Rooted(book, StepRows(items), b)
          /\ PlayIsTree(items) /\ NamesApart(book, items)
          /\ StepsApart(StepRows(items)) /\ BodiesApart(book)
      BY DEF Apart
    <3>2. KeyOf(a, k) = KeyOf(b, n) /\ k \in 1 .. Len(a.chain) - 1 /\ n \in 1 .. Len(b.chain) - 1
      BY <2>2
    <3> HIDE DEF a, b
    <3>3. n = k /\ \A e \in 1 .. k : a.chain[e] = b.chain[e]
      BY <3>1, <3>2, SameKey
    <3>4. k \in Nat \ {0}
      BY <3>2
    <3>5. ArgsOf(book, values, a, k) = ArgsOf(book, values, b, k)
      BY <3>3, <3>4, ArgsOfAlike
    <3> QED BY <1>1, <2>2, <3>3, <3>5 DEF a, b
  <2> QED BY <2>1, <2>2
<1> QED BY <1>1, <1>2 DEF ArgsMean, more

\* Where names are apart, every step finds its blocks.
LEMMA StepPlaced ==
  ASSUME NEW book, NEW items, NEW leaves, Apart(book, items, leaves), NEW i \in DOMAIN leaves,
         NEW leaf, leaf = leaves[i], NEW p, StandsFor(p, leaf)
  PROVE  Placed(book, items, LoadStep(p), leaf)
<1> DEFINE l == Len(leaf.chain)
           step == LoadStep(p)
           rows == StepRows(items)
           blocks == IndexBlocks(items)
<1>1. step.frames = p.frames /\ step.name = p.block.name
  BY DEF LoadStep, PlayStep
<1>2. Rooted(book, rows, leaf) /\ PlayIsTree(items) /\ StepsApart(rows) /\ BodiesApart(book)
  BY DEF Apart
<1>3. PICK j \in DOMAIN rows :
        /\ leaf.containers = rows[j].within /\ leaf.chain[1].block = rows[j].block
  BY <1>2 DEF Rooted, Link
<1>4. IsList(leaf.containers) /\ IsList(leaf.chain) /\ l \in Nat /\ l # 0
  BY <1>2, <1>3, StepFound, ListIs DEF Rooted
<1>5. p.block = leaf.chain[l].block
  BY DEF StandsFor
<1> HIDE DEF l
<1>6. /\ Len(p.frames) = l - 1
      /\ \A d \in 1 .. l - 1 :
           /\ p.frames[d].step = leaf.chain[d].block.name
           /\ p.frames[d].composite = leaf.chain[d].target
  <2> DEFINE frames == p.frames
  <2>1. l - 1 \in Nat
    BY <1>4
  <2>2. frames = [d \in 1 .. l - 1 |-> Frame(leaf.chain[d].block.name, leaf.chain[d].target,
                                             leaf.chain[d].block.requires)]
    BY DEF StandsFor, l
  <2>3. DOMAIN frames = 1 .. l - 1 /\ frames = [d \in 1 .. l - 1 |-> frames[d]]
    BY <2>2
  <2>4. \A d \in 1 .. l - 1 :
          /\ frames[d].step = leaf.chain[d].block.name /\ frames[d].composite = leaf.chain[d].target
    BY <2>2 DEF Frame
  <2> HIDE DEF frames
  <2>5. IsList(frames) /\ Len(frames) = l - 1
    BY <2>1, <2>3, ListOf
  <2> QED BY <2>4, <2>5 DEF frames
<1>7. \A k \in 0 .. l - 1 : ArgsKey(step, k) = KeyOf(leaf, k)
  BY <1>4, ArgsKeyIs DEF l
<1>8. BlockAt(blocks, "step", PlaybookPath(step), leaf.chain[1].block.name) = leaf.chain[1].block
  <2>1. Standing(book, items, step, leaf)
    BY <1>2, StepStanding
  <2>2. Found(blocks, "step", PlaybookPath(step), leaf.chain[1].block.name) # {}
    <3> HIDE DEF step, blocks
    <3> QED BY <2>1 DEF Standing, blocks
  <2>3. \A a, b \in DOMAIN rows : rows[a].block.name = rows[b].block.name => a = b
    BY <1>2 DEF StepsApart
  <2> DEFINE path == PlaybookPath(step)
  <2> HIDE DEF path
  <2>4. Found(IndexBlocks(items), "step", path, rows[j].block.name) # {}
    BY <1>3, <2>2 DEF path
  <2>5. BlockAt(IndexBlocks(items), "step", path, rows[j].block.name) = rows[j].block
    BY <1>2, <2>3, <2>4, OwnBlock
  <2> QED BY <1>3, <2>5 DEF path
<1> HIDE DEF step, blocks
<1>9. ASSUME NEW k \in 1 .. l - 1
      PROVE  InBody(book, step.frames[k], leaf.chain[k + 1].block.name) = leaf.chain[k + 1].block
  <2> DEFINE ref == leaf.chain[k].target
             body == Declared(book, "composites", ref).steps
  <2>1. /\ IsInvocation(book, leaf.chain[k].block, ref)
        /\ \E e \in DOMAIN body : leaf.chain[k + 1] = Link(e, body[e], Resolved(Target(body[e]), ref.pkg))
    BY <1>2 DEF Rooted, l
  <2>2. Distinct(body)
    BY <1>2, <2>1 DEF BodiesApart, IsInvocation
  <2>3. InBody(book, step.frames[k], leaf.chain[k + 1].block.name)
          = The(body, leaf.chain[k + 1].block.name)
    BY <1>1, <1>6 DEF InBody
  <2> HIDE DEF body
  <2>4. PICK e \in DOMAIN body : leaf.chain[k + 1] = Link(e, body[e], Resolved(Target(body[e]), ref.pkg))
    BY <2>1
  <2>5. leaf.chain[k + 1].block = body[e]
    BY <2>4 DEF Link
  <2>6. The(body, body[e].name) = body[e]
    BY <2>2, TheNamed
  <2> QED BY <2>3, <2>5, <2>6
<1>10. Last(step.frames) = step.frames[l - 1]
  BY <1>1, <1>6 DEF Last
<1> QED BY <1>1, <1>5, <1>6, <1>7, <1>8, <1>9, <1>10 DEF Placed, step, blocks, l

\* The planner's arguments of an invocation are those its author meant, if
\* those of the invocation around it are.
LEMMA ArgsMeant ==
  ASSUME NEW book, NEW items, NEW leaves, Apart(book, items, leaves), NEW values,
         NEW i \in DOMAIN leaves, NEW leaf, leaf = leaves[i],
         NEW step, Standing(book, items, step, leaf), Placed(book, items, step, leaf),
         NEW k \in 1 .. Len(leaf.chain) - 1,
         NEW cache, ArgsMean(book, values, leaves, cache),
         NEW around, ArgsMean(book, values, leaves, around),
         k # 1 => KeyOf(leaf, k - 1) \in DOMAIN around
  PROVE  LET after == ArgsAt(book, IndexBlocks(items), values, step, k, cache, around)
         IN ArgsMean(book, values, leaves, after) /\ KeyOf(leaf, k) \in DOMAIN after
<1> DEFINE l == Len(leaf.chain)
           blocks == IndexBlocks(items)
           key == KeyOf(leaf, k)
           meant == ArgsOf(book, values, leaf, k)
           frame == step.frames[k]
           params == Declared(book, "composites", frame.composite).params
           outer == around[ArgsKey(step, k - 1)]
           first == InvocationArgs(BlockAt(blocks, "step", PlaybookPath(step), frame.step), params,
                                   values)
           inner == InvocationArgs(InBody(book, step.frames[k - 1], frame.step), params,
                                   CompositeScope(outer.v))
           new == ArgsAt(book, blocks, values, step, k, cache, around)
<1>1. l \in Nat /\ k \in Nat \ {0} /\ k \in 0 .. l - 1 /\ k - 1 \in 0 .. l - 1
  <2>1. l \in Nat
    BY DEF Standing
  <2>2. k \in 1 .. l - 1
    OBVIOUS
  <2> HIDE DEF l
  <2> QED BY <2>1, <2>2
<1>2. /\ ArgsKey(step, k) = key /\ ArgsKey(step, k - 1) = KeyOf(leaf, k - 1)
  BY <1>1 DEF Placed
<1>3. frame.step = leaf.chain[k].block.name /\ frame.composite = leaf.chain[k].target
  BY DEF Placed
<1>4. k = 1 => Found(blocks, "step", PlaybookPath(step), frame.step) # {}
  <2>1. Found(blocks, "step", PlaybookPath(step), leaf.chain[1].block.name) # {}
    BY DEF Standing
  <2> HIDE DEF frame
  <2> QED BY <1>3, <2>1
<1>5. Declares(book, "composites", frame.composite)
  BY DEF Standing
<1>6. k = 1 => first = meant
  <2> SUFFICES ASSUME k = 1 PROVE first = meant
    OBVIOUS
  <2>1. BlockAt(blocks, "step", PlaybookPath(step), frame.step) = leaf.chain[k].block
    <3>1. BlockAt(blocks, "step", PlaybookPath(step), leaf.chain[1].block.name)
            = leaf.chain[1].block
      BY DEF Placed
    <3> HIDE DEF frame, blocks
    <3> QED BY <1>3, <3>1
  <2>2. first = MadeIn(book, leaf.chain[1], values)
    <3> HIDE DEF frame, blocks
    <3> QED BY <1>3, <2>1 DEF MadeIn
  <2>3. meant = MadeIn(book, leaf.chain[1], values)
    BY <1>1, ArgsOfIs
  <2> QED BY <2>2, <2>3
<1>7. k # 1 => meant = IF outer.r # "args" THEN outer ELSE inner
  <2> SUFFICES ASSUME k # 1 PROVE meant = IF outer.r # "args" THEN outer ELSE inner
    OBVIOUS
  <2>1. PICK n \in 1 .. l - 1 : n = k - 1 /\ n + 1 = k
    <3> HIDE DEF l
    <3> QED BY <1>1
  <2>2. InBody(book, step.frames[n], leaf.chain[n + 1].block.name) = leaf.chain[n + 1].block
    BY <2>1 DEF Placed
  <2>3. InBody(book, step.frames[k - 1], frame.step) = leaf.chain[k].block
    <3> HIDE DEF frame
    <3> QED BY <1>3, <2>1, <2>2
  <2>4. outer = ArgsOf(book, values, leaf, k - 1)
    <3>1. KeyOf(leaf, n) \in DOMAIN around => around[KeyOf(leaf, n)] = ArgsOf(book, values, leaf, n)
      BY DEF ArgsMean
    <3> QED BY <1>2, <2>1, <3>1
  <2>5. inner = MadeIn(book, leaf.chain[k], CompositeScope(outer.v))
    <3> HIDE DEF frame, outer
    <3> QED BY <1>3, <2>3 DEF MadeIn
  <2>6. meant = MadeUnder(book, leaf.chain[k], ArgsOf(book, values, leaf, k - 1))
    BY <1>1, ArgsOfIs
  <2> HIDE DEF outer, inner, meant
  <2> QED BY <2>4, <2>5, <2>6 DEF MadeUnder
<1>8. \/ new = cache /\ key \in DOMAIN cache
      \/ new = Put(cache, key, meant) \/ new = Put(around, key, meant)
  <2>1. CASE key \in DOMAIN cache
    <3> HIDE DEF first, inner, meant, frame, params, outer, key, blocks
    <3> QED BY <1>2, <2>1 DEF ArgsAt
  <2>2. CASE key \notin DOMAIN cache /\ k = 1
    <3>1. new = Put(cache, key, first)
      BY <1>2, <1>4, <1>5, <2>2 DEF ArgsAt
    <3> HIDE DEF first, meant, new
    <3> QED BY <1>6, <2>2, <3>1
  <2>3. CASE key \notin DOMAIN cache /\ k # 1
    <3>1. new = Put(around, key, IF outer.r # "args" THEN outer ELSE inner)
      BY <1>2, <1>5, <2>3 DEF ArgsAt
    <3> HIDE DEF inner, meant, new, outer
    <3> QED BY <1>7, <2>3, <3>1
  <2> QED BY <2>1, <2>2, <2>3
<1> HIDE DEF new, key, meant
<1>9. /\ ArgsMean(book, values, leaves, Put(cache, key, meant))
      /\ key \in DOMAIN Put(cache, key, meant)
  BY PutMeant DEF key, meant
<1>10. /\ ArgsMean(book, values, leaves, Put(around, key, meant))
       /\ key \in DOMAIN Put(around, key, meant)
  BY PutMeant DEF key, meant
<1> QED BY <1>8, <1>9, <1>10 DEF new, key

\* The invocation a leaf stands in, if there is one, is the last but one of
\* its chain.
Innermost(leaf, N) == N \in Nat /\ N = Len(leaf.chain) - 1

\* All of them, down to the step: its innermost arguments are in the cache.
LEMMA CachedArgsMeant ==
  ASSUME NEW book, NEW items, NEW leaves, Apart(book, items, leaves), NEW values,
         NEW i \in DOMAIN leaves, NEW leaf, leaf = leaves[i],
         NEW step, Standing(book, items, step, leaf), Placed(book, items, step, leaf),
         NEW N, Innermost(leaf, N), NEW cache, ArgsMean(book, values, leaves, cache)
  PROVE  LET after == CachedArgs(book, IndexBlocks(items), values, step, cache)
         IN /\ ArgsMean(book, values, leaves, after)
            /\ N # 0 => after[ArgsKey(step, N)] = ArgsOf(book, values, leaf, N)
<1> DEFINE blocks == IndexBlocks(items)
           f == CHOOSE g : ArgsUpTo(g, book, blocks, values, step, cache, Len(step.frames))
           Good(n) == /\ ArgsMean(book, values, leaves, f[n])
                      /\ n # 0 => KeyOf(leaf, n) \in DOMAIN f[n]
           Wrong == {n \in 0 .. N : ~Good(n)}
<1> DEFINE l == Len(leaf.chain)
<1>0. N \in Nat /\ N = l - 1 /\ l \in Nat
  BY DEF Standing, Innermost
<1>1. CachedArgs(book, blocks, values, step, cache) = f[Len(step.frames)]
  BY DEF CachedArgs, ArgsUpTo
<1>2. Len(step.frames) = N
  BY DEF Standing, Innermost
<1>3. ArgsUpTo(f, book, blocks, values, step, cache, N)
  BY <1>2, ArgsByStep
<1> HIDE DEF f
<1>4. \A n \in 0 .. N :
        f[n] = IF n = 0 THEN cache ELSE ArgsAt(book, blocks, values, step, n, cache, f[n - 1])
  BY <1>3 DEF ArgsUpTo
<1>5. Wrong = {}
  <2> SUFFICES ASSUME Wrong # {} PROVE FALSE
    OBVIOUS
  <2>1. PICK n \in Wrong : \A m \in Wrong : ~(m < n)
    <3>1. Wrong \in SUBSET Nat
      OBVIOUS
    <3> HIDE DEF Wrong
    <3> QED BY <3>1, LeastOf
  <2>2. n \in 0 .. N /\ ~Good(n)
    BY <2>1
  <2>3. n # 0
    BY <1>4, <2>2
  <2>4. n - 1 \in 0 .. N /\ n - 1 < n /\ n \in 1 .. N /\ n \in 1 .. l - 1
        /\ (n # 1 => n - 1 # 0)
    <3> HIDE DEF l
    <3> QED BY <1>0, <2>2, <2>3
  <2>5. Good(n - 1)
    BY <2>1, <2>4
  <2> DEFINE a == f[n - 1]
  <2>6. ArgsMean(book, values, leaves, a) /\ (n # 1 => KeyOf(leaf, n - 1) \in DOMAIN a)
    BY <2>4, <2>5
  <2>7. f[n] = ArgsAt(book, blocks, values, step, n, cache, a)
    BY <1>4, <2>2, <2>3
  <2> HIDE DEF a
  <2>8. n \in 1 .. Len(leaf.chain) - 1
    BY <2>4
  <2>9. LET after == ArgsAt(book, IndexBlocks(items), values, step, n, cache, a)
        IN ArgsMean(book, values, leaves, after) /\ KeyOf(leaf, n) \in DOMAIN after
    BY <2>6, <2>8, ArgsMeant
  <2> QED BY <2>2, <2>7, <2>9
<1>6. Good(N)
  <2>1. N \in 0 .. N
    BY <1>0
  <2> HIDE DEF Good
  <2> QED BY <1>5, <2>1
<1>7. N # 0 => f[N][ArgsKey(step, N)] = ArgsOf(book, values, leaf, N)
  <2> SUFFICES ASSUME N # 0 PROVE f[N][ArgsKey(step, N)] = ArgsOf(book, values, leaf, N)
    OBVIOUS
  <2>1. N \in 1 .. l - 1 /\ N \in 0 .. l - 1
    <3>1. \A x \in Nat, y \in Nat : x = y - 1 /\ x # 0 => x \in 1 .. y - 1 /\ x \in 0 .. y - 1
      OBVIOUS
    <3> HIDE DEF l
    <3> QED BY <1>0, <3>1, Zenon
  <2>2. ArgsKey(step, N) = KeyOf(leaf, N)
    BY <2>1 DEF Placed
  <2>3. ArgsMean(book, values, leaves, f[N]) /\ KeyOf(leaf, N) \in DOMAIN f[N]
    BY <1>6
  <2> QED BY <2>1, <2>2, <2>3 DEF ArgsMean
<1> QED BY <1>1, <1>2, <1>6, <1>7

(* ------------------------------------------------------- plans as written *)

CachesMean(book, items, leaves, values, known) ==
  ConditionsMean(IndexBlocks(items), values, known.containers)
  /\ ArgsMean(book, values, leaves, known.args)

\* The conditions of the containers around a leaf.
ConditionsOf(leaf, values) ==
  [d \in 1 .. Len(leaf.containers) |-> Condition(leaf.containers[d].condition, values)]

\* The walk through the containers of a step finds those of its leaf.
LEMMA WithinMeant ==
  ASSUME NEW book, NEW items, NEW leaves, Apart(book, items, leaves), NEW values,
         NEW leaf, NEW step, Standing(book, items, step, leaf),
         NEW cache, ConditionsMean(IndexBlocks(items), values, cache)
  PROVE  LET within == CachedConditions(IndexBlocks(items), values, PlaybookPath(step), cache)
         IN /\ ConditionsMean(IndexBlocks(items), values, within.containers)
            /\ Decides(within.verdict, ConditionsOf(leaf, values), Len(leaf.containers))
<1> DEFINE blocks == IndexBlocks(items)
           path == PlaybookPath(step)
           m == Len(leaf.containers)
           conditions == ConditionsOf(leaf, values)
<1>1. /\ m \in Nat /\ Len(path) = m
      /\ \A d \in 1 .. m : Found(blocks, "container", SubSeq(path, 1, d - 1), path[d]) # {}
  BY DEF Standing
<1>2. PICK j \in DOMAIN StepRows(items) :
        leaf.containers = StepRows(items)[j].within /\ path = PathOf(StepRows(items)[j])
  BY DEF Standing, StandsAt
<1>3. ASSUME NEW d \in 1 .. m
      PROVE  conditions[d] = ConditionUnder(blocks, values, SubSeq(path, 1, d - 1), path[d])
  <2> DEFINE row == StepRows(items)[j]
  <2>1. PlayIsTree(items) /\ NamesApart(book, items)
    BY DEF Apart
  <2>2. d \in 1 .. Len(row.within)
    BY <1>2
  <2>3. ConditionUnder(IndexBlocks(items), values, SubSeq(PathOf(row), 1, d - 1), PathOf(row)[d])
          = Condition(row.within[d].condition, values)
    BY <2>1, <2>2, OwnCondition
  <2>4. conditions[d] = Condition(leaf.containers[d].condition, values)
    BY DEF ConditionsOf
  <2> HIDE DEF path, row, conditions
  <2> QED BY <1>2, <2>3, <2>4 DEF row
<1> HIDE DEF blocks, path, m, conditions
<1>4. LET within == CachedConditions(blocks, values, path, cache)
      IN ConditionsMean(blocks, values, within.containers) /\ Decides(within.verdict, conditions, m)
  BY <1>1, <1>3, ConditionsMeant DEF blocks
<1> QED BY <1>4 DEF blocks, path, m, conditions

\* What the verdict of the walk says of the plan that was meant.
Follows(verdict, book, values, step, leaf) ==
  LET plan  == MeantPlan(book, values, step, leaf)
      l     == Len(leaf.chain)
      block == leaf.chain[l].block
      outer == ArgsOf(book, values, leaf, l - 1)
  IN /\ verdict \in Verdicts
     /\ verdict # "true" => plan = IF verdict = "false" THEN Skip ELSE Fail("value")
     /\ verdict = "true" /\ l = 1 => plan = PlanFromBlock(book, step, block, values)
     /\ verdict = "true" /\ l # 1 =>
          plan = IF outer.r = "off" THEN Skip
                 ELSE IF outer.r = "error" THEN Fail(outer.why)
                 ELSE PlanFromBlock(book, step, block, CompositeScope(outer.v))

LEMMA VerdictMeant ==
  ASSUME NEW book, NEW values, NEW step, NEW leaf, IsList(leaf.containers), NEW verdict,
         Decides(verdict, ConditionsOf(leaf, values), Len(leaf.containers))
  PROVE  Follows(verdict, book, values, step, leaf)
<1> DEFINE m == Len(leaf.containers)
           asked(i) == Condition(leaf.containers[i].condition, values)
           closed == {i \in DOMAIN leaf.containers : asked(i) # "true"}
           first == CHOOSE i \in closed : \A j \in closed : i <= j
           plan == MeantPlan(book, values, step, leaf)
           block == leaf.chain[Len(leaf.chain)].block
           outer == ArgsOf(book, values, leaf, Len(leaf.chain) - 1)
           inner == IF outer.r = "off" THEN Skip
                    ELSE IF outer.r = "error" THEN Fail(outer.why)
                    ELSE PlanFromBlock(book, step, block, CompositeScope(outer.v))
<1>1. m \in Nat /\ DOMAIN leaf.containers = 1 .. m
  BY ListIs
<1>2. \A d \in 1 .. m : ConditionsOf(leaf, values)[d] = asked(d)
  BY DEF ConditionsOf
<1>3. \/ verdict = "true" /\ \A e \in 1 .. m : asked(e) = "true"
      \/ verdict # "true" /\ \E e \in 1 .. m : asked(e) = verdict
                                             /\ \A c \in 1 .. e - 1 : asked(c) = "true"
  <2> HIDE DEF asked
  <2>1. ASSUME verdict # "true"
        PROVE  \E e \in 1 .. m : asked(e) = verdict /\ \A c \in 1 .. e - 1 : asked(c) = "true"
    <3>1. PICK e \in 1 .. m : /\ ConditionsOf(leaf, values)[e] = verdict
                              /\ \A c \in 1 .. e - 1 : ConditionsOf(leaf, values)[c] = "true"
      BY <2>1 DEF Decides
    <3>2. \A c \in 1 .. e - 1 : c \in 1 .. m
      <4> HIDE DEF m
      <4> QED BY <1>1
    <3> QED BY <1>2, <3>1, <3>2
  <2> QED BY <1>2, <2>1 DEF Decides
<1>4. plan = CASE closed # {} -> IF asked(first) = "false" THEN Skip ELSE Fail("value")
               [] closed = {} /\ Len(leaf.chain) = 1 -> PlanFromBlock(book, step, block, values)
               [] OTHER -> inner
  <2>1. Last(leaf.chain).block = block
    BY DEF Last
  <2> HIDE DEF block
  <2> QED BY <2>1 DEF MeantPlan
<1>5. ASSUME verdict # "true"
      PROVE  closed # {} /\ asked(first) = verdict /\ verdict \in Verdicts
  <2>1. PICK e \in 1 .. m : asked(e) = verdict /\ \A c \in 1 .. e - 1 : asked(c) = "true"
    BY <1>3, <1>5
  <2>2. verdict \in Verdicts
    BY <2>1, ConditionIs
  <2> HIDE DEF asked, m
  <2>3. e \in closed /\ \A j \in closed : j \in 1 .. m /\ ~(j \in 1 .. e - 1)
    BY <1>1, <1>5, <2>1
  <2>4. \A j \in closed : e <= j
    BY <1>1, <2>3
  <2>5. closed \subseteq Nat
    BY <1>1, <2>3
  <2> HIDE DEF closed
  <2>6. first \in closed /\ first <= e
    BY <2>3, <2>4
  <2> HIDE DEF first
  <2>7. first = e
    BY <2>3, <2>4, <2>5, <2>6
  <2> QED BY <2>1, <2>2, <2>3, <2>7
<1>6. verdict = "true" => closed = {}
  <2> HIDE DEF asked, m
  <2> QED BY <1>1, <1>3
<1>7. verdict \in Verdicts
  BY <1>5 DEF Verdicts
<1> HIDE DEF plan, inner, closed, first, asked, block
<1>8. /\ verdict # "true" => plan = IF verdict = "false" THEN Skip ELSE Fail("value")
      /\ verdict = "true" /\ Len(leaf.chain) = 1 => plan = PlanFromBlock(book, step, block, values)
      /\ verdict = "true" /\ Len(leaf.chain) # 1 => plan = inner
  BY <1>4, <1>5, <1>6
<1> QED BY <1>7, <1>8 DEF Follows, plan, inner, block

\* A step is planned as its author meant it, and the caches stay what was
\* meant.
LEMMA PlanMeant ==
  ASSUME NEW book, NEW items, NEW leaves, Apart(book, items, leaves), NEW values,
         NEW i \in DOMAIN leaves, NEW leaf, leaf = leaves[i],
         NEW step, Standing(book, items, step, leaf), Placed(book, items, step, leaf),
         NEW known, CachesMean(book, items, leaves, values, known)
  PROVE  LET new == PlanStep(book, IndexBlocks(items), values, step, known)
         IN /\ new.plan = MeantPlan(book, values, step, leaf)
            /\ CachesMean(book, items, leaves, values, new.memory)
<1> DEFINE blocks == IndexBlocks(items)
           within == CachedConditions(blocks, values, PlaybookPath(step), known.containers)
           args == CachedArgs(book, blocks, values, step, known.args)
           new == PlanStep(book, blocks, values, step, known)
           plan == MeantPlan(book, values, step, leaf)
           l == Len(leaf.chain)
           block == leaf.chain[l].block
           outer == ArgsOf(book, values, leaf, l - 1)
           own == PlanFromBlock(book, step, block, values)
           inner == IF outer.r = "off" THEN Skip
                    ELSE IF outer.r = "error" THEN Fail(outer.why)
                    ELSE PlanFromBlock(book, step, block, CompositeScope(outer.v))
<1>1. /\ l \in Nat \ {0} /\ Len(step.frames) = l - 1 /\ (step.frames = << >> <=> l = 1)
  BY DEF Standing
<1>2. ConditionsMean(blocks, values, within.containers)
      /\ Decides(within.verdict, ConditionsOf(leaf, values), Len(leaf.containers))
  BY WithinMeant DEF CachesMean
<1>3. /\ within.verdict \in Verdicts
      /\ within.verdict # "true" =>
           plan = IF within.verdict = "false" THEN Skip ELSE Fail("value")
      /\ within.verdict = "true" /\ l = 1 => plan = own
      /\ within.verdict = "true" /\ l # 1 => plan = inner
  <2> DEFINE verdict == within.verdict
  <2>1. Decides(verdict, ConditionsOf(leaf, values), Len(leaf.containers))
    BY <1>2
  <2>2. IsList(leaf.containers)
    <3>1. Rooted(book, StepRows(items), leaf) /\ PlayIsTree(items)
      BY DEF Apart
    <3>2. PICK j \in DOMAIN StepRows(items) : leaf.containers = StepRows(items)[j].within
      BY <3>1 DEF Rooted
    <3> QED BY <3>1, <3>2, StepFound
  <2> HIDE DEF verdict
  <2>3. Follows(verdict, book, values, step, leaf)
    BY <2>1, <2>2, VerdictMeant
  <2> QED BY <2>3 DEF Follows, verdict
<1>4. /\ ArgsMean(book, values, leaves, args)
      /\ l # 1 => args[ArgsKey(step, l - 1)] = outer
  <2>1. PICK N \in Nat : N = Len(leaf.chain) - 1 /\ (l # 1 => N # 0)
    <3>1. \E N \in Nat : N = l - 1 /\ (l # 1 => N # 0)
      <4> HIDE DEF l
      <4> QED BY <1>1
    <3> QED BY <3>1
  <2>2. ArgsMean(book, values, leaves, known.args)
    BY DEF CachesMean
  <2>3. /\ ArgsMean(book, values, leaves, args)
        /\ N # 0 => args[ArgsKey(step, N)] = ArgsOf(book, values, leaf, N)
    <3>1. Innermost(leaf, N)
      BY <2>1 DEF Innermost
    <3>2. LET after == CachedArgs(book, IndexBlocks(items), values, step, known.args)
          IN /\ ArgsMean(book, values, leaves, after)
             /\ N # 0 => after[ArgsKey(step, N)] = ArgsOf(book, values, leaf, N)
      BY <2>2, <3>1, CachedArgsMeant
    <3> QED BY <3>2
  <2> HIDE DEF args
  <2> QED BY <2>1, <2>3
<1>5. l = 1 => /\ Found(blocks, "step", step.path, step.name) # {}
               /\ BlockAt(blocks, "step", step.path, step.name) = block
  BY DEF Standing, Placed
<1>6. l # 1 => CompositePlan(book, step, outer) = inner
  <2> SUFFICES ASSUME l # 1 PROVE CompositePlan(book, step, outer) = inner
    OBVIOUS
  <2>1. PICK n \in 1 .. l - 1 : n = l - 1 /\ n + 1 = l
    <3> HIDE DEF l
    <3> QED BY <1>1
  <2>2. /\ Last(step.frames) = step.frames[n]
        /\ InBody(book, step.frames[n], leaf.chain[n + 1].block.name) = leaf.chain[n + 1].block
        /\ step.name = leaf.chain[l].block.name
    BY <2>1 DEF Placed
  <2>3. InBody(book, Last(step.frames), step.name) = block
    BY <2>1, <2>2
  <2> HIDE DEF outer, block, l
  <2> QED BY <2>3 DEF CompositePlan
<1>7. /\ new.plan = plan
      /\ new.memory.containers = within.containers
      /\ new.memory.args = known.args \/ new.memory.args = args
  <2> HIDE DEF within, args, blocks, plan, outer, own, inner, l, block
  <2>1. CASE within.verdict # "true"
    BY <1>3, <2>1 DEF PlanStep, Verdicts, within, args
  <2>2. CASE within.verdict = "true" /\ l = 1
    <3>1. step.frames = << >>
      BY <1>1, <2>2
    <3>2. new.plan = PlanFromBlock(book, step, BlockAt(blocks, "step", step.path, step.name), values)
      BY <1>5, <2>2, <3>1 DEF PlanStep, within
    <3>3. /\ new.memory.containers = within.containers
          /\ new.memory.args = known.args
      BY <2>2, <3>1 DEF PlanStep, within
    <3> QED BY <1>3, <1>5, <2>2, <3>2, <3>3 DEF own
  <2>3. CASE within.verdict = "true" /\ l # 1
    <3>1. step.frames # << >> /\ Len(step.frames) = l - 1
      BY <1>1, <2>3
    <3>2. /\ new.plan = CompositePlan(book, step, args[ArgsKey(step, Len(step.frames))])
          /\ new.memory.containers = within.containers /\ new.memory.args = args
      BY <2>3, <3>1 DEF PlanStep, within, args
    <3> QED BY <1>3, <1>4, <1>6, <2>3, <3>1, <3>2
  <2> QED BY <2>1, <2>2, <2>3
<1>8. CachesMean(book, items, leaves, values, new.memory)
  <2> HIDE DEF new, args, within
  <2>1. ArgsMean(book, values, leaves, known.args)
    BY DEF CachesMean
  <2> QED BY <1>2, <1>4, <1>7, <2>1 DEF CachesMean, blocks
<1> QED BY <1>7, <1>8

\* Planner::plan for a step of an accepted play whose names are apart.
LEMMA NextMeant ==
  ASSUME NEW d, PlaybookAccepted(d), DocumentIsTree(d), NEW k \in DOMAIN d.plays,
         NamesApart(LoadPlaybook(d), d.plays[k].items),
         NEW i \in DOMAIN LoadItems(LoadPlaybook(d), d.plays[k].items),
         NEW step, step = LoadStep(LoadItems(LoadPlaybook(d), d.plays[k].items)[i]),
         NEW values, NEW known,
         CachesMean(LoadPlaybook(d), d.plays[k].items, Leaves(LoadPlaybook(d), d.plays[k]), values,
                    known)
  PROVE  LET leaves == Leaves(LoadPlaybook(d), d.plays[k])
             new == PlanStep(LoadPlaybook(d), IndexBlocks(d.plays[k].items), values, step, known)
         IN /\ new.plan = MeantPlan(LoadPlaybook(d), values, step, leaves[i])
            /\ CachesMean(LoadPlaybook(d), d.plays[k].items, leaves, values, new.memory)
<1> DEFINE book == LoadPlaybook(d)
           items == d.plays[k].items
           rows == StepRows(items)
           ps == LoadItems(book, items)
           leaves == Leaves(book, d.plays[k])
           leaf == leaves[i]
           p == ps[i]
<1>1. PlayIsTree(items)
  BY DEF DocumentIsTree
<1>2. /\ DOMAIN ps = DOMAIN leaves
      /\ \A j \in DOMAIN ps : Rooted(book, rows, leaves[j]) /\ StandsFor(ps[j], leaves[j])
  BY LoadedSound DEF InStep
<1>3. StepsApart(rows)
  BY PlaySound DEF StepsApart
<1>4. BodiesApart(book)
  BY BodiesSound DEF BodiesApart
<1> HIDE DEF book, items, rows, leaves, ps
<1>5. Apart(book, items, leaves)
  BY <1>1, <1>2, <1>3, <1>4 DEF Apart, rows, book, items
<1>6. i \in DOMAIN leaves /\ Rooted(book, rows, leaf) /\ StandsFor(p, leaf) /\ step = LoadStep(p)
  BY <1>2 DEF ps, book, items
<1> HIDE DEF p
<1>7. Standing(book, items, step, leaf)
  BY <1>1, <1>6, StepStanding DEF rows
<1>8. Placed(book, items, step, leaf)
  BY <1>5, <1>6, StepPlaced
<1>9. CachesMean(book, items, leaves, values, known)
  BY DEF book, items, leaves
<1> DEFINE new == PlanStep(book, IndexBlocks(items), values, step, known)
<1>10. /\ new.plan = MeantPlan(book, values, step, leaves[i])
       /\ CachesMean(book, items, leaves, values, new.memory)
  BY <1>5, <1>6, <1>7, <1>8, <1>9, PlanMeant
<1> QED BY <1>10 DEF book, items, leaves

(* ---------------------------------------------------- the third invariant *)

PlansMean(book, values, all, leaves, ps) ==
  \A i \in DOMAIN ps : ps[i] = MeantPlan(book, values, all[i], leaves[i])

Planning == phase \in {"plan", "planned"}

MeantInv ==
  /\ PlanInv
  /\ ~Planning => memory = [containers |-> NoCache, args |-> NoCache]
  /\ Planning /\ NamesApart(pb, play.items) =>
       /\ CachesMean(pb, play.items, Leaves(pb, play), scope, memory)
       /\ PlansMean(pb, scope, steps, Leaves(pb, play), plans)

\* PlanNext keeps it.
LEMMA MeantNext ==
  ASSUME MeantInv, PlanNext, NamesApart(pb, play.items)
  PROVE  /\ CachesMean(pb, play.items, Leaves(pb, play), scope, memory')
         /\ PlansMean(pb, scope, steps, Leaves(pb, play), plans')
<1> DEFINE leaves == Leaves(pb, play)
           n == Len(plans)
           i == n + 1
           step == steps[n + 1]
           new == PlanStep(pb, IndexBlocks(play.items), scope, step, memory)
<1>1. /\ phase = "plan" /\ n < Len(steps)
      /\ plans' = Append(plans, new.plan) /\ memory' = new.memory
  BY DEF PlanNext
<1>2. IsList(plans) /\ n \in Nat /\ DOMAIN plans = 1 .. n
  BY ListIs DEF MeantInv, PlanInv, PlansAreOf
<1>3. /\ CachesMean(pb, play.items, leaves, scope, memory)
      /\ \A j \in 1 .. n : plans[j] = MeantPlan(pb, scope, steps[j], leaves[j])
  BY <1>1, <1>2 DEF MeantInv, Planning, PlansMean
<1>4. /\ new.plan = MeantPlan(pb, scope, step, leaves[i])
      /\ CachesMean(pb, play.items, leaves, scope, new.memory)
  <2>1. PlaybookAccepted(doc) /\ DocumentIsTree(doc)
    BY <1>1, InputIsTree DEF MeantInv, PlanInv, Accepted
  <2>2. PICK k \in DOMAIN doc.plays : play = doc.plays[k]
    BY <1>1, <2>1, PlayIs DEF MeantInv, PlanInv
  <2> DEFINE book == LoadPlaybook(doc)
             items == doc.plays[k].items
             ps == LoadItems(book, items)
  <2>3. /\ steps = LoadPlay(book, doc.plays[k]) /\ pb = book
        /\ play.items = items /\ leaves = Leaves(book, doc.plays[k])
    BY <2>2 DEF steps, pb
  <2>4. IsList(steps) /\ DOMAIN steps = DOMAIN ps /\ \A e \in DOMAIN ps : steps[e] = LoadStep(ps[e])
    BY <2>1, <2>3, StepsAre
  <2>5. i \in DOMAIN ps
    <3> HIDE DEF ps
    <3> QED BY <1>1, <1>2, <2>4, ListIs
  <2>6. step = LoadStep(ps[i])
    BY <2>4, <2>5
  <2> HIDE DEF step, i, leaves
  <2>7. /\ NamesApart(book, items)
        /\ CachesMean(book, items, Leaves(book, doc.plays[k]), scope, memory)
    <3> HIDE DEF book, items
    <3> QED BY <1>3, <2>3
  <2> DEFINE got == PlanStep(book, IndexBlocks(items), scope, step, memory)
  <2>8. /\ got.plan = MeantPlan(book, scope, step, Leaves(book, doc.plays[k])[i])
        /\ CachesMean(book, items, Leaves(book, doc.plays[k]), scope, got.memory)
    BY <2>1, <2>5, <2>6, <2>7, NextMeant
  <2>9. new = got
    <3> HIDE DEF book, items
    <3> QED BY <2>3
  <2> HIDE DEF got, new, book, items
  <2> QED BY <2>3, <2>8, <2>9
<1> HIDE DEF new, leaves
<1>5. /\ IsList(plans') /\ Len(plans') = n + 1 /\ plans'[n + 1] = new.plan
      /\ \A j \in 1 .. n : plans'[j] = plans[j]
  BY <1>1, <1>2, AppendIs
<1> HIDE DEF n
<1>6. DOMAIN plans' = 1 .. n + 1
  BY <1>5, ListIs
<1>7. \A j \in DOMAIN plans' : plans'[j] = MeantPlan(pb, scope, steps[j], leaves[j])
  BY <1>2, <1>3, <1>4, <1>5, <1>6
<1>8. PlansMean(pb, scope, steps, leaves, plans')
  BY <1>7 DEF PlansMean
<1> QED BY <1>1, <1>4, <1>8 DEF leaves

\* Every action keeps it: planning begins with nothing in the caches, and the
\* variables do not change while it goes on.
LEMMA MeantInvStep ==
  ASSUME MeantInv, [Next]_vars
  PROVE  MeantInv'
<1>1. PlanInv /\ PlanInv'
  BY PlanInvStep DEF MeantInv
<1>2. input' = input
  BY DEF Next, vars, Load, Override, StartGatherers, FinishGatherer, BindResults, PlanNext,
         Planned, PlanAll, Refuse
<1>3. doc' = doc /\ pb' = pb /\ play' = play /\ steps' = steps
  BY <1>2, InputStays
<1>4. NamesApart(pb, play.items)' = NamesApart(pb, play.items)
      /\ Leaves(pb, play)' = Leaves(pb, play)
  BY <1>3
<1>5. CASE PlanNext
  <2>1. Planning /\ Planning' /\ store' = store
    BY <1>5 DEF PlanNext, Planning
  <2>2. scope' = scope
    BY <1>3, <2>1 DEF scope
  <2>3. NamesApart(pb, play.items) =>
          /\ CachesMean(pb, play.items, Leaves(pb, play), scope, memory')
          /\ PlansMean(pb, scope, steps, Leaves(pb, play), plans')
    BY <1>5, MeantNext
  <2>4. NamesApart(pb, play.items)' =>
          /\ CachesMean(pb, play.items, Leaves(pb, play), scope, memory)'
          /\ PlansMean(pb, scope, steps, Leaves(pb, play), plans)'
    BY <1>3, <1>4, <2>2, <2>3
  <2> QED BY <1>1, <2>1, <2>4 DEF MeantInv
<1>6. CASE ~PlanNext /\ Planning
  <2>1. /\ store' = store /\ memory' = memory /\ plans' = plans /\ Planning'
    <3>1. (Planned /\ Unplanned) \/ UNCHANGED vars
      BY <1>6 DEF Next, Planning, Load, Override, StartGatherers, FinishGatherer, BindResults
    <3>2. CASE Planned /\ Unplanned
      BY <3>2 DEF Planned, PlanAll, Advance, Unplanned, Planning
    <3>3. CASE UNCHANGED vars
      BY <1>6, <3>3 DEF vars, Planning
    <3> QED BY <3>1, <3>2, <3>3
  <2>2. scope' = scope
    BY <1>3, <2>1 DEF scope
  <2>3. NamesApart(pb, play.items) =>
          /\ CachesMean(pb, play.items, Leaves(pb, play), scope, memory)
          /\ PlansMean(pb, scope, steps, Leaves(pb, play), plans)
    BY <1>6 DEF MeantInv
  <2>4. NamesApart(pb, play.items)' =>
          /\ CachesMean(pb, play.items, Leaves(pb, play), scope, memory)'
          /\ PlansMean(pb, scope, steps, Leaves(pb, play), plans)'
    BY <1>3, <1>4, <2>1, <2>2, <2>3
  <2> QED BY <1>1, <2>1, <2>4 DEF MeantInv
<1>7. CASE ~Planning
  <2>1. memory = [containers |-> NoCache, args |-> NoCache] /\ plans = << >>
    BY <1>1, <1>7 DEF MeantInv, PlanInv, Planning
  <2>2. ~PlanNext
    BY <1>7 DEF PlanNext, Planning
  <2>3. memory' = memory /\ plans' = plans
    BY <2>2 DEF Next, vars, Unplanned
  <2>4. /\ DOMAIN memory'.containers = {} /\ DOMAIN memory'.args = {} /\ DOMAIN plans' = {}
    BY <2>1, <2>3 DEF NoCache
  <2>5. CachesMean(pb, play.items, Leaves(pb, play), scope, memory)'
    BY <2>4 DEF CachesMean, ConditionsMean, ArgsMean
  <2>6. PlansMean(pb, scope, steps, Leaves(pb, play), plans)'
    BY <2>4 DEF PlansMean
  <2> QED BY <1>1, <2>1, <2>3, <2>5, <2>6 DEF MeantInv
<1> QED BY <1>5, <1>6, <1>7

\* The inductive invariant behind the meaning of plans: where names are apart, every entry
\* of the planner's caches is what the blocks it stands for make.
THEOREM MeantInvariant == Spec => []MeantInv
<1>1. Init => MeantInv
  <2> SUFFICES ASSUME Init PROVE MeantInv
    OBVIOUS
  <2>1. IsList(<< >>) /\ Len(<< >>) = 0 /\ DOMAIN << >> = {}
    BY DEF IsList
  <2>2. PlanInv
    BY <2>1 DEF Init, VariablesInit, PlanInv, PlansAreOf
  <2> QED BY <2>2 DEF Init, VariablesInit, MeantInv, Planning
<1>2. MeantInv /\ [Next]_vars => MeantInv'
  BY MeantInvStep
<1> QED BY <1>1, <1>2, PTL DEF Spec

MeantWhereApart == NamesApart(pb, play.items) => PlansMeanWhatIsWritten

\* What the invariant says of the plans that were made.
LEMMA MeantFollows ==
  ASSUME MeantInv
  PROVE  MeantWhereApart
<1> SUFFICES ASSUME NamesApart(pb, play.items), NEW i \in DOMAIN plans
             PROVE  plans[i] = MeantPlan(pb, scope, steps[i], Leaves(pb, play)[i])
  BY DEF MeantWhereApart, PlansMeanWhatIsWritten
<1>1. CASE Planning
  BY <1>1 DEF MeantInv, PlansMean
<1>2. CASE ~Planning
  <2>1. plans = << >> /\ DOMAIN << >> = {}
    BY <1>2 DEF MeantInv, PlanInv, Planning
  <2> QED BY <2>1
<1> QED BY <1>1, <1>2

\* The caches of struct Planner never show: where the names of a play keep its blocks
\* apart under their keys, the plan of every step is the one its author wrote.
THEOREM Meant == Spec => [](NamesApart(pb, play.items) => PlansMeanWhatIsWritten)
BY MeantInvariant, MeantFollows, PTL DEF MeantWhereApart
(* ------------------------------------------------- what a step waits for *)

\* What dag.rs reads of a step, in the words of its leaf.
StepIs(book, step, leaf) ==
  LET l == Len(leaf.chain)
  IN /\ ~IsInvocation(book, leaf.chain[l].block, leaf.chain[l].target)
     /\ Len(step.frames) = l - 1 /\ ((step.frames = << >>) <=> (l = 1))
     /\ step.name = leaf.chain[l].block.name /\ step.requires = leaf.chain[l].block.requires
     /\ step.path = KeyOf(leaf, l - 1)
     /\ \A d \in 1 .. l - 1 :
          /\ step.frames[d].step = leaf.chain[d].block.name
          /\ step.frames[d].requires = leaf.chain[d].block.requires

\* A loaded step has all of this from the leaf it stands for.
LEMMA StepIsOf ==
  ASSUME NEW book, NEW leaf, IsList(leaf.containers), IsList(leaf.chain), Len(leaf.chain) # 0,
         NEW p, StandsFor(p, leaf), ~IsInvocation(book, p.block, p.target)
  PROVE  StepIs(book, LoadStep(p), leaf)
<1> DEFINE l == Len(leaf.chain)
           m == Len(leaf.containers)
           step == LoadStep(p)
           frames == p.frames
           path == p.path
           key == KeyOf(leaf, l - 1)
<1>1. l \in Nat /\ l # 0 /\ m \in Nat /\ l - 1 \in Nat
  BY ListIs
<1>2. /\ step.path = path /\ step.frames = frames
      /\ step.name = p.block.name /\ step.requires = p.block.requires
  BY DEF LoadStep, PlayStep
<1>3. /\ p.block = leaf.chain[l].block /\ p.target = leaf.chain[l].target
      /\ IsList(path) /\ Len(path) = m + (l - 1)
      /\ \A d \in 1 .. m : path[d] = leaf.containers[d].name
      /\ NamesChain(path, leaf, l - 1)
      /\ frames = [d \in 1 .. l - 1 |-> Frame(leaf.chain[d].block.name, leaf.chain[d].target,
                                              leaf.chain[d].block.requires)]
  BY DEF StandsFor
<1>4. \A d \in 1 .. l - 1 : /\ frames[d].step = leaf.chain[d].block.name
                            /\ frames[d].requires = leaf.chain[d].block.requires
  BY <1>3 DEF Frame
<1>5. DOMAIN frames = 1 .. l - 1 /\ frames = [d \in 1 .. l - 1 |-> frames[d]]
  BY <1>3
<1>6. /\ IsList(key) /\ Len(key) = m + (l - 1)
      /\ \A e \in 1 .. m : key[e] = leaf.containers[e].name
      /\ \A e \in 1 .. l - 1 : key[m + e] = leaf.chain[e].block.name
  BY <1>1, KeyIs
<1> HIDE DEF l, frames, step, path, key
<1>7. IsList(frames) /\ Len(frames) = l - 1
  BY <1>1, <1>5, ListOf
<1>8. (frames = << >>) <=> (l = 1)
  <2>1. (frames = << >>) <=> (Len(frames) = 0)
    BY <1>7, EmptySeq DEF IsList
  <2> QED BY <1>1, <1>7, <2>1
<1>9. path = key
  <2>1. ASSUME NEW d \in 1 .. m + (l - 1) PROVE path[d] = key[d]
    <3>1. CASE d \in 1 .. m
      BY <1>3, <1>6, <3>1
    <3>2. CASE d \notin 1 .. m
      <4>1. PICK e \in 1 .. l - 1 : d = m + e
        <5>1. d - m \in 1 .. l - 1 /\ d = m + (d - m)
          BY <1>1, <3>2
        <5> QED BY <5>1
      <4> QED BY <1>3, <1>6, <4>1 DEF NamesChain
    <3> QED BY <3>1, <3>2
  <2> HIDE DEF m
  <2> QED BY <1>3, <1>6, <2>1, ListsEqual
<1>10. step.frames = frames /\ step.path = KeyOf(leaf, l - 1) /\ Len(step.frames) = l - 1
  BY <1>2, <1>7, <1>9 DEF key
<1> QED BY <1>2, <1>3, <1>4, <1>8, <1>10 DEF StepIs, l, step

\* A key up to a depth of the step.
LEMMA KeyBefore ==
  ASSUME NEW leaf, IsList(leaf.containers), NEW k \in Nat, NEW d \in 0 .. k
  PROVE  SubSeq(KeyOf(leaf, k), 1, Len(leaf.containers) + d) = KeyOf(leaf, d)
<1> DEFINE m == Len(leaf.containers)
           path == KeyOf(leaf, k)
           key == KeyOf(leaf, d)
<1>1. m \in Nat /\ d \in Nat
  BY ListIs
<1>2. /\ \A e \in 1 .. m : path[e] = leaf.containers[e].name
      /\ \A e \in 1 .. k : path[m + e] = leaf.chain[e].block.name
  BY KeyIs
<1>3. /\ IsList(key) /\ Len(key) = m + d
      /\ \A e \in 1 .. m : key[e] = leaf.containers[e].name
      /\ \A e \in 1 .. d : key[m + e] = leaf.chain[e].block.name
  BY <1>1, KeyIs
<1> HIDE DEF path, key, m
<1>4. m + d \in Nat
  BY <1>1
<1>5. /\ IsList(FirstOf(path, m + d)) /\ Len(FirstOf(path, m + d)) = m + d
      /\ \A e \in 1 .. m + d : FirstOf(path, m + d)[e] = path[e]
  BY <1>4, FirstOfIs
<1>6. ASSUME NEW e \in 1 .. m + d PROVE FirstOf(path, m + d)[e] = key[e]
  <2>1. CASE e \in 1 .. m
    BY <1>2, <1>3, <1>5, <2>1
  <2>2. CASE e \notin 1 .. m
    <3>1. PICK c \in 1 .. d : e = m + c
      <4>1. e - m \in 1 .. d /\ e = m + (e - m)
        BY <1>1, <2>2
      <4> QED BY <4>1
    <3>2. c \in 1 .. k
      OBVIOUS
    <3> QED BY <1>2, <1>3, <1>5, <3>1, <3>2
  <2> QED BY <2>1, <2>2
<1>7. FirstOf(path, m + d) = key
  BY <1>3, <1>5, <1>6, ListsEqual
<1> QED BY <1>4, <1>7, SubSeqIs DEF path, key, m

\* The `requires` of the d-th link of a leaf, and where they were written.
WrittenAt(leaf, d) ==
  [scope |-> KeyOf(leaf, d), depth |-> d, names |-> leaf.chain[d + 1].block.requires]

\* Those that bear on a step are those of the links of its leaf.
LEMMA WrittenIs ==
  ASSUME NEW book, NEW leaf, IsList(leaf.containers), IsList(leaf.chain), Len(leaf.chain) # 0,
         NEW step, StepIs(book, step, leaf)
  PROVE  Written(step) = {WrittenAt(leaf, d) : d \in 0 .. Len(leaf.chain) - 1}
<1> DEFINE l == Len(leaf.chain)
           m == Len(leaf.containers)
           k == Len(step.frames)
           before(d) == SubSeq(step.path, 1, Len(step.path) - (k - d))
           outer(d) == [scope |-> before(d), depth |-> d, names |-> step.frames[d + 1].requires]
           own == [scope |-> step.path, depth |-> k, names |-> step.requires]
<1>1. l \in Nat /\ l # 0 /\ m \in Nat /\ l - 1 \in Nat
  BY ListIs
<1>2. /\ k = l - 1 /\ step.requires = leaf.chain[l].block.requires
      /\ step.path = KeyOf(leaf, l - 1)
      /\ \A d \in 1 .. l - 1 : step.frames[d].requires = leaf.chain[d].block.requires
  BY DEF StepIs
<1>3. Written(step) = {own} \cup {outer(d) : d \in 0 .. k - 1}
  BY DEF Written
<1>4. Len(step.path) = m + (l - 1)
  <2>1. Len(KeyOf(leaf, l - 1)) = m + (l - 1)
    BY <1>1, KeyIs
  <2> QED BY <1>2, <2>1
<1> HIDE DEF l, m, k
<1>5. ASSUME NEW d \in 0 .. l - 1 PROVE before(d) = KeyOf(leaf, d)
  <2>1. Len(step.path) - (k - d) = m + d
    <3> DEFINE n == Len(step.path)
    <3>1. n = m + (l - 1)
      BY <1>4
    <3> HIDE DEF n
    <3>2. n - (k - d) = m + d
      BY <1>1, <1>2, <3>1
    <3> QED BY <3>2 DEF n
  <2>2. SubSeq(KeyOf(leaf, l - 1), 1, m + d) = KeyOf(leaf, d)
    BY <1>1, KeyBefore DEF m
  <2> QED BY <1>2, <2>1, <2>2
<1>6. own = WrittenAt(leaf, l - 1)
  <2>1. l - 1 + 1 = l
    BY <1>1
  <2> QED BY <1>2, <2>1 DEF WrittenAt
<1>7. ASSUME NEW d \in 0 .. k - 1 PROVE outer(d) = WrittenAt(leaf, d)
  <2>1. d \in 0 .. l - 1 /\ d + 1 \in 1 .. l - 1
    BY <1>1, <1>2
  <2> HIDE DEF before
  <2> QED BY <1>2, <1>5, <2>1 DEF WrittenAt
<1>8. \A d : d \in 0 .. l - 1 <=> d = l - 1 \/ d \in 0 .. k - 1
  BY <1>1, <1>2
<1> HIDE DEF own, outer
<1> QED BY <1>3, <1>6, <1>7, <1>8 DEF l

\* Two leaves that are in one invocation, or both in the play, are under one
\* block of it if that has the same name for both, or the same place.
LEMMA SameLink ==
  ASSUME NEW book, NEW rows, StepsApart(rows), BodiesApart(book),
         NEW a, Rooted(book, rows, a), NEW b, Rooted(book, rows, b),
         NEW d \in Nat, d + 1 <= Len(a.chain), d + 1 <= Len(b.chain),
         \A e \in 1 .. d : b.chain[e] = a.chain[e],
         \/ a.chain[d + 1].block.name = b.chain[d + 1].block.name
         \/ a.chain[d + 1].at = b.chain[d + 1].at
  PROVE  a.chain[d + 1] = b.chain[d + 1]
<1>1. Len(a.chain) \in Nat /\ Len(b.chain) \in Nat
  BY ListIs DEF Rooted
<1>2. CASE d = 0
  <2>1. PICK i \in DOMAIN rows : a.chain[1] = Link(i, rows[i].block, Target(rows[i].block))
    BY DEF Rooted
  <2>2. PICK j \in DOMAIN rows : b.chain[1] = Link(j, rows[j].block, Target(rows[j].block))
    BY DEF Rooted
  <2>3. /\ a.chain[1].block = rows[i].block /\ a.chain[1].at = i
        /\ b.chain[1].block = rows[j].block /\ b.chain[1].at = j
    BY <2>1, <2>2 DEF Link
  <2>4. d + 1 = 1
    BY <1>2
  <2>5. i = j
    BY <2>3, <2>4 DEF StepsApart
  <2> QED BY <2>1, <2>2, <2>4, <2>5
<1>3. CASE d # 0
  <2> DEFINE ref == a.chain[d].target
             body == Declared(book, "composites", ref).steps
  <2>1. d \in 1 .. Len(a.chain) - 1 /\ d \in 1 .. Len(b.chain) - 1 /\ d \in 1 .. d
    BY <1>1, <1>3
  <2>2. a.chain[d] = b.chain[d]
    BY <2>1
  <2>3. /\ IsInvocation(book, a.chain[d].block, ref)
        /\ \E i \in DOMAIN body : a.chain[d + 1] = Link(i, body[i], Resolved(Target(body[i]), ref.pkg))
    BY <2>1 DEF Rooted
  <2>4. \E i \in DOMAIN body : b.chain[d + 1] = Link(i, body[i], Resolved(Target(body[i]), ref.pkg))
    BY <2>1, <2>2 DEF Rooted
  <2>5. Distinct(body)
    BY <2>3 DEF BodiesApart, IsInvocation
  <2> HIDE DEF body, ref
  <2>6. PICK i \in DOMAIN body : a.chain[d + 1] = Link(i, body[i], Resolved(Target(body[i]), ref.pkg))
    BY <2>3
  <2>7. PICK j \in DOMAIN body : b.chain[d + 1] = Link(j, body[j], Resolved(Target(body[j]), ref.pkg))
    BY <2>4
  <2>8. /\ a.chain[d + 1].block = body[i] /\ a.chain[d + 1].at = i
        /\ b.chain[d + 1].block = body[j] /\ b.chain[d + 1].at = j
    BY <2>6, <2>7 DEF Link
  <2>9. i = j
    BY <2>5, <2>8 DEF Distinct
  <2> QED BY <2>6, <2>7, <2>9
<1> QED BY <1>2, <1>3

\* Leaves with the same places down to a link are in the same invocations.
LEMMA SamePlaces ==
  ASSUME NEW book, NEW rows, StepsApart(rows), BodiesApart(book),
         NEW a, Rooted(book, rows, a), NEW b, Rooted(book, rows, b),
         NEW d \in Nat, d <= Len(a.chain), d <= Len(b.chain),
         \A e \in 1 .. d : a.chain[e].at = b.chain[e].at
  PROVE  \A e \in 1 .. d : b.chain[e] = a.chain[e]
<1> DEFINE Wrong == {e \in 1 .. d : b.chain[e] # a.chain[e]}
<1> SUFFICES ASSUME Wrong # {} PROVE FALSE
  OBVIOUS
<1>1. Len(a.chain) \in Nat /\ Len(b.chain) \in Nat
  BY ListIs DEF Rooted
<1>2. PICK e \in Wrong : \A c \in Wrong : ~(c < e)
  <2>1. Wrong \in SUBSET Nat
    OBVIOUS
  <2> HIDE DEF Wrong
  <2> QED BY <2>1, LeastOf
<1>3. PICK c \in Nat : e = c + 1
  <2>1. e - 1 \in Nat /\ e = (e - 1) + 1
    BY <1>2
  <2> QED BY <2>1
<1>4. \A k \in 1 .. c : k \in 1 .. d /\ k < e
  BY <1>2, <1>3
<1>5. \A k \in 1 .. c : b.chain[k] = a.chain[k]
  BY <1>2, <1>4
<1>6. c + 1 <= Len(a.chain) /\ c + 1 <= Len(b.chain)
  BY <1>1, <1>2, <1>3
<1>7. a.chain[c + 1].at = b.chain[c + 1].at
  BY <1>2, <1>3
<1>8. a.chain[c + 1] = b.chain[c + 1]
  <2>1. \/ a.chain[c + 1].block.name = b.chain[c + 1].block.name
        \/ a.chain[c + 1].at = b.chain[c + 1].at
    BY <1>7
  <2> HIDE DEF Wrong
  <2> QED BY <1>5, <1>6, <2>1, SameLink, SMTT(60)
<1> QED BY <1>2, <1>3, <1>8

\* Two leaves from one block of the play stand in the same containers.
LEMMA SameContainers ==
  ASSUME NEW book, NEW rows, NEW a, Rooted(book, rows, a), NEW b, Rooted(book, rows, b),
         a.chain[1] = b.chain[1]
  PROVE  a.containers = b.containers
<1>1. PICK i \in DOMAIN rows :
        a.containers = rows[i].within /\ a.chain[1] = Link(i, rows[i].block, Target(rows[i].block))
  BY DEF Rooted
<1> DEFINE s == Link(i, rows[i].block, Target(rows[i].block))
<1>2. PICK j \in DOMAIN rows :
        b.containers = rows[j].within /\ b.chain[1] = Link(j, rows[j].block, Target(rows[j].block))
  BY DEF Rooted
<1> DEFINE t == Link(j, rows[j].block, Target(rows[j].block))
<1>3. s.at = i /\ t.at = j
  BY DEF Link
<1> HIDE DEF s, t
<1>4. s = t
  BY <1>1, <1>2 DEF s, t
<1> QED BY <1>1, <1>2, <1>3, <1>4

\* They have the same key while they are in the same invocations.
LEMMA KeyShared ==
  ASSUME NEW a, NEW b, IsList(a.containers), a.containers = b.containers, NEW d \in Nat,
         \A e \in 1 .. d : b.chain[e] = a.chain[e]
  PROVE  KeyOf(b, d) = KeyOf(a, d)
<1> DEFINE m == Len(a.containers)
           s == KeyOf(a, d)
           t == KeyOf(b, d)
<1>1. m \in Nat
  BY ListIs
<1>2. /\ IsList(s) /\ Len(s) = m + d
      /\ \A e \in 1 .. m : s[e] = a.containers[e].name
      /\ \A e \in 1 .. d : s[m + e] = a.chain[e].block.name
  BY KeyIs
<1>3. /\ IsList(t) /\ Len(t) = m + d
      /\ \A e \in 1 .. m : t[e] = a.containers[e].name
      /\ \A e \in 1 .. d : t[m + e] = b.chain[e].block.name
  <2>1. IsList(b.containers) /\ Len(b.containers) = m /\ b.containers = a.containers
    OBVIOUS
  <2>2. /\ IsList(t) /\ Len(t) = Len(b.containers) + d
        /\ \A e \in 1 .. Len(b.containers) : t[e] = b.containers[e].name
        /\ \A e \in 1 .. d : t[Len(b.containers) + e] = b.chain[e].block.name
    BY <2>1, KeyIs
  <2> HIDE DEF m, t
  <2> QED BY <2>1, <2>2
<1> HIDE DEF s, t, m
<1>4. ASSUME NEW e \in 1 .. m + d PROVE t[e] = s[e]
  <2>1. CASE e \in 1 .. m
    BY <1>2, <1>3, <2>1
  <2>2. CASE e \notin 1 .. m
    <3>1. PICK c \in 1 .. d : e = m + c
      <4>1. e - m \in 1 .. d /\ e = m + (e - m)
        BY <1>1, <2>2
      <4> QED BY <4>1
    <3> QED BY <1>2, <1>3, <3>1
  <2> QED BY <2>1, <2>2
<1>5. t = s
  BY <1>2, <1>3, <1>4, ListsEqual
<1> QED BY <1>5 DEF s, t

\* A leaf is under the block of this name that stands beside the link after
\* the d-th of another.
Under(a, b, d, name) ==
  /\ d + 1 <= Len(b.chain)
  /\ \A e \in 1 .. d : b.chain[e] = a.chain[e]
  /\ b.chain[d + 1].block.name = name

\* The steps of a play whose names are apart, and its leaves.
Expanded(book, items, all, as) ==
  /\ Apart(book, items, as) /\ IsList(all) /\ DOMAIN all = DOMAIN as
  /\ \A i \in DOMAIN as : StepIs(book, all[i], as[i])
  /\ \A i, j \in DOMAIN as : i # j => Part(as[i], as[j])

UnderAll(all, as, a, d, name) == {j \in DOMAIN all : Under(a, as[j], d, name)}

\* Those that end there are steps of the scope, the others of an invocation in it.
EndThere(as, U, d) == {j \in U : Len(as[j].chain) = d + 1}

\* A name in a scope is that of one step, or of an invocation.
OneOrInside(all, as, a, d, name) ==
  LET U == UnderAll(all, as, a, d, name)
      S == EndThere(as, U, d)
  IN First(S) = S /\ (S # {} => S = U)

\* A set of at most one number is its own first.
LEMMA FirstIs ==
  ASSUME NEW S \in SUBSET Nat, \A x, y \in S : x = y
  PROVE  First(S) = S
<1>1. CASE S = {}
  BY <1>1 DEF First
<1>2. CASE S # {}
  <2>1. PICK x \in S : S = {x}
    BY <1>2
  <2>2. Min({x}) = x
    BY <2>1 DEF Min
  <2> QED BY <1>2, <2>1, <2>2 DEF First
<1> QED BY <1>1, <1>2

\* Leaves of the same links do not part.
LEMMA NoPart ==
  ASSUME NEW a, NEW b, \A e \in 1 .. Len(a.chain) : b.chain[e] = a.chain[e]
  PROVE  ~Part(a, b)
BY DEF Part, PartAt

\* So it is where the names are apart.
LEMMA Siblings ==
  ASSUME NEW book, NEW items, NEW all, NEW as, Expanded(book, items, all, as),
         NEW i \in DOMAIN as, NEW d \in Nat, d + 1 <= Len(as[i].chain), NEW name
  PROVE  OneOrInside(all, as, as[i], d, name)
<1> DEFINE rows == StepRows(items)
           a == as[i]
           U == UnderAll(all, as, a, d, name)
           S == EndThere(as, U, d)
<1>1. /\ StepsApart(rows) /\ BodiesApart(book) /\ Rooted(book, rows, a)
      /\ \A j \in DOMAIN as : Rooted(book, rows, as[j]) /\ StepIs(book, all[j], as[j])
      /\ DOMAIN all = DOMAIN as /\ IsList(all)
      /\ \A j, k \in DOMAIN as : j # k => Part(as[j], as[k])
  BY DEF Expanded, Apart
<1>2. \A j \in DOMAIN as : Len(as[j].chain) \in Nat
  BY <1>1, ListIs DEF Rooted
<1>3. DOMAIN as \subseteq Nat
  <2>1. DOMAIN all = 1 .. Len(all) /\ Len(all) \in Nat /\ DOMAIN all = DOMAIN as
    BY <1>1, ListIs
  <2> DEFINE n == Len(all)
  <2>2. n \in Nat /\ DOMAIN as = 1 .. n
    BY <2>1
  <2> HIDE DEF n
  <2> QED BY <2>2
<1> HIDE DEF rows
<1>4. \A j \in U : /\ j \in DOMAIN as /\ d + 1 <= Len(as[j].chain)
                   /\ \A e \in 1 .. d : as[j].chain[e] = a.chain[e]
                   /\ as[j].chain[d + 1].block.name = name
  BY <1>1 DEF UnderAll, Under
<1>5. \A j \in S : j \in U /\ j \in DOMAIN as /\ Len(as[j].chain) = d + 1
  BY <1>4 DEF EndThere
<1>6. \A j \in U : Len(as[j].chain) = d + 1 => j \in S
  BY DEF EndThere
<1> HIDE DEF U, S
<1>7. ASSUME NEW j \in U, NEW k \in U
      PROVE  as[j].chain[d + 1] = as[k].chain[d + 1]
  <2> DEFINE b == as[j]  c == as[k]
  <2>1. Rooted(book, rows, b) /\ Rooted(book, rows, c)
    BY <1>1, <1>4
  <2>2. /\ d + 1 <= Len(b.chain) /\ d + 1 <= Len(c.chain)
        /\ \A e \in 1 .. d : c.chain[e] = b.chain[e]
        /\ b.chain[d + 1].block.name = c.chain[d + 1].block.name
    BY <1>4
  <2> HIDE DEF b, c
  <2>3. b.chain[d + 1] = c.chain[d + 1]
    <3>1. \/ b.chain[d + 1].block.name = c.chain[d + 1].block.name
          \/ b.chain[d + 1].at = c.chain[d + 1].at
      BY <2>2
    <3>2. StepsApart(rows) /\ BodiesApart(book)
      BY <1>1
    <3> QED BY <2>1, <2>2, <3>1, <3>2, SameLink, SMTT(60)
  <2> QED BY <2>3 DEF b, c
<1>8. ASSUME NEW j \in S, NEW k \in S, j # k PROVE FALSE
  <2> DEFINE b == as[j]  c == as[k]
  <2>1. Part(b, c)
    BY <1>1, <1>5, <1>8
  <2>2. /\ Len(b.chain) = d + 1 /\ b.chain[d + 1] = c.chain[d + 1]
        /\ \A e \in 1 .. d : b.chain[e] = c.chain[e]
    BY <1>4, <1>5, <1>7
  <2> HIDE DEF b, c
  <2>3. \A e \in 1 .. d + 1 : e = d + 1 \/ e \in 1 .. d
    OBVIOUS
  <2>4. \A e \in 1 .. Len(b.chain) : c.chain[e] = b.chain[e]
    BY <2>2, <2>3
  <2> QED BY <2>1, <2>4, NoPart
<1>9. First(S) = S
  <2>1. S \in SUBSET Nat
    BY <1>3, <1>5
  <2> QED BY <1>8, <2>1, FirstIs
<1>10. ASSUME S # {} PROVE S = U
  <2>1. PICK j \in S : TRUE
    BY <1>10
  <2>2. ASSUME NEW k \in U PROVE k \in S
    <3> DEFINE b == as[j]  c == as[k]  n == Len(c.chain)
    <3>1. /\ Rooted(book, rows, c) /\ StepIs(book, all[j], b) /\ Len(b.chain) = d + 1
          /\ n \in Nat /\ d + 1 <= n /\ b.chain[d + 1] = c.chain[d + 1]
      BY <1>1, <1>2, <1>4, <1>5, <1>7, <2>1
    <3> HIDE DEF b, c
    <3>2. ~IsInvocation(book, c.chain[d + 1].block, c.chain[d + 1].target)
      BY <3>1 DEF StepIs
    <3>3. n = d + 1
      <4> SUFFICES ASSUME n # d + 1 PROVE FALSE
        OBVIOUS
      <4>1. d + 1 \in 1 .. n - 1
        <5> HIDE DEF n
        <5> QED BY <3>1
      <4> QED BY <3>1, <3>2, <4>1 DEF Rooted
    <3> QED BY <1>6, <3>3 DEF n, c
  <2>3. S \subseteq U
    BY <1>5
  <2> QED BY <2>2, <2>3
<1> QED BY <1>9, <1>10 DEF OneOrInside, U, S

\* A name that is written beside a link reaches what stands under it there.
ReachesUnder(all, as, i, d, name) ==
  ResolveName(all, KeyOf(as[i], d), d, name) = UnderAll(all, as, as[i], d, name)

\* So it does in the playbook.
LEMMA ResolvedAtTop ==
  ASSUME NEW book, NEW items, NEW all, NEW as, Expanded(book, items, all, as),
         NEW i \in DOMAIN as, NEW name
  PROVE  ReachesUnder(all, as, i, 0, name)
<1> DEFINE a == as[i]
           U == UnderAll(all, as, a, 0, name)
           S == EndThere(as, U, 0)
           plain == {j \in DOMAIN all : all[j].frames = << >> /\ all[j].name = name}
           nested == {j \in DOMAIN all : all[j].frames # << >> /\ all[j].frames[1].step = name}
<1>1. /\ \A j \in DOMAIN as : StepIs(book, all[j], as[j]) /\ Len(as[j].chain) \in Nat /\ Len(as[j].chain) # 0
      /\ DOMAIN all = DOMAIN as
  BY ListIs DEF Expanded, Apart, Rooted
<1>2. ASSUME NEW j \in DOMAIN as
      PROVE  LET b == as[j]
             IN /\ (all[j].frames = << >>) <=> (Len(b.chain) = 0 + 1)
                /\ Len(b.chain) = 0 + 1 => all[j].name = b.chain[0 + 1].block.name
                /\ Len(b.chain) # 0 + 1 => all[j].frames[1].step = b.chain[0 + 1].block.name
                /\ 0 + 1 <= Len(b.chain)
  <2> DEFINE l == Len(as[j].chain)
  <2>1. l \in Nat /\ l # 0 /\ StepIs(book, all[j], as[j])
    BY <1>1
  <2> HIDE DEF l
  <2>2. 1 <= l /\ 0 + 1 = 1 /\ (l # 1 => 1 \in 1 .. l - 1)
    BY <2>1
  <2> QED BY <2>1, <2>2 DEF StepIs, l
<1>3. \A j : j \in U <=> j \in DOMAIN as /\ as[j].chain[0 + 1].block.name = name
  <2>1. ASSUME NEW j \in DOMAIN as
        PROVE  Under(a, as[j], 0, name) <=> as[j].chain[0 + 1].block.name = name
    <3>1. \A e : e \notin 1 .. 0
      OBVIOUS
    <3>2. 0 + 1 <= Len(as[j].chain)
      BY <1>2
    <3> QED BY <3>1, <3>2 DEF Under
  <2> QED BY <1>1, <2>1 DEF UnderAll
<1>4. \A j : j \in S <=> j \in U /\ Len(as[j].chain) = 0 + 1
  BY DEF EndThere
<1> HIDE DEF U, S
<1>5. plain = S
  BY <1>1, <1>2, <1>3, <1>4
<1>6. nested = {j \in U : j \notin S}
  BY <1>1, <1>2, <1>3, <1>4
<1>7. First(S) = S /\ (S # {} => S = U)
  <2>1. 0 + 1 <= Len(a.chain)
    BY <1>2
  <2>2. 0 \in Nat
    OBVIOUS
  <2>3. OneOrInside(all, as, a, 0, name)
    BY <2>1, <2>2, Siblings
  <2> HIDE DEF a
  <2> QED BY <2>3 DEF OneOrInside, U, S
<1>8. ResolveName(all, KeyOf(a, 0), 0, name) = IF First(plain) # {} THEN First(plain) ELSE nested
  BY DEF ResolveName, ResolveInPlaybook
<1> HIDE DEF plain, nested
<1>9. IF First(plain) # {} THEN First(plain) = U ELSE nested = U
  BY <1>5, <1>6, <1>7
<1> DEFINE r == ResolveName(all, KeyOf(a, 0), 0, name)
<1>10. r = U
  <2> HIDE DEF r
  <2>1. CASE First(plain) # {}
    BY <1>8, <1>9, <2>1 DEF r
  <2>2. CASE ~(First(plain) # {})
    BY <1>8, <1>9, <2>2 DEF r
  <2> QED BY <2>1, <2>2
<1>11. ReachesUnder(all, as, i, 0, name) <=> r = U
  BY Zenon DEF ReachesUnder, U
<1> HIDE DEF r
<1> QED BY <1>10, <1>11

\* Two leaves of a play whose names are apart.
TwoOf(book, items, a, b) ==
  /\ PlayIsTree(items) /\ NamesApart(book, items)
  /\ StepsApart(StepRows(items)) /\ BodiesApart(book)
  /\ Rooted(book, StepRows(items), a) /\ Rooted(book, StepRows(items), b)

\* Their containers are lists.
LEMMA TwoAre ==
  ASSUME NEW book, NEW items, NEW a, NEW b, TwoOf(book, items, a, b)
  PROVE  /\ IsList(a.containers) /\ IsList(a.chain) /\ Len(a.chain) \in Nat
         /\ Len(a.containers) \in Nat
<1>1. IsList(StepRows(items)) /\ \A j \in DOMAIN StepRows(items) : IsList(StepRows(items)[j].within)
  <2>1. RowsSound(PlayBlocks(items))
    BY RowsOfPlay DEF TwoOf
  <2> QED BY <2>1, StepRowsAre DEF RowsSound
<1>2. IsList(a.containers) /\ IsList(a.chain)
  BY <1>1 DEF TwoOf, Rooted
<1> QED BY <1>2, ListIs

\* The path of a leaf begins like that of an invocation.
BeginsLike(a, b, d, n) ==
  \A e \in 1 .. Len(a.containers) + d : KeyOf(b, n)[e] = KeyOf(a, d)[e]

\* A path that begins like that of an invocation goes through the invocation.
LEMMA ScopeMeans ==
  ASSUME NEW book, NEW items, NEW a, NEW b, TwoOf(book, items, a, b),
         NEW d \in 1 .. Len(a.chain) - 1, NEW n \in 1 .. Len(b.chain) - 1, d <= n,
         BeginsLike(a, b, d, n)
  PROVE  \A e \in 1 .. d : b.chain[e] = a.chain[e]
<1> DEFINE m == Len(a.containers)
           k == Len(b.containers)
<1>1. /\ IsList(a.containers) /\ Len(a.chain) \in Nat /\ m \in Nat
      /\ IsList(b.containers) /\ Len(b.chain) \in Nat /\ k \in Nat
  <2>1. TwoOf(book, items, b, a)
    BY DEF TwoOf
  <2> QED BY <2>1, TwoAre
<1>2. d \in Nat /\ n \in Nat /\ d # 0 /\ d \in 1 .. Len(b.chain) - 1 /\ d \in 0 .. n
  BY <1>1
<1>3. \A e \in 1 .. m + d : KeyOf(b, n)[e] = KeyOf(a, d)[e]
  BY DEF BeginsLike
<1>4. /\ PlayIsTree(items) /\ NamesApart(book, items)
      /\ StepsApart(StepRows(items)) /\ BodiesApart(book)
      /\ Rooted(book, StepRows(items), a) /\ Rooted(book, StepRows(items), b)
  BY DEF TwoOf
<1>5. ~(m < k)
  <2>1. \A e \in 1 .. m + 1 : e \in 1 .. m + d
    BY <1>1, <1>2
  <2>2. \A e \in 1 .. m + 1 : KeyOf(a, d)[e] = KeyOf(b, n)[e]
    BY <1>3, <2>1
  <2> QED BY <1>2, <1>4, <2>2, NotShorter
<1>6. ~(k < m)
  <2> SUFFICES ASSUME k < m PROVE FALSE
    OBVIOUS
  <2>1. \A e \in 1 .. k + 1 : e \in 1 .. m + d
    BY <1>1, <1>2
  <2>2. \A e \in 1 .. k + 1 : KeyOf(b, n)[e] = KeyOf(a, d)[e]
    BY <1>3, <2>1
  <2> QED BY <1>2, <1>4, <2>2, NotShorter
<1>7. k = m
  <2> HIDE DEF k, m
  <2> QED BY <1>1, <1>5, <1>6
<1>8. KeyOf(b, d) = KeyOf(a, d)
  <2>1. SubSeq(KeyOf(b, n), 1, k + d) = KeyOf(b, d)
    BY <1>1, <1>2, KeyBefore
  <2>2. IsList(KeyOf(a, d)) /\ Len(KeyOf(a, d)) = m + d
    BY <1>1, <1>2, KeyIs
  <2> HIDE DEF k, m
  <2>3. m + d \in Nat
    BY <1>1, <1>2
  <2>4. KeyOf(b, d) = FirstOf(KeyOf(b, n), m + d)
    BY <1>7, <2>1, <2>3, SubSeqIs
  <2>5. /\ IsList(FirstOf(KeyOf(b, n), m + d)) /\ Len(FirstOf(KeyOf(b, n), m + d)) = m + d
        /\ \A e \in 1 .. m + d : FirstOf(KeyOf(b, n), m + d)[e] = KeyOf(b, n)[e]
    BY <2>3, FirstOfIs
  <2>6. FirstOf(KeyOf(b, n), m + d) = KeyOf(a, d)
    BY <1>3, <2>2, <2>5, ListsEqual
  <2> QED BY <2>4, <2>6
<1> HIDE DEF m, k
<1>9. \A e \in 1 .. d : a.chain[e] = b.chain[e]
  BY <1>2, <1>4, <1>8, SameKey
<1> QED BY <1>9

\* And the converse.
LEMMA ScopeIs ==
  ASSUME NEW book, NEW items, NEW a, NEW b, TwoOf(book, items, a, b),
         NEW d \in Nat, d # 0, NEW n \in Nat, d <= n, \A e \in 1 .. d : b.chain[e] = a.chain[e]
  PROVE  /\ a.containers = b.containers /\ KeyOf(b, d) = KeyOf(a, d)
         /\ \A e \in 1 .. Len(a.containers) + d : KeyOf(b, n)[e] = KeyOf(a, d)[e]
<1> DEFINE m == Len(a.containers)
<1>1. IsList(a.containers) /\ m \in Nat
  BY TwoAre
<1>2. a.containers = b.containers
  <2>1. a.chain[1] = b.chain[1]
    <3>1. 1 \in 1 .. d
      OBVIOUS
    <3> QED BY <3>1
  <2> QED BY <2>1, SameContainers DEF TwoOf
<1>3. KeyOf(b, d) = KeyOf(a, d)
  BY <1>1, <1>2, KeyShared
<1>4. SubSeq(KeyOf(b, n), 1, m + d) = KeyOf(b, d)
  <2>1. d \in 0 .. n /\ IsList(b.containers) /\ Len(b.containers) = m
    BY <1>1, <1>2
  <2>2. SubSeq(KeyOf(b, n), 1, Len(b.containers) + d) = KeyOf(b, d)
    BY <2>1, KeyBefore
  <2> QED BY <2>1, <2>2
<1> HIDE DEF m
<1>5. m + d \in Nat
  BY <1>1
<1>6. \A e \in 1 .. m + d : FirstOf(KeyOf(b, n), m + d)[e] = KeyOf(b, n)[e]
  BY <1>5, FirstOfIs
<1>7. FirstOf(KeyOf(b, n), m + d) = KeyOf(a, d)
  BY <1>3, <1>4, <1>5, SubSeqIs
<1> QED BY <1>2, <1>3, <1>6, <1>7 DEF m

\* A list with one more name begins a path.
LEMMA BeginsWith ==
  ASSUME NEW s, IsList(s), NEW t, IsList(t), NEW x
  PROVE  IsPrefix(Append(s, x), t) <=>
           /\ Len(s) + 1 <= Len(t) /\ t[Len(s) + 1] = x
           /\ \A e \in 1 .. Len(s) : t[e] = s[e]
<1> DEFINE r == Append(s, x)
           n == Len(s) + 1
<1>1. /\ IsList(r) /\ Len(r) = n /\ r[n] = x /\ \A e \in 1 .. Len(s) : r[e] = s[e]
  BY AppendIs
<1>2. Len(s) \in Nat /\ n \in Nat
  BY ListIs
<1>3. IsPrefix(r, t) <=> n <= Len(t) /\ SubSeq(r, 1, n) = SubSeq(t, 1, n)
  <2> HIDE DEF r, n
  <2> QED BY <1>1 DEF IsPrefix
<1> HIDE DEF r
<1>4. SubSeq(r, 1, n) = FirstOf(r, n) /\ SubSeq(t, 1, n) = FirstOf(t, n)
  <2> HIDE DEF n
  <2> QED BY <1>2, SubSeqIs
<1>5. (FirstOf(r, n) = FirstOf(t, n)) <=> (\A e \in 1 .. n : r[e] = t[e])
  <2> HIDE DEF n
  <2>1. /\ \A e \in 1 .. n : FirstOf(r, n)[e] = r[e]
        /\ \A e \in 1 .. n : FirstOf(t, n)[e] = t[e]
    BY <1>2, FirstOfIs
  <2>2. ASSUME \A e \in 1 .. n : r[e] = t[e] PROVE FirstOf(r, n) = FirstOf(t, n)
    BY <2>2 DEF FirstOf
  <2> QED BY <2>1, <2>2
<1>6. \A e : e \in 1 .. n <=> e = n \/ e \in 1 .. Len(s)
  BY <1>2
<1> HIDE DEF n
<1>7. (\A e \in 1 .. n : r[e] = t[e]) <=> t[n] = x /\ \A e \in 1 .. Len(s) : t[e] = s[e]
  BY <1>1, <1>6
<1> QED BY <1>3, <1>4, <1>5, <1>7 DEF r, n

\* Inside a composite: a sibling in the same invocation.
LEMMA SiblingIs ==
  ASSUME NEW book, NEW items, NEW a, NEW b, TwoOf(book, items, a, b),
         NEW d \in 1 .. Len(a.chain) - 1, NEW step, StepIs(book, step, b), NEW name
  PROVE  (Len(step.frames) = d /\ step.name = name /\ step.path = KeyOf(a, d)) <=>
           (Under(a, b, d, name) /\ Len(b.chain) = d + 1)
<1> DEFINE l == Len(b.chain)
<1>1. TwoOf(book, items, b, a)
  BY DEF TwoOf
<1>2. IsList(b.containers) /\ l \in Nat /\ Len(a.chain) \in Nat
  BY <1>1, TwoAre
<1>3. /\ Len(step.frames) = l - 1 /\ step.name = b.chain[l].block.name
      /\ step.path = KeyOf(b, l - 1)
  BY DEF StepIs
<1>4. d \in Nat /\ d # 0 /\ (l = d + 1 <=> l - 1 = d)
  BY <1>2
<1> SUFFICES ASSUME l = d + 1
             PROVE  (step.name = name /\ step.path = KeyOf(a, d)) <=> Under(a, b, d, name)
  <2> HIDE DEF l
  <2> QED BY <1>3, <1>4 DEF l
<1>5. d \in 1 .. l - 1 /\ d <= d /\ d + 1 <= l /\ l - 1 = d
  BY <1>2, <1>4
<1>6. step.name = b.chain[d + 1].block.name /\ step.path = KeyOf(b, d)
  BY <1>3, <1>5
<1> HIDE DEF l
<1>7. ASSUME KeyOf(b, d) = KeyOf(a, d) PROVE \A e \in 1 .. d : b.chain[e] = a.chain[e]
  <2>1. BeginsLike(a, b, d, d)
    BY <1>7 DEF BeginsLike
  <2> QED BY <1>5, <2>1, ScopeMeans DEF l
<1>8. ASSUME \A e \in 1 .. d : b.chain[e] = a.chain[e] PROVE KeyOf(b, d) = KeyOf(a, d)
  BY <1>4, <1>5, <1>8, ScopeIs
<1> QED BY <1>5, <1>6, <1>7, <1>8 DEF Under, l

\* Or a step of an invocation that stands beside it.
LEMMA InsideIs ==
  ASSUME NEW book, NEW items, NEW a, NEW b, TwoOf(book, items, a, b),
         NEW d \in 1 .. Len(a.chain) - 1, NEW step, StepIs(book, step, b), NEW name
  PROVE  (Len(step.frames) > d /\ IsPrefix(Append(KeyOf(a, d), name), step.path)) <=>
           (Under(a, b, d, name) /\ Len(b.chain) # d + 1)
<1> DEFINE l == Len(b.chain)
           n == l - 1
           m == Len(a.containers)
           path == KeyOf(b, n)
           inner == KeyOf(a, d)
<1>1. TwoOf(book, items, b, a)
  BY DEF TwoOf
<1>2. /\ IsList(a.containers) /\ m \in Nat /\ Len(a.chain) \in Nat
      /\ IsList(b.containers) /\ Len(b.containers) \in Nat /\ l \in Nat
  BY <1>1, TwoAre
<1>3. Len(step.frames) = n /\ step.path = path
  BY DEF StepIs
<1>4. d \in Nat /\ d # 0
  BY <1>2
<1>5. n > d <=> d + 1 <= l /\ l # d + 1
  BY <1>2, <1>4
<1> SUFFICES ASSUME n > d
             PROVE  IsPrefix(Append(inner, name), path) <=> Under(a, b, d, name)
  <2> HIDE DEF l, n, path, inner
  <2> QED BY <1>3, <1>5 DEF Under, l, inner
<1>6. n \in 1 .. l - 1 /\ n \in Nat /\ d <= n /\ d + 1 \in 1 .. n /\ d + 1 <= l
  BY <1>2, <1>4
<1>7. IsList(inner) /\ Len(inner) = m + d
  BY <1>2, <1>4, KeyIs
<1>8. /\ IsList(path) /\ Len(path) = Len(b.containers) + n
      /\ path[Len(b.containers) + (d + 1)] = b.chain[d + 1].block.name
  <2> HIDE DEF n
  <2> QED BY <1>2, <1>6, KeyIs
<1>9. IsPrefix(Append(inner, name), path) <=>
        /\ m + d + 1 <= Len(path) /\ path[m + d + 1] = name
        /\ \A e \in 1 .. m + d : path[e] = inner[e]
  <2> HIDE DEF inner, path, m
  <2>1. IsPrefix(Append(inner, name), path) <=>
          /\ Len(inner) + 1 <= Len(path) /\ path[Len(inner) + 1] = name
          /\ \A e \in 1 .. Len(inner) : path[e] = inner[e]
    BY <1>7, <1>8, BeginsWith
  <2>2. Len(inner) = m + d
    BY <1>7
  <2> QED BY <2>1, <2>2
<1> HIDE DEF l
<1>10. ASSUME \A e \in 1 .. m + d : path[e] = inner[e]
       PROVE  \A e \in 1 .. d : b.chain[e] = a.chain[e]
  <2>1. n \in 1 .. Len(b.chain) - 1
    BY <1>6 DEF l
  <2>2. d <= n /\ BeginsLike(a, b, d, n)
    BY <1>6, <1>10 DEF BeginsLike
  <2> HIDE DEF n
  <2> QED BY <2>1, <2>2, ScopeMeans
<1>11. ASSUME \A e \in 1 .. d : b.chain[e] = a.chain[e]
       PROVE  a.containers = b.containers /\ \A e \in 1 .. m + d : path[e] = inner[e]
  <2> HIDE DEF n
  <2> QED BY <1>4, <1>6, <1>11, ScopeIs
<1>12. ASSUME a.containers = b.containers
       PROVE  m + d + 1 <= Len(path) /\ path[m + d + 1] = b.chain[d + 1].block.name
  <2>1. Len(path) = m + n /\ path[m + (d + 1)] = b.chain[d + 1].block.name
    BY <1>8, <1>12
  <2>2. m + (d + 1) = m + d + 1 /\ m + d + 1 <= m + n
    <3> HIDE DEF m, n
    <3> QED BY <1>2, <1>4, <1>6
  <2> HIDE DEF path, m, n
  <2> QED BY <2>1, <2>2
<1> HIDE DEF path, inner, n, m
<1>13. ASSUME Under(a, b, d, name) PROVE IsPrefix(Append(inner, name), path)
  BY <1>9, <1>11, <1>12, <1>13 DEF Under
<1>14. ASSUME IsPrefix(Append(inner, name), path) PROVE Under(a, b, d, name)
  <2>1. \A e \in 1 .. d : b.chain[e] = a.chain[e]
    BY <1>9, <1>10, <1>14
  <2>2. path[m + d + 1] = b.chain[d + 1].block.name
    BY <1>11, <1>12, <2>1
  <2> QED BY <1>6, <1>9, <1>14, <2>1, <2>2 DEF Under, l
<1> QED BY <1>13, <1>14

\* And inside a composite, in the same invocation.
LEMMA ResolvedInBody ==
  ASSUME NEW book, NEW items, NEW all, NEW as, Expanded(book, items, all, as),
         NEW i \in DOMAIN as, NEW d \in 1 .. Len(as[i].chain) - 1, NEW name
  PROVE  ReachesUnder(all, as, i, d, name)
<1> DEFINE a == as[i]
           U == UnderAll(all, as, a, d, name)
           S == EndThere(as, U, d)
           sibling == {j \in DOMAIN all : /\ Len(all[j].frames) = d
                                          /\ all[j].name = name
                                          /\ all[j].path = KeyOf(a, d)}
           inside == {j \in DOMAIN all : /\ Len(all[j].frames) > d
                                         /\ IsPrefix(Append(KeyOf(a, d), name), all[j].path)}
<1>1. DOMAIN all = DOMAIN as
  BY DEF Expanded
<1>2. ASSUME NEW j \in DOMAIN as
      PROVE  TwoOf(book, items, a, as[j]) /\ StepIs(book, all[j], as[j])
  BY DEF Expanded, Apart, TwoOf
<1>3. d \in Nat /\ d # 0 /\ d + 1 <= Len(a.chain)
  <2>1. TwoOf(book, items, a, a)
    BY <1>2
  <2>2. Len(a.chain) \in Nat
    BY <2>1, TwoAre
  <2> DEFINE l == Len(a.chain)
  <2>3. l \in Nat /\ d \in 1 .. l - 1
    BY <2>2
  <2> HIDE DEF l
  <2>4. d \in Nat /\ d # 0 /\ d + 1 <= l
    BY <2>3
  <2> QED BY <2>4 DEF l
<1>4. ASSUME NEW j \in DOMAIN as
      PROVE  /\ j \in sibling <=> Under(a, as[j], d, name) /\ Len(as[j].chain) = d + 1
             /\ j \in inside <=> Under(a, as[j], d, name) /\ Len(as[j].chain) # d + 1
  <2> DEFINE b == as[j]  step == all[j]
  <2>1. TwoOf(book, items, a, b) /\ StepIs(book, step, b) /\ d \in 1 .. Len(a.chain) - 1
    BY <1>2
  <2> HIDE DEF a, b, step
  <2>2. (Len(step.frames) = d /\ step.name = name /\ step.path = KeyOf(a, d)) <=>
          (Under(a, b, d, name) /\ Len(b.chain) = d + 1)
    BY <2>1, SiblingIs
  <2>3. (Len(step.frames) > d /\ IsPrefix(Append(KeyOf(a, d), name), step.path)) <=>
          (Under(a, b, d, name) /\ Len(b.chain) # d + 1)
    BY <2>1, InsideIs
  <2> QED BY <1>1, <2>2, <2>3 DEF b, step
<1>5. ResolveName(all, KeyOf(a, d), d, name)
        = IF First(sibling) # {} THEN First(sibling) ELSE inside
  <2> HIDE DEF a
  <2> QED BY <1>3 DEF ResolveName, ResolveInComposite
<1>6. OneOrInside(all, as, a, d, name)
  BY <1>3, Siblings
<1>7. \A j : j \in U <=> j \in DOMAIN as /\ Under(a, as[j], d, name)
  BY <1>1 DEF UnderAll
<1>8. \A j : j \in S <=> j \in U /\ Len(as[j].chain) = d + 1
  BY DEF EndThere
<1>9. sibling \subseteq DOMAIN as /\ inside \subseteq DOMAIN as
  BY <1>1
<1>10. First(S) = S /\ (S # {} => S = U)
  BY <1>6 DEF OneOrInside
<1> HIDE DEF U, S, sibling, inside, a
<1>11. sibling = S /\ inside = {j \in U : j \notin S}
  BY <1>4, <1>7, <1>8, <1>9
<1>12. IF First(sibling) # {} THEN First(sibling) = U ELSE inside = U
  BY <1>10, <1>11
<1> DEFINE r == ResolveName(all, KeyOf(a, d), d, name)
<1>13. r = U
  <2> HIDE DEF r
  <2>1. CASE First(sibling) # {}
    BY <1>5, <1>12, <2>1 DEF r
  <2>2. CASE ~(First(sibling) # {})
    BY <1>5, <1>12, <2>2 DEF r
  <2> QED BY <2>1, <2>2
<1>14. ReachesUnder(all, as, i, d, name) <=> r = U
  BY Zenon DEF ReachesUnder, U, a
<1> HIDE DEF r
<1> QED BY <1>13, <1>14

\* What a name written at a link reaches, at any depth.
LEMMA ResolvedIs ==
  ASSUME NEW book, NEW items, NEW all, NEW as, Expanded(book, items, all, as),
         NEW i \in DOMAIN as, NEW d \in 0 .. Len(as[i].chain) - 1, NEW name
  PROVE  ReachesUnder(all, as, i, d, name)
<1>1. CASE d = 0
  BY <1>1, ResolvedAtTop
<1>2. CASE d # 0
  <2> DEFINE l == Len(as[i].chain)
  <2>1. l \in Nat /\ d \in 0 .. l - 1
    BY ListIs DEF Expanded, Apart, Rooted
  <2> HIDE DEF l
  <2>2. d \in 1 .. l - 1
    BY <1>2, <2>1
  <2> QED BY <2>2, ResolvedInBody DEF l
<1> QED BY <1>1, <1>2

\* A step reaches another by a name that one of its links requires.
Reaches(a, b) ==
  \E d \in 0 .. Len(a.chain) - 1 : \E name \in a.chain[d + 1].block.requires :
    Under(a, b, d, name)

\* The steps a step requires are those it reaches, but for itself.
ReachedFrom(all, as, i) ==
  \A j : j \in Deps(all)[i] <=> j \in DOMAIN all /\ j # i /\ Reaches(as[i], as[j])

\* So it is in a play.
LEMMA DepsReach ==
  ASSUME NEW book, NEW items, NEW all, NEW as, Expanded(book, items, all, as), NEW i \in DOMAIN as
  PROVE  ReachedFrom(all, as, i)
<1> DEFINE a == as[i]
           l == Len(a.chain)
           W == Written(all[i])
           named(w) == UNION {ResolveName(all, w.scope, w.depth, req) : req \in w.names}
           linked(d) == UNION {UnderAll(all, as, a, d, req) : req \in a.chain[d + 1].block.requires}
<1>1. TwoOf(book, items, a, a) /\ StepIs(book, all[i], a) /\ i \in DOMAIN all
  BY DEF Expanded, Apart, TwoOf
<1>2. IsList(a.containers) /\ IsList(a.chain) /\ l # 0
  BY <1>1, TwoAre DEF TwoOf, Rooted
<1>3. W = {WrittenAt(a, d) : d \in 0 .. l - 1}
  BY <1>1, <1>2, WrittenIs
<1>4. ASSUME NEW d \in 0 .. l - 1 PROVE named(WrittenAt(a, d)) = linked(d)
  <2>1. /\ WrittenAt(a, d).scope = KeyOf(a, d) /\ WrittenAt(a, d).depth = d
        /\ WrittenAt(a, d).names = a.chain[d + 1].block.requires
    BY DEF WrittenAt
  <2>2. \A req : ResolveName(all, KeyOf(a, d), d, req) = UnderAll(all, as, a, d, req)
    <3>1. \A req : ReachesUnder(all, as, i, d, req)
      BY ResolvedIs
    <3> QED BY <3>1 DEF ReachesUnder
  <2> HIDE DEF a, l
  <2> QED BY <2>1, <2>2
<1>5. Deps(all)[i] = (UNION {named(w) : w \in W}) \ {i}
  BY <1>1 DEF Deps
<1> HIDE DEF W, named
<1> DEFINE union == UNION {named(w) : w \in W}
<1>6. \A j : j \in Deps(all)[i] <=> j # i /\ j \in union
  <2>1. Deps(all)[i] = union \ {i}
    BY Zenon, <1>5
  <2> HIDE DEF union
  <2> QED BY <2>1
<1> HIDE DEF union
<1>7. \A j : j \in Deps(all)[i] <=> j # i /\ \E d \in 0 .. l - 1 : j \in linked(d)
  <2> DEFINE D == 0 .. l - 1
             at(d) == WrittenAt(a, d)
  <2>1. W = {at(d) : d \in D} /\ \A d \in D : named(at(d)) = linked(d)
    BY <1>3, <1>4
  <2> HIDE DEF D, at, linked
  <2>2. \A j : j \in union <=> \E w \in W : j \in named(w)
    BY DEF union
  <2>3. \A j : (\E w \in W : j \in named(w)) <=> \E d \in D : j \in named(at(d))
    BY <2>1
  <2>4. \A j : (\E d \in D : j \in named(at(d))) <=> \E d \in D : j \in linked(d)
    BY <2>1
  <2>5. \A j : j \in Deps(all)[i] <=> j # i /\ j \in union
    BY <1>6
  <2> HIDE DEF W, named
  <2> QED BY <2>2, <2>3, <2>4, <2>5 DEF D
<1>8. ASSUME NEW j, NEW d \in 0 .. l - 1
      PROVE  j \in linked(d) <=> /\ j \in DOMAIN all
                                 /\ \E name \in a.chain[d + 1].block.requires : Under(a, as[j], d, name)
  <2> DEFINE R == a.chain[d + 1].block.requires
             under(req) == UnderAll(all, as, a, d, req)
  <2>1. linked(d) = UNION {under(req) : req \in R}
    OBVIOUS
  <2>2. \A req : j \in under(req) <=> j \in DOMAIN all /\ Under(a, as[j], d, req)
    BY DEF UnderAll
  <2> HIDE DEF R, under, linked, a, l
  <2> QED BY <2>1, <2>2 DEF R
<1> HIDE DEF linked
<1>9. \A j : j \in Deps(all)[i] <=> j \in DOMAIN all /\ j # i /\ Reaches(a, as[j])
  BY <1>7, <1>8 DEF Reaches
<1> QED BY <1>9 DEF ReachedFrom

\* The steps a step requires are those its author has it wait for.
WaitsAre(all, as) ==
  Deps(all) = [i \in DOMAIN all |-> {j \in DOMAIN all : WaitsFor(as[i], as[j])}]

\* So it is in a play none of whose blocks requires itself.
LEMMA DepsAre ==
  ASSUME NEW book, NEW items, NEW all, NEW as, Expanded(book, items, all, as),
         \A i \in DOMAIN as : \A e \in 1 .. Len(as[i].chain) :
           as[i].chain[e].block.name \notin as[i].chain[e].block.requires
  PROVE  WaitsAre(all, as)
<1>1. DOMAIN all = DOMAIN as
  BY DEF Expanded
<1>2. ASSUME NEW i \in DOMAIN as, NEW j \in DOMAIN as
      PROVE  j \in Deps(all)[i] <=> WaitsFor(as[i], as[j])
  <2> DEFINE a == as[i]
             b == as[j]
             l == Len(a.chain)
  <2>1. TwoOf(book, items, a, b) /\ TwoOf(book, items, b, a)
    BY DEF Expanded, Apart, TwoOf
  <2>2. /\ IsList(a.containers) /\ IsList(a.chain) /\ l \in Nat /\ l # 0
        /\ IsList(b.chain) /\ Len(b.chain) \in Nat
    <3>1. l # 0
      BY <2>1 DEF TwoOf, Rooted
    <3> QED BY <2>1, <3>1, TwoAre
  <2>3. j \in Deps(all)[i] <=> j # i /\ Reaches(a, b)
    <3>1. ReachedFrom(all, as, i)
      BY DepsReach
    <3> QED BY <1>1, <3>1 DEF ReachedFrom
  <2> HIDE DEF a, b, l
  <2>6. ASSUME WaitsFor(a, b)
        PROVE  i # j /\ Reaches(a, b)
    <3>1. PICK e \in 1 .. l : PartAt(a, b, e) /\ b.chain[e].block.name \in a.chain[e].block.requires
      BY <2>6 DEF WaitsFor, l
    <3>2. PICK d \in 0 .. l - 1 : e = d + 1
      <4>1. e - 1 \in 0 .. l - 1 /\ e = (e - 1) + 1
        BY <2>2
      <4> QED BY <4>1
    <3>3. d \in Nat /\ d <= l /\ e - 1 = d /\ d + 1 <= Len(b.chain) /\ d <= Len(b.chain)
      BY <2>2, <3>1, <3>2 DEF PartAt
    <3>4. \A k \in 1 .. d : a.chain[k].at = b.chain[k].at
      BY <3>1, <3>3 DEF PartAt
    <3>5. \A k \in 1 .. d : b.chain[k] = a.chain[k]
      BY <2>1, <3>3, <3>4, SamePlaces DEF TwoOf, l
    <3>6. Reaches(a, b)
      BY <3>1, <3>2, <3>3, <3>5 DEF Under, Reaches, l
    <3>7. i # j
      BY <3>1 DEF PartAt, a, b
    <3> QED BY <3>6, <3>7
  <2>7. ASSUME Reaches(a, b)
        PROVE  WaitsFor(a, b)
    <3> PICK d \in 0 .. l - 1 : \E name \in a.chain[d + 1].block.requires : Under(a, b, d, name)
      BY <2>7 DEF Reaches, l
    <3> PICK name \in a.chain[d + 1].block.requires : Under(a, b, d, name)
      OBVIOUS
    <3>1. d \in Nat /\ d + 1 \in 1 .. l /\ d + 1 <= l /\ d + 1 - 1 = d
      BY <2>2
    <3>2. /\ name \in a.chain[d + 1].block.requires /\ d + 1 <= Len(b.chain)
          /\ \A k \in 1 .. d : b.chain[k] = a.chain[k]
          /\ b.chain[d + 1].block.name = name
      BY DEF Under
    <3>3. a.chain[d + 1].block.name \notin a.chain[d + 1].block.requires
      BY <3>1 DEF a, l
    <3>4. a.chain[d + 1].at # b.chain[d + 1].at
      <4> SUFFICES ASSUME a.chain[d + 1].at = b.chain[d + 1].at PROVE FALSE
        OBVIOUS
      <4>1. \/ a.chain[d + 1].block.name = b.chain[d + 1].block.name
            \/ a.chain[d + 1].at = b.chain[d + 1].at
        OBVIOUS
      <4>2. /\ StepsApart(StepRows(items)) /\ BodiesApart(book)
            /\ Rooted(book, StepRows(items), a) /\ Rooted(book, StepRows(items), b)
            /\ d + 1 <= Len(a.chain)
        BY <2>1, <3>1 DEF TwoOf, l
      <4>3. a.chain[d + 1] = b.chain[d + 1]
        BY <3>1, <3>2, <4>1, <4>2, SameLink, SMTT(60)
      <4> QED BY <3>2, <3>3, <4>3
    <3>5. PartAt(a, b, d + 1)
      BY <3>1, <3>2, <3>4 DEF PartAt, l
    <3> QED BY <3>1, <3>2, <3>5 DEF WaitsFor, l
  <2> QED BY <2>3, <2>6, <2>7 DEF a, b
<1>3. ASSUME NEW i \in DOMAIN all
      PROVE  Deps(all)[i] = {j \in DOMAIN all : WaitsFor(as[i], as[j])}
  <2>1. Deps(all)[i] \subseteq DOMAIN all
    <3>1. ReachedFrom(all, as, i)
      BY <1>1, DepsReach
    <3> QED BY <3>1 DEF ReachedFrom
  <2> QED BY <1>1, <1>2, <2>1
<1>4. Deps(all) = [i \in DOMAIN all |-> Deps(all)[i]]
  BY DEF Deps
<1> QED BY <1>3, <1>4 DEF WaitsAre

\* An accepted play whose names are apart, as it is expanded.
LEMMA PlayExpanded ==
  ASSUME NEW d, PlaybookAccepted(d), DocumentIsTree(d), NEW k \in DOMAIN d.plays,
         NamesApart(LoadPlaybook(d), d.plays[k].items)
  PROVE  LET book == LoadPlaybook(d)
             all == LoadPlay(book, d.plays[k])
             as  == Leaves(book, d.plays[k])
         IN /\ Expanded(book, d.plays[k].items, all, as) /\ IsList(as)
            /\ \A i \in DOMAIN as : \A e \in 1 .. Len(as[i].chain) :
                 as[i].chain[e].block.name \notin as[i].chain[e].block.requires
<1> DEFINE book == LoadPlaybook(d)
           items == d.plays[k].items
           rows == StepRows(items)
           ps == LoadItems(book, items)
           all == LoadPlay(book, d.plays[k])
           as == Leaves(book, d.plays[k])
<1>1. PlayIsTree(items)
  BY DEF DocumentIsTree
<1>2. /\ IsList(as) /\ DOMAIN ps = DOMAIN as
      /\ \A j \in DOMAIN ps : Rooted(book, rows, as[j]) /\ StandsFor(ps[j], as[j])
      /\ \A i, j \in DOMAIN ps : i # j => Part(as[i], as[j])
  BY LoadedSound DEF InStep
<1>3. \A i \in DOMAIN ps :
        /\ ~IsInvocation(book, ps[i].block, ps[i].target)
        /\ \A e \in 1 .. Len(as[i].chain) :
             as[i].chain[e].block.name \notin as[i].chain[e].block.requires
  BY LoadedSound DEF StepSound
<1>4. StepsApart(rows)
  BY PlaySound DEF StepsApart
<1>5. BodiesApart(book)
  BY BodiesSound DEF BodiesApart
<1>6. /\ IsList(all) /\ DOMAIN all = DOMAIN ps
      /\ \A i \in DOMAIN ps : all[i] = LoadStep(ps[i])
  BY StepsAre
<1> HIDE DEF book, items, rows, as, ps, all
<1>7. Apart(book, items, as)
  BY <1>1, <1>2, <1>4, <1>5 DEF Apart, rows, book, items
<1>8. ASSUME NEW i \in DOMAIN as
      PROVE  StepIs(book, all[i], as[i])
  <2> DEFINE leaf == as[i]  p == ps[i]
  <2>1. Rooted(book, rows, leaf) /\ StandsFor(p, leaf) /\ ~IsInvocation(book, p.block, p.target)
    BY <1>2, <1>3
  <2>2. all[i] = LoadStep(p)
    BY <1>2, <1>6
  <2> HIDE DEF leaf, p
  <2>3. \A j \in DOMAIN rows : IsList(rows[j].within)
    <3>1. RowsSound(PlayBlocks(items))
      BY <1>1, RowsOfPlay
    <3> QED BY <3>1, StepRowsAre DEF RowsSound, rows
  <2>4. IsList(leaf.containers) /\ IsList(leaf.chain) /\ Len(leaf.chain) # 0
    BY <2>1, <2>3 DEF Rooted
  <2>5. StepIs(book, LoadStep(p), leaf)
    BY <2>1, <2>4, StepIsOf
  <2> QED BY <2>2, <2>5 DEF leaf
<1>9. Expanded(book, items, all, as)
  BY <1>2, <1>6, <1>7, <1>8 DEF Expanded
<1> QED BY <1>2, <1>3, <1>9 DEF book, items, as, all

PlaysApart == \A n \in DOMAIN doc.plays : NamesApart(pb, doc.plays[n].items)

RequiresWhereApart == PlaysApart => RequiresMeanWhatIsWritten

\* What the invariant says of the steps a play is expanded to.
LEMMA RequiresFollow ==
  ASSUME PlanInv
  PROVE  RequiresWhereApart
<1> SUFFICES ASSUME PlaysApart, phase = "override", NEW n \in DOMAIN doc.plays
             PROVE  LET all == LoadPlay(pb, doc.plays[n])
                        as  == Leaves(pb, doc.plays[n])
                    IN /\ Len(all) = Len(as)
                       /\ Deps(all) = [i \in DOMAIN all |->
                                         {j \in DOMAIN all : WaitsFor(as[i], as[j])}]
  BY DEF RequiresWhereApart, RequiresMeanWhatIsWritten
<1>1. PlaybookAccepted(doc) /\ DocumentIsTree(doc)
  BY InputIsTree DEF PlanInv, Accepted
<1> DEFINE book == LoadPlaybook(doc)
           items == doc.plays[n].items
           all == LoadPlay(book, doc.plays[n])
           as == Leaves(book, doc.plays[n])
<1>2. pb = book
  BY DEF pb
<1>3. NamesApart(book, items)
  BY <1>2 DEF PlaysApart
<1>4. /\ Expanded(book, items, all, as) /\ IsList(as)
      /\ \A i \in DOMAIN as : \A e \in 1 .. Len(as[i].chain) :
           as[i].chain[e].block.name \notin as[i].chain[e].block.requires
  BY <1>1, <1>3, PlayExpanded
<1> HIDE DEF book, items, all, as
<1>5. Len(all) = Len(as)
  BY <1>4, SameLen DEF Expanded
<1>6. WaitsAre(all, as)
  BY <1>4, DepsAre
<1> QED BY <1>2, <1>5, <1>6 DEF WaitsAre, all, as

\* The names of requires (dag::build) reach the steps their author means: where the names
\* of the plays keep their blocks apart, a step waits for another of its play exactly when,
\* where their ways from the play part, the block of the first requires that of the other.
THEOREM RequiresMeant ==
  Spec => []((\A n \in DOMAIN doc.plays : NamesApart(pb, doc.plays[n].items))
               => RequiresMeanWhatIsWritten)
BY PlanInvariant, RequiresFollow, PTL DEF RequiresWhereApart, PlaysApart

\* The preparation of a run, with its loader, compiler and planner, implements Variables:
\* what main.rs does around the variables changes none of them.
THEOREM Implements == Spec => ImplementsVariables
<1>1. Init => VariablesInit
  BY DEF Init
<1>2. ASSUME [Next]_vars PROVE [VariablesNext]_variables
  <2>1. CASE Load /\ Unplanned
    <3>1. CASE Accepted
      <4>1. Distinct(doc.gathers)
        BY <3>1 DEF Accepted, PlaybookAccepted, NamesDistinct
      <4> QED BY <2>1, <3>1, <4>1 DEF Load, LoadValidated, VariablesNext
    <3>2. CASE ~Accepted
      BY <2>1, <3>2 DEF Load, LoadValidated, VariablesNext
    <3> QED BY <3>1, <3>2
  <2>2. CASE \E k \in DOMAIN results : FinishGatherer(k) /\ Unplanned
    BY <2>2 DEF VariablesNext
  <2>3. CASE PlanNext
    BY <2>3 DEF PlanNext, variables
  <2>4. CASE UNCHANGED vars
    BY <2>4 DEF vars, variables
  <2>5. CASE Planned /\ Unplanned
    BY <2>5 DEF Planned, VariablesNext
  <2>6. CASE (Override \/ StartGatherers \/ BindResults) /\ Unplanned
    BY <2>6 DEF VariablesNext
  <2> QED BY <1>2, <2>1, <2>2, <2>3, <2>4, <2>5, <2>6 DEF Next
<1> QED BY <1>1, <1>2, PTL DEF Spec, VariablesSpec, ImplementsVariables

\* So the variable a step of a run reads has the value of its highest source
\* (OverrideStore of main.rs, Insert of vars.rs).
THEOREM HighestWinsInRuns == Spec => []HighestSourceWins
BY Implements, HighestWins, PTL DEF ImplementsVariables

\* So two gather blocks of a run that ask the same have the same answer (the sharing of
\* executions in gather.rs).
THEOREM SameAnswerInRuns == Spec => []SameQuestionSameAnswer
BY Implements, SameAnswer, PTL DEF ImplementsVariables
====
