---------------------------- MODULE SecretsProofs ----------------------------
(***************************************************************************)
(* Proofs about the secrets of a playbook, for files of any length, any    *)
(* passwords and values, and any number of edits, commands, runs and       *)
(* failures: no value is lost or changed by a command, what a command has  *)
(* sealed opens with its password, and what a run was given in secret      *)
(* comes out of it masked.                                                 *)
(***************************************************************************)
EXTENDS Secrets, FiniteSetTheorems, SequenceTheorems, WellFoundedInduction, TLAPS

(* ------------------------------------------------------------ rewriting *)

\* Init takes one of the values, a written blob another.
CallValues == Values \cup {<< >>, CHOOSE v \in Values : TRUE}

Keys == Passwords \cup {None}

CallType ==
  [state : {"plaintext", "encrypted", "invalid"}, value : CallValues, password : Keys]

Rewritable(calls) == \A i \in DOMAIN calls : calls[i].state # "invalid"

\* All the calls are blobs of one password.
SealedWith(calls, password) ==
  \A i \in DOMAIN calls : calls[i].state = "encrypted" /\ calls[i].password = password

\* A set of naturals has a least one.
LEMMA LeastOf ==
  ASSUME NEW S \in SUBSET Nat, S # {}
  PROVE  \E n \in S : \A m \in S : ~(m < n)
<1>1. PICK n \in S : \A m \in S : ~(<<m, n>> \in OpToRel(<, Nat))
  BY NatLessThanWellFounded, WFMin, Zenon
<1> QED BY <1>1 DEF OpToRel

LEMMA RangeOfAppend ==
  ASSUME NEW S, NEW s \in Seq(S), NEW e \in S
  PROVE  Append(s, e) \in Seq(S) /\ Range(Append(s, e)) = Range(s) \cup {e}
<1>1. /\ Append(s, e) \in Seq(S) /\ DOMAIN Append(s, e) = 1 .. Len(s) + 1
      /\ \A i \in 1 .. Len(s) : Append(s, e)[i] = s[i]
      /\ Append(s, e)[Len(s) + 1] = e
      /\ DOMAIN s = 1 .. Len(s) /\ Len(s) \in Nat
  OBVIOUS
<1>2. \A x : x \in Range(Append(s, e)) <=> \E i \in 1 .. Len(s) + 1 : Append(s, e)[i] = x
  BY <1>1 DEF Range
<1>3. \A x : x \in Range(s) <=> \E i \in 1 .. Len(s) : s[i] = x
  BY <1>1 DEF Range
<1>4. \A i \in 1 .. Len(s) + 1 : i \in 1 .. Len(s) \/ i = Len(s) + 1
  BY <1>1
<1>5. (1 .. Len(s)) \subseteq 1 .. Len(s) + 1 /\ Len(s) + 1 \in 1 .. Len(s) + 1
  BY <1>1
<1>6. \A x : x \in Range(Append(s, e)) <=> x \in Range(s) \cup {e}
  BY <1>1, <1>2, <1>3, <1>4, <1>5
<1> QED BY <1>1, <1>6

\* The spans found among the first calls: the local function of Spans.
FoundUpTo(upTo, calls, state, N) ==
  upTo = [n \in 0 .. N |->
            IF n = 0 THEN << >>
            ELSE IF calls[n].state = state THEN Append(upTo[n - 1], n) ELSE upTo[n - 1]]

LEMMA FoundByStep ==
  ASSUME NEW calls \in Seq(CallType), NEW state, NEW N \in 0 .. Len(calls)
  PROVE  \E upTo : FoundUpTo(upTo, calls, state, N)
<1> DEFINE Missing == {n \in 0 .. Len(calls) : ~ \E upTo : FoundUpTo(upTo, calls, state, n)}
<1> SUFFICES ASSUME Missing # {} PROVE FALSE
  OBVIOUS
<1>1. PICK n \in Missing : \A m \in Missing : ~(m < n)
  <2>1. Missing \subseteq Nat
    OBVIOUS
  <2> HIDE DEF Missing
  <2> QED BY <2>1, LeastOf
<1>2. CASE n = 0
  <2>1. FoundUpTo([k \in 0 .. 0 |-> << >>], calls, state, 0)
    BY DEF FoundUpTo
  <2> QED BY <1>1, <1>2, <2>1
<1>3. CASE n # 0
  <2>1. n - 1 \in 0 .. Len(calls) /\ n - 1 < n /\ n \in Nat
    BY <1>1, <1>3
  <2>2. PICK f : FoundUpTo(f, calls, state, n - 1)
    BY <1>1, <2>1
  <2> DEFINE last == IF calls[n].state = state THEN Append(f[n - 1], n) ELSE f[n - 1]
             g == [k \in 0 .. n |-> IF k = n THEN last ELSE f[k]]
  <2>3. \A k \in 0 .. n - 1 :
          f[k] = IF k = 0 THEN << >>
                 ELSE IF calls[k].state = state THEN Append(f[k - 1], k) ELSE f[k - 1]
    BY <2>2 DEF FoundUpTo
  <2>4. ASSUME NEW k \in 0 .. n
        PROVE  g[k] = IF k = 0 THEN << >>
                      ELSE IF calls[k].state = state THEN Append(g[k - 1], k) ELSE g[k - 1]
    <3>1. CASE k = n
      <4>1. g[n] = last /\ g[n - 1] = f[n - 1]
        BY <1>3, <2>1
      <4> HIDE DEF g
      <4> QED BY <1>3, <3>1, <4>1
    <3>2. CASE k = 0
      BY <1>3, <2>1, <2>3, <3>2
    <3>3. CASE k # n /\ k # 0
      <4>1. k \in 0 .. n - 1 /\ k - 1 \in 0 .. n /\ k - 1 # n
        BY <2>1, <3>3
      <4>2. g[k] = f[k] /\ g[k - 1] = f[k - 1]
        BY <3>3, <4>1
      <4> HIDE DEF g
      <4> QED BY <2>3, <3>3, <4>1, <4>2
    <3> QED BY <3>1, <3>2, <3>3
  <2>5. FoundUpTo(g, calls, state, n)
    <3>1. g = [k \in 0 .. n |-> g[k]]
      OBVIOUS
    <3> HIDE DEF g
    <3> QED BY <2>4, <3>1 DEF FoundUpTo
  <2> QED BY <1>1, <2>5
<1> QED BY <1>2, <1>3

\* The spans are where the calls of the state stand.
LEMMA SpansAre ==
  ASSUME NEW calls \in Seq(CallType), NEW state
  PROVE  /\ Spans(calls, state) \in Seq(DOMAIN calls)
         /\ Range(Spans(calls, state)) = {i \in DOMAIN calls : calls[i].state = state}
<1> DEFINE f == CHOOSE upTo : FoundUpTo(upTo, calls, state, Len(calls))
           Of(n) == {i \in 1 .. n : calls[i].state = state}
           Wrong == {n \in 0 .. Len(calls) : ~(f[n] \in Seq(DOMAIN calls) /\ Range(f[n]) = Of(n))}
<1>1. DOMAIN calls = 1 .. Len(calls) /\ Len(calls) \in Nat
  OBVIOUS
<1>2. Spans(calls, state) = f[Len(calls)]
  BY DEF Spans, FoundUpTo
<1>3. FoundUpTo(f, calls, state, Len(calls))
  BY <1>1, FoundByStep
<1> HIDE DEF f
<1>4. \A n \in 0 .. Len(calls) :
        f[n] = IF n = 0 THEN << >>
               ELSE IF calls[n].state = state THEN Append(f[n - 1], n) ELSE f[n - 1]
  BY <1>3 DEF FoundUpTo
<1>5. ASSUME Wrong # {} PROVE FALSE
  <2>1. PICK n \in Wrong : \A m \in Wrong : ~(m < n)
    <3>1. Wrong \subseteq Nat
      OBVIOUS
    <3> HIDE DEF Wrong
    <3> QED BY <1>5, <3>1, LeastOf
  <2>2. n # 0
    <3>1. f[0] = << >> /\ Of(0) = {}
      BY <1>1, <1>4
    <3>2. << >> \in Seq(DOMAIN calls) /\ Range(<< >>) = {}
      BY DEF Range
    <3> QED BY <2>1, <3>1, <3>2
  <2>3. n \in 1 .. Len(calls) /\ n - 1 \in 0 .. Len(calls) /\ n - 1 < n
    BY <1>1, <2>1, <2>2
  <2>4. f[n - 1] \in Seq(DOMAIN calls) /\ Range(f[n - 1]) = Of(n - 1)
    BY <2>1, <2>3
  <2>5. CASE calls[n].state = state
    <3>1. f[n] = Append(f[n - 1], n)
      BY <1>4, <2>2, <2>3, <2>5
    <3>2. Of(n) = Of(n - 1) \cup {n}
      BY <2>3, <2>5
    <3>3. f[n] \in Seq(DOMAIN calls) /\ Range(f[n]) = Range(f[n - 1]) \cup {n}
      BY <1>1, <2>3, <2>4, <3>1, RangeOfAppend
    <3> QED BY <2>1, <2>4, <3>2, <3>3
  <2>6. CASE calls[n].state # state
    <3>1. f[n] = f[n - 1] /\ Of(n) = Of(n - 1)
      BY <1>4, <2>2, <2>3, <2>6
    <3> QED BY <2>1, <2>4, <3>1
  <2> QED BY <2>5, <2>6
<1>6. Len(calls) \notin Wrong
  BY <1>5
<1> QED BY <1>1, <1>2, <1>6

\* What is to replace the calls at the spans has their values.
Fits(calls, spans, as) ==
  \A n \in DOMAIN spans : as[n] \in CallType /\ as[n].value = calls[spans[n]].value

\* The calls are replaced where there are spans, and every value is kept.
Rewritten(calls, spans, as, s) ==
  /\ s \in Seq(CallType) /\ DOMAIN s = DOMAIN calls /\ Texts(s) = Texts(calls)
  /\ \A i \in DOMAIN calls \ Range(spans) : s[i] = calls[i]
  /\ \A i \in DOMAIN calls \cap Range(spans) : \E n \in DOMAIN spans : s[i] = as[n]

LEMMA SpliceIs ==
  ASSUME NEW calls \in Seq(CallType), NEW spans \in Seq(DOMAIN calls),
         NEW as, Fits(calls, spans, as)
  PROVE  Rewritten(calls, spans, as, Splice(calls, spans, as))
<1> DEFINE s == Splice(calls, spans, as)
<1>1. DOMAIN calls = 1 .. Len(calls) /\ Len(calls) \in Nat
  OBVIOUS
<1>2. s = [i \in DOMAIN calls |-> s[i]] /\ DOMAIN s = DOMAIN calls
  BY DEF Splice
<1>3. ASSUME NEW i \in DOMAIN calls
      PROVE  /\ s[i] \in CallType /\ s[i].value = calls[i].value
             /\ i \notin Range(spans) => s[i] = calls[i]
             /\ i \in Range(spans) => \E n \in DOMAIN spans : s[i] = as[n]
  <2>1. CASE \E n \in DOMAIN spans : spans[n] = i
    <3> DEFINE n == CHOOSE n \in DOMAIN spans : spans[n] = i
    <3>1. n \in DOMAIN spans /\ spans[n] = i
      BY <2>1
    <3>2. s[i] = as[n]
      BY <2>1 DEF Splice
    <3>3. i \in Range(spans)
      BY <3>1 DEF Range
    <3> HIDE DEF s, n
    <3> QED BY <3>1, <3>2, <3>3 DEF Fits
  <2>2. CASE ~ \E n \in DOMAIN spans : spans[n] = i
    <3>1. s[i] = calls[i]
      BY <2>2 DEF Splice
    <3>2. i \notin Range(spans)
      BY <2>2 DEF Range
    <3>3. calls[i] \in CallType
      OBVIOUS
    <3> HIDE DEF s
    <3> QED BY <3>1, <3>2, <3>3
  <2> QED BY <2>1, <2>2
<1> HIDE DEF s
<1>4. s \in Seq(CallType)
  <2>1. \A i \in 1 .. Len(calls) : s[i] \in CallType
    BY <1>1, <1>3
  <2>2. s \in [1 .. Len(calls) -> CallType]
    BY <1>1, <1>2, <2>1
  <2> QED BY <1>1, <2>2
<1>5. Texts(s) = Texts(calls)
  BY <1>2, <1>3 DEF Texts
<1>6. Rewritten(calls, spans, as, s)
  BY <1>2, <1>3, <1>4, <1>5 DEF Rewritten
<1> QED BY <1>6 DEF s

\* Sealed anew or laid open, a call keeps its value.
LEMMA SealedAre ==
  ASSUME NEW calls \in Seq(CallType), NEW spans \in Seq(DOMAIN calls), NEW password \in Keys
  PROVE  /\ DOMAIN Texts(At(calls, spans)) = DOMAIN spans
         /\ \A n \in DOMAIN spans : Texts(At(calls, spans))[n] = calls[spans[n]].value
         /\ \A n \in DOMAIN spans :
              LET as == Seal(Texts(At(calls, spans)), password)
              IN /\ as[n] \in CallType /\ as[n].value = calls[spans[n]].value
                 /\ as[n].state = "encrypted" /\ as[n].password = password
         /\ \A n \in DOMAIN spans :
              LET as == Open(Texts(At(calls, spans)))
              IN as[n] \in CallType /\ as[n].value = calls[spans[n]].value
<1>1. \A n \in DOMAIN spans : spans[n] \in DOMAIN calls
  OBVIOUS
<1>2. \A n \in DOMAIN spans : calls[spans[n]] \in CallType
  BY <1>1
<1>3. /\ DOMAIN Texts(At(calls, spans)) = DOMAIN spans
      /\ \A n \in DOMAIN spans : Texts(At(calls, spans))[n] = calls[spans[n]].value
  BY DEF Texts, At
<1> QED BY <1>2, <1>3 DEF Seal, Open, Call, CallType, Keys, CallValues

LEMMA EncryptedIs ==
  ASSUME NEW calls \in Seq(CallType), Rewritable(calls), NEW password \in Keys,
         UnlockAll(calls, password)
  PROVE  /\ Encrypted(calls, password) \in Seq(CallType)
         /\ Texts(Encrypted(calls, password)) = Texts(calls)
         /\ SealedWith(Encrypted(calls, password), password)
<1> DEFINE spans == Spans(calls, "plaintext")
           as == Seal(Texts(At(calls, spans)), password)
           s == Splice(calls, spans, as)
<1>1. spans \in Seq(DOMAIN calls)
      /\ Range(spans) = {i \in DOMAIN calls : calls[i].state = "plaintext"}
  BY SpansAre
<1>2. \A n \in DOMAIN spans : /\ as[n] \in CallType /\ as[n].value = calls[spans[n]].value
                              /\ as[n].state = "encrypted" /\ as[n].password = password
  <2> HIDE DEF spans
  <2> QED BY <1>1, SealedAre
<1>3. s = Encrypted(calls, password)
  BY DEF Encrypted
<1> HIDE DEF spans, as
<1>4. Rewritten(calls, spans, as, s)
  BY <1>1, <1>2, SpliceIs DEF Fits
<1> HIDE DEF s
<1>5. ASSUME NEW i \in DOMAIN calls, calls[i].state = "encrypted"
      PROVE  calls[i].password = password
  <2> DEFINE blobs == Spans(calls, "encrypted")
  <2>1. blobs \in Seq(DOMAIN calls) /\ i \in Range(blobs)
    BY <1>5, SpansAre
  <2>2. PICK n \in DOMAIN blobs : blobs[n] = i
    BY <2>1 DEF Range
  <2>3. At(calls, blobs)[n] = calls[i]
    BY <2>2 DEF At
  <2> QED BY <2>2, <2>3 DEF UnlockAll, Opens
<1>6. \A i \in DOMAIN calls : calls[i].state \in {"plaintext", "encrypted"}
  <2>1. \A i \in DOMAIN calls : calls[i] \in CallType
    OBVIOUS
  <2> QED BY <2>1 DEF Rewritable, CallType
<1>7. SealedWith(s, password)
  <2> SUFFICES ASSUME NEW i \in DOMAIN calls
               PROVE  s[i].state = "encrypted" /\ s[i].password = password
    BY <1>4 DEF SealedWith, Rewritten
  <2>1. CASE i \in Range(spans)
    <3>1. PICK n \in DOMAIN spans : s[i] = as[n]
      BY <1>4, <2>1 DEF Rewritten
    <3> QED BY <1>2, <3>1
  <2>2. CASE i \notin Range(spans)
    <3>1. s[i] = calls[i] /\ calls[i].state = "encrypted"
      BY <1>1, <1>4, <1>6, <2>2 DEF Rewritten
    <3> QED BY <1>5, <3>1
  <2> QED BY <2>1, <2>2
<1> QED BY <1>3, <1>4, <1>7 DEF Rewritten

LEMMA DecryptedIs ==
  ASSUME NEW calls \in Seq(CallType)
  PROVE  /\ Decrypted(calls) \in Seq(CallType)
         /\ Texts(Decrypted(calls)) = Texts(calls)
<1> DEFINE spans == Spans(calls, "encrypted")
           as == Open(Texts(At(calls, spans)))
<1>1. spans \in Seq(DOMAIN calls)
  BY SpansAre
<1>2. \A n \in DOMAIN spans : as[n] \in CallType /\ as[n].value = calls[spans[n]].value
  <2> HIDE DEF spans
  <2> QED BY <1>1, SealedAre DEF Keys
<1>3. Decrypted(calls) = Splice(calls, spans, as)
  BY DEF Decrypted, Plaintexts
<1> HIDE DEF spans, as
<1>4. Rewritten(calls, spans, as, Splice(calls, spans, as))
  BY <1>1, <1>2, SpliceIs DEF Fits
<1> QED BY <1>3, <1>4 DEF Rewritten

LEMMA RekeyedIs ==
  ASSUME NEW calls \in Seq(CallType), Rewritable(calls), NEW password \in Keys
  PROVE  /\ Rekeyed(calls, password) \in Seq(CallType)
         /\ Texts(Rekeyed(calls, password)) = Texts(calls)
         /\ SealedWith(Rekeyed(calls, password), password)
<1> DEFINE blobs == Spans(calls, "encrypted")
           plain == Spans(calls, "plaintext")
           spans == blobs \o plain
           values == Texts(At(calls, blobs)) \o Texts(At(calls, plain))
           as == Seal(values, password)
           s == Splice(calls, spans, as)
<1>1. /\ blobs \in Seq(DOMAIN calls)
      /\ Range(blobs) = {i \in DOMAIN calls : calls[i].state = "encrypted"}
      /\ plain \in Seq(DOMAIN calls)
      /\ Range(plain) = {i \in DOMAIN calls : calls[i].state = "plaintext"}
  BY SpansAre
<1>2. Rekeyed(calls, password) = s
  BY DEF Rekeyed, Plaintexts
<1> HIDE DEF blobs, plain
<1>3. spans \in Seq(DOMAIN calls) /\ DOMAIN calls \subseteq Range(spans)
  <2>1. \A i \in DOMAIN calls : i \in Range(blobs) \/ i \in Range(plain)
    <3>1. \A i \in DOMAIN calls : calls[i] \in CallType
      OBVIOUS
    <3> QED BY <1>1, <3>1 DEF Rewritable, CallType
  <2>2. /\ \A n \in DOMAIN blobs : n \in DOMAIN spans /\ spans[n] = blobs[n]
        /\ \A n \in DOMAIN plain : /\ Len(blobs) + n \in DOMAIN spans
                                   /\ spans[Len(blobs) + n] = plain[n]
    BY <1>1
  <2>3. \A i \in Range(blobs) \cup Range(plain) : \E n \in DOMAIN spans : spans[n] = i
    BY <2>2 DEF Range
  <2> HIDE DEF spans
  <2>4. \A i \in DOMAIN calls : i \in Range(spans)
    BY <2>1, <2>3 DEF Range
  <2> QED BY <1>1, <2>4 DEF spans
<1>4. /\ DOMAIN values = DOMAIN spans
      /\ \A n \in DOMAIN spans : values[n] = calls[spans[n]].value
  <2> DEFINE p == Texts(At(calls, blobs))
             q == Texts(At(calls, plain))
  <2>1. /\ p = [n \in DOMAIN blobs |-> calls[blobs[n]].value]
        /\ q = [n \in DOMAIN plain |-> calls[plain[n]].value]
    BY DEF Texts, At
  <2>2. \A i \in DOMAIN calls : calls[i].value \in CallValues
    <3>1. \A i \in DOMAIN calls : calls[i] \in CallType
      OBVIOUS
    <3> QED BY <3>1 DEF CallType
  <2>3. /\ DOMAIN blobs = 1 .. Len(blobs) /\ \A n \in DOMAIN blobs : blobs[n] \in DOMAIN calls
        /\ DOMAIN plain = 1 .. Len(plain) /\ \A n \in DOMAIN plain : plain[n] \in DOMAIN calls
        /\ Len(blobs) \in Nat /\ Len(plain) \in Nat
    BY <1>1
  <2>4. p \in [1 .. Len(blobs) -> CallValues] /\ q \in [1 .. Len(plain) -> CallValues]
    <3> HIDE DEF p, q
    <3> QED BY <2>1, <2>2, <2>3
  <2>5. values = p \o q
    OBVIOUS
  <2> HIDE DEF p, q, values
  <2>6. /\ p \in Seq(CallValues) /\ q \in Seq(CallValues)
        /\ Len(p) = Len(blobs) /\ Len(q) = Len(plain)
    <3>1. p \in Seq(CallValues) /\ q \in Seq(CallValues)
      BY <2>3, <2>4
    <3>2. DOMAIN p = 1 .. Len(blobs) /\ DOMAIN q = 1 .. Len(plain)
      BY <2>4
    <3> QED BY <2>3, <3>1, <3>2, LenProperties
  <2>7. DOMAIN values = 1 .. Len(blobs) + Len(plain) /\ DOMAIN spans = 1 .. Len(blobs) + Len(plain)
    <3>1. /\ values \in Seq(CallValues) /\ Len(values) = Len(blobs) + Len(plain)
          /\ DOMAIN values = 1 .. Len(values)
      <4>1. p \o q \in Seq(CallValues) /\ Len(p \o q) = Len(p) + Len(q)
        BY <2>6, ConcatProperties
      <4>2. values \in Seq(CallValues) /\ Len(values) = Len(blobs) + Len(plain)
        BY <2>5, <2>6, <4>1
      <4> QED BY <4>2, LenProperties
    <3>2. /\ spans \in Seq(DOMAIN calls) /\ Len(spans) = Len(blobs) + Len(plain)
          /\ DOMAIN spans = 1 .. Len(spans)
      BY <1>1, ConcatProperties, LenProperties
    <3> QED BY <3>1, <3>2
  <2>8. ASSUME NEW n \in 1 .. Len(blobs) + Len(plain)
        PROVE  values[n] = calls[spans[n]].value
    <3>1. CASE n <= Len(blobs)
      <4>1. n \in 1 .. Len(blobs) /\ values[n] = p[n] /\ spans[n] = blobs[n]
        BY <1>1, <2>3, <2>5, <2>6, <3>1
      <4> QED BY <2>1, <2>3, <4>1
    <3>2. CASE n > Len(blobs)
      <4>1. /\ n - Len(blobs) \in 1 .. Len(plain) /\ values[n] = q[n - Len(blobs)]
            /\ spans[n] = plain[n - Len(blobs)]
        BY <1>1, <2>3, <2>5, <2>6, <3>2
      <4> QED BY <2>1, <2>3, <4>1
    <3> QED BY <2>3, <3>1, <3>2
  <2> QED BY <2>7, <2>8
<1>5. \A n \in DOMAIN spans : /\ as[n] \in CallType /\ as[n].value = calls[spans[n]].value
                              /\ as[n].state = "encrypted" /\ as[n].password = password
  <2>1. \A n \in DOMAIN spans : calls[spans[n]] \in CallType
    BY <1>3
  <2> HIDE DEF values, spans
  <2> QED BY <1>4, <2>1 DEF Seal, Call, CallType
<1> HIDE DEF spans, as
<1>6. Rewritten(calls, spans, as, s)
  BY <1>3, <1>5, SpliceIs DEF Fits
<1>7. SealedWith(s, password)
  <2> HIDE DEF s
  <2> SUFFICES ASSUME NEW i \in DOMAIN calls
               PROVE  s[i].state = "encrypted" /\ s[i].password = password
    BY <1>6 DEF SealedWith, Rewritten
  <2>1. PICK n \in DOMAIN spans : s[i] = as[n]
    BY <1>3, <1>6 DEF Rewritten
  <2> QED BY <1>5, <2>1
<1> QED BY <1>2, <1>6, <1>7 DEF Rewritten

(* ------------------------------------------------------------ invariant *)

\* The playbook: whole, with what its author wrote, sealed where reported so.
FileOK ==
  /\ file = Whole(file.calls) /\ file.calls \in Seq(CallType)
  /\ Texts(file.calls) = text
  /\ sealed # None => SealedWith(file.calls, sealed)

\* What a command has read it can rewrite, and it remembers the values.
Reading ==
  /\ command = [phase |-> "opened", kind |-> command.kind, calls |-> command.calls,
                text |-> command.text]
  /\ command.kind \in {"encrypt", "decrypt", "rekey"}
  /\ command.calls \in Seq(CallType) /\ Rewritable(command.calls)
  /\ Texts(command.calls) = command.text

\* What a command is to write has the values it read, under the password it
\* is to report; before the rename the temporary file has all of it.
Writing ==
  /\ command = [phase |-> command.phase, as |-> command.as, under |-> command.under,
                text |-> command.text]
  /\ command.phase \in {"writing", "filling", "renaming"}
  /\ command.as \in Seq(CallType)
  /\ Texts(command.as) = command.text
  /\ command.under # None => SealedWith(command.as, command.under)
  /\ command.phase = "renaming" => tmp = Whole(command.as)

CommandOK ==
  \/ command = Idle
  \/ command.phase = "opened" /\ Reading
  \/ command.phase \in {"writing", "filling", "renaming"} /\ Writing

SecretsInv == FileOK /\ CommandOK

(* ------------------------------------------------------------ the author *)

LEMMA WrittenIs == Written \subseteq CallType
  BY DEF Written, Call, CallType, CallValues, Keys

LEMMA EditsAre ==
  ASSUME NEW calls \in Seq(CallType)
  PROVE  EditsOf(calls) \subseteq Seq(CallType)
<1>1. ASSUME NEW c \in CallType
      PROVE  Append(calls, c) \in Seq(CallType) /\ << c >> \o calls \in Seq(CallType)
  OBVIOUS
<1>2. ASSUME NEW c \in CallType, NEW i \in DOMAIN calls
      PROVE  [calls EXCEPT ![i] = c] \in Seq(CallType)
  OBVIOUS
<1>3. ASSUME NEW i \in DOMAIN calls
      PROVE  RemoveAt(calls, i) \in Seq(CallType)
  <2>1. /\ SubSeq(calls, 1, i - 1) \in Seq(CallType)
        /\ SubSeq(calls, i + 1, Len(calls)) \in Seq(CallType)
    OBVIOUS
  <2> QED BY <2>1, ConcatProperties DEF RemoveAt
<1> DEFINE More == IF Len(calls) < MaxCalls THEN Written ELSE {}
           After == {Append(calls, c) : c \in More}
           Before == {<< c >> \o calls : c \in More}
           Changed == {[calls EXCEPT ![i] = c] : i \in DOMAIN calls, c \in Written}
           Without == {RemoveAt(calls, i) : i \in DOMAIN calls}
<1>4. EditsOf(calls) = After \cup Before \cup Changed \cup Without
  BY DEF EditsOf
<1>5. More \subseteq CallType
  BY WrittenIs
<1> HIDE DEF More
<1>6. After \subseteq Seq(CallType) /\ Before \subseteq Seq(CallType)
  BY <1>1, <1>5
<1>7. Changed \subseteq Seq(CallType)
  BY <1>2, WrittenIs
<1>8. Without \subseteq Seq(CallType)
  BY <1>3
<1> HIDE DEF After, Before, Changed, Without
<1> QED BY <1>4, <1>6, <1>7, <1>8

(* --------------------------------------------------------- the commands *)

LEMMA PasswordsAre == Resolved \subseteq Keys /\ ResolvedNew \subseteq Keys
<1>1. \A G : Cardinality(G) = 1 => G # {}
  BY FS_EmptySet
<1>2. ASSUME NEW S, NEW f \in [S -> Passwords \cup {"", None}]
      PROVE  ResolveFrom(f) \in Keys
  <2> DEFINE given == {s \in DOMAIN f : Given(f, s)}
             only == CHOOSE s \in given : TRUE
  <2>1. ResolveFrom(f) = IF Cardinality(given) # 1 \/ f[only] = "" THEN None ELSE f[only]
    BY Zenon DEF ResolveFrom
  <2>2. given \subseteq S
    OBVIOUS
  <2>3. only = CHOOSE s \in given : TRUE
    OBVIOUS
  <2> HIDE DEF given, only
  <2>4. CASE Cardinality(given) = 1
    <3>1. only \in S
      BY <1>1, <2>2, <2>3, <2>4
    <3>2. f[only] \in Passwords \cup {"", None}
      BY <3>1
    <3> QED BY <2>1, <3>2 DEF Keys
  <2>5. CASE Cardinality(given) # 1
    BY <2>1, <2>5 DEF Keys
  <2> QED BY <2>4, <2>5
<1> QED BY <1>2 DEF Resolved, ResolvedNew

\* What a command that goes on is to write.
LEMMA AnswerIs ==
  ASSUME NEW kind \in {"encrypt", "decrypt", "rekey"},
         NEW calls \in Seq(CallType), Rewritable(calls),
         NEW password \in Keys, NEW new \in Keys,
         Answer(kind, calls, password, new) # Idle
  PROVE  LET answer == Answer(kind, calls, password, new)
         IN /\ answer.as \in Seq(CallType) /\ Texts(answer.as) = Texts(calls)
            /\ answer.under # None => SealedWith(answer.as, answer.under)
<1>1. CASE kind = "encrypt"
  <2>1. /\ ProvesPassword(calls, password)
        /\ Answer(kind, calls, password, new).as = Encrypted(calls, password)
        /\ Answer(kind, calls, password, new).under = password
    BY <1>1 DEF Answer
  <2> QED BY <2>1, EncryptedIs DEF ProvesPassword
<1>2. CASE kind = "decrypt"
  <2>1. /\ Answer(kind, calls, password, new).as = Decrypted(calls)
        /\ Answer(kind, calls, password, new).under = None
    BY <1>2 DEF Answer
  <2> QED BY <2>1, DecryptedIs
<1>3. CASE kind = "rekey"
  <2>1. /\ Answer(kind, calls, password, new).as = Rekeyed(calls, new)
        /\ Answer(kind, calls, password, new).under = new
    BY <1>3 DEF Answer
  <2> QED BY <2>1, RekeyedIs
<1> QED BY <1>1, <1>2, <1>3

(* ------------------------------------------------------------ the steps *)

LEMMA Start == Init => SecretsInv
<1> SUFFICES ASSUME Init PROVE SecretsInv
  OBVIOUS
<1>1. PICK calls \in {<< >>, << Call("plaintext", CHOOSE v \in Values : TRUE, None) >>} :
        file = Whole(calls) /\ text = Texts(calls)
  BY DEF Init
<1>2. Call("plaintext", CHOOSE v \in Values : TRUE, None) \in CallType
  BY DEF Call, CallType, CallValues, Keys
<1>3. \A c \in CallType : << c >> \in Seq(CallType)
  OBVIOUS
<1>4. << >> \in Seq(CallType)
  OBVIOUS
<1>5. calls \in Seq(CallType)
  BY <1>1, <1>2, <1>3, <1>4
<1>6. file.calls = calls
  BY <1>1 DEF Whole
<1> QED BY <1>1, <1>5, <1>6 DEF Init, SecretsInv, FileOK, CommandOK

LEMMA OpenSessionKeeps ==
  ASSUME SecretsInv, NEW kind \in {"encrypt", "decrypt", "rekey"}, OpenSession(kind)
  PROVE  SecretsInv'
<1>1. /\ command' = [phase |-> "opened", kind |-> kind, calls |-> file.calls, text |-> text]
      /\ Rewritable(file.calls)
      /\ UNCHANGED << file, text, sealed >>
  BY DEF OpenSession, Rewritable
<1>2. FileOK /\ FileOK'
  BY <1>1 DEF SecretsInv, FileOK
<1>3. Reading'
  BY <1>1, <1>2 DEF Reading, FileOK
<1> QED BY <1>1, <1>2, <1>3 DEF SecretsInv, CommandOK

LEMMA ComputeKeeps ==
  ASSUME SecretsInv, Compute
  PROVE  SecretsInv'
<1>1. FileOK'
  BY DEF Compute, SecretsInv, FileOK
<1>2. Reading
  BY DEF Compute, SecretsInv, CommandOK, Idle
<1>3. PICK password \in Resolved, new \in ResolvedNew :
        LET answer == Answer(command.kind, command.calls, password, new)
        IN command' = IF answer = Idle THEN Idle
                      ELSE [phase |-> "writing", as |-> answer.as, under |-> answer.under,
                            text |-> command.text]
  BY DEF Compute
<1> DEFINE answer == Answer(command.kind, command.calls, password, new)
<1>4. CASE answer = Idle
  BY <1>1, <1>3, <1>4 DEF SecretsInv, CommandOK
<1>5. CASE answer # Idle
  <2>1. /\ answer.as \in Seq(CallType) /\ Texts(answer.as) = command.text
        /\ answer.under # None => SealedWith(answer.as, answer.under)
    BY <1>2, <1>5, PasswordsAre, AnswerIs DEF Reading
  <2>2. command' = [phase |-> "writing", as |-> answer.as, under |-> answer.under,
                    text |-> command.text]
    BY <1>3, <1>5
  <2> HIDE DEF answer
  <2>3. Writing'
    BY <2>1, <2>2 DEF Writing
  <2> QED BY <1>1, <2>2, <2>3 DEF SecretsInv, CommandOK
<1> QED BY <1>4, <1>5

\* The steps of write_atomic up to the rename touch the temporary file alone.
LEMMA TemporaryKeeps ==
  ASSUME SecretsInv, CreateTemporary \/ FillTemporary
  PROVE  SecretsInv'
<1>1. FileOK'
  BY DEF CreateTemporary, FillTemporary, SecretsInv, FileOK
<1>2. Writing
  BY DEF CreateTemporary, FillTemporary, SecretsInv, CommandOK, Idle
<1>3. CASE command' = Idle
  BY <1>1, <1>3 DEF SecretsInv, CommandOK
<1>4. CASE CreateTemporary /\ command' = [command EXCEPT !.phase = "filling"]
  <2>1. command' = [phase |-> "filling", as |-> command.as, under |-> command.under,
                    text |-> command.text]
    BY <1>2, <1>4 DEF Writing
  <2>2. Writing'
    BY <1>2, <2>1 DEF Writing
  <2> QED BY <1>1, <2>1, <2>2 DEF SecretsInv, CommandOK
<1>5. CASE FillTemporary /\ tmp' = Whole(command.as)
                         /\ command' = [command EXCEPT !.phase = "renaming"]
  <2>1. command' = [phase |-> "renaming", as |-> command.as, under |-> command.under,
                    text |-> command.text]
    BY <1>2, <1>5 DEF Writing
  <2>2. Writing'
    BY <1>2, <1>5, <2>1 DEF Writing
  <2> QED BY <1>1, <2>1, <2>2 DEF SecretsInv, CommandOK
<1> QED BY <1>3, <1>4, <1>5 DEF CreateTemporary, FillTemporary, CommandEnds

LEMMA RenameKeeps ==
  ASSUME SecretsInv, Rename
  PROVE  SecretsInv'
<1>1. command' = Idle
  BY DEF Rename, CommandEnds
<1>2. Writing /\ tmp = Whole(command.as)
  BY DEF Rename, SecretsInv, CommandOK, Idle, Writing
<1>3. CASE UNCHANGED << file, text, sealed >>
  BY <1>1, <1>3 DEF SecretsInv, FileOK, CommandOK
<1>4. CASE file' = tmp /\ text' = command.text /\ sealed' = command.under
  <2>1. file' = Whole(command.as) /\ file'.calls = command.as
    BY <1>2, <1>4 DEF Whole
  <2>2. FileOK'
    BY <1>2, <1>4, <2>1 DEF FileOK, Writing
  <2> QED BY <1>1, <2>2 DEF SecretsInv, CommandOK
<1> QED BY <1>3, <1>4 DEF Rename

LEMMA AuthorKeeps ==
  ASSUME SecretsInv, AuthorEdits
  PROVE  SecretsInv'
<1>1. PICK calls \in EditsOf(file.calls) : file' = Whole(calls) /\ text' = Texts(calls)
  BY DEF AuthorEdits
<1>2. calls \in Seq(CallType)
  BY <1>1, EditsAre DEF SecretsInv, FileOK
<1>3. file'.calls = calls /\ sealed' = None
  BY <1>1 DEF Whole, AuthorEdits
<1>4. FileOK'
  BY <1>1, <1>2, <1>3 DEF FileOK
<1>5. CommandOK'
  BY DEF AuthorEdits, SecretsInv, CommandOK, Reading, Writing
<1> QED BY <1>4, <1>5 DEF SecretsInv

LEMMA StepKeeps == SecretsInv /\ [Next]_vars => SecretsInv'
<1> SUFFICES ASSUME SecretsInv, [Next]_vars PROVE SecretsInv'
  OBVIOUS
<1>1. CASE UNCHANGED << file, tmp, text, sealed, command >>
  BY <1>1 DEF SecretsInv, FileOK, CommandOK, Reading, Writing
<1>2. CASE Killed
  BY <1>2 DEF Killed, CommandEnds, SecretsInv, FileOK, CommandOK
<1>3. StartRun \/ Unlock \/ Say \/ EndRun \/ UNCHANGED vars
      => UNCHANGED << file, tmp, text, sealed, command >>
  BY DEF StartRun, Unlock, Say, EndRun, vars
<1> QED
  BY <1>1, <1>2, <1>3, AuthorKeeps, OpenSessionKeeps, ComputeKeeps, TemporaryKeeps, RenameKeeps
  DEF Next

LEMMA Always == Spec => []SecretsInv
  BY Start, StepKeeps, PTL DEF Spec

(* --------------------------------------------------------- the theorems *)

\* Whatever fails or is killed while a command rewrites the secrets, the
\* playbook is whole and has every call and every value its author wrote.
THEOREM KeepsValues == Spec => []Intact
<1>1. SecretsInv => Intact
  <2>1. Whole(file.calls).whole
    BY DEF Whole
  <2> QED BY <2>1 DEF SecretsInv, FileOK, Intact
<1> QED BY <1>1, Always, PTL

\* After a command has reported success under a password, a run may start,
\* and all it has to open opens with that password.
THEOREM OpensAgain == Spec => []SealedOpens
<1>1. SecretsInv => SealedOpens
  <2> SUFFICES ASSUME SecretsInv, sealed # None
               PROVE  ValidateCalls(file.calls) /\ UnlockAll(file.calls, sealed)
    BY DEF SealedOpens
  <2> DEFINE spans == Spans(file.calls, "encrypted")
  <2>1. file.calls \in Seq(CallType) /\ SealedWith(file.calls, sealed)
    BY DEF SecretsInv, FileOK
  <2>2. ASSUME NEW n \in DOMAIN spans
        PROVE  Opens(At(file.calls, spans)[n], sealed)
    <3>1. spans[n] \in DOMAIN file.calls
      BY <2>1, SpansAre
    <3>2. At(file.calls, spans)[n] = file.calls[spans[n]]
      BY DEF At
    <3> QED BY <2>1, <3>1, <3>2 DEF SealedWith, Opens
  <2> QED BY <2>1, <2>2 DEF SealedWith, ValidateCalls, UnlockAll
<1> QED BY <1>1, Always, PTL

(* -------------------------------------------------------------- masking *)

IsText(v) == v \in Seq(Range(v))

LEMMA TextsAre == \A v \in CallValues : IsText(v) /\ Len(v) \in Nat
<1>1. IsText(<< >>)
  BY DEF IsText
<1>2. \A v \in Values : IsText(v)
  BY SecretsAssumption DEF IsText
<1>3. (CHOOSE v \in Values : TRUE) \in Values
  BY SecretsAssumption
<1>4. \A v : IsText(v) => Len(v) \in Nat
  BY DEF IsText
<1> QED BY <1>1, <1>2, <1>3, <1>4 DEF CallValues

\* A text that is not longer than another holds it only if it is that one.
LEMMA OccursOnlyInItself ==
  ASSUME NEW v, NEW t, IsText(v), IsText(t), Len(t) <= Len(v), Occurs(v, t)
  PROVE  v = t
<1>1. Len(v) \in Nat /\ Len(t) \in Nat /\ DOMAIN t = 1 .. Len(t)
  BY DEF IsText
<1>2. PICK i \in 1 .. Len(t) : StartsAt(v, t, i)
  BY <1>1 DEF Occurs
<1>3. i = 1 /\ Len(v) = Len(t) /\ SubSeq(t, 1, Len(t)) = v
  <2>1. i + Len(v) <= Len(t) + 1
    BY <1>2 DEF StartsAt
  <2>2. SubSeq(t, i, i + Len(v) - 1) = v
    BY <1>2 DEF StartsAt
  <2>3. i = 1
    BY <1>1, <2>1
  <2>4. Len(v) = Len(t) /\ i + Len(v) - 1 = Len(t)
    BY <1>1, <2>1, <2>3
  <2> QED BY <2>2, <2>3, <2>4
<1>4. SubSeq(t, 1, Len(t)) = t
  BY SubSeqFull DEF IsText
<1> QED BY <1>3, <1>4

LEMMA OccursInItself ==
  ASSUME NEW v, IsText(v), Long(v)
  PROVE  Occurs(v, v) /\ StartsAt(v, v, 1)
<1>1. Len(v) \in Nat /\ DOMAIN v = 1 .. Len(v) /\ Len(v) >= 4
  BY DEF IsText, Long, MinLen
<1>2. SubSeq(v, 1, Len(v)) = v
  BY SubSeqFull DEF IsText
<1>3. StartsAt(v, v, 1)
  <2>1. 1 + Len(v) - 1 = Len(v) /\ 1 + Len(v) <= Len(v) + 1
    BY <1>1
  <2> QED BY <1>2, <2>1 DEF StartsAt
<1> QED BY <1>1, <1>3 DEF Occurs

LEMMA MaskIsShort ==
  ASSUME NEW v, IsText(v), Long(v)
  PROVE  ~Occurs(v, Mask)
<1>1. Len(Mask) = 3 /\ Mask \in Seq(Range(Mask)) /\ Len(v) \in Nat /\ Len(v) >= 4
  BY DEF Mask, Range, Long, MinLen, IsText
<1> HIDE DEF Mask
<1>2. ASSUME Occurs(v, Mask) PROVE FALSE
  <2>1. IsText(Mask) /\ Len(Mask) <= Len(v)
    BY <1>1 DEF IsText
  <2>2. v = Mask
    BY <1>2, <2>1, OccursOnlyInItself
  <2>3. Len(v) = 3
    BY <1>1, <2>2
  <2> QED BY <1>1, <2>3
<1> QED BY <1>2

\* What is left of t from each position on: the local function of Masking.
MaskedFrom(from, v, t) ==
  from = [i \in 1 .. Len(t) + 1 |->
            IF i = Len(t) + 1 THEN << >>
            ELSE IF StartsAt(v, t, i) THEN Mask \o from[i + Len(v)]
            ELSE << t[i] >> \o from[i + 1]]

\* A text is masked whole.
LEMMA MasksWhole ==
  ASSUME NEW v, IsText(v), Long(v)
  PROVE  Masking(v, v) = Mask
<1> DEFINE n == Len(v)
           g == [i \in 1 .. n + 1 |-> IF i = 1 THEN Mask ELSE SubSeq(v, i, n)]
           f == CHOOSE from : MaskedFrom(from, v, v)
<1>1. n \in Nat /\ n >= 4 /\ v \in Seq(Range(v)) /\ DOMAIN v = 1 .. n
  BY DEF IsText, Long, MinLen
<1>2. StartsAt(v, v, 1) /\ \A i \in 2 .. n + 1 : ~StartsAt(v, v, i)
  <2>1. StartsAt(v, v, 1)
    BY OccursInItself
  <2>2. \A i \in 2 .. n + 1 : ~StartsAt(v, v, i)
    BY <1>1 DEF StartsAt
  <2> QED BY <2>1, <2>2
<1> HIDE DEF n
<1>3. Mask \o << >> = Mask
  BY DEF Mask
<1>4. MaskedFrom(g, v, v)
  <2>1. ASSUME NEW i \in 1 .. n + 1
        PROVE  g[i] = IF i = n + 1 THEN << >>
                      ELSE IF StartsAt(v, v, i) THEN Mask \o g[i + n] ELSE << v[i] >> \o g[i + 1]
    <3>1. g[n + 1] = << >>
      <4>1. n + 1 # 1 /\ n + 1 \in 1 .. n + 1
        BY <1>1
      <4>2. SubSeq(v, n + 1, n) = << >>
        BY <1>1
      <4> QED BY <4>1, <4>2
    <3>2. CASE i = 1
      <4>1. g[1] = Mask /\ 1 + n = n + 1 /\ 1 # n + 1
        BY <1>1
      <4> HIDE DEF g
      <4> QED BY <1>2, <1>3, <3>1, <3>2, <4>1
    <3>3. CASE i = n + 1
      BY <3>1, <3>3
    <3>4. CASE i \in 2 .. n
      <4>1. g[i] = SubSeq(v, i, n) /\ g[i + 1] = SubSeq(v, i + 1, n)
        BY <1>1, <3>4
      <4>2. << v[i] >> \o SubSeq(v, i + 1, n) = SubSeq(v, i, n)
        BY <1>1, <3>4
      <4>3. ~StartsAt(v, v, i) /\ i # n + 1
        BY <1>1, <1>2, <3>4
      <4> HIDE DEF g
      <4> QED BY <4>1, <4>2, <4>3
    <3> QED BY <1>1, <3>2, <3>3, <3>4
  <2>2. g = [i \in 1 .. n + 1 |-> g[i]]
    OBVIOUS
  <2> HIDE DEF g
  <2> QED BY <2>1, <2>2 DEF MaskedFrom, n
<1>5. MaskedFrom(f, v, v)
  <2> HIDE DEF g
  <2> QED BY <1>4
<1>6. Masking(v, v) = f[1]
  BY DEF Masking, MaskedFrom
<1> HIDE DEF f
<1>7. f[1] = Mask \o f[1 + n] /\ f[n + 1] = << >>
  BY <1>1, <1>2, <1>5 DEF MaskedFrom, n
<1>8. 1 + n = n + 1
  BY <1>1
<1> QED BY <1>3, <1>6, <1>7, <1>8

Secret == {v \in CallValues : Long(v)}

\* The registry holds secrets, the longest first.
Ordered(masked) ==
  /\ masked \in Seq(Secret)
  /\ \A i, j \in DOMAIN masked : i < j => Len(masked[i]) >= Len(masked[j])

LEMMA InsertedAt ==
  ASSUME NEW S, NEW s \in Seq(S), NEW e \in S, NEW at \in 1 .. Len(s) + 1
  PROVE  LET r == InsertAt(s, at, e)
         IN /\ r \in Seq(S) /\ Len(r) = Len(s) + 1
            /\ \A i \in 1 .. Len(s) + 1 :
                 r[i] = IF i < at THEN s[i] ELSE IF i = at THEN e ELSE s[i - 1]
<1> DEFINE a == SubSeq(s, 1, at - 1)
           b == SubSeq(s, at, Len(s))
           r == (a \o << e >>) \o b
<1>1. Len(s) \in Nat /\ DOMAIN s = 1 .. Len(s)
  OBVIOUS
<1>2. /\ a \in Seq(S) /\ Len(a) = at - 1 /\ \A i \in 1 .. at - 1 : a[i] = s[i]
      /\ b \in Seq(S) /\ Len(b) = Len(s) + 1 - at
      /\ \A i \in 1 .. Len(s) + 1 - at : b[i] = s[at + i - 1]
  OBVIOUS
<1> HIDE DEF a, b
<1> DEFINE c == a \o << e >>
<1>3. /\ c \in Seq(S) /\ Len(c) = at
      /\ \A i \in 1 .. at - 1 : c[i] = s[i]
      /\ c[at] = e
  <2>1. << e >> \in Seq(S) /\ Len(<< e >>) = 1 /\ << e >>[1] = e
    OBVIOUS
  <2>2. /\ c \in Seq(S) /\ Len(c) = Len(a) + 1
        /\ \A i \in 1 .. Len(a) + 1 :
             c[i] = IF i <= Len(a) THEN a[i] ELSE << e >>[i - Len(a)]
    BY <1>2, <2>1, ConcatProperties
  <2> HIDE DEF c
  <2>3. Len(a) = at - 1 /\ Len(c) = at
    BY <1>1, <1>2, <2>2
  <2>4. c[at] = << e >>[1]
    BY <1>1, <2>2, <2>3
  <2>5. \A i \in 1 .. at - 1 : c[i] = a[i]
    BY <1>1, <2>2, <2>3
  <2> QED BY <1>2, <2>1, <2>2, <2>3, <2>4, <2>5
<1> HIDE DEF c
<1>4. /\ c \o b \in Seq(S) /\ Len(c \o b) = Len(s) + 1
      /\ \A i \in 1 .. Len(s) + 1 : (c \o b)[i] = IF i <= at THEN c[i] ELSE b[i - at]
  <2>1. /\ c \o b \in Seq(S) /\ Len(c \o b) = Len(c) + Len(b)
        /\ \A i \in 1 .. Len(c) + Len(b) :
             (c \o b)[i] = IF i <= Len(c) THEN c[i] ELSE b[i - Len(c)]
    BY <1>2, <1>3, ConcatProperties
  <2>2. Len(c) = at /\ Len(c) + Len(b) = Len(s) + 1
    BY <1>1, <1>2, <1>3
  <2> QED BY <2>1, <2>2
<1>5. \A i \in 1 .. Len(s) + 1 : i > at => b[i - at] = s[i - 1]
  BY <1>1, <1>2
<1>6. InsertAt(s, at, e) = c \o b
  BY DEF InsertAt, a, b, c
<1>7. ASSUME NEW i \in 1 .. Len(s) + 1
      PROVE  (c \o b)[i] = IF i < at THEN s[i] ELSE IF i = at THEN e ELSE s[i - 1]
  <2>1. CASE i < at
    BY <1>1, <1>3, <1>4, <2>1
  <2>2. CASE i = at
    BY <1>1, <1>3, <1>4, <2>2
  <2>3. CASE i > at
    BY <1>1, <1>4, <1>5, <2>3
  <2>4. i < at \/ i = at \/ i > at
    BY <1>1
  <2> QED BY <2>1, <2>2, <2>3, <2>4
<1> QED BY <1>4, <1>6, <1>7

\* register keeps what there was and the order, and takes in a long value.
LEMMA RegisterIs ==
  ASSUME NEW masked, Ordered(masked), NEW value \in CallValues
  PROVE  /\ Ordered(Register(masked, value))
         /\ Range(masked) \subseteq Range(Register(masked, value))
         /\ Long(value) => value \in Range(Register(masked, value))
<1>1. masked \in Seq(Secret) /\ Len(masked) \in Nat /\ DOMAIN masked = 1 .. Len(masked)
  BY DEF Ordered
<1>2. CASE ~Long(value)
  BY <1>2 DEF Register
<1>3. CASE Contains(masked, value)
  <2>1. value \in Range(masked) /\ Register(masked, value) = masked
    BY <1>1, <1>3 DEF Contains, Range, Register
  <2> QED BY <2>1
<1>4. CASE Long(value) /\ ~Contains(masked, value)
  <2> DEFINE shorter == {n \in DOMAIN masked : Len(masked[n]) < Len(value)}
             ends == shorter \cup {Len(masked) + 1}
             at == Min(ends)
             r == InsertAt(masked, at, value)
  <2>1. Register(masked, value) = r
    BY <1>4 DEF Register
  <2>2. ends \subseteq 1 .. Len(masked) + 1 /\ ends \in SUBSET Nat /\ ends # {}
    BY <1>1
  <2>3. at \in ends /\ \A n \in ends : at <= n
    <3> HIDE DEF ends
    <3>1. PICK n \in ends : \A m \in ends : ~(m < n)
      BY <2>2, LeastOf
    <3>2. \A m \in ends : n <= m
      BY <2>2, <3>1
    <3> QED BY <3>1, <3>2 DEF Min
  <2>4. at \in 1 .. Len(masked) + 1
    BY <2>2, <2>3
  <2>5. value \in Secret
    BY <1>4 DEF Secret
  <2>6. /\ r \in Seq(Secret) /\ Len(r) = Len(masked) + 1
        /\ \A i \in 1 .. Len(masked) + 1 :
             r[i] = IF i < at THEN masked[i] ELSE IF i = at THEN value ELSE masked[i - 1]
    <3> HIDE DEF at
    <3> QED BY <1>1, <2>4, <2>5, InsertedAt
  <2>7. \A i \in DOMAIN masked : Len(masked[i]) \in Nat
    BY <1>1, TextsAre DEF Secret
  <2>8. Len(value) \in Nat
    BY TextsAre
  <2>9. \A i \in DOMAIN masked : i < at => Len(masked[i]) >= Len(value)
    <3> SUFFICES ASSUME NEW i \in DOMAIN masked, i < at, Len(masked[i]) < Len(value) PROVE FALSE
      BY <2>7, <2>8
    <3>1. i \in ends
      OBVIOUS
    <3>2. at <= i
      BY <2>3, <3>1
    <3> HIDE DEF at
    <3> QED BY <1>1, <2>4, <3>2
  <2>10. \A i \in DOMAIN masked : i >= at => Len(masked[i]) < Len(value)
    <3> SUFFICES ASSUME NEW i \in DOMAIN masked, i >= at PROVE Len(masked[i]) < Len(value)
      OBVIOUS
    <3>1. at \in DOMAIN masked
      <4> HIDE DEF at
      <4> QED BY <1>1, <2>4
    <3>2. Len(masked[at]) < Len(value)
      <4>1. at # Len(masked) + 1
        <5> HIDE DEF at
        <5> QED BY <1>1, <3>1
      <4>2. at \in shorter
        <5> HIDE DEF at, shorter
        <5> QED BY <2>3, <4>1
      <4> QED BY <4>2
    <3> HIDE DEF at
    <3>3. at = i \/ at < i
      BY <1>1, <2>4
    <3>4. Len(masked[i]) <= Len(masked[at])
      BY <2>7, <3>1, <3>3 DEF Ordered
    <3> QED BY <2>7, <2>8, <3>1, <3>2, <3>4
  <2> HIDE DEF r, at, ends, shorter
  <2>11. DOMAIN r = 1 .. Len(masked) + 1
    BY <2>6
  <2>12. Ordered(r)
    <3> SUFFICES ASSUME NEW i \in DOMAIN r, NEW j \in DOMAIN r, i < j
                 PROVE  Len(r[i]) >= Len(r[j])
      BY <2>6 DEF Ordered
    <3>1. CASE j < at
      <4>1. i \in DOMAIN masked /\ j \in DOMAIN masked /\ r[i] = masked[i] /\ r[j] = masked[j]
        BY <1>1, <2>4, <2>6, <2>11, <3>1
      <4> QED BY <4>1 DEF Ordered
    <3>2. CASE j = at
      <4>1. i \in DOMAIN masked /\ r[i] = masked[i] /\ r[j] = value /\ i < at
        BY <1>1, <2>4, <2>6, <2>11, <3>2
      <4> QED BY <2>9, <4>1
    <3>3. CASE j > at
      <4>1. j - 1 \in DOMAIN masked /\ r[j] = masked[j - 1] /\ j - 1 >= at
        BY <1>1, <2>4, <2>6, <2>11, <3>3
      <4>2. Len(masked[j - 1]) < Len(value)
        BY <2>10, <4>1
      <4>3. CASE i < at
        <5>1. i \in DOMAIN masked /\ r[i] = masked[i] /\ i < j - 1
          BY <1>1, <2>4, <2>6, <2>11, <3>3, <4>3
        <5> QED BY <4>1, <5>1 DEF Ordered
      <4>4. CASE i = at
        <5>1. r[i] = value
          BY <2>6, <2>11, <4>4
        <5> QED BY <2>7, <2>8, <4>1, <4>2, <5>1
      <4>5. CASE i > at
        <5>1. i - 1 \in DOMAIN masked /\ r[i] = masked[i - 1] /\ i - 1 < j - 1
          BY <1>1, <2>4, <2>6, <2>11, <4>5
        <5> QED BY <4>1, <5>1 DEF Ordered
      <4> QED BY <1>1, <2>4, <2>11, <4>3, <4>4, <4>5
    <3> QED BY <1>1, <2>4, <2>11, <3>1, <3>2, <3>3
  <2>13. ASSUME NEW x \in Range(masked) PROVE x \in Range(r)
    <3>1. PICK i \in DOMAIN masked : x = masked[i]
      BY DEF Range
    <3>2. CASE i < at
      <4>1. i \in DOMAIN r /\ r[i] = x
        BY <1>1, <2>4, <2>6, <2>11, <3>1, <3>2
      <4> QED BY <4>1 DEF Range
    <3>3. CASE i >= at
      <4>1. i + 1 \in DOMAIN r /\ i + 1 > at /\ (i + 1) - 1 = i
        BY <1>1, <2>4, <2>11, <3>3
      <4>2. r[i + 1] = x
        BY <1>1, <2>4, <2>6, <2>11, <3>1, <4>1
      <4> QED BY <4>1, <4>2 DEF Range
    <3> QED BY <1>1, <2>4, <3>2, <3>3
  <2>14. value \in Range(r)
    <3>1. at \in DOMAIN r /\ r[at] = value
      BY <2>4, <2>6, <2>11
    <3> QED BY <3>1 DEF Range
  <2> QED BY <2>1, <2>12, <2>13, <2>14
<1> QED BY <1>2, <1>3, <1>4

\* The registries after each of the first N values: the local function of
\* RegisterAll.
RegisteredUpTo(after, masked, values, N) ==
  after = [n \in 0 .. N |-> IF n = 0 THEN masked ELSE Register(after[n - 1], values[n])]

LEMMA RegisteredByStep ==
  ASSUME NEW masked, NEW values, NEW N \in Nat
  PROVE  \E after : RegisteredUpTo(after, masked, values, N)
<1> DEFINE Missing == {n \in Nat : ~ \E after : RegisteredUpTo(after, masked, values, n)}
<1> SUFFICES ASSUME Missing # {} PROVE FALSE
  OBVIOUS
<1>1. PICK n \in Missing : \A m \in Missing : ~(m < n)
  <2>1. Missing \in SUBSET Nat
    OBVIOUS
  <2> HIDE DEF Missing
  <2> QED BY <2>1, LeastOf
<1>2. CASE n = 0
  <2>1. RegisteredUpTo([k \in 0 .. 0 |-> masked], masked, values, 0)
    BY DEF RegisteredUpTo
  <2> QED BY <1>1, <1>2, <2>1
<1>3. CASE n # 0
  <2>1. n - 1 \in Nat /\ n - 1 < n /\ n \in Nat
    BY <1>1, <1>3
  <2>2. PICK f : RegisteredUpTo(f, masked, values, n - 1)
    BY <1>1, <2>1
  <2> DEFINE g == [k \in 0 .. n |-> IF k = n THEN Register(f[n - 1], values[n]) ELSE f[k]]
  <2>3. \A k \in 0 .. n - 1 : f[k] = IF k = 0 THEN masked ELSE Register(f[k - 1], values[k])
    BY <2>2 DEF RegisteredUpTo
  <2>4. ASSUME NEW k \in 0 .. n
        PROVE  g[k] = IF k = 0 THEN masked ELSE Register(g[k - 1], values[k])
    <3>1. CASE k = n
      <4>1. g[n] = Register(f[n - 1], values[n]) /\ g[n - 1] = f[n - 1]
        BY <1>3, <2>1
      <4> HIDE DEF g
      <4> QED BY <1>3, <3>1, <4>1
    <3>2. CASE k # n
      <4>1. k \in 0 .. n - 1 /\ g[k] = f[k]
        BY <2>1, <3>2
      <4>2. k # 0 => g[k - 1] = f[k - 1]
        BY <2>1, <4>1
      <4> HIDE DEF g
      <4> QED BY <2>3, <4>1, <4>2
    <3> QED BY <3>1, <3>2
  <2>5. g = [k \in 0 .. n |-> g[k]]
    OBVIOUS
  <2> HIDE DEF g
  <2>6. RegisteredUpTo(g, masked, values, n)
    BY <2>4, <2>5 DEF RegisteredUpTo
  <2> QED BY <1>1, <2>6
<1> QED BY <1>2, <1>3

\* All the long values are registered, and what was stays.
LEMMA RegisterAllIs ==
  ASSUME NEW masked, Ordered(masked), NEW values \in Seq(CallValues)
  PROVE  LET r == RegisterAll(masked, values)
         IN /\ Ordered(r) /\ Range(masked) \subseteq Range(r)
            /\ \A v \in Range(values) : Long(v) => v \in Range(r)
<1> DEFINE f == CHOOSE after : RegisteredUpTo(after, masked, values, Len(values))
           Good(n) == /\ Ordered(f[n]) /\ Range(masked) \subseteq Range(f[n])
                      /\ \A i \in 1 .. n : Long(values[i]) => values[i] \in Range(f[n])
           Wrong == {n \in 0 .. Len(values) : ~Good(n)}
<1>1. DOMAIN values = 1 .. Len(values) /\ Len(values) \in Nat
  OBVIOUS
<1>2. RegisterAll(masked, values) = f[Len(values)]
  BY DEF RegisterAll, RegisteredUpTo
<1>3. RegisteredUpTo(f, masked, values, Len(values))
  BY <1>1, RegisteredByStep
<1> HIDE DEF f
<1>4. \A n \in 0 .. Len(values) :
        f[n] = IF n = 0 THEN masked ELSE Register(f[n - 1], values[n])
  BY <1>3 DEF RegisteredUpTo
<1>5. ASSUME Wrong # {} PROVE FALSE
  <2>1. PICK n \in Wrong : \A m \in Wrong : ~(m < n)
    <3>1. Wrong \in SUBSET Nat
      OBVIOUS
    <3> HIDE DEF Wrong
    <3> QED BY <1>5, <3>1, LeastOf
  <2>2. n # 0
    <3>1. f[0] = masked
      BY <1>1, <1>4
    <3>2. Good(0)
      BY <3>1
    <3> HIDE DEF Good
    <3> QED BY <2>1, <3>2
  <2>3. n \in 1 .. Len(values) /\ n - 1 \in 0 .. Len(values) /\ n - 1 < n
    BY <1>1, <2>1, <2>2
  <2>4. Good(n - 1)
    <3> HIDE DEF Good
    <3> QED BY <2>1, <2>3
  <2>5. f[n] = Register(f[n - 1], values[n]) /\ values[n] \in CallValues
    BY <1>1, <1>4, <2>2, <2>3
  <2>6. /\ Ordered(f[n]) /\ Range(f[n - 1]) \subseteq Range(f[n])
        /\ Long(values[n]) => values[n] \in Range(f[n])
    BY <2>4, <2>5, RegisterIs
  <2>7. \A i \in 1 .. n : i = n \/ i \in 1 .. n - 1
    BY <2>3
  <2>8. Good(n)
    BY <2>4, <2>6, <2>7
  <2> HIDE DEF Good
  <2> QED BY <2>1, <2>8
<1>6. Good(Len(values))
  <2>1. Len(values) \in 0 .. Len(values)
    BY <1>1
  <2> HIDE DEF Good
  <2> QED BY <1>5, <2>1
<1> QED BY <1>1, <1>2, <1>6 DEF Range

\* What is left after each of the first N secrets: the local function of Scrub.
MaskedOf(v, t) == IF Occurs(v, t) THEN Masking(v, t) ELSE t

ScrubbedUpTo(after, masked, said, N) ==
  after = [n \in 0 .. N |-> IF n = 0 THEN said ELSE MaskedOf(masked[n], after[n - 1])]

LEMMA ScrubbedByStep ==
  ASSUME NEW masked, NEW said, NEW N \in Nat
  PROVE  \E after : ScrubbedUpTo(after, masked, said, N)
<1> DEFINE Missing == {n \in Nat : ~ \E after : ScrubbedUpTo(after, masked, said, n)}
<1> SUFFICES ASSUME Missing # {} PROVE FALSE
  OBVIOUS
<1>1. PICK n \in Missing : \A m \in Missing : ~(m < n)
  <2>1. Missing \in SUBSET Nat
    OBVIOUS
  <2> HIDE DEF Missing
  <2> QED BY <2>1, LeastOf
<1>2. CASE n = 0
  <2>1. ScrubbedUpTo([k \in 0 .. 0 |-> said], masked, said, 0)
    BY DEF ScrubbedUpTo
  <2> QED BY <1>1, <1>2, <2>1
<1>3. CASE n # 0
  <2>1. n - 1 \in Nat /\ n - 1 < n /\ n \in Nat
    BY <1>1, <1>3
  <2>2. PICK f : ScrubbedUpTo(f, masked, said, n - 1)
    BY <1>1, <2>1
  <2> DEFINE g == [k \in 0 .. n |-> IF k = n THEN MaskedOf(masked[n], f[n - 1]) ELSE f[k]]
  <2>3. \A k \in 0 .. n - 1 : f[k] = IF k = 0 THEN said ELSE MaskedOf(masked[k], f[k - 1])
    BY <2>2 DEF ScrubbedUpTo
  <2>4. ASSUME NEW k \in 0 .. n
        PROVE  g[k] = IF k = 0 THEN said ELSE MaskedOf(masked[k], g[k - 1])
    <3>1. CASE k = n
      <4>1. g[n] = MaskedOf(masked[n], f[n - 1]) /\ g[n - 1] = f[n - 1]
        BY <1>3, <2>1
      <4> HIDE DEF g
      <4> QED BY <1>3, <3>1, <4>1
    <3>2. CASE k # n
      <4>1. k \in 0 .. n - 1 /\ g[k] = f[k]
        BY <2>1, <3>2
      <4>2. k # 0 => g[k - 1] = f[k - 1]
        BY <2>1, <4>1
      <4> HIDE DEF g
      <4> QED BY <2>3, <4>1, <4>2
    <3> QED BY <3>1, <3>2
  <2>5. g = [k \in 0 .. n |-> g[k]]
    OBVIOUS
  <2> HIDE DEF g
  <2>6. ScrubbedUpTo(g, masked, said, n)
    BY <2>4, <2>5 DEF ScrubbedUpTo
  <2> QED BY <1>1, <2>6
<1> QED BY <1>2, <1>3

\* A registered value comes out as the mask: those before it in the registry
\* are as long or longer and do not occur in it, and the mask is too short
\* for those after it.
LEMMA ScrubMasks ==
  ASSUME NEW masked, Ordered(masked), NEW v \in Range(masked)
  PROVE  Scrub(masked, v) = Mask
<1> DEFINE f == CHOOSE after : ScrubbedUpTo(after, masked, v, Len(masked))
           Met(n) == \E i \in 1 .. n : masked[i] = v
           Good(n) == f[n] = IF Met(n) THEN Mask ELSE v
           Wrong == {n \in 0 .. Len(masked) : ~Good(n)}
<1>1. /\ masked \in Seq(Secret) /\ DOMAIN masked = 1 .. Len(masked) /\ Len(masked) \in Nat
  BY DEF Ordered
<1>2. \A w \in Secret : IsText(w) /\ Long(w) /\ Len(w) \in Nat
  BY TextsAre DEF Secret
<1>3. v \in Secret /\ \E m \in 1 .. Len(masked) : masked[m] = v
  BY <1>1 DEF Range
<1>4. Scrub(masked, v) = f[Len(masked)]
  BY DEF Scrub, ScrubbedUpTo, MaskedOf
<1>5. ScrubbedUpTo(f, masked, v, Len(masked))
  BY <1>1, ScrubbedByStep
<1> HIDE DEF f
<1>6. \A n \in 0 .. Len(masked) :
        f[n] = IF n = 0 THEN v ELSE MaskedOf(masked[n], f[n - 1])
  BY <1>5 DEF ScrubbedUpTo
<1>7. ASSUME Wrong # {} PROVE FALSE
  <2>1. PICK n \in Wrong : \A m \in Wrong : ~(m < n)
    <3>1. Wrong \in SUBSET Nat
      OBVIOUS
    <3> HIDE DEF Wrong
    <3> QED BY <1>7, <3>1, LeastOf
  <2>2. n # 0
    <3>1. f[0] = v /\ ~Met(0)
      BY <1>1, <1>6
    <3>2. Good(0)
      BY <3>1
    <3> HIDE DEF Good
    <3> QED BY <2>1, <3>2
  <2>3. n \in 1 .. Len(masked) /\ n - 1 \in 0 .. Len(masked) /\ n - 1 < n
    BY <1>1, <2>1, <2>2
  <2>4. Good(n - 1)
    <3> HIDE DEF Good
    <3> QED BY <2>1, <2>3
  <2> DEFINE w == masked[n]
  <2>5. f[n] = MaskedOf(w, f[n - 1]) /\ w \in Secret /\ IsText(w) /\ Long(w) /\ Len(w) \in Nat
    BY <1>1, <1>2, <1>6, <2>2, <2>3
  <2>6. Met(n) <=> Met(n - 1) \/ w = v
    <3>1. \A i \in 1 .. n : i = n \/ i \in 1 .. n - 1
      BY <2>3
    <3>2. (1 .. n - 1) \subseteq 1 .. n /\ n \in 1 .. n
      BY <2>3
    <3> QED BY <3>1, <3>2
  <2>7. CASE Met(n - 1)
    <3>1. f[n - 1] = Mask /\ ~Occurs(w, Mask)
      BY <2>4, <2>5, <2>7, MaskIsShort
    <3>2. f[n] = Mask
      BY <2>5, <3>1 DEF MaskedOf
    <3> HIDE DEF Met
    <3> QED BY <2>1, <2>6, <2>7, <3>2
  <2>8. CASE ~Met(n - 1) /\ w = v
    <3>1. f[n - 1] = v
      BY <2>4, <2>8
    <3>2. Occurs(v, v) /\ Masking(v, v) = Mask
      BY <1>2, <1>3, OccursInItself, MasksWhole
    <3>3. f[n] = Mask
      BY <2>5, <2>8, <3>1, <3>2 DEF MaskedOf
    <3> HIDE DEF Met
    <3> QED BY <2>1, <2>6, <2>8, <3>3
  <2>9. CASE ~Met(n - 1) /\ w # v
    <3>1. f[n - 1] = v
      BY <2>4, <2>9
    <3>2. PICK m \in 1 .. Len(masked) : masked[m] = v
      BY <1>3
    <3>3. n < m
      <4>1. m \notin 1 .. n - 1 /\ m # n
        BY <2>9, <3>2
      <4> QED BY <2>3, <4>1
    <3>4. Len(v) <= Len(w)
      <4>1. Len(w) >= Len(masked[m])
        BY <1>1, <2>3, <3>3 DEF Ordered
      <4> QED BY <1>2, <1>3, <2>5, <3>2, <4>1
    <3>5. ~Occurs(w, v)
      BY <1>2, <1>3, <2>5, <2>9, <3>4, OccursOnlyInItself
    <3>6. f[n] = v
      BY <2>5, <3>1, <3>5 DEF MaskedOf
    <3> HIDE DEF Met
    <3> QED BY <2>1, <2>6, <2>9, <3>6
  <2> QED BY <2>7, <2>8, <2>9
<1>8. Good(Len(masked))
  <2>1. Len(masked) \in 0 .. Len(masked)
    BY <1>1
  <2> HIDE DEF Good
  <2> QED BY <1>7, <2>1
<1> QED BY <1>3, <1>4, <1>8

(* -------------------------------------------------------------- the runs *)

\* What a run was given in secret is in the registry from the moment it has
\* it, and a step cannot say anything else.
RunInv ==
  /\ Ordered(registry)
  /\ run.phase = "unlocking" => run.calls \in Seq(CallType)
  /\ run.phase \in {"unlocking", "running"} =>
       \A v \in run.values : Long(v) => v \in Range(registry)
  /\ Masked

LEMMA NothingRegistered == Ordered(<< >>) /\ Idle.phase = "idle"
<1>1. << >> \in Seq(Secret) /\ DOMAIN << >> = {}
  OBVIOUS
<1> QED BY <1>1 DEF Ordered, Idle

LEMMA TextsOf ==
  ASSUME NEW calls \in Seq(CallType)
  PROVE  Texts(calls) \in Seq(CallValues)
<1>1. \A i \in DOMAIN calls : calls[i] \in CallType
  OBVIOUS
<1>2. \A c \in CallType : c.value \in CallValues
  BY DEF CallType
<1>3. Texts(calls) \in [1 .. Len(calls) -> CallValues]
  BY <1>1, <1>2 DEF Texts
<1>4. Len(calls) \in Nat
  OBVIOUS
<1> QED BY <1>3, <1>4

LEMMA StartRunKeeps ==
  ASSUME SecretsInv, RunInv, StartRun
  PROVE  RunInv'
<1>1. PICK secretVars \in UNION {[1 .. n -> Values] : n \in 0 .. MaxSecretVars} :
        /\ run' = [phase |-> "unlocking", calls |-> file.calls, values |-> Range(secretVars)]
        /\ registry' = RegisterAll(<< >>, secretVars)
  BY DEF StartRun
<1>2. secretVars \in Seq(CallValues)
  <2>1. PICK n \in 0 .. MaxSecretVars : secretVars \in [1 .. n -> Values]
    BY <1>1
  <2>2. n \in Nat
    BY <2>1, SecretsAssumption
  <2>3. secretVars \in [1 .. n -> CallValues]
    BY <2>1 DEF CallValues
  <2> QED BY <2>2, <2>3
<1>3. Ordered(registry') /\ \A v \in Range(secretVars) : Long(v) => v \in Range(registry')
  BY <1>1, <1>2, NothingRegistered, RegisterAllIs
<1>4. run'.phase = "unlocking" /\ run'.calls = file.calls /\ run'.values = Range(secretVars)
  BY <1>1
<1>5. file.calls \in Seq(CallType)
  BY DEF SecretsInv, FileOK
<1>6. Masked'
  BY DEF StartRun, Masked
<1> QED BY <1>3, <1>4, <1>5, <1>6 DEF RunInv

LEMMA UnlockKeeps ==
  ASSUME RunInv, Unlock
  PROVE  RunInv'
<1>1. run.phase = "unlocking" /\ shown' = shown
  BY DEF Unlock
<1>2. Masked'
  BY <1>1 DEF RunInv, Masked
<1>3. CASE run' = Idle /\ registry' = << >>
  BY <1>2, <1>3, NothingRegistered DEF RunInv
<1>4. CASE /\ run' = [phase |-> "running", values |-> run.values \cup Range(Texts(run.calls))]
           /\ registry' = RegisterAll(registry, Texts(run.calls))
  <2>1. Texts(run.calls) \in Seq(CallValues)
    BY <1>1, TextsOf DEF RunInv
  <2>2. /\ Ordered(registry') /\ Range(registry) \subseteq Range(registry')
        /\ \A v \in Range(Texts(run.calls)) : Long(v) => v \in Range(registry')
    BY <1>4, <2>1, RegisterAllIs DEF RunInv
  <2>3. run'.phase = "running" /\ run'.values = run.values \cup Range(Texts(run.calls))
    BY <1>4
  <2>4. \A v \in run'.values : Long(v) => v \in Range(registry')
    BY <1>1, <2>2, <2>3 DEF RunInv
  <2> QED BY <1>2, <2>2, <2>3, <2>4 DEF RunInv
<1> QED BY <1>3, <1>4 DEF Unlock

LEMMA SayKeeps ==
  ASSUME RunInv, Say
  PROVE  RunInv'
<1>1. run' = run /\ registry' = registry /\ run.phase = "running"
  BY DEF Say
<1>2. PICK v \in run.values : shown' = shown \cup {[meant |-> v, text |-> Scrub(registry, v)]}
  BY DEF Say
<1>3. Long(v) => Scrub(registry, v) = Mask
  BY <1>1, <1>2, ScrubMasks DEF RunInv
<1>4. Masked'
  <2> SUFFICES ASSUME NEW s \in shown', Long(s.meant) PROVE s.text = Mask
    BY DEF Masked
  <2>1. CASE s \in shown
    BY <2>1 DEF RunInv, Masked
  <2>2. CASE s = [meant |-> v, text |-> Scrub(registry, v)]
    <3>1. s.meant = v /\ s.text = Scrub(registry, v)
      BY <2>2
    <3> QED BY <1>3, <3>1
  <2> QED BY <1>2, <2>1, <2>2
<1> QED BY <1>1, <1>4 DEF RunInv

LEMMA RunStepKeeps == SecretsInv /\ RunInv /\ [Next]_vars => RunInv'
<1> SUFFICES ASSUME SecretsInv, RunInv, [Next]_vars PROVE RunInv'
  OBVIOUS
<1>1. CASE UNCHANGED << run, registry, shown >>
  BY <1>1 DEF RunInv, Masked
<1>2. CASE EndRun
  <2>1. run' = Idle /\ registry' = << >> /\ shown' = shown
    BY <1>2 DEF EndRun
  <2> QED BY <2>1, NothingRegistered DEF RunInv, Masked
<1>3. AuthorEdits \/ Compute \/ CreateTemporary \/ FillTemporary \/ Rename \/ Killed
        \/ UNCHANGED vars
      => UNCHANGED << run, registry, shown >>
  BY DEF AuthorEdits, Compute, CreateTemporary, FillTemporary, Rename, Killed, vars
<1>4. (\E kind \in {"encrypt", "decrypt", "rekey"} : OpenSession(kind))
      => UNCHANGED << run, registry, shown >>
  BY DEF OpenSession
<1> QED BY <1>1, <1>2, <1>3, <1>4, StartRunKeeps, UnlockKeeps, SayKeeps DEF Next

\* Whatever values a playbook and a variable file hold, one inside another or
\* not, and in whatever order they are registered: what a run was given in
\* secret comes out of it as the mask. The order of redact.rs's registry is
\* what this rests on.
THEOREM ComesOutMasked == Spec => []Masked
<1>1. Init => RunInv
  <2> SUFFICES ASSUME Init PROVE RunInv
    OBVIOUS
  <2>1. run = Idle /\ registry = << >> /\ shown = {}
    BY DEF Init
  <2> QED BY <2>1, NothingRegistered DEF RunInv, Masked
<1>2. RunInv => Masked
  BY DEF RunInv
<1> QED BY <1>1, <1>2, RunStepKeeps, Always, PTL DEF Spec
=============================================================================
