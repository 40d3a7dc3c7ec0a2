------------------------------- MODULE Sorted -------------------------------
(***************************************************************************)
(* Sequences in ascending order, by rank.                                  *)
(***************************************************************************)
EXTENDS Naturals, FiniteSets, Functions

\* How many of the values of f, each as often as f has it, are up to v.
UpTo(f, v) == Cardinality({i \in DOMAIN f : f[i] <= v})

\* The values of f, each as often as f has it, in ascending order: the n-th
\* is the least with n values up to it.
Sorted(f) ==
  [n \in 1 .. Cardinality(DOMAIN f) |->
     CHOOSE v \in Range(f) : n <= UpTo(f, v) /\ \A w \in Range(f) : n <= UpTo(f, w) => v <= w]

\* The members of a set in ascending order.
Ascending(S) == Sorted([x \in S |-> x])
=============================================================================
