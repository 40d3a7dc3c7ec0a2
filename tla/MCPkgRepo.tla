----------------------------- MODULE MCPkgRepo -----------------------------
(***************************************************************************)
(* Small worlds for TLC: two repositories that hold the same package and   *)
(* then stop; two packages of one repository that gains commits and loses  *)
(* one of them; one name registered with one url, then with another.       *)
(***************************************************************************)
EXTENDS PkgRepo

CONSTANTS a, b, u, v, p, q

A == [name |-> a, url |-> u]
B == [name |-> b, url |-> v]
Moved == [name |-> a, url |-> v]

WorldOf(seed, known, ofU, ofV) ==
  [seed |-> seed, known |-> known, holds |-> [x \in Urls |-> IF x = u THEN ofU ELSE ofV]]

MCWorlds ==
  {WorldOf(A, {A, B}, <<{p}, {}>>, <<{p}, {p}>>),
   WorldOf(A, {A}, <<{p, q}, {p, q}, {p}>>, <<{}>>),
   WorldOf(A, {A, Moved}, <<{p}, {p}>>, <<{p}, {p}>>)}
=============================================================================
