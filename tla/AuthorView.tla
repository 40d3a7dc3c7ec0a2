----------------------------- MODULE AuthorView -----------------------------
(***************************************************************************)
(* What a play means to the person who wrote it, stated on the tree of its *)
(* blocks and without the paths, frames and caches the program works with. *)
(* A leaf is a step that runs: the containers around it, and the chain of  *)
(* blocks from the one declared in the playbook to the step itself.        *)
(***************************************************************************)
EXTENDS Planner

\* A link of a chain: a block, where it stands among its siblings, and what
\* it names once its owner is known.
Link(at, s, target) == [at |-> at, block |-> s, target |-> target]

\* A leaf on the way down: each invocation at the end of a chain goes on with
\* the blocks of its body.
GoOn(pb, leaf) ==
  LET last == Last(leaf.chain)
      body == Declared(pb, "composites", last.target).steps
  IN IF ~IsInvocation(pb, last.block, last.target) THEN << leaf >>
     ELSE [i \in DOMAIN body |->
             [leaf EXCEPT !.chain =
                Append(leaf.chain, Link(i, body[i], Resolved(Target(body[i]), last.target.pkg)))]]

GoOnOnce(pb, leaves) == FlattenSeq([i \in DOMAIN leaves |-> GoOn(pb, leaves[i])])

Below(pb, leaves) ==
  LET below[n \in 0 .. MaxCompositeDepth] ==
        IF n = 0 THEN leaves ELSE GoOnOnce(pb, below[n - 1])
  IN below[MaxCompositeDepth]

\* The leaves of a play. A block of the playbook stands at its place among
\* all of them, a block of a composite at its place in the body.
Leaves(pb, play) ==
  LET rows == StepRows(play.items)
      link(i) == Link(i, rows[i].block, Target(rows[i].block))
  IN Below(pb, [i \in DOMAIN rows |-> [containers |-> rows[i].within, chain |-> << link(i) >>]])

(* ------------------------------------------------------------ dependencies *)

\* Two leaves part at a link: up to there they are in the same invocations.
PartAt(a, b, d) ==
  /\ d <= Len(a.chain) /\ d <= Len(b.chain)
  /\ \A e \in 1 .. d - 1 : a.chain[e].at = b.chain[e].at
  /\ a.chain[d].at # b.chain[d].at

\* A leaf waits for another when, where they part, the block it is under
\* requires the block the other is under.
WaitsFor(a, b) ==
  \E d \in 1 .. Len(a.chain) :
    PartAt(a, b, d) /\ b.chain[d].block.name \in a.chain[d].block.requires

(* ------------------------------------------------------------------ plans *)

\* The scope a link is evaluated in, and the arguments it makes for its body.
ArgsOf(pb, scope, leaf, depth) ==
  LET decl(d) == Declared(pb, "composites", leaf.chain[d].target)
      args[d \in 1 .. depth] ==
        IF d = 1 THEN InvocationArgs(leaf.chain[1].block, decl(1).params, scope)
        ELSE LET outer == args[d - 1]
             IN IF outer.r # "args" THEN outer
                ELSE InvocationArgs(leaf.chain[d].block, decl(d).params, CompositeScope(outer.v))
  IN args[depth]

\* The first container whose condition is not true decides; then the first
\* invocation without arguments; then the step itself.
MeantPlan(pb, scope, step, leaf) ==
  LET verdict(i) == Condition(leaf.containers[i].condition, scope)
      closed == {i \in DOMAIN leaf.containers : verdict(i) # "true"}
      first  == CHOOSE i \in closed : \A j \in closed : i <= j
      block  == Last(leaf.chain).block
      outer  == ArgsOf(pb, scope, leaf, Len(leaf.chain) - 1)
  IN CASE closed # {} -> IF verdict(first) = "false" THEN Skip ELSE Fail("value")
       [] closed = {} /\ Len(leaf.chain) = 1 -> PlanFromBlock(pb, step, block, scope)
       [] OTHER -> IF outer.r = "off" THEN Skip
                   ELSE IF outer.r = "error" THEN Fail(outer.why)
                   ELSE PlanFromBlock(pb, step, block, CompositeScope(outer.v))
=============================================================================
