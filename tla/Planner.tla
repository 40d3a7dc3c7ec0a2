------------------------------ MODULE Planner ------------------------------
(***************************************************************************)
(* The plan phase of a play (struct Planner of src/src/engine/run.rs):     *)
(* conditions, properties and composite arguments of every step are        *)
(* evaluated in declaration order, containers and invocations once each    *)
(* and then from a cache under their path.                                 *)
(***************************************************************************)
EXTENDS Playbook, VarStore

(* --------------------------------------------------------- run-time blocks *)

\* index_blocks: the blocks of the play with the path of containers they
\* stand at, in document order.
IndexBlocks(items) ==
  LET rows == PlayBlocks(items)
  IN [i \in DOMAIN rows |-> [path |-> PathOf(rows[i]), block |-> rows[i].block]]

\* The maps step_blocks and container_blocks: of two blocks with one key, the
\* later replaces the earlier.
Found(blocks, kind, path, name) ==
  {i \in DOMAIN blocks : /\ blocks[i].block.kind = kind
                         /\ blocks[i].path = path /\ blocks[i].block.name = name}
BlockAt(blocks, kind, path, name) ==
  blocks[CHOOSE i \in Found(blocks, kind, path, name) :
           \A j \in Found(blocks, kind, path, name) : j <= i].block

(* -------------------------------------------------------------- evaluation *)

\* eval_condition: absent means true; anything but a bool is an error.
Condition(e, scope) ==
  LET fv == FieldValue(e, scope)
  IN IF fv.r # "ok" \/ fv.v.ty # "bool" THEN "error"
     ELSE IF fv.v.tok = "true" THEN "true" ELSE "false"

Skip      == [kind |-> "skip"]
Fail(why) == [kind |-> "fail", why |-> why]

\* invocation_args: the arguments a composite's body runs under, or that its
\* condition ruled it out, or that they cannot be had.
Args(v)  == [r |-> "args", v |-> v]
RuledOut == [r |-> "off"]
NoArgs(why) == [r |-> "error", why |-> why]

InvocationArgs(block, params, scope) ==
  CASE Condition(block.condition, scope) = "false" -> RuledOut
    [] Condition(block.condition, scope) = "error" -> NoArgs("value")
    [] ~Readable(block.props, scope) -> NoArgs("value")
    [] ~Fits(ReadProperties(block.props, scope), params) -> NoArgs("value")
    [] OTHER -> Args(WithDefaults(ReadProperties(block.props, scope), params))

\* plan_wait with wait::spec.
WaitPlan(step, block, decl, scope) ==
  IF /\ \A n \in DOMAIN block.wait : LET fv == FieldValue(block.wait[n], scope)
                                     IN fv.r = "ok" /\ WaitValueFits(n, fv.v)
     /\ "timeout" \in DOMAIN block.wait
  THEN [kind |-> "wait", probe |-> step.target,
        params |-> WithDefaults(ReadProperties(block.props, scope), decl.params)]
  ELSE Fail("value")

RunPlan(step, block, decl, scope) ==
  [kind |-> "run", resource |-> step.target,
   concurrency |-> Tighter(step.concurrency, decl.concurrency),
   lock |-> [pkg |-> step.target.pkg, name |-> decl.lock],
   params |-> WithDefaults(ReadProperties(block.props, scope), decl.params)]

\* plan_from_block: condition, properties, declared defaults.
PlanFromBlock(pb, step, block, scope) ==
  LET kind == IF step.wait THEN "probes" ELSE "resources"
      decl == Declared(pb, kind, step.target)
  IN CASE Condition(block.condition, scope) = "false" -> Skip
       [] Condition(block.condition, scope) = "error" -> Fail("value")
       [] ~Declares(pb, kind, step.target) -> Fail("missing")
       [] ~Readable(block.props, scope) -> Fail("value")
       [] ~Fits(ReadProperties(block.props, scope), decl.params) -> Fail("value")
       [] OTHER -> IF step.wait THEN WaitPlan(step, block, decl, scope)
                   ELSE RunPlan(step, block, decl, scope)

(* ------------------------------------------------------------ with caches *)

\* The planner's memory: conditions by container path, arguments by the path
\* of the invocation.
NoCache == [p \in {} |-> ""]
Put(cache, key, value) ==
  [k \in DOMAIN cache \cup {key} |-> IF k = key THEN value ELSE cache[k]]

\* A mutant of ArgsKey: the key of the scope around the invocation.
ArgsKeyAround(step, k) == SubSeq(step.path, 1, Len(step.path) - Len(step.frames) + k - 1)

\* The key of the invocation at frame k: its full path, itself included.
ArgsKey(step, k) == SubSeq(step.path, 1, Len(step.path) - Len(step.frames) + k)

\* composite_step_block: a body is flat, its steps are found by name.
InBody(pb, frame, name) == The(Declared(pb, "composites", frame.composite).steps, name)

\* args and eval_args: what the cache holds once the arguments of the
\* invocation at frame k are in it; `around` is the cache with those of the
\* invocation around it, which are only asked for if these are not known.
ArgsAt(pb, blocks, scope, step, k, cache, around) ==
  LET key    == ArgsKey(step, k)
      frame  == step.frames[k]
      params == Declared(pb, "composites", frame.composite).params
      outer  == around[ArgsKey(step, k - 1)]
      path   == PlaybookPath(step)
  IN CASE key \in DOMAIN cache -> cache
       [] key \notin DOMAIN cache /\ ~Declares(pb, "composites", frame.composite) ->
            Put(cache, key, NoArgs("missing"))
       [] key \notin DOMAIN cache /\ Declares(pb, "composites", frame.composite) /\ k = 1 ->
            Put(cache, key,
                IF Found(blocks, "step", path, frame.step) = {} THEN NoArgs("missing")
                ELSE InvocationArgs(BlockAt(blocks, "step", path, frame.step), params, scope))
       [] OTHER ->
            Put(around, key,
                IF outer.r # "args" THEN outer
                ELSE InvocationArgs(InBody(pb, step.frames[k - 1], frame.step), params,
                                    CompositeScope(outer.v)))

\* The cache after the arguments of a step, through those around them.
CachedArgs(pb, blocks, scope, step, cache) ==
  LET after[k \in 0 .. Len(step.frames)] ==
        IF k = 0 THEN cache ELSE ArgsAt(pb, blocks, scope, step, k, cache, after[k - 1])
  IN after[Len(step.frames)]

\* The condition of the container at a depth, unless one around it has
\* decided; each is evaluated at most once.
ConditionAt(blocks, scope, path, depth, before) ==
  LET key  == SubSeq(path, 1, depth)
      at   == SubSeq(path, 1, depth - 1)
      here == IF key \in DOMAIN before.containers THEN before.containers[key]
              ELSE IF Found(blocks, "container", at, path[depth]) = {} THEN "missing"
              ELSE Condition(BlockAt(blocks, "container", at, path[depth]).condition, scope)
  IN IF before.verdict # "true" THEN before
     ELSE [containers |-> Put(before.containers, key, here), verdict |-> here]

\* The conditions of the containers around a step, outermost first, until one
\* is not true.
CachedConditions(blocks, scope, path, cache) ==
  LET after[d \in 0 .. Len(path)] ==
        IF d = 0 THEN [containers |-> cache, verdict |-> "true"]
        ELSE ConditionAt(blocks, scope, path, d, after[d - 1])
  IN after[Len(path)]

\* plan_composite: the step's block in the scope of the innermost arguments.
CompositePlan(pb, step, args) ==
  LET frame == Last(step.frames)
  IN CASE args.r = "off"   -> Skip
       [] args.r = "error" -> Fail(args.why)
       [] OTHER -> PlanFromBlock(pb, step, InBody(pb, frame, step.name), CompositeScope(args.v))

\* Planner::plan: the plan of a step, and the planner's memory after it.
PlanStep(pb, blocks, scope, step, memory) ==
  LET within == CachedConditions(blocks, scope, PlaybookPath(step), memory.containers)
      args   == CachedArgs(pb, blocks, scope, step, memory.args)
      result(plan, a) == [plan |-> plan, memory |-> [containers |-> within.containers, args |-> a]]
  IN CASE within.verdict = "false" -> result(Skip, memory.args)
       [] within.verdict = "error" -> result(Fail("value"), memory.args)
       [] within.verdict = "missing" -> result(Fail("missing"), memory.args)
       [] within.verdict = "true" /\ step.frames # << >> ->
            result(CompositePlan(pb, step, args[ArgsKey(step, Len(step.frames))]), args)
       [] OTHER ->
            result(IF Found(blocks, "step", step.path, step.name) = {} THEN Fail("missing")
                   ELSE PlanFromBlock(pb, step, BlockAt(blocks, "step", step.path, step.name), scope),
                   memory.args)
=============================================================================
