------------------------------- MODULE Planner -------------------------------
(* From an expression to the plan that is executed: the plan is created, runs *)
(* through the optimizers it was given in their order, and is finished.       *)
EXTENDS Optimizers, Distribute, PromQL

CONSTANT
  Queries        \* records [ast, opts, optimizers, batchSize, endpoints, static, skipBinaryPushdown, samples]
                 \* and what executes them

(* A query's endpoints are the remote engines there are; static says that the *)
(* endpoint returns all of them whatever range it is asked for.  Its samples  *)
(* [l, t, v] are those the engines, or the local storage, hold together.      *)
(* batchSize is the configured batch size of selectors; skipBinaryPushdown    *)
(* leaves the operations of two vectors to the central engine.                *)

VARIABLES
  query,         \* the query
  plan,          \* its plan
  todo,          \* the optimizers still to run
  engines,       \* the engines the endpoint returned when it was first asked, or NotAsked
  phase          \* "parsed", "planning", "planned", and the phases of its execution

planVars == <<query, plan, todo, engines, phase>>

NotAsked == <<Nil>>

PlanInit ==
  /\ query \in Queries
  /\ plan = query.ast
  /\ todo = query.optimizers
  /\ engines = NotAsked
  /\ phase = "parsed"

New ==
  /\ phase = "parsed"
  /\ plan' = NewFromAST(query.ast, query.opts)
  /\ phase' = "planning"
  /\ UNCHANGED <<query, todo, engines>>

Rewrite(optimizer, new) ==
  /\ phase = "planning"
  /\ todo # <<>>
  /\ Head(todo) = optimizer
  /\ plan' = new
  /\ todo' = Tail(todo)
  /\ UNCHANGED <<query, phase>>

SortMatchersStep == Rewrite("sort", SortMatchers(plan)) /\ UNCHANGED engines
MergeSelectsStep == Rewrite("merge", MergeSelects(plan)) /\ UNCHANGED engines
DetectHistogramStatsStep == Rewrite("stats", DetectHistogramStats(plan)) /\ UNCHANGED engines
PropagateMatchersStep == Rewrite("propagate", PropagateMatchers(plan)) /\ UNCHANGED engines
ProjectionStep == Rewrite("projection", pushProjection(plan, NoProjection)) /\ UNCHANGED engines
BatchSizeStep == Rewrite("batch", setBatchSize(plan, query.batchSize, FALSE)) /\ UNCHANGED engines

(* The endpoint is asked once, for the range the plan reads. *)
Engines ==
  IF engines # NotAsked THEN engines
  ELSE IF query.static THEN query.endpoints
  ELSE SelectSeq(query.endpoints, LAMBDA e : matchingEngineTime(e, MinMaxTime(plan, query.opts)))

PassthroughStep ==
  /\ Rewrite("passthrough", Passthrough(plan, query.opts, Engines))
  /\ engines' = Engines

DistributeStep ==
  /\ Rewrite("distribute", DistributedExecution(plan, query.opts, Engines, query.skipBinaryPushdown))
  /\ engines' = Engines

Finish ==
  /\ phase = "planning"
  /\ todo = <<>>
  /\ plan' = insertDuplicateLabelChecks(trimParens(plan))
  /\ phase' = "planned"
  /\ UNCHANGED <<query, todo, engines>>

PlanNext ==
  \/ New
  \/ SortMatchersStep \/ MergeSelectsStep \/ DetectHistogramStatsStep
  \/ PropagateMatchersStep \/ ProjectionStep \/ BatchSizeStep
  \/ PassthroughStep \/ DistributeStep
  \/ Finish

------------------------------------------------------------------------------
(* Properties *)

Env(ast) ==
  [start |-> query.opts.start, end |-> query.opts.end, step |-> query.opts.step,
   lookback |-> query.opts.lookback, engines |-> query.endpoints, ast |-> ast]

Distributed == "distribute" \in Range(query.optimizers)

Held ==
  IF Distributed THEN UNION { EngineStore(query.endpoints[i], query.samples) : i \in DOMAIN query.endpoints }
                 ELSE query.samples

Value(n, t, ast) == Eval(n, t, Held, Env(ast))

(* No rewrite changes what a query means: from its creation on, after every  *)
(* optimizer and when it is finished, the plan has at every step the value   *)
(* PromQL gives the expression over all samples, whichever selectors were    *)
(* merged, narrowed, projected or batched, and whichever parts are left to   *)
(* engines that each hold a part of the samples.  A join that fails because  *)
(* its result has duplicate labels may succeed once a projection tells the   *)
(* series apart by their hash.                                               *)
MeaningPreserved ==
  phase \in {"planning", "planned"} =>
    \A t \in Steps(query.opts) :
      LET expected == Value(query.ast, t, TRUE)
      IN  \/ Value(plan, t, FALSE) = expected
          \/ expected.err /\ "projection" \in Range(query.optimizers)

(* The nodes of a plan with the options they are evaluated with. *)
RECURSIVE WithOptions(_, _)
WithOptions(n, o) ==
  LET inner == CASE n.k = "subq" ->
                      [NestedOptionsForSubquery(o, n.step, n.range, n.offset)
                        EXCEPT !.end = IF n.timestamp # NoTime THEN n.timestamp - n.originalOffset ELSE @]
                 [] n.k = "stepinv" -> [o EXCEPT !.end = o.start]
                 [] OTHER -> o
  IN  {[node |-> n, opts |-> o]} \cup UNION { WithOptions(Children(n)[i], inner) : i \in DOMAIN Children(n) }

(* The time of the oldest sample the value of n at t may depend on.  Windows *)
(* exclude their lower bound; a subquery evaluates its expression at the     *)
(* multiples of its step in its window.                                      *)
RECURSIVE EarliestRead(_, _, _)
EarliestRead(n, t, lookback) ==
  LET at(x) == (IF x.timestamp = NoTime THEN t ELSE x.timestamp) - x.originalOffset
      inner(x) == x.step * ((at(x) - x.range) \div x.step) + x.step
  IN  CASE n.k = "vs" -> at(n) - lookback + 1
        [] n.k = "matrix" -> at(n.vs) - n.range + 1
        [] n.k = "subq" -> EarliestRead(n.expr, inner(n), lookback)
        [] OTHER -> Min({t} \cup { EarliestRead(Children(n)[i], t, lookback) : i \in DOMAIN Children(n) })

(* The queries to engines of a plan, with the options of the evaluation they *)
(* belong to.  Those below a merge share their series with others; absent()  *)
(* asks every engine for every step and multiplies.                          *)
RemoteQueries ==
  UNION { { [query |-> x.node.exprs[i], opts |-> [x.opts EXCEPT !.end = x.node.exprs[i].end]] : i \in DOMAIN x.node.exprs }
          : x \in {y \in WithOptions(plan, query.opts) : y.node.k = "merge"} }

(* Every remote query starts on a step of the query it belongs to, and an    *)
(* engine that others can stand in for starts late enough to hold all the    *)
(* samples its first step depends on: a partial answer of the engine with    *)
(* the newest data would win over the complete one of an older engine.       *)
RemoteScope ==
  phase = "planned" =>
    \A x \in RemoteQueries :
      LET e == query.endpoints[x.query.engine]
          oldest == \A j \in DOMAIN engines : e.mint <= engines[j].mint
      IN  /\ x.query.start \in Steps(x.opts)
          /\ oldest \/ e.mint <= EarliestRead(x.query.query, x.query.start, x.opts.lookback)

(* No selector asks its storage for a sample outside the range MinMaxTime    *)
(* gives for the plan, the range for which remote engines are looked up:     *)
(* what plan.go adds up over subqueries, ranges, offsets and @ bounds what   *)
(* execution.go puts into the select hints of each nested evaluation.        *)
ReadsWithinMinMaxTime ==
  phase = "planned" =>
    LET range == MinMaxTime(plan, query.opts)
        all == WithOptions(plan, query.opts)
        within(r) == range.mint <= r.mint /\ r.maxt <= range.maxt
    IN  \A x \in all :
          /\ x.node.k = "vs" /\ ~(\E y \in all : y.node.k = "matrix" /\ y.node.vs = x.node)
               => within(getTimeRangesForVectorSelector(x.node, x.opts, 0))
          /\ x.node.k = "matrix" => within(getTimeRangesForVectorSelector(x.node.vs, x.opts, x.node.range))
=============================================================================
