------------------------------ MODULE Optimizers ------------------------------
(* From a parsed expression to an optimized plan on one engine: the rewrites  *)
(* plan.go makes when a plan is created and finished, and the optimizers that *)
(* decorate its selectors.                                                    *)
EXTENDS Plan

------------------------------------------------------------------------------
(* Creating a plan.  The parser's nodes have the shape of the plan's. *)

(* The offset of every node with an @ modifier, for an evaluation that starts *)
(* at evalTime; subqOffset and subqTs are those of the subqueries above it.   *)
OffsetAt(n, evalTime, subqOffset, subqTs) ==
  IF n.timestamp = NoTime THEN n.originalOffset
  ELSE LET above == subqOffset + IF subqTs = NoTime THEN 0 ELSE evalTime - subqTs
       IN  n.originalOffset + (evalTime - n.timestamp) - above

RECURSIVE SetOffsets(_, _, _, _)
SetOffsets(n, evalTime, subqOffset, subqTs) ==
  LET own == IF n.k \in {"vs", "subq"} THEN [n EXCEPT !.offset = OffsetAt(n, evalTime, subqOffset, subqTs)] ELSE n
      pinned == n.k = "subq" /\ n.timestamp # NoTime
      off == IF n.k = "subq" THEN (IF pinned THEN 0 ELSE subqOffset) + n.originalOffset ELSE subqOffset
      ts == IF pinned THEN n.timestamp ELSE subqTs
      cs == Children(n)
  IN  WithChildren(own, [i \in DOMAIN cs |-> SetOffsets(cs[i], evalTime, off, ts)])

setOffsetForAtModifier(evalTime, n) == SetOffsets(n, evalTime, 0, NoTime)

RECURSIVE setOffsetForInnerSubqueries(_, _)
setOffsetForInnerSubqueries(n, o) ==
  IF n.k = "subq"
    THEN LET nested == NestedOptionsForSubquery(o, n.step, n.range, n.offset)
         IN  [n EXCEPT !.expr = setOffsetForInnerSubqueries(setOffsetForAtModifier(nested.start, @), nested)]
    ELSE LET cs == Children(n)
         IN  WithChildren(n, [i \in DOMAIN cs |-> setOffsetForInnerSubqueries(cs[i], o)])

(* timestamp() of a selector becomes a selector of sample timestamps. *)
RECURSIVE timestampSelector(_)
timestampSelector(n) ==
  CASE n.k = "parens" -> timestampSelector(n.expr)
    [] n.k = "vs" -> [n EXCEPT !.selectTimestamp = TRUE,
                               !.originalOffset = IF n.timestamp # NoTime THEN 0 ELSE @]
    [] n.k = "stepinv" -> LET e == timestampSelector(n.expr) IN IF e = Nil THEN Nil ELSE StepInvariant(e)
    [] OTHER -> Nil

RECURSIVE replacePrometheusNodes(_)
replacePrometheusNodes(n) ==
  LET cs == Children(n)
      rest == WithChildren(n, [i \in DOMAIN cs |-> replacePrometheusNodes(cs[i])])
  IN  CASE n.k = "stepinv" /\ n.expr.k \in {"matrix", "subq"} -> replacePrometheusNodes(n.expr)
        [] n.k = "call" /\ n.fn = "timestamp" ->
             LET vs == timestampSelector(n.args[1]) IN IF vs = Nil THEN rest ELSE vs
        [] OTHER -> rest

SortFunctions == {"sort", "sort_desc", "sort_by_label", "sort_by_label_desc"}

RECURSIVE DropSorts(_)
DropSorts(n) ==
  LET cs == Children(n)
      trimmed == [i \in DOMAIN cs |-> DropSorts(cs[i])]
  IN  IF n.k = "call" /\ n.fn \in SortFunctions THEN trimmed[1] ELSE WithChildren(n, trimmed)

(* Sorting is left to the presentation of the result, unless timestamp() of a *)
(* sort would turn into timestamp() of a selector.                            *)
trimSorts(n) ==
  LET nodes == Traverse(n)
      timestampOfSort(x) ==
        x.k = "call" /\ x.fn = "timestamp" /\ \E i \in DOMAIN x.args : x.args[i].k = "call" /\ x.args[i].fn \in SortFunctions
  IN  IF \E i \in DOMAIN nodes : timestampOfSort(nodes[i]) THEN n ELSE DropSorts(n)

ConstantValue(op, a, b) ==
  CASE op = "add" -> a + b
    [] op = "sub" -> a - b
    [] op = "mul" -> (a * b) \div 12      \* values are in units of 1/12
    [] op = "div" -> QuoZero(a * 12, b)

RECURSIVE reduceConstantExpressions(_)
reduceConstantExpressions(n) ==
  LET cs == Children(n)
      m == WithChildren(n, [i \in DOMAIN cs |-> reduceConstantExpressions(cs[i])])
  IN  CASE m.k = "parens" /\ IsNumber(m.expr) -> Num(UnwrapFloat(m.expr))
        [] m.k = "unary" /\ IsNumber(m.expr) -> Num(-UnwrapFloat(m.expr))
        [] m.k = "bin" /\ m.op \in {"add", "sub", "mul", "div"} /\ IsNumber(m.lhs) /\ IsNumber(m.rhs) ->
             Num(ConstantValue(m.op, UnwrapFloat(m.lhs), UnwrapFloat(m.rhs)))
        [] OTHER -> m

NewFromAST(ast, o) ==
  reduceConstantExpressions(trimSorts(replacePrometheusNodes(
    setOffsetForInnerSubqueries(setOffsetForAtModifier(o.start, ast), o))))

------------------------------------------------------------------------------
(* Finishing a plan *)

RECURSIVE trimParens(_)
trimParens(n) ==
  LET cs == Children(n)
  IN  IF n.k = "parens" THEN trimParens(n.expr)
      ELSE WithChildren(n, [i \in DOMAIN cs |-> trimParens(cs[i])])

RECURSIVE insertDuplicateLabelChecks(_)
insertDuplicateLabelChecks(n) ==
  LET cs == Children(n)
      m == WithChildren(n, [i \in DOMAIN cs |-> insertDuplicateLabelChecks(cs[i])])
  IN  IF n.k \in {"agg", "unary", "bin", "call"} \/ (n.k = "vs" /\ n.selectTimestamp) THEN Check(m) ELSE m

------------------------------------------------------------------------------
(* Merging selectors of one metric *)

(* One matcher for each label name: the last one wins. *)
matcherToMap(ms) ==
  [x \in {ms[i].name : i \in DOMAIN ms} |->
     ms[CHOOSE i \in DOMAIN ms : ms[i].name = x /\ \A j \in DOMAIN ms : ms[j].name = x => j <= i]]

MetricMatchers(ms) == SelectSeq(ms, LAMBDA m : m.name = "n")

emptyProjection(vs) == ~vs.projection.include /\ vs.projection.labels = {}

(* The matchers the heap holds for a metric: the shortest list of the plan, *)
(* the first of them when several are; <<>> when it has none.               *)
HeapTop(n, metric) ==
  LET lists == [i \in DOMAIN Selectors(n) |-> Selectors(n)[i].matchers]
      of == {i \in DOMAIN lists : /\ emptyProjection(Selectors(n)[i])
                                  /\ \E j \in DOMAIN MetricMatchers(lists[i]) : MetricMatchers(lists[i])[j].val = metric}
  IN  IF of = {} THEN <<>>
      ELSE lists[CHOOSE i \in of : \A j \in of : \/ Len(lists[i]) < Len(lists[j])
                                                 \/ Len(lists[i]) = Len(lists[j]) /\ i <= j]

(* The top replaces a list that has all its matchers and others besides. *)
findReplacement(top, ms) ==
  LET topSet == matcherToMap(top)
      set == matcherToMap(ms)
  IN  /\ top # <<>>
      /\ \A x \in DOMAIN topSet : x \in DOMAIN set /\ topSet[x] = set[x]
      /\ Cardinality(DOMAIN topSet) # Cardinality(DOMAIN set)

dropMatcher(toDrop, original) == SelectSeq(original, LAMBDA m : m \notin Range(toDrop))

ReplaceSelector(root, vs) ==
  LET metrics == MetricMatchers(vs.matchers)
      tops == [i \in DOMAIN metrics |-> HeapTop(root, metrics[i].val)]
      fit == {i \in DOMAIN tops : findReplacement(tops[i], vs.matchers)}
  IN  IF ~emptyProjection(vs) \/ fit = {} THEN vs
      ELSE LET top == tops[CHOOSE i \in fit : \A j \in fit : i <= j]
           IN  [vs EXCEPT !.matchers = top, !.filters = dropMatcher(top, vs.matchers)]

RECURSIVE replaceMatchers(_, _)
replaceMatchers(root, n) ==
  LET cs == Children(n)
  IN  IF n.k = "vs" THEN ReplaceSelector(root, n)
      ELSE WithChildren(n, [i \in DOMAIN cs |-> replaceMatchers(root, cs[i])])

MergeSelects(n) == replaceMatchers(n, n)

(* Matchers in the order of their label names. *)
NameOrder == <<"n", "a", "b", "le", "z">>
SortedMatchers(ms) ==
  FlattenSeq([i \in DOMAIN NameOrder |-> SelectSeq(ms, LAMBDA m : m.name = NameOrder[i])])

RECURSIVE SortMatchers(_)
SortMatchers(n) ==
  LET cs == Children(n)
  IN  IF n.k = "vs" THEN [n EXCEPT !.matchers = SortedMatchers(@)]
      ELSE WithChildren(n, [i \in DOMAIN cs |-> SortMatchers(cs[i])])

------------------------------------------------------------------------------
(* Propagating matchers between the sides of a binary operation *)

matchesEmptyValue(m) ==
  (m.val = <<"">> /\ m.type \in {"=", "=~"}) \/ (m.val = <<".+">> /\ m.type = "!~")
matchesAllValues(m) ==
  (m.val = <<".+">> /\ m.type = "=~") \/ (m.val = <<"">> /\ m.type \in {"!=", "!~"})
matchesEverything(m) == m.val = <<".*">> /\ m.type = "=~"
matchesNothing(m) == m.val = <<".*">> /\ m.type = "!~"

(* The matcher for both sides, or Nil when there is none. *)
mergeMatcher(old, new) ==
  LET equal == IF old.type = "=" THEN old ELSE new
      other == IF old.type = "=" THEN new ELSE old
  IN  CASE old = new -> old
        [] matchesEmptyValue(old) \/ matchesNothing(old) -> old
        [] matchesEmptyValue(new) \/ matchesNothing(new) -> new
        [] matchesAllValues(old) \/ matchesEverything(old) -> new
        [] matchesAllValues(new) \/ matchesEverything(new) -> old
        [] old.type = "!=" /\ new.type = "!=" -> M(old.name, "!~", old.val \o new.val)
        [] equal.type = "=" /\ Matches(other, equal.val[1]) -> equal
        [] OTHER -> Nil

labelRequired(vm, x) ==
  /\ x # "n"
  /\ \/ vm.card = "none"
     \/ ~vm.on /\ vm.labels = {}
     \/ vm.on /\ x \in vm.labels
     \/ ~vm.on /\ x \notin vm.labels

(* The matchers of the labels both sides must agree on. *)
makeUnion(lm, rm, vm) ==
  LET l == {x \in DOMAIN lm : labelRequired(vm, x)}
      r == {x \in DOMAIN rm : labelRequired(vm, x)}
  IN  [x \in l \cup r |-> IF x \in l \cap r THEN mergeMatcher(lm[x], rm[x]) ELSE IF x \in l THEN lm[x] ELSE rm[x]]

updateSelectorMatchers(vs, change) ==
  LET own == matcherToMap(vs.matchers)
      new(x) == IF x \in DOMAIN change THEN change[x] ELSE own[x]
      present == SelectSeq(NameOrder, LAMBDA x : x \in DOMAIN own \cup DOMAIN change)
  IN  [vs EXCEPT !.matchers = [i \in DOMAIN present |-> new(present[i])]]

propagateMatchers(b) ==
  LET name(vs) == MetricMatchers(vs.matchers)
      pinned(vs) == vs.k = "vs" /\ name(vs) # <<>> /\ name(vs)[1].type = "="
      union == makeUnion(matcherToMap(b.lhs.matchers), matcherToMap(b.rhs.matchers), b.vm)
  IN  IF ~pinned(b.lhs) \/ ~pinned(b.rhs) THEN b
      ELSE IF name(b.lhs)[1].val = name(b.rhs)[1].val THEN b
      ELSE IF DOMAIN union = {} \/ \E x \in DOMAIN union : union[x] = Nil THEN b
      ELSE [b EXCEPT !.lhs = updateSelectorMatchers(@, union), !.rhs = updateSelectorMatchers(@, union)]

RECURSIVE PropagateMatchers(_)
PropagateMatchers(n) ==
  LET m == IF /\ n.k = "bin"
              /\ n.op \notin {"gtr", "lss", "or", "unless"}
              /\ ~(n.vm.on /\ "n" \in n.vm.labels)
             THEN propagateMatchers(n) ELSE n
      cs == Children(m)
  IN  WithChildren(m, [i \in DOMAIN cs |-> PropagateMatchers(cs[i])])

------------------------------------------------------------------------------
(* Histogram statistics: what the nearest deciding node above a selector says. *)

RECURSIVE StatsSuffice(_, _)
StatsSuffice(parents, found) ==
  IF parents = <<>> THEN found
  ELSE LET p == Last(parents)
       IN  CASE p.k = "subq" -> FALSE
             [] p.k = "call" /\ p.fn = "histogram_count" -> StatsSuffice(Front(parents), TRUE)
             [] p.k = "call" /\ p.fn = "histogram_quantile" -> FALSE
             [] p.k = "bin" /\ p.op = "trim" -> FALSE
             [] OTHER -> StatsSuffice(Front(parents), found)

RECURSIVE SetStats(_, _)
SetStats(n, parents) ==
  LET cs == Children(n)
  IN  IF n.k = "vs" THEN [n EXCEPT !.stats = StatsSuffice(parents, FALSE)]
      ELSE WithChildren(n, [i \in DOMAIN cs |-> SetStats(cs[i], Append(parents, n))])

DetectHistogramStats(n) == SetStats(n, <<>>)

------------------------------------------------------------------------------
(* Batched selects *)

isRangeVectorFunction(n) == \E i \in DOMAIN n.args : n.args[i].k \in {"matrix", "subq"}
isManyToOneOrOneToMany(n) == n.vm.card \in {"many_to_one", "one_to_many"}

RECURSIVE setBatchSize(_, _, _)
setBatchSize(n, size, canBatch) ==
  LET can == CASE n.k = "agg" -> n.op \notin {"quantile", "topk", "bottomk", "limitk", "limit_ratio"}
               [] n.k = "call" -> canBatch /\ isRangeVectorFunction(n)
               [] n.k = "subq" -> FALSE
               [] n.k = "bin" -> canBatch /\ ~isManyToOneOrOneToMany(n)
               [] OTHER -> canBatch
      cs == Children(n)
  IN  IF n.k = "vs" THEN [n EXCEPT !.batchSize = IF can THEN size ELSE 0]
      ELSE WithChildren(n, [i \in DOMAIN cs |-> setBatchSize(cs[i], size, can)])

------------------------------------------------------------------------------
(* Projections *)

Projection(labels, include) == [set |-> TRUE, labels |-> labels, include |-> include]

RECURSIVE unwrapStepInvariantExpr(_)
unwrapStepInvariantExpr(n) == IF n.k = "stepinv" THEN unwrapStepInvariantExpr(n.expr) ELSE n

(* What a function needs of its arguments' labels for the projection p of its *)
(* result.                                                                    *)
getFunctionLabelRequirements(n, p) ==
  LET result == Projection(p.labels, p.include)
      dst == unwrapStepInvariantExpr(n.args[2]).s
      src == unwrapStepInvariantExpr(n.args[4]).s
  IN  CASE n.fn \in {"absent", "absent_over_time", "scalar"} -> Projection({}, TRUE)
        [] n.fn = "histogram_quantile" -> NoProjection
        [] n.fn = "label_replace" ->
             IF p.include # (dst \in p.labels) THEN result
             ELSE IF p.include THEN Projection(p.labels \cup {src}, TRUE)
             ELSE Projection(p.labels \ {src}, FALSE)
        [] OTHER -> result

extendProjection(p, labels) ==
  Projection(IF p.include THEN p.labels \cup labels ELSE p.labels \ labels, p.include)

(* The node with the projections of its selectors; p is what its parent *)
(* needs, NoProjection when that is everything.                         *)
RECURSIVE pushProjection(_, _)
pushProjection(n, p) ==
  LET cs == Children(n)
      below(q) == WithChildren(n, [i \in DOMAIN cs |-> pushProjection(cs[i], q)])
  IN  CASE n.k = "vs" -> [n EXCEPT !.projection = [p EXCEPT !.set = TRUE]]
        [] n.k = "agg" /\ n.op \in {"topk", "bottomk", "limit_ratio"} -> [n EXCEPT !.expr = pushProjection(@, NoProjection)]
        [] n.k = "agg" ->
             [n EXCEPT !.expr = pushProjection(@, Projection(n.grouping, ~n.without)),
                       !.grouping = IF n.without THEN @ \cup {SeriesHash} ELSE @]
        [] n.k = "bin" /\ (n.vm.card = "none" \/ (~n.vm.on /\ n.vm.labels = {})) ->
             [n EXCEPT !.lhs = pushProjection(@, IF IsConstantExpr(n.rhs) THEN p ELSE NoProjection),
                       !.rhs = pushProjection(@, IF IsConstantExpr(n.lhs) THEN p ELSE NoProjection)]
        [] n.k = "bin" /\ n.vm.card = "one_to_one" ->
             [below(Projection(n.vm.labels, n.vm.on)) EXCEPT
                !.vm.labels = IF n.vm.on THEN @ ELSE @ \cup {SeriesHash}]
        [] n.k = "bin" ->
             LET high == IF ~p.include THEN {}
                         ELSE IF n.vm.on THEN n.vm.include ELSE n.vm.include \cap n.vm.labels
                 hc == IF Cardinality(high) > 1 THEN Projection(high, FALSE) ELSE NoProjection
                 lc == extendProjection(Projection(n.vm.labels, n.vm.on), n.vm.include)
                 left == n.vm.card # "one_to_many"
             IN  [n EXCEPT !.lhs = pushProjection(@, IF left THEN hc ELSE lc),
                           !.rhs = pushProjection(@, IF left THEN lc ELSE hc),
                           !.vm.labels = IF n.vm.on THEN @ ELSE @ \cup {SeriesHash}]
        [] n.k = "call" -> below(getFunctionLabelRequirements(n, p))
        [] OTHER -> below(p)

=============================================================================
