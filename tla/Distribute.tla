------------------------------ MODULE Distribute ------------------------------
(* Distributed planning: which parts of a plan run on the remote engines, over *)
(* which time range, and how their results are put together again.  An engine  *)
(* is a record [id, mint, maxt, labelSets, partition] whose label sets are     *)
(* functions on the labels they have.                                          *)
EXTENDS Plan

MaxInt == 1000       \* math.MaxInt64

------------------------------------------------------------------------------
(* The times a query reads *)

(* Mutant: only the innermost subquery counts. *)
innermostSubqueryTimes(path) ==
  LET subs == SelectSeq(path, LAMBDA n : n.k = "subq")
  IN  IF subs = <<>> THEN [offset |-> 0, range |-> 0, ts |-> NoTime]
      ELSE [offset |-> Last(subs).originalOffset, range |-> Last(subs).range, ts |-> Last(subs).timestamp]

(* Offset, range and timestamp of the subqueries on a path. *)
RECURSIVE logicalSubqueryTimes(_)
logicalSubqueryTimes(path) ==
  IF path = <<>> THEN [offset |-> 0, range |-> 0, ts |-> NoTime]
  ELSE LET above == logicalSubqueryTimes(Front(path))
           n == Last(path)
       IN  CASE n.k # "subq" -> above
             [] n.timestamp # NoTime -> [offset |-> n.originalOffset, range |-> n.range, ts |-> n.timestamp]
             [] OTHER -> [above EXCEPT !.offset = @ + n.originalOffset, !.range = @ + n.range]

getTimeRangesForSelector(o, n, parents, evalRange) ==
  LET sub == logicalSubqueryTimes(parents)
      pinned == n.timestamp # NoTime
      from == IF sub.ts # NoTime THEN sub.ts ELSE o.start
      to == IF sub.ts # NoTime THEN sub.ts ELSE o.end
      start == IF pinned THEN n.timestamp ELSE from - sub.offset - sub.range
      end == IF pinned THEN n.timestamp ELSE to - sub.offset
  IN  [mint |-> start - (IF evalRange = 0 THEN o.lookback ELSE evalRange) - n.originalOffset,
       maxt |-> end - n.originalOffset]

RECURSIVE SelectorRanges(_, _, _)
SelectorRanges(n, parents, o) ==
  CASE n.k = "vs" -> {getTimeRangesForSelector(o, n, parents, 0)}
    [] n.k = "matrix" -> {getTimeRangesForSelector(o, n.vs, Append(parents, n), n.range)}
    [] OTHER -> UNION { SelectorRanges(Children(n)[i], Append(parents, n), o) : i \in DOMAIN Children(n) }

MinMaxTime(n, o) ==
  LET rs == SelectorRanges(n, <<>>, o)
  IN  IF rs = {} THEN [mint |-> 0, maxt |-> 0]
      ELSE [mint |-> (CHOOSE r \in rs : \A q \in rs : r.mint <= q.mint).mint,
            maxt |-> (CHOOSE r \in rs : \A q \in rs : r.maxt >= q.maxt).maxt]

------------------------------------------------------------------------------
(* Passthrough: a query only one engine can answer goes to it as a whole. *)

labelSetsMatch(ms, lsets) ==
  lsets = {} \/ \E ls \in lsets : \A i \in DOMAIN ms : ms[i].name \in DOMAIN ls => Matches(ms[i], ls[ms[i].name])

matchingEngineTime(e, r) == ~(r.mint > e.maxt \/ r.maxt < e.mint)

Passthrough(n, o, engines) ==
  LET r == MinMaxTime(n, o)
      selectors == Range(Selectors(n))
      matching == {i \in DOMAIN engines : \E vs \in selectors : labelSetsMatch(vs.matchers, engines[i].labelSets)}
      i == IF selectors = {} THEN 1 ELSE CHOOSE j \in matching : TRUE
  IN  IF /\ engines # <<>>
         /\ selectors = {} \/ Cardinality(matching) = 1
         /\ matchingEngineTime(engines[i], r)
        THEN RemoteExec(engines[i].id, n, o.start, o.end) ELSE n

------------------------------------------------------------------------------
(* What can be distributed *)

PartitionLabels(engines) ==
  UNION { UNION {DOMAIN ls : ls \in engines[i].partition} : i \in DOMAIN engines }

RECURSIVE preservesPartitionLabels(_, _)
preservesPartitionLabels(n, labels) ==
  labels # {} /\
  CASE n.k \in {"vs", "matrix", "num", "str"} -> TRUE
    [] n.k = "agg" -> \A x \in labels : (x \in n.grouping) # n.without
    [] n.k = "bin" ->
         /\ n.vm.card = "none" \/ \A x \in labels : x \in n.vm.include \/ (x \in n.vm.labels) = n.vm.on
         /\ preservesPartitionLabels(n.lhs, labels)
         /\ preservesPartitionLabels(n.rhs, labels)
    [] n.k = "call" ->
         /\ n.fn = "label_replace" => UnwrapString(n.args[2]) \notin labels
         /\ \A i \in DOMAIN n.args : ReturnType(n.args[i]) = "vector" => preservesPartitionLabels(n.args[i], labels)
    [] n.k \in {"unary", "parens", "stepinv", "check", "subq"} -> preservesPartitionLabels(n.expr, labels)
    [] OTHER -> FALSE

isBinaryExpressionWithOneScalarSide(n) == IsConstantScalarExpr(n.lhs) \/ IsConstantScalarExpr(n.rhs)

(* The matchers on partition labels in an expression, in visiting order. *)
getPartitionMatchers(n, labels) ==
  [x \in labels |-> FlattenSeq([i \in DOMAIN Selectors(n) |-> SelectSeq(Selectors(n)[i].matchers, LAMBDA m : m.name = x)])]

partitionMatchersEqual(a, b) ==
  \A x \in DOMAIN a : Len(a[x]) = Len(b[x]) /\ Range(b[x]) \subseteq Range(a[x])

isBinaryExpressionWithDistributableMatching(n, labels) ==
  LET setOperation == n.op \in {"or", "unless"}
  IN  CASE n.vm.card = "none" -> FALSE
        [] setOperation /\ (IsConstantExpr(n.lhs) \/ IsConstantExpr(n.rhs)) -> FALSE
        [] n.vm.labels = {} /\ ~n.vm.on ->
             setOperation => partitionMatchersEqual(getPartitionMatchers(n.lhs, labels), getPartitionMatchers(n.rhs, labels))
        [] OTHER -> \A x \in labels : x \notin n.vm.include /\ (x \in n.vm.labels) = n.vm.on

isDistributiveOperation(n, labels, skipBinaryPushdown) ==
  CASE n.k \in {"merge", "remote"} -> FALSE
    [] n.k = "bin" -> \/ isBinaryExpressionWithOneScalarSide(n)
                      \/ ~skipBinaryPushdown /\ isBinaryExpressionWithDistributableMatching(n, labels)
    [] n.k = "agg" -> \/ n.op \in {"sum", "min", "max", "group", "count", "topk", "bottomk", "limitk"}
                      \/ /\ n.op \in {"avg", "quantile", "stddev", "stdvar", "count_values", "limit_ratio"}
                         /\ preservesPartitionLabels(n, labels)
    [] n.k = "call" -> /\ n.fn = "label_replace" => UnwrapString(n.args[2]) \notin labels
                       /\ n.fn # "scalar"
    [] OTHER -> TRUE

isAbsent(n) == n.k = "call" /\ n.fn \in {"absent", "absent_over_time"}

RECURSIVE classifyDistribution(_, _, _)
classifyDistribution(n, labels, skipBinaryPushdown) ==
  LET distributive == isDistributiveOperation(n, labels, skipBinaryPushdown)
      cs == Children(n)
      preserves == preservesPartitionLabels(n, labels)
  IN  CASE n.k \in {"merge", "remote", "noop"} -> "cannotDistribute"
        [] \E i \in DOMAIN cs : classifyDistribution(cs[i], labels, skipBinaryPushdown) # "distributeAsIs" -> "cannotDistribute"
        [] isAbsent(n) -> IF distributive THEN "rewriteAbsent" ELSE "cannotDistribute"
        [] n.k = "agg" /\ n.op = "avg" /\ ~preserves -> "rewriteAvg"
        [] ~distributive -> "cannotDistribute"
        [] n.k = "agg" /\ ~preserves -> "rewriteAggregation"
        [] OTHER -> "distributeAsIs"

------------------------------------------------------------------------------
(* Remote time ranges *)

(* How far before a step its value depends on samples: all ranges on top of *)
(* the offset of the last selector, and the lookback at least.              *)
calculateStartOffset(n, lookback) ==
  LET nodes == Traverse(n)
      ranges == FoldLeft(LAMBDA acc, x : IF x.k \in {"subq", "matrix"} THEN acc + x.range ELSE acc, 0, nodes)
      vss == Selectors(n)
      offset == IF vss = <<>> THEN 0 ELSE Last(vss).offset
  IN  IF offset + ranges > lookback THEN offset + ranges ELSE lookback

getQueryTimestamps(n) ==
  { x.timestamp : x \in {y \in Range(Traverse(n)) : y.k \in {"vs", "subq"} /\ y.timestamp # NoTime} }

(* The smallest overlap of consecutive engines with the same partition labels *)
(* among those that overlap [mint, maxt].                                     *)
minOverlap(engines, mint, maxt) ==
  LET of(ls) == SelectSeq(engines, LAMBDA e : ls \in e.partition)
      gaps(es) == { es[i-1].maxt - es[i].mint : i \in {j \in 2..Len(es) : ~(es[j].maxt < mint \/ es[j].mint > maxt)} }
      all == {MaxInt} \cup UNION { gaps(of(ls)) : ls \in UNION {engines[i].partition : i \in DOMAIN engines} }
  IN  CHOOSE x \in all : \A y \in all : x <= y

------------------------------------------------------------------------------
(* Remote queries *)

matchesExternalLabels(ms, ls) ==
  \A i \in DOMAIN ms : (ms[i].name \in DOMAIN ls /\ ls[ms[i].name] # "") => Matches(ms[i], ls[ms[i].name])

matchesExternalLabelSet(n, lsets) ==
  \/ lsets = {}
  \/ \A i \in DOMAIN Selectors(n) : \E ls \in lsets : matchesExternalLabels(Selectors(n)[i].matchers, ls)

distributeQuery(n, engines, o) ==
  LET offset == calculateStartOffset(n, o.lookback)
      globalMinT == IF engines = <<>> THEN MaxInt ELSE engines[1].mint    \* sorted by MinT
      start(e) == getStartTimeForEngine(e, o, offset, globalMinT)
      used == SelectSeq(engines, LAMBDA e : /\ matchesExternalLabelSet(n, e.labelSets)
                                            /\ e.mint <= o.end
                                            /\ e.maxt >= o.start - offset
                                            /\ start(e) # NoTime)
  IN  CASE minOverlap(engines, o.start - offset, o.end) < offset -> n
        [] IsConstantExpr(n) -> n
        [] \E ts \in getQueryTimestamps(n), i \in DOMAIN engines :
             engines[i].mint > ts - offset \/ engines[i].maxt < ts -> n
        [] used = <<>> -> NoopNode
        [] OTHER -> Merge([i \in DOMAIN used |-> RemoteExec(used[i].id, n, start(used[i]), o.end)])

(* Mutant: the engines aggregate over the partition labels. *)
aggregationAsWritten(n, engines) == n

(* The aggregation an engine computes: the partition labels are kept. *)
newRemoteAggregation(n, engines) ==
  [n EXCEPT !.grouping = IF n.without THEN @ \ PartitionLabels(engines) ELSE @ \cup PartitionLabels(engines)]

distributeAggregation(n, engines, o) ==
  [n EXCEPT !.op = IF @ = "count" THEN "sum" ELSE @,
            !.expr = distributeQuery(newRemoteAggregation(n, engines), engines, o)]

distributeAvg(n, engines, o) ==
  LET part(op) == [n EXCEPT !.op = "sum",
                            !.expr = distributeQuery(newRemoteAggregation([n EXCEPT !.op = op], engines), engines, o)]
  IN  Bin("div", part("sum"), part("count"),
          [card |-> "one_to_one", on |-> ~n.without, labels |-> n.grouping, include |-> n.grouping])

(* absent() holds when it holds on every engine: the product of the answers. *)
distributeAbsent(n, engines, o, offset) ==
  LET used == SelectSeq(engines, LAMBDA e : e.maxt >= o.start - offset /\ e.mint <= o.end)
      asked == IF used = <<>> THEN <<Last(engines)>> ELSE used
      query(e) == RemoteExec(e.id, n, o.start, o.end)
      default == [card |-> "one_to_one", on |-> FALSE, labels |-> {}, include |-> {}]
  IN  FoldLeft(LAMBDA acc, e : Bin("mul", acc, query(e), default), query(asked[1]), Tail(asked))

RECURSIVE DistributeBelow(_, _, _, _, _, _)
DistributeBelow(n, parentStrategy, engines, o, top, skip) ==
  LET strategy == classifyDistribution(n, PartitionLabels(engines), skip)
      inner == IF n.k = "subq" THEN NestedOptionsForSubquery(o, n.step, n.range, n.offset) ELSE o
      cs == Children(n)
  IN  IF strategy = "cannotDistribute" \/ IsConstantExpr(n) \/ parentStrategy # "cannotDistribute"
        THEN WithChildren(n, [i \in DOMAIN cs |-> DistributeBelow(cs[i], strategy, engines, inner, top, skip)])
        ELSE CASE strategy = "rewriteAvg" -> distributeAvg(n, engines, o)
               [] strategy = "rewriteAbsent" -> distributeAbsent(n, engines, o, calculateStartOffset(n, top.lookback))
               [] strategy = "rewriteAggregation" -> distributeAggregation(n, engines, o)
               [] OTHER -> distributeQuery(n, engines, o)

(* The engines in the order of their MinT. *)
DistributedExecution(n, o, engines, skipBinaryPushdown) ==
  DistributeBelow(n, "cannotDistribute", SortSeq(engines, LAMBDA d, e : d.mint < e.mint \/ (d.mint = e.mint /\ d.id < e.id)), o, o,
                  skipBinaryPushdown)

=============================================================================
