------------------------------- MODULE PromQL -------------------------------
(* What a plan means: the value of an expression at a time over a set of     *)
(* samples [l, t, v] (label set, time, value).  This is the reference the    *)
(* planner and the operators are compared with; only what a selector fetches *)
(* is taken from the code.                                                   *)
EXTENDS Plan

NaN == -777       \* the value of scalar() of anything but one sample
Unit == 12        \* values are fixed point, in units of 1/12

------------------------------------------------------------------------------
(* Vectors: sets of [l, v], and a flag that the evaluation failed. *)

Vec(s) == [err |-> FALSE, vec |-> s]
Failed == [err |-> TRUE, vec |-> {}]

Keep(l, names) == [x \in AllLabels |-> IF x \in names THEN l[x] ELSE ""]
Drop(l, names) == [x \in AllLabels |-> IF x \in names THEN "" ELSE l[x]]
NoLabels == [x \in AllLabels |-> ""]

(* A native histogram is one number: its buckets from HistogramBase up, its *)
(* count below.  Reduced to statistics it keeps a meaningless bucket.       *)
HistogramBase == 100000
IsHistogram(v) == v >= HistogramBase
Buckets(v) == v \div HistogramBase
Count(v) == v % HistogramBase
Stats(v) == IF IsHistogram(v) THEN HistogramBase + Count(v) ELSE v

Plus(a, b) == IF NaN \in {a, b} THEN NaN ELSE a + b

RECURSIVE SumOf(_)
SumOf(S) == IF S = {} THEN 0 ELSE LET x == CHOOSE y \in S : TRUE IN Plus(x.v, SumOf(S \ {x}))

ArithValue(op, a, b) ==
  CASE NaN \in {a, b} -> NaN
    [] op = "add" -> a + b
    [] op = "sub" -> a - b
    [] op = "mul" -> (a * b) \div Unit
    [] op = "div" -> IF b = 0 THEN NaN ELSE QuoZero(a * Unit, b)
    [] op = "trim" -> a - Buckets(a)
    [] OTHER -> a

(* The operations of a number and a histogram that have a result. *)
Compatible(op, a, b) ==
  \/ ~IsHistogram(a) /\ ~IsHistogram(b) /\ op # "trim"
  \/ IsHistogram(a) /\ ~IsHistogram(b) /\ op \in {"mul", "div", "trim"}
  \/ ~IsHistogram(a) /\ IsHistogram(b) /\ op = "mul"

IsComparison(op) == op \in {"gtr", "lss"}
Holds(op, a, b) == NaN \notin {a, b} /\ CASE op = "gtr" -> a > b [] op = "lss" -> a < b [] OTHER -> TRUE

(* The value of a group of samples, as a set: it is empty for a mixture of    *)
(* floats and histograms and where only histograms are left that an operation *)
(* ignores.  A quantile is the lower median and the parameter it is asked for. *)
AggValues(op, S, p) ==
  LET floats == {x \in S : ~IsHistogram(x.v)}
      numbers == {x \in floats : x.v # NaN}
      mixed == floats # {} /\ floats # S
      median == (CHOOSE x \in floats : /\ 2 * Cardinality({y \in floats : y.v < x.v}) < Cardinality(floats)
                                       /\ 2 * Cardinality({y \in floats : y.v > x.v}) <= Cardinality(floats)).v
  IN  CASE op = "count" -> {Unit * Cardinality(S)}
        [] op = "group" -> {Unit}
        [] op \in {"sum", "avg"} /\ mixed -> {}
        [] op = "sum" -> {SumOf(S)}
        [] op = "avg" -> {ArithValue("div", SumOf(S), Unit * Cardinality(S))}
        [] floats = {} -> {}
        [] op = "quantile" -> {Plus(p, median)}
        [] numbers = {} -> {NaN}
        [] op = "max" -> {(CHOOSE x \in numbers : \A y \in numbers : y.v <= x.v).v}
        [] op = "min" -> {(CHOOSE x \in numbers : \A y \in numbers : y.v >= x.v).v}

GroupOf(l, n) == IF n.without THEN Drop(l, n.grouping \cup {"n"}) ELSE Keep(l, n.grouping)

(* The k best of every group, with their labels: NaN is the worst, histograms *)
(* take no part; the other values are distinct.                               *)
TopK(S, n, k) ==
  LET floats == {x \in S : ~IsHistogram(x.v)}
      above(x, y) == CASE x.v = NaN -> FALSE
                       [] y.v = NaN -> TRUE
                       [] n.op = "topk" -> x.v > y.v
                       [] OTHER -> x.v < y.v
  IN  {x \in floats : Cardinality({y \in floats : GroupOf(y.l, n) = GroupOf(x.l, n) /\ above(y, x)}) < k}

(* Where a series stands among all possible ones, in units of 1/12: its hash *)
(* over the largest hash.                                                    *)
SampleOffset(l) == IF l["a"] = "x" THEN 3 ELSE 9
Clamped(r) == IF r > Unit THEN Unit ELSE IF r < -Unit THEN -Unit ELSE r
InRatio(l, r) == (r >= 0 /\ SampleOffset(l) < r) \/ (r < 0 /\ SampleOffset(l) >= Unit + r)

ParamOps == {"quantile", "topk", "bottomk", "limit_ratio"}

(* p is the parameter, where there is one. *)
Aggregate(n, S, p) ==
  CASE n.op \in {"topk", "bottomk"} -> TopK(S, n, QuoZero(p, Unit))
    [] n.op = "limit_ratio" -> {x \in S : InRatio(x.l, Clamped(p))}
    [] n.op = "count_values" ->
         LET key(x) == [GroupOf(x.l, n) EXCEPT !["a"] = ToString(x.v)]
         IN  { [l |-> key(x), v |-> Unit * Cardinality({y \in S : key(y) = key(x)})] : x \in S }
    [] OTHER ->
         LET members(g) == {x \in S : GroupOf(x.l, n) = g}
             groups == {GroupOf(x.l, n) : x \in S}
         IN  UNION { { [l |-> g, v |-> w] : w \in AggValues(n.op, members(g), p) } : g \in groups }

Signature(l, vm) == IF vm.on THEN Keep(l, vm.labels) ELSE Drop(l, vm.labels \cup {"n"})

(* A binary operation of two vectors. *)
Join(n, L, R) ==
  LET vm == n.vm
      sig(x) == Signature(x.l, vm)
      keep(x) == IF vm.card = "one_to_one" THEN (IF vm.on THEN Keep(x, vm.labels) ELSE Drop(x, vm.labels)) ELSE x
      named(x) == IF IsComparison(n.op) THEN x ELSE Drop(x, {"n"})
      many == IF vm.card = "one_to_many" THEN R ELSE L
      one == IF vm.card = "one_to_many" THEN L ELSE R
      pairs == {p \in many \X one : sig(p[1]) = sig(p[2])}
      left(p) == IF vm.card = "one_to_many" THEN p[2] ELSE p[1]
      right(p) == IF vm.card = "one_to_many" THEN p[1] ELSE p[2]
      label(p) == [x \in AllLabels |-> IF x \in vm.include THEN p[2].l[x] ELSE keep(named(p[1].l))[x]]
      out == { [l |-> label(p), v |-> IF IsComparison(n.op) THEN left(p).v ELSE ArithValue(n.op, left(p).v, right(p).v)]
               : p \in {q \in pairs : Holds(n.op, left(q).v, right(q).v) \/ ~IsComparison(n.op)} }
  IN  CASE n.op = "and" -> Vec({x \in L : \E y \in R : sig(x) = sig(y)})
        [] n.op = "unless" -> Vec({x \in L : \A y \in R : sig(x) # sig(y)})
        [] n.op = "or" -> Vec(L \cup {y \in R : \A x \in L : sig(x) # sig(y)})
        [] many = {} -> Vec({})
        [] \E x, y \in one : sig(x) = sig(y) /\ x # y -> Failed
        [] vm.card = "one_to_one" /\ \E p, q \in pairs : p[2] = q[2] /\ p # q -> Failed
        [] Cardinality({x.l : x \in out}) # Cardinality(out) -> Failed
        [] OTHER -> Vec(out)

(* An operation with a number on one side. *)
ScalarOp(n, L, R) ==
  LET lscalar == ReturnType(n.lhs) = "scalar"
      s == (CHOOSE x \in (IF lscalar THEN L ELSE R) : TRUE).v
      value(x) == IF lscalar THEN ArithValue(n.op, s, x.v) ELSE ArithValue(n.op, x.v, s)
      holds(x) == IF lscalar THEN Holds(n.op, s, x.v) ELSE Holds(n.op, x.v, s)
      fit == {x \in (IF lscalar THEN R ELSE L) : IF lscalar THEN Compatible(n.op, s, x.v) ELSE Compatible(n.op, x.v, s)}
  IN  IF IsComparison(n.op) THEN {x \in fit : holds(x)}
      ELSE { [l |-> IF n.op = "trim" THEN x.l ELSE Drop(x.l, {"n"}), v |-> value(x)] : x \in fit }

------------------------------------------------------------------------------
(* The value of an expression at a time: PromQL's semantics of instant       *)
(* evaluation.  env says how the time modifiers are read: env.ast as written *)
(* by the user, otherwise as the plan prepared them for an evaluation that   *)
(* starts at env.start.                                                      *)

LatestIn(S) == CHOOSE x \in S : \A y \in S : y.t <= x.t

ReadTime(n, t, env) ==
  IF ~env.ast THEN t - n.offset
  ELSE (IF n.timestamp = NoTime THEN t ELSE n.timestamp) - n.originalOffset

(* A selector may decode the statistics of histograms only. *)
Decoded(n, v) == IF n.stats THEN Stats(v) ELSE v

(* What the storage hands a selector: the window of its hints, the matchers, *)
(* the filters and the projection.                                           *)
Fetched(n, range, store, env) ==
  LET hints == getTimeRangesForVectorSelector(n, env, range)
      hashed(l, p) == [p EXCEPT ![SeriesHash] = ToString(l)]
      project(l) ==
        CASE n.projection.include -> hashed(l, Keep(l, n.projection.labels))
          [] n.projection.labels # {} -> hashed(l, Drop(l, n.projection.labels))
          [] OTHER -> l
  IN  { [x EXCEPT !.l = project(x.l), !.v = Decoded(n, @)] :
        x \in {y \in store : /\ MatchesAll(n.matchers, y.l)
                             /\ MatchesAll(n.filters, y.l)
                             /\ env.ast \/ (hints.mint <= y.t /\ y.t <= hints.maxt)} }

(* A function of the samples S of a range at t; p is its scalar argument. *)
OverTime(f, S, t, p) ==
  CASE f = "last_over_time" -> LatestIn(S).v
    [] f = "predict_linear" -> Plus(LatestIn(S).v + Unit * (t - LatestIn(S).t), p)    \* depends on the evaluation time
    [] f = "count_over_time" -> Unit * Cardinality(S)
    [] f = "sum_over_time" -> SumOf(S)

(* The labels absent() gives its result: those its selector pins to a value *)
(* with no matcher after it.                                                *)
AbsentLabels(arg) ==
  LET vs == IF arg.k = "vs" THEN arg ELSE arg.vs
      pin(acc, x) ==
        CASE x.name = "n" -> acc
          [] x.type = "=" /\ x.name \notin acc.has -> [has |-> acc.has \cup {x.name}, l |-> [acc.l EXCEPT ![x.name] = x.val[1]]]
          [] OTHER -> [acc EXCEPT !.l[x.name] = ""]
  IN  IF arg.k \notin {"vs", "matrix"} THEN NoLabels
      ELSE FoldLeft(pin, [has |-> {}, l |-> NoLabels], vs.matchers \o vs.filters).l

RangeResult(f, arg, S, t, p) ==
  IF f = "absent_over_time" THEN Vec(IF S = {} THEN {[l |-> AbsentLabels(arg), v |-> Unit]} ELSE {})
  ELSE LET named(l) == IF f = "last_over_time" THEN l ELSE Drop(l, {"n"})
       IN  Vec({ [l |-> named(l), v |-> OverTime(f, {x \in S : x.l = l}, t, p)] : l \in {x.l : x \in S} })

(* The samples a remote engine holds. *)
EngineStore(e, store) ==
  { x \in store : /\ e.mint <= x.t /\ x.t <= e.maxt
                  /\ e.labelSets = {} \/ \E ls \in e.labelSets : \A y \in DOMAIN ls : x.l[y] = ls[y] }

RECURSIVE Unwrapped(_)
Unwrapped(n) == IF n.k \in {"parens", "stepinv"} THEN Unwrapped(n.expr) ELSE n

(* The quantiles of histograms: native ones, and those whose buckets are   *)
(* series with an upper bound in the label "le".  A quantile is a sum that *)
(* depends on all it is computed from.                                     *)
UpperBounds == "1" :> 1 @@ "2" :> 2
NativeQuantile(q, v) == Plus(q, Buckets(v))
BucketQuantile(q, B) == Plus(q, SumOf({ [le |-> b.le, v |-> IF b.v = NaN THEN NaN ELSE b.le * b.v] : b \in B }))

QuantileOf(q, S) ==
  LET key(x) == Drop(x.l, {"le"})
      native(k) == {x \in S : key(x) = k /\ IsHistogram(x.v)}
      classic(k) == {x \in S : key(x) = k /\ ~IsHistogram(x.v) /\ x.l["le"] \in DOMAIN UpperBounds}
      buckets(k) == { [le |-> UpperBounds[x.l["le"]], v |-> x.v] : x \in classic(k) }
      out(k, v) == [l |-> Drop(k, {"n"}), v |-> v]
      result(k) == CASE native(k) # {} /\ classic(k) # {} -> {}
                     [] native(k) # {} -> { out(k, NativeQuantile(q, x.v)) : x \in native(k) }
                     [] classic(k) = {} -> {}
                     [] Cardinality(classic(k)) = 1 -> {out(k, NaN)}
                     [] OTHER -> {out(k, BucketQuantile(q, buckets(k)))}
  IN  UNION { result(key(x)) : x \in S }

RECURSIVE Eval(_, _, _, _)
Eval(n, t, store, env) ==
  CASE n.k = "num" -> Vec({[l |-> NoLabels, v |-> n.v]})
    [] n.k = "vs" ->
         LET at == ReadTime(n, t, env)
             S == {x \in Fetched(n, 0, store, env) : at - env.lookback < x.t /\ x.t <= at}
             latest(l) == LatestIn({x \in S : x.l = l})
         IN  Vec({ [l |-> IF n.selectTimestamp THEN Drop(l, {"n"}) ELSE l,
                    v |-> IF n.selectTimestamp THEN Unit * latest(l).t ELSE latest(l).v]
                   : l \in {x.l : x \in S} })
    [] n.k = "stepinv" -> Eval(n.expr, IF env.ast THEN t ELSE env.start, store, [env EXCEPT !.end = IF env.ast THEN @ ELSE env.start])
    [] n.k \in {"parens", "check"} -> Eval(n.expr, t, store, env)
    [] n.k = "unary" ->
         LET r == Eval(n.expr, t, store, env)
         IN  [r EXCEPT !.vec = { [l |-> Drop(x.l, {"n"}), v |-> -x.v] : x \in @ }]
    [] n.k = "agg" ->
         LET r == Eval(n.expr, t, store, env)
             p == IF n.op \in ParamOps THEN (CHOOSE x \in Eval(n.param, t, store, env).vec : TRUE).v ELSE 0
         IN  IF n.op \in ParamOps \ {"quantile"} /\ p = NaN THEN Failed ELSE [r EXCEPT !.vec = Aggregate(n, @, p)]
    [] n.k = "bin" ->
         LET l == Eval(n.lhs, t, store, env)
             r == Eval(n.rhs, t, store, env)
         IN  IF l.err \/ r.err THEN Failed
             ELSE IF n.vm.card = "none" THEN Vec(ScalarOp(n, l.vec, r.vec))
             ELSE Join(n, l.vec, r.vec)
    [] n.k = "noop" -> Vec({})
    [] n.k = "remote" ->
         IF t \in Steps([env EXCEPT !.start = n.start, !.end = n.end])
           THEN Eval(n.query, t, EngineStore(env.engines[n.engine], store), [env EXCEPT !.ast = TRUE]) ELSE Vec({})
    [] n.k = "merge" ->       \* the sample of the engine with the latest data wins
         LET part(i) == Eval(n.exprs[i], t, store, env)
             holders(l) == {i \in DOMAIN n.exprs : \E x \in part(i).vec : x.l = l}
             maxt(i) == env.engines[n.exprs[i].engine].maxt
             winner(l) == CHOOSE i \in holders(l) : \A j \in holders(l) : maxt(j) <= maxt(i)
         IN  IF \E i \in DOMAIN n.exprs : part(i).err THEN Failed
             ELSE Vec({ CHOOSE x \in part(winner(l)).vec : x.l = l : l \in UNION { {x.l : x \in part(i).vec} : i \in DOMAIN n.exprs } })
    [] n.k = "call" /\ n.fn = "time" -> Vec({[l |-> NoLabels, v |-> Unit * t]})
    [] n.k = "call" /\ n.args[1].k = "stepinv" /\ n.args[1].expr.k \in {"matrix", "subq"} ->
         Eval([n EXCEPT !.args[1] = @.expr], t, store, env)
    [] n.k = "call" /\ n.args[1].k = "matrix" ->
         LET m == n.args[1]
             at == ReadTime(m.vs, t, env)
             S == {x \in Fetched(m.vs, m.range, store, env) : at - m.range < x.t /\ x.t <= at}
             p == IF n.fn = "predict_linear" THEN UnwrapFloat(n.args[2]) ELSE 0
         IN  RangeResult(n.fn, m, S, t, p)
    [] n.k = "call" /\ n.args[1].k = "subq" ->
         LET q == n.args[1]
             at == (IF q.timestamp = NoTime THEN t ELSE q.timestamp) - q.originalOffset
             inner == [NestedOptionsForSubquery(env, q.step, q.range, q.offset)
                        EXCEPT !.end = IF q.timestamp # NoTime THEN q.timestamp - q.originalOffset ELSE @]
             times == {u \in (IF env.ast THEN {u \in (at - q.range)..at : u % q.step = 0} ELSE Steps(inner))
                         : at - q.range < u /\ u <= at}
             p == IF n.fn = "predict_linear" THEN (CHOOSE x \in Eval(n.args[2], t, store, env).vec : TRUE).v ELSE 0
             S == UNION { { [l |-> x.l, t |-> u, v |-> x.v] : x \in Eval(q.expr, u, store, inner).vec } : u \in times }
         IN  IF \E u \in times : Eval(q.expr, u, store, inner).err THEN Failed ELSE RangeResult(n.fn, q, S, t, p)
    [] n.k = "call" /\ n.fn = "timestamp" /\ Unwrapped(n.args[1]).k = "vs" /\ ~Unwrapped(n.args[1]).selectTimestamp ->
         Eval([Unwrapped(n.args[1]) EXCEPT !.selectTimestamp = TRUE], t, store, env)
    [] n.k = "call" /\ n.fn \in {"histogram_quantile", "clamp_max"} ->
         LET first == IF n.fn = "clamp_max" THEN 2 ELSE 1
             q == (CHOOSE x \in Eval(n.args[first], t, store, env).vec : TRUE).v
             r == Eval(n.args[3 - first], t, store, env)
             floats == {x \in r.vec : ~IsHistogram(x.v)}
             least(v) == IF NaN \in {v, q} THEN NaN ELSE IF v < q THEN v ELSE q
         IN  IF r.err THEN Failed
             ELSE IF n.fn = "histogram_quantile" THEN Vec(QuantileOf(q, r.vec))
             ELSE Vec({ [l |-> Drop(x.l, {"n"}), v |-> least(x.v)] : x \in floats })
    [] n.k = "call" ->
         LET r == Eval(n.args[1], t, store, env)
             floats == {x \in r.vec : ~IsHistogram(x.v)}
             anon(x) == Drop(x.l, {"n"})
         IN  IF r.err THEN Failed ELSE
             CASE n.fn = "absent" -> Vec(IF r.vec = {} THEN {[l |-> AbsentLabels(n.args[1]), v |-> Unit]} ELSE {})
               [] n.fn = "scalar" -> Vec({[l |-> NoLabels, v |-> IF Cardinality(floats) = 1 THEN (CHOOSE x \in floats : TRUE).v ELSE NaN]})
               [] n.fn = "timestamp" ->     \* of an expression that is no selector
                    Vec({ [l |-> anon(x), v |-> Unit * t] : x \in r.vec })
               [] n.fn = "label_replace" -> \* the source label is copied to the destination
                    LET dst == UnwrapString(n.args[2])
                        src == UnwrapString(n.args[4])
                        relabel(x) == [x EXCEPT !.l = [@ EXCEPT ![dst] = x.l[src]]]
                    IN  IF Cardinality({relabel(x).l : x \in r.vec}) # Cardinality(r.vec) THEN Failed
                        ELSE Vec({relabel(x) : x \in r.vec})
               [] n.fn = "histogram_count" -> Vec({ [l |-> anon(x), v |-> Count(x.v)] : x \in r.vec \ floats })
               [] OTHER -> r                \* sort, vector

=============================================================================
