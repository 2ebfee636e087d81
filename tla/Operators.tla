----------------------------- MODULE Operators -----------------------------
(* The operators that execute a plan.  An operator is a record with its kind *)
(* k, the label sets of its series (whose indices are the sample ids) and    *)
(* its state.  A step vector is a record [t, s] with s a sequence of samples *)
(* [id, v].  NextOf(op, cap) is one call of Next with room for cap vectors:  *)
(* the operator after it, the vectors it returned (<<>> at the end) and      *)
(* whether it failed.  Concurrent operators and the shards of selectors are  *)
(* left out; what they add is in Concurrent and AggregatePipeline.  Options  *)
(* are those of PromQL!Eval with fields stepsBatch, the size of a batch, and *)
(* fault [metric, read]: the read at which selectors of a metric fail, or 0. *)
EXTENDS Accumulators

RECURSIVE NextOf(_, _)

(* A sequence, whose elements TLC evaluates once. *)
Listed(s) == s \o <<>>
Vector(t, s) == [t |-> t, s |-> Listed(s)]
Got(op, out) == [op |-> op, out |-> Listed(out), err |-> FALSE]
Fails(op) == [op |-> op, out |-> <<>>, err |-> TRUE]

NoOperator == [k |-> "nil"]
AsSeq(S) == FoldSet(LAMBDA x, s : Append(s, x), <<>>, S)
Least(a, b) == IF a < b THEN a ELSE b
IndexOf(s, x) == CHOOSE i \in DOMAIN s : s[i] = x /\ \A j \in 1..(i - 1) : s[j] # x
Distinct(s) == FoldLeft(LAMBDA d, x : IF x \in Range(d) THEN d ELSE Append(d, x), <<>>, s)
Unnamed(ls) == [i \in DOMAIN ls |-> Drop(ls[i], {"n"})]

(* The step clock most operators have. *)
NumStepsPerBatch(o) == Least(o.stepsBatch, TotalSteps(o))
Clock(o) == [cur |-> o.start, end |-> o.end, step |-> IF o.step = 0 THEN 1 ELSE o.step, batch |-> NumStepsPerBatch(o)]
Due(clock, cap) ==
  LET left == IF clock.cur > clock.end THEN 0 ELSE (clock.end - clock.cur) \div clock.step + 1
  IN  [i \in 1..Least(left, Least(cap, clock.batch)) |-> clock.cur + (i - 1) * clock.step]
Advance(op, n) == [op EXCEPT !.clock.cur = @ + op.clock.step * n]

(* The sample of a vector that stands for a number. *)
ScalarOf(vector) == IF Len(Floats(vector.s)) = 1 THEN Floats(vector.s)[1].v ELSE NaN

(* An operator that turns each vector of its input into one of its own. *)
Through(op, cap, Samples(_)) ==
  LET r == NextOf(op.next, cap)
      read == [op EXCEPT !.next = r.op]
  IN  IF r.err THEN Fails(read) ELSE Got(read, [i \in DOMAIN r.out |-> Vector(r.out[i].t, Samples(r.out[i]))])

------------------------------------------------------------------------------
(* Numbers and time() *)

NextLiteral(op, cap) ==
  LET times == Due(op.clock, cap)
  IN  Got(Advance(op, Len(times)), [i \in DOMAIN times |-> Vector(times[i], <<[id |-> 1, v |-> op.v]>>)])

NextNoArg(op, cap) ==
  LET times == Due(op.clock, cap)
  IN  Got(Advance(op, Len(times)), [i \in DOMAIN times |-> Vector(times[i], <<[id |-> 1, v |-> Unit * times[i]]>>)])

------------------------------------------------------------------------------
(* Selectors *)

SelectedSeries(ls, fn, range, stamp) == IF stamp \/ (range > 0 /\ fn # "last_over_time") THEN Unnamed(ls) ELSE ls

(* A selector of samples [l, t, v]: of the latest one for range 0, otherwise *)
(* of a function of those in a range.                                        *)
SelectFrom(samples, fn, arg, range, offset, batchSize, stamp, o, failAt) ==
  LET ls == AsSeq({x.l : x \in samples})
  IN  [k |-> "select",
       series |-> SelectedSeries(ls, fn, range, stamp),
       points |-> [i \in DOMAIN ls |-> {x \in samples : x.l = ls[i]}],
       fn |-> fn, arg |-> arg, range |-> range, offset |-> offset, lookback |-> o.lookback, stamp |-> stamp,
       size |-> IF batchSize = 0 \/ Len(ls) < batchSize THEN Len(ls) ELSE batchSize,
       currentSeries |-> 0, clock |-> Clock(o), reads |-> 0, failAt |-> failAt, failed |-> FALSE]

(* The value of a series at t, as a set: that of the sample at the reference *)
(* time or else of the latest one within the lookback.                       *)
PointAt(op, i, t) ==
  LET ref == t - op.offset
      back == IF op.range > 0 THEN op.range ELSE op.lookback
      S == {x \in op.points[i] : x.t <= ref /\ (x.t > ref - back \/ (x.t = ref /\ op.range = 0))}
  IN  CASE S = {} -> {}
        [] op.range > 0 -> {OverTime(op.fn, S, t, op.arg)}
        [] op.stamp -> {Unit * LatestIn(S).t}
        [] OTHER -> {LatestIn(S).v}

(* The next series of the batch of steps, or all of them; the steps are *)
(* passed once every series was read.                                   *)
NextSelect(op, cap) ==
  LET times == Due(op.clock, cap)
      to == Least(op.currentSeries + op.size, Len(op.series))
      present(t) == SelectSeq([j \in 1..(to - op.currentSeries) |-> op.currentSeries + j], LAMBDA i : PointAt(op, i, t) # {})
      sample(i, t) == [id |-> i, v |-> CHOOSE v \in PointAt(op, i, t) : TRUE]
      read == [op EXCEPT !.reads = @ + 1, !.currentSeries = IF to = Len(op.series) THEN 0 ELSE to]
  IN  CASE times = <<>> -> Got(op, <<>>)
        [] read.reads = op.failAt -> Fails([read EXCEPT !.failed = TRUE])
        [] OTHER ->
             Got(IF to = Len(op.series) THEN Advance(read, Len(times)) ELSE read,
                 [n \in DOMAIN times |->
                    Vector(times[n], [j \in DOMAIN present(times[n]) |-> sample(present(times[n])[j], times[n])])])

------------------------------------------------------------------------------
(* Subqueries *)

Push(buffer, t, v) == Append(buffer, [t |-> t, v |-> v])
(* Mutant: the sample at the start of the range stays. *)
ResetBufferInclusive(buffer, rangeStart) == SelectSeq(buffer, LAMBDA x : x.t >= rangeStart)
ResetBuffer(buffer, rangeStart) == SelectSeq(buffer, LAMBDA x : x.t > rangeStart)

(* A vector is added to the buffers of its series, unless it is before mint *)
(* or a buffer already has it.                                              *)
collect(buffers, vector, mint) ==
  LET known(x) == buffers[x.id] # <<>> /\ (vector.t < Last(buffers[x.id]).t \/ (vector.t = Last(buffers[x.id]).t /\ ~IsHistogram(x.v)))
      fresh(i) == {j \in DOMAIN vector.s : vector.s[j].id = i /\ ~known(vector.s[j])}
  IN  IF vector.t < mint THEN buffers
      ELSE Listed([i \in DOMAIN buffers |->
              IF fresh(i) = {} THEN buffers[i] ELSE Push(buffers[i], vector.t, vector.s[CHOOSE j \in fresh(i) : TRUE].v)])

(* The vectors up to maxt are collected, the others are kept for later steps. *)
CollectUpTo(op, vectors, mint, maxt) ==
  LET n == Cardinality({i \in DOMAIN vectors : \A j \in 1..i : vectors[j].t <= maxt})
  IN  [op EXCEPT !.buffers = FoldLeft(LAMBDA b, v : collect(b, v, mint), @, SubSeq(vectors, 1, n)),
                 !.lastVectors = SubSeq(vectors, n + 1, Len(vectors))]

(* More of the inner expression is read until one of its vectors is kept. *)
RECURSIVE FillBuffers(_, _, _)
FillBuffers(op, mint, maxt) ==
  LET r == NextOf(op.next, op.stepsBatch)
      read == [op EXCEPT !.next = r.op]
  IN  CASE op.lastVectors # <<>> -> Got(op, <<>>)
        [] r.err -> Fails(read)
        [] r.out = <<>> -> Got(read, <<>>)
        [] OTHER -> FillBuffers(CollectUpTo(read, r.out, mint, maxt), mint, maxt)

(* One step, the i-th of its batch. *)
SubqueryStep(op, i) ==
  LET t == op.clock.cur
      maxt == (IF op.timestamp = NoTime THEN t ELSE op.timestamp) - op.originalOffset
      rangeStart == maxt - op.range
      reset == [op EXCEPT !.buffers = Listed([b \in DOMAIN @ |-> ResetBuffer(@[b], rangeStart)])]
      r == FillBuffers(CollectUpTo(reset, op.lastVectors, rangeStart + 1, maxt), rangeStart + 1, maxt)
      present == SelectSeq([b \in DOMAIN op.buffers |-> b], LAMBDA b : r.op.buffers[b] # <<>>)
      value(b) == OverTime(op.fn, Range(r.op.buffers[b]), t, op.params[i])
  IN  IF r.err THEN r
      ELSE Got(Advance(r.op, 1), <<Vector(t, [j \in DOMAIN present |-> [id |-> present[j], v |-> value(present[j])]])>>)

RECURSIVE SubquerySteps(_, _, _)
SubquerySteps(op, out, maxSteps) ==
  IF op.clock.cur > op.clock.end \/ Len(out) = maxSteps THEN Got(op, out)
  ELSE LET r == SubqueryStep(op, Len(out) + 1)
       IN  IF r.err THEN r ELSE SubquerySteps(r.op, out \o r.out, maxSteps)

(* The parameters of the next batch of steps. *)
SetParams(op, r) ==
  LET read == [op EXCEPT !.param = r.op]
  IN  IF r.err THEN Fails(read)
      ELSE Got([read EXCEPT !.params = Listed([i \in DOMAIN @ |-> IF i <= Len(r.out) THEN ScalarOf(r.out[i]) ELSE @[i]])], r.out)
(* Mutant: the parameters of the first batch are kept. *)
ReadParamsOnce(op) == IF op.param = NoOperator \/ Range(op.params) # {0} THEN Got(op, <<>>) ELSE SetParams(op, NextOf(op.param, op.stepsBatch))
ReadParams(op) == IF op.param = NoOperator THEN Got(op, <<>>) ELSE SetParams(op, NextOf(op.param, op.stepsBatch))

NextSubquery(op, cap) ==
  IF op.clock.cur > op.clock.end THEN Got(op, <<>>)
  ELSE LET p == ReadParams(op)
       IN  IF p.err THEN p ELSE SubquerySteps(p.op, <<>>, Least(op.stepsBatch, cap))

NewSubqueryOperator(inner, param, fn, q, o) ==
  [k |-> "subquery", series |-> IF fn = "last_over_time" THEN inner.series ELSE Unnamed(inner.series),
   next |-> inner, param |-> param, params |-> [i \in 1..o.stepsBatch |-> 0],
   fn |-> fn, range |-> q.range, originalOffset |-> q.originalOffset, timestamp |-> q.timestamp,
   lastVectors |-> <<>>, buffers |-> [i \in DOMAIN inner.series |-> <<>>],
   clock |-> Clock(o), stepsBatch |-> o.stepsBatch]

------------------------------------------------------------------------------
(* Step invariant expressions: one vector, repeated at every step *)

cacheInputVector(op) ==
  LET r == NextOf(op.next, 1)
      read == [op EXCEPT !.next = r.op, !.cached = TRUE]
  IN  IF op.cached THEN Got(op, <<>>)
      ELSE IF r.err THEN Fails(read)
      ELSE Got([read EXCEPT !.vector = IF r.out = <<>> THEN <<>> ELSE r.out[1].s], <<>>)

NextStepInvariant(op, cap) ==
  LET times == Due(op.clock, cap)
      c == cacheInputVector(op)
  IN  IF times = <<>> THEN Got(op, <<>>)
      ELSE IF c.err THEN c
      ELSE Got(Advance(c.op, Len(times)), [i \in DOMAIN times |-> Vector(times[i], c.op.vector)])

NextUnary(op, cap) == Through(op, cap, LAMBDA v : [i \in DOMAIN v.s |-> [v.s[i] EXCEPT !.v = IF @ = NaN THEN NaN ELSE -@]])

------------------------------------------------------------------------------
(* Aggregations.  output gives the output series, or the group, of each *)
(* input series.                                                        *)

Vectorised == {"sum", "max", "min", "count", "avg", "group"}

NewHashAggregate(next, param, n, o) ==
  LET groups == [i \in DOMAIN next.series |-> GroupOf(next.series[i], n)]
      series == IF n.op \in Vectorised /\ ~n.without /\ n.grouping = {} THEN <<NoLabels>> ELSE Distinct(groups)
  IN  [k |-> "agg", series |-> series, output |-> [i \in DOMAIN groups |-> IndexOf(series, groups[i])],
       next |-> next, param |-> param, params |-> [i \in 1..o.stepsBatch |-> 0],
       op |-> n.op, lastBatch |-> <<>>, stepsBatch |-> o.stepsBatch]

aggregate(op, tables, in) ==
  Listed([i \in DOMAIN tables |-> IF i <= Len(in) THEN AggregateInto(tables[i], op.output, in[i]) ELSE tables[i]])

(* Batches are aggregated as long as they start at the same step. *)
RECURSIVE AggregateBatches(_, _, _)
AggregateBatches(op, tables, numTables) ==
  LET r == NextOf(op.next, op.stepsBatch)
      read == [op EXCEPT !.next = r.op]
      filled(o, err) == [op |-> o, tables |-> tables, n |-> numTables, err |-> err]
  IN  CASE r.err -> filled(read, TRUE)
        [] r.out = <<>> -> filled(read, FALSE)
        [] tables[1].t \in {NoTime, r.out[1].t} -> AggregateBatches(read, aggregate(op, tables, r.out), Len(r.out))
        [] OTHER -> filled([read EXCEPT !.lastBatch = r.out], FALSE)

AggregateFrom(op, held, cap) ==
  LET fresh == [i \in DOMAIN op.params |-> ResetTable(op.op, op.series, op.params[i])]
      r == AggregateBatches([op EXCEPT !.lastBatch = <<>>], aggregate(op, fresh, held), Len(held))
  IN  IF r.err THEN Fails(r.op) ELSE Got(r.op, [i \in 1..Least(r.n, cap) |-> populateVector(r.tables[i])])

(* Mutant: the batch read ahead is forgotten. *)
NextAggregateForgetful(op, cap) == LET p == ReadParams(op) IN IF p.err THEN p ELSE AggregateFrom(p.op, <<>>, cap)
NextAggregate(op, cap) == LET p == ReadParams(op) IN IF p.err THEN p ELSE AggregateFrom(p.op, op.lastBatch, cap)

NewKHashAggregate(next, param, n, o) ==
  LET groups == [i \in DOMAIN next.series |-> GroupOf(next.series[i], n)]
  IN  [k |-> "kagg", series |-> next.series, output |-> [i \in DOMAIN groups |-> IndexOf(groups, groups[i])],
       next |-> next, param |-> param, params |-> [i \in 1..o.stepsBatch |-> 0], op |-> n.op, stepsBatch |-> o.stepsBatch]

(* The heap of a group has its worst sample on top, which a better one replaces. *)
Worse(op, a, b) == CASE b = NaN -> FALSE [] a = NaN -> TRUE [] op = "topk" -> a < b [] OTHER -> a > b
PushBounded(op, heap, k, x) ==
  LET top == CHOOSE e \in heap : \A f \in heap : ~Worse(op, f.v, e.v)
  IN  IF Cardinality(heap) < k THEN heap \cup {x}
      ELSE IF Worse(op, top.v, x.v) THEN (heap \ {top}) \cup {x} ELSE heap

KSamples(op, s, p) ==
  LET heaps == FoldLeft(LAMBDA hs, x : [hs EXCEPT ![op.output[x.id]] = PushBounded(op.op, @, QuoZero(p, Unit), x)],
                        [i \in DOMAIN op.series |-> {}], Floats(s))
  IN  CASE op.op = "limit_ratio" -> SelectSeq(s, LAMBDA x : p # 0 /\ InRatio(op.series[x.id], p))
        [] QuoZero(p, Unit) <= 0 -> <<>>
        [] OTHER -> AsSeq(UNION Range(heaps))

(* The parameter is read for the steps the input has. *)
NextKAggregate(op, cap) ==
  LET r == NextOf(op.next, op.stepsBatch)
      p == ReadParams([op EXCEPT !.next = r.op])
      param(i) == IF op.op = "limit_ratio" THEN Clamped(p.op.params[i]) ELSE p.op.params[i]
  IN  CASE r.err -> Fails([op EXCEPT !.next = r.op])
        [] r.out = <<>> -> Got([op EXCEPT !.next = r.op], <<>>)
        [] p.err -> p
        [] \E i \in DOMAIN p.out : p.op.params[i] = NaN -> Fails(p.op)
        [] OTHER -> Got(p.op, [i \in 1..Least(Len(r.out), cap) |-> Vector(r.out[i].t, KSamples(op, r.out[i].s, param(i)))])

(* count_values reads all its input when its series are asked for: only then *)
(* are they known.  What is left to read after the result r of a read:       *)
RECURSIVE Drain(_, _, _)
Drain(r, cap, out) ==
  IF r.err THEN Fails(r.op) ELSE IF r.out = <<>> THEN Got(r.op, out) ELSE Drain(NextOf(r.op, cap), cap, out \o r.out)

CountedValues(all, inputs, n, o) ==
  LET label(x) == [GroupOf(inputs[x.id], n) EXCEPT ![UnwrapString(n.param)] = ToString(x.v)]
      labels(v) == [j \in DOMAIN v.s |-> label(v.s[j])]
      series == Distinct(FlattenSeq([i \in DOMAIN all.out |-> labels(all.out[i])]))
      counted(v) == [t |-> v.t,
                     s |-> [j \in DOMAIN Distinct(labels(v)) |->
                              [id |-> IndexOf(series, Distinct(labels(v))[j]),
                               v |-> Unit * Cardinality({i \in DOMAIN v.s : label(v.s[i]) = Distinct(labels(v))[j]})]]]
  IN  [k |-> "countvalues", series |-> series, next |-> all.op, err |-> all.err,
       counts |-> [i \in DOMAIN all.out |-> counted(all.out[i])], stepsBatch |-> o.stepsBatch]

initSeriesOnce(next, n, o) == CountedValues(Drain(NextOf(next, o.stepsBatch), o.stepsBatch, <<>>), next.series, n, o)

NextCountValues(op, cap) ==
  LET n == Least(Len(op.counts), Least(cap, op.stepsBatch))
  IN  IF op.err THEN Fails(op)
      ELSE Got([op EXCEPT !.counts = SubSeq(@, n + 1, Len(@))], SubSeq(op.counts, 1, n))

------------------------------------------------------------------------------
(* Functions *)

NextScalarFunction(op, cap) == Through(op, cap, LAMBDA v : <<[id |-> 1, v |-> ScalarOf(v)]>>)

NextTimestamp(op, cap) ==
  Through(op, cap, LAMBDA v : [i \in DOMAIN v.s |-> IF IsHistogram(v.s[i].v) THEN v.s[i] ELSE [v.s[i] EXCEPT !.v = Unit * v.t]])

NextAbsent(op, cap) == Through(op, cap, LAMBDA v : IF v.s = <<>> THEN <<[id |-> 1, v |-> Unit]>> ELSE <<>>)

NextRelabel(op, cap) == Through(op, cap, LAMBDA v : v.s)
loadRelabeled(ls, n) == [i \in DOMAIN ls |-> [ls[i] EXCEPT ![UnwrapString(n.args[2])] = ls[i][UnwrapString(n.args[4])]]]

(* The value of a function for a sample and its scalar arguments, as a set. *)
CallValue(fn, v, args) ==
  CASE fn = "histogram_count" -> IF IsHistogram(v) THEN {Count(v)} ELSE {}
    [] IsHistogram(v) -> {}
    [] fn = "clamp_max" -> IF NaN \in {v, args[1]} THEN {NaN} ELSE {Least(v, args[1])}
    [] OTHER -> {v}

(* The vector argument is read into the room there is, then every scalar    *)
(* argument for a whole batch.                                              *)
ReadScalars(op, others) ==
  FoldLeft(LAMBDA acc, i :
             LET r == NextOf(acc.op.args[i], op.stepsBatch)
             IN  IF acc.err THEN acc
                 ELSE [op |-> [acc.op EXCEPT !.args[i] = r.op], out |-> Append(acc.out, r.out), err |-> r.err],
           Got(op, <<>>), others)

NextFunction(op, cap) ==
  LET r == NextOf(op.args[op.vectorIndex], cap)
      read == [op EXCEPT !.args[op.vectorIndex] = r.op]
      p == ReadScalars(read, SelectSeq([i \in DOMAIN op.args |-> i], LAMBDA i : i # op.vectorIndex))
      points(i) == [j \in DOMAIN p.out |-> IF i <= Len(p.out[j]) THEN ScalarOf(p.out[j][i]) ELSE NaN]
      called(x, i) == CallValue(op.fn, x.v, points(i))
      samples(i) == SelectSeq(r.out[i].s, LAMBDA x : called(x, i) # {})
      result(i) == [j \in DOMAIN samples(i) |-> [samples(i)[j] EXCEPT !.v = CHOOSE v \in called(samples(i)[j], i) : TRUE]]
  IN  CASE r.err -> Fails(read)
        [] r.out = <<>> -> Got(read, <<>>)
        [] p.err -> Fails(p.op)
        [] OTHER -> Got(p.op, [i \in DOMAIN r.out |-> Vector(r.out[i].t, result(i))])

(* Buckets are grouped by their labels without le, the name included; the *)
(* name is dropped from the result.                                       *)
NewHistogramOperator(scalar, vector, o) ==
  LET keys == [i \in DOMAIN vector.series |-> Drop(vector.series[i], {"le"})]
      outputs == Distinct(keys)
      bound(l) == IF l["le"] \in DOMAIN UpperBounds THEN UpperBounds[l["le"]] ELSE 0
  IN  [k |-> "histogram", series |-> Unnamed(outputs), output |-> [i \in DOMAIN keys |-> IndexOf(outputs, keys[i])],
       upperBound |-> [i \in DOMAIN keys |-> bound(vector.series[i])],
       scalar |-> scalar, vector |-> vector, stepsBatch |-> o.stepsBatch]

(* One step: a native histogram is dropped together with the buckets of its *)
(* output series.                                                           *)
processInputSeries(op, s, q) ==
  LET buckets(out) == { [le |-> op.upperBound[x.id], v |-> x.v] :
                          x \in {y \in Range(Floats(s)) : op.output[y.id] = out /\ op.upperBound[y.id] # 0} }
      native(out) == {x \in Range(Histograms(s)) : op.output[x.id] = out}
      value(out) == CASE native(out) # {} -> NativeQuantile(q, (CHOOSE x \in native(out) : TRUE).v)
                      [] Cardinality(buckets(out)) = 1 -> NaN
                      [] OTHER -> BucketQuantile(q, buckets(out))
      outputs == SelectSeq([i \in DOMAIN op.series |-> i], LAMBDA i : (buckets(i) = {}) # (native(i) = {}))
  IN  [j \in DOMAIN outputs |-> [id |-> outputs[j], v |-> value(outputs[j])]]

NextHistogram(op, cap) ==
  LET r == NextOf(op.vector, op.stepsBatch)
      q == NextOf(op.scalar, Len(r.out))
      read == [op EXCEPT !.vector = r.op]
      both == [read EXCEPT !.scalar = q.op]
      point(i) == IF i <= Len(q.out) THEN ScalarOf(q.out[i]) ELSE NaN
  IN  CASE r.err -> Fails(read)
        [] r.out = <<>> -> Got(read, <<>>)
        [] q.err -> Fails(both)
        [] q.out = <<>> -> Got(both, <<>>)
        [] OTHER -> Got(both, [i \in 1..Least(Len(r.out), cap) |->
                                 Vector(r.out[i].t, processInputSeries(op, r.out[i].s, point(i)))])

------------------------------------------------------------------------------
(* Binary operations: both sides are read for a batch, and a failure of *)
(* either fails the operation.                                          *)

(* Mutant: only the error of the right side counts. *)
ReadBothRhsError(op) ==
  LET l == NextOf(op.lhs, op.stepsBatch)
      r == NextOf(op.rhs, op.stepsBatch)
  IN  [op |-> [op EXCEPT !.lhs = l.op, !.rhs = r.op], lhs |-> l.out, rhs |-> r.out, err |-> r.err]

ReadBoth(op) ==
  LET l == NextOf(op.lhs, op.stepsBatch)
      r == NextOf(op.rhs, op.stepsBatch)
  IN  [op |-> [op EXCEPT !.lhs = l.op, !.rhs = r.op], lhs |-> l.out, rhs |-> r.out, err |-> l.err \/ r.err]

PairedSteps(both, cap) == 1..Least(cap, Least(Len(both.lhs), Len(both.rhs)))

NewScalar(lhs, rhs, n, o) ==
  LET lhsScalar == ReturnType(n.lhs) = "scalar"
      series == IF lhsScalar THEN rhs.series ELSE lhs.series
  IN  [k |-> "scalarbin", series |-> IF IsComparison(n.op) \/ n.op = "trim" THEN series ELSE Unnamed(series),
       lhs |-> lhs, rhs |-> rhs, lhsScalar |-> lhsScalar, op |-> n.op, stepsBatch |-> o.stepsBatch]

execScalar(op, lhs, rhs) ==
  LET scalar == IF op.lhsScalar THEN lhs.s[1].v ELSE rhs.s[1].v
      left(x) == IF op.lhsScalar THEN scalar ELSE x.v
      right(x) == IF op.lhsScalar THEN x.v ELSE scalar
      kept == SelectSeq(IF op.lhsScalar THEN rhs.s ELSE lhs.s,
                        LAMBDA x : Compatible(op.op, left(x), right(x)) /\ (IsComparison(op.op) => Holds(op.op, left(x), right(x))))
  IN  [j \in DOMAIN kept |-> IF IsComparison(op.op) THEN kept[j] ELSE [kept[j] EXCEPT !.v = ArithValue(op.op, left(kept[j]), right(kept[j]))]]

NextScalarBinary(op, cap) ==
  LET both == ReadBoth(op)
  IN  IF both.err THEN Fails(both.op)
      ELSE Got(both.op, [i \in PairedSteps(both, cap) |-> Vector(both.lhs[i].t, execScalar(op, both.lhs[i], both.rhs[i]))])

resultMetric(n, high, low) ==
  LET named == IF IsComparison(n.op) THEN high ELSE Drop(high, {"n"})
      kept == CASE n.vm.card # "one_to_one" -> named
                [] n.vm.on -> Keep(named, n.vm.labels)
                [] OTHER -> Drop(named, n.vm.labels)
  IN  [x \in AllLabels |-> IF x \in n.vm.include THEN low[x] ELSE kept[x]]

(* The output series: a block for every series of the high cardinality side, *)
(* with one for each distinct choice of included labels on the other.        *)
initJoinTables(lhs, rhs, n, o) ==
  LET swapped == n.vm.card = "one_to_many"
      high == IF swapped THEN rhs.series ELSE lhs.series
      low == IF swapped THEN lhs.series ELSE rhs.series
      hsig == [i \in DOMAIN high |-> Signature(high[i], n.vm)]
      lsig == [i \in DOMAIN low |-> Signature(low[i], n.vm)]
      ranks(sig) == Distinct([j \in DOMAIN SelectSeq(low, LAMBDA l : Signature(l, n.vm) = sig)
                               |-> Keep(SelectSeq(low, LAMBDA l : Signature(l, n.vm) = sig)[j], n.vm.include)])
      block(i) == [j \in DOMAIN ranks(hsig[i]) |-> resultMetric(n, high[i], ranks(hsig[i])[j])]
      first(i) == CASE n.op \in {"or", "unless"} -> high[i]
                    [] hsig[i] \notin Range(lsig) -> NoLabels
                    [] n.op = "and" -> high[i]
                    [] OTHER -> block(i)[1]
      series == CASE n.op = "and" -> Distinct(SelectSeq(high, LAMBDA l : Signature(l, n.vm) \in Range(lsig)))
                  [] n.op = "or" -> Distinct(high \o low)
                  [] n.op = "unless" -> Distinct(high)
                  [] OTHER -> Distinct(FlattenSeq([i \in DOMAIN high |-> block(i)]))
  IN  [k |-> "vectorbin", series |-> series, lhs |-> lhs, rhs |-> rhs, op |-> n.op, card |-> n.vm.card, stepsBatch |-> o.stepsBatch,
       hsig |-> hsig, lsig |-> lsig,
       hcOutputBase |-> [i \in DOMAIN high |-> IF first(i) \in Range(series) THEN IndexOf(series, first(i)) ELSE 1],
       lcOutputOffset |-> [i \in DOMAIN low |-> IndexOf(ranks(lsig[i]), Keep(low[i], n.vm.include)) - 1],
       lcOutputBase |-> [i \in DOMAIN low |-> IF n.op = "or" THEN IndexOf(series, low[i]) ELSE 1]]

execSet(op, lhs, rhs) ==
  LET to(s, base) == [j \in DOMAIN s |-> [s[j] EXCEPT !.id = base[s[j].id]]]
      marked(s, sig) == {sig[x.id] : x \in Range(s)}
      inRhs(x) == op.hsig[x.id] \in marked(rhs.s, op.lsig)
  IN  CASE op.op = "and" -> to(SelectSeq(lhs.s, inRhs), op.hcOutputBase)
        [] op.op = "unless" -> to(SelectSeq(lhs.s, LAMBDA x : ~inRhs(x)), op.hcOutputBase)
        [] op.op = "or" -> to(lhs.s, op.hcOutputBase)
                           \o to(SelectSeq(rhs.s, LAMBDA x : op.lsig[x.id] \notin marked(lhs.s, op.hsig)), op.lcOutputBase)

(* Two present series of the low side with one signature fail the operation, *)
(* matched or not, unless nothing is on the high side.                       *)
execBinaryArithmetic(op, lhs, rhs) ==
  LET hcs == IF op.card = "one_to_many" THEN rhs.s ELSE lhs.s
      lcs == IF op.card = "one_to_many" THEN lhs.s ELSE rhs.s
      same(s, sig) == \E i, j \in DOMAIN s : i # j /\ sig[s[i].id] = sig[s[j].id]
      matched == SelectSeq(hcs, LAMBDA x : \E y \in Range(lcs) : op.lsig[y.id] = op.hsig[x.id])
      low(x) == CHOOSE y \in Range(lcs) : op.lsig[y.id] = op.hsig[x.id]
      left(x) == IF op.card = "one_to_many" THEN low(x).v ELSE x.v
      right(x) == IF op.card = "one_to_many" THEN x.v ELSE low(x).v
      kept == SelectSeq(matched, LAMBDA x : IsComparison(op.op) => Holds(op.op, left(x), right(x)))
      value(x) == IF IsComparison(op.op) THEN left(x) ELSE ArithValue(op.op, left(x), right(x))
  IN  CASE hcs = <<>> -> Got(op, <<>>)
        [] same(lcs, op.lsig) -> Fails(op)
        [] op.card = "one_to_one" /\ same(matched, op.hsig) -> Fails(op)
        [] OTHER -> Got(op, [j \in DOMAIN kept |-> [id |-> op.hcOutputBase[kept[j].id] + op.lcOutputOffset[low(kept[j]).id], v |-> value(kept[j])]])

execBinaryOperation(op, lhs, rhs) ==
  IF op.op \in {"and", "or", "unless"} THEN Got(op, execSet(op, lhs, rhs)) ELSE execBinaryArithmetic(op, lhs, rhs)

NextVectorBinary(op, cap) ==
  LET both == ReadBoth(op)
      steps == Listed([i \in PairedSteps(both, cap) |-> execBinaryOperation(op, both.lhs[i], both.rhs[i])])
  IN  IF both.err \/ \E i \in DOMAIN steps : steps[i].err THEN Fails(both.op)
      ELSE Got(both.op, [i \in DOMAIN steps |-> Vector(both.lhs[i].t, steps[i].out)])

------------------------------------------------------------------------------
(* The check for duplicate labels *)

NewDuplicateLabelCheck(next) ==
  [k |-> "check", series |-> Distinct(next.series), next |-> next,
   outputIDs |-> [i \in DOMAIN next.series |-> IndexOf(Distinct(next.series), next.series[i])],
   seen |-> {}, origin |-> NoTime]

(* What a batch returned before, from its first step on, is seen again only *)
(* by the next series of the same steps.                                    *)
NextCheck(op, cap) ==
  LET r == NextOf(op.next, cap)
      read == [op EXCEPT !.next = r.op]
      first == r.out[1].t
      before == {x \in op.seen : x[1] >= first}
      remapped == Listed([i \in DOMAIN r.out |-> Vector(r.out[i].t, [j \in DOMAIN r.out[i].s |-> [r.out[i].s[j] EXCEPT !.id = op.outputIDs[@]]])])
      now == FlattenSeq([i \in DOMAIN remapped |-> [j \in DOMAIN remapped[i].s |-> <<remapped[i].t, remapped[i].s[j].id>>]])
  IN  CASE r.err -> Fails(read)
        [] r.out = <<>> \/ Len(op.series) = Len(op.outputIDs) -> Got(read, r.out)
        [] first < op.origin \/ Range(now) \cap before # {} \/ Cardinality(Range(now)) < Len(now) -> Fails(read)
        [] OTHER -> Got([read EXCEPT !.seen = before \cup Range(now), !.origin = first], remapped)

------------------------------------------------------------------------------
(* Remote engines *)

(* The inputs that wait at the earliest step are merged. *)
NextCoalesce(op, cap) ==
  LET r == Listed([i \in DOMAIN op.operators |->
              IF op.inVectors[i] # <<>> THEN Got(op.operators[i], <<>>) ELSE NextOf(op.operators[i], cap)])
      shifted(v, i) == Vector(v.t, [j \in DOMAIN v.s |-> [v.s[j] EXCEPT !.id = @ + op.sampleOffsets[i]]])
      in == Listed([i \in DOMAIN op.operators |-> op.inVectors[i] \o [n \in DOMAIN r[i].out |-> shifted(r[i].out[n], i)]])
      waiting == {i \in DOMAIN in : in[i] # <<>>}
      ready == SelectSeq([i \in DOMAIN in |-> i], LAMBDA i : i \in waiting /\ \A j \in waiting : in[i][1].t <= in[j][1].t)
      n == Least(Len(in[ready[1]]), cap)
      left(i) == IF i \in Range(ready) THEN SubSeq(in[i], n + 1, Len(in[i])) ELSE in[i]
      merged(s) == FlattenSeq([j \in DOMAIN ready |-> IF s <= Len(in[ready[j]]) THEN in[ready[j]][s].s ELSE <<>>])
      read == [op EXCEPT !.operators = [i \in DOMAIN @ |-> r[i].op]]
  IN  CASE \E i \in DOMAIN op.operators : r[i].err -> Fails(read)
        [] waiting = {} -> Got(read, <<>>)
        [] OTHER -> Got([read EXCEPT !.inVectors = [i \in DOMAIN @ |-> left(i)]],
                        [s \in 1..n |-> Vector(in[ready[1]][s].t, merged(s))])

NewCoalesce(ops) ==
  IF Len(ops) = 1 THEN ops[1]
  ELSE [k |-> "coalesce", operators |-> ops, series |-> FlattenSeq([i \in DOMAIN ops |-> ops[i].series]),
        sampleOffsets |-> [i \in DOMAIN ops |-> Len(FlattenSeq([j \in 1..(i - 1) |-> ops[j].series]))],
        inVectors |-> [i \in DOMAIN ops |-> <<>>]]

NewDedupOperator(next) ==
  [k |-> "dedup", series |-> Distinct(next.series), next |-> next,
   outputIndex |-> [i \in DOMAIN next.series |-> IndexOf(Distinct(next.series), next.series[i])]]

(* Of the samples of one series the last one wins. *)
NextDedup(op, cap) ==
  Through(op, cap, LAMBDA v :
    LET last == SelectSeq([j \in DOMAIN v.s |-> j],
                          LAMBDA j : \A i \in (j + 1)..Len(v.s) : op.outputIndex[v.s[i].id] # op.outputIndex[v.s[j].id])
    IN  [n \in DOMAIN last |-> [id |-> op.outputIndex[v.s[last[n]].id], v |-> v.s[last[n]].v]])

------------------------------------------------------------------------------

NextOf(op, cap) ==
  CASE op.k = "literal" -> NextLiteral(op, cap)
    [] op.k = "noarg" -> NextNoArg(op, cap)
    [] op.k = "select" -> NextSelect(op, cap)
    [] op.k = "subquery" -> NextSubquery(op, cap)
    [] op.k = "stepinv" -> NextStepInvariant(op, cap)
    [] op.k = "unary" -> NextUnary(op, cap)
    [] op.k = "agg" -> NextAggregate(op, cap)
    [] op.k = "kagg" -> NextKAggregate(op, cap)
    [] op.k = "countvalues" -> NextCountValues(op, cap)
    [] op.k = "scalar" -> NextScalarFunction(op, cap)
    [] op.k = "timestamp" -> NextTimestamp(op, cap)
    [] op.k = "absent" -> NextAbsent(op, cap)
    [] op.k = "relabel" -> NextRelabel(op, cap)
    [] op.k = "function" -> NextFunction(op, cap)
    [] op.k = "histogram" -> NextHistogram(op, cap)
    [] op.k = "scalarbin" -> NextScalarBinary(op, cap)
    [] op.k = "vectorbin" -> NextVectorBinary(op, cap)
    [] op.k = "check" -> NextCheck(op, cap)
    [] op.k = "coalesce" -> NextCoalesce(op, cap)
    [] op.k = "dedup" -> NextDedup(op, cap)

------------------------------------------------------------------------------
(* Construction *)

RECURSIVE newOperator(_, _, _)

NewNumberLiteralSelector(v, o) == [k |-> "literal", series |-> <<NoLabels>>, v |-> v, clock |-> Clock(o)]
Wrap(kind, series, next) == [k |-> kind, series |-> series, next |-> next]

(* The read at which the storage fails a selector. *)
FailAt(n, o) == IF \E i \in DOMAIN n.matchers : n.matchers[i] = M("n", "=", <<o.fault.metric>>) THEN o.fault.read ELSE 0

newVectorSelector(n, o, store) ==
  SelectFrom(Fetched(n, 0, store, o), "", 0, 0, n.offset, n.batchSize, n.selectTimestamp, o, FailAt(n, o))

(* Only a range function over a subquery may have an argument that is not a number. *)
RangeArgument(n, fn) == IF fn = "predict_linear" THEN UnwrapFloat(n.args[2]) ELSE 0
newRangeVectorFunction(n, fn, m, o, store) ==
  SelectFrom(Fetched(m.vs, m.range, store, o), fn, RangeArgument(n, fn), m.range,
             m.vs.offset, m.vs.batchSize, FALSE, o, FailAt(m.vs, o))

newSubqueryFunction(n, fn, q, o, store) ==
  LET nested == NestedOptionsForSubquery(o, q.step, q.range, q.offset)
      inner == IF q.timestamp = NoTime THEN nested ELSE [nested EXCEPT !.end = q.timestamp - q.originalOffset]
      param == IF fn = "predict_linear" THEN newOperator(n.args[2], o, store) ELSE NoOperator
  IN  NewSubqueryOperator(newOperator(q.expr, inner, store), param, fn, q, o)

newRangeFunction(n, fn, o, store) ==
  IF n.args[1].k = "subq" THEN newSubqueryFunction(n, fn, n.args[1], o, store) ELSE newRangeVectorFunction(n, fn, n.args[1], o, store)

newAbsentOverTimeOperator(n, o, store) ==
  Wrap("absent", <<AbsentLabels(n.args[1])>>, newRangeFunction(n, "last_over_time", o, store))

NewFunctionOperator(n, o, store) ==
  LET args == [i \in DOMAIN n.args |-> newOperator(n.args[i], o, store)]
      vectorIndex == IF n.fn = "vector" THEN 1 ELSE CHOOSE i \in DOMAIN n.args : ReturnType(n.args[i]) = "vector"
      next == newOperator(n.args[1], o, store)
  IN  CASE n.fn = "scalar" -> Wrap("scalar", <<>>, next)
        [] n.fn = "timestamp" -> Wrap("timestamp", Unnamed(next.series), next)
        [] n.fn = "label_replace" -> Wrap("relabel", loadRelabeled(next.series, n), next)
        [] n.fn = "absent" -> Wrap("absent", <<AbsentLabels(n.args[1])>>, next)
        [] n.fn = "histogram_quantile" -> NewHistogramOperator(args[1], args[2], o)
        [] n.args = <<>> -> [k |-> "noarg", series |-> <<>>, clock |-> Clock(o)]
        [] OTHER -> [k |-> "function", fn |-> n.fn, args |-> args, vectorIndex |-> vectorIndex, stepsBatch |-> o.stepsBatch,
                     series |-> IF n.fn = "vector" THEN <<NoLabels>> ELSE Unnamed(args[vectorIndex].series)]

(* timestamp() of a bare selector is the selector's; one that the plan has *)
(* made so already is wrapped in a check, which keeps it from here.        *)
newCall(n, o, store) ==
  CASE n.fn = "absent_over_time" -> newAbsentOverTimeOperator(n, o, store)
    [] n.fn = "timestamp" /\ n.args[1].k = "vs" -> newVectorSelector([n.args[1] EXCEPT !.selectTimestamp = TRUE], o, store)
    [] n.fn = "timestamp" /\ n.args[1].k = "stepinv" /\ n.args[1].expr.k = "vs" ->
         newVectorSelector([n.args[1].expr EXCEPT !.selectTimestamp = TRUE, !.originalOffset = IF n.args[1].expr.timestamp # NoTime THEN 0 ELSE @], o, store)
    [] n.args # <<>> /\ n.args[1].k \in {"subq", "matrix"} -> newRangeFunction(n, n.fn, o, store)
    [] OTHER -> NewFunctionOperator(n, o, store)

newAggregateExpression(n, o, store) ==
  LET next == newOperator(n.expr, o, store)
      param == IF n.op \in ParamOps THEN newOperator(n.param, o, store) ELSE NoOperator
  IN  CASE n.op = "count_values" -> initSeriesOnce(next, n, o)
        [] n.op \in {"topk", "bottomk", "limit_ratio"} -> NewKHashAggregate(next, param, n, o)
        [] OTHER -> NewHashAggregate(next, param, n, o)

newBinaryExpression(n, o, store) ==
  LET lhs == newOperator(n.lhs, o, store)
      rhs == newOperator(n.rhs, o, store)
  IN  IF "scalar" \in {ReturnType(n.lhs), ReturnType(n.rhs)} THEN NewScalar(lhs, rhs, n, o) ELSE initJoinTables(lhs, rhs, n, o)

newStepInvariantExpression(n, o, store) ==
  IF n.expr.k = "num" THEN NewNumberLiteralSelector(n.expr.v, o)
  ELSE LET next == newOperator(n.expr, [o EXCEPT !.end = o.start], store)
       IN  [k |-> "stepinv", series |-> next.series, next |-> next, cached |-> FALSE, vector |-> <<>>, clock |-> Clock(o)]

(* The answer of a remote engine is read like a storage without lookback; *)
(* the engine is external and answers what PromQL says.                   *)
newRemoteExecution(n, o, store) ==
  LET steps == Steps([o EXCEPT !.start = n.start, !.end = n.end])
      answer == [t \in steps |-> Eval(n.query, t, EngineStore(o.engines[n.engine], store), [o EXCEPT !.ast = TRUE])]
      samples == UNION { { [l |-> x.l, t |-> t, v |-> x.v] : x \in answer[t].vec } : t \in steps }
      failed == o.fault.metric = "engine" \/ \E t \in steps : answer[t].err
  IN  SelectFrom(samples, "", 0, 0, 0, 0, FALSE, [o EXCEPT !.lookback = 0], IF failed THEN 1 ELSE 0)

newRemoteMerge(n, o, store) ==
  LET byMaxT == SortSeq(n.exprs, LAMBDA x, y : o.engines[x.engine].maxt < o.engines[y.engine].maxt)
  IN  NewDedupOperator(NewCoalesce([i \in DOMAIN byMaxT |-> newOperator(byMaxT[i], o, store)]))

newOperator(n, o, store) ==
  CASE n.k = "num" -> NewNumberLiteralSelector(n.v, o)
    [] n.k = "vs" -> newVectorSelector(n, o, store)
    [] n.k = "call" -> newCall(n, o, store)
    [] n.k = "agg" -> newAggregateExpression(n, o, store)
    [] n.k = "bin" -> newBinaryExpression(n, o, store)
    [] n.k = "parens" -> newOperator(n.expr, o, store)
    [] n.k = "unary" -> LET next == newOperator(n.expr, o, store) IN Wrap("unary", Unnamed(next.series), next)
    [] n.k = "stepinv" -> newStepInvariantExpression(n, o, store)
    [] n.k = "merge" -> newRemoteMerge(n, o, store)
    [] n.k = "remote" -> newRemoteExecution(n, o, store)
    [] n.k = "check" -> NewDuplicateLabelCheck(newOperator(n.expr, o, store))
    [] n.k = "noop" -> SelectFrom({}, "", 0, 0, 0, 0, FALSE, o, 0)

(* The result of a query has unique labels even without checks inside the plan. *)
WithUniqueLabels(op, n) == IF n.k \in {"check", "noop"} \/ ReturnType(n) # "vector" THEN op ELSE NewDuplicateLabelCheck(op)
NewExecution(n, o, store) == WithUniqueLabels(newOperator(n, o, store), n)

=============================================================================
