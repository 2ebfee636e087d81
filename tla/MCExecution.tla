------------------------------ MODULE MCExecution ------------------------------
(* Expressions of every kind over a few series. *)
EXTENDS Execution

MCLabelNames == {"a", "b", "le", "z"}
MCLabelValues == {"", "x", "y", "e", "w", "1", "2"}

------------------------------------------------------------------------------
(* Samples: gaps longer than the lookback, series that start late or end early. *)

L(n, a, b, z) == [NoLabels EXCEPT !["n"] = n, !["a"] = a, !["b"] = b, !["z"] = z]
Series(l, f) == { [l |-> l, t |-> t, v |-> f[t]] : t \in DOMAIN f }

Bucket(a, le) == [NoLabels EXCEPT !["n"] = "bucket", !["a"] = a, !["le"] = le]

MCSamples ==
  Series(L("m", "x", "", "e"), 1 :> 12 @@ 2 :> 24 @@ 4 :> 36 @@ 6 :> 48 @@ 8 :> 60)
  \cup Series(L("m", "y", "", "e"), 3 :> 72 @@ 7 :> 84)
  \cup Series(L("m", "x", "y", "w"), 0 :> 96 @@ 4 :> 108 @@ 5 :> 120)
  \cup Series(L("q", "x", "", "e"), 2 :> 132 @@ 5 :> 144 @@ 8 :> 156)
  \cup Series(L("q", "y", "", "w"), 2 :> 168 @@ 4 :> 180 @@ 6 :> 192)
  \cup Series(L("hist", "x", "", "e"), 4 :> 700024 @@ 7 :> 900036)
  \cup Series(Bucket("x", "1"), 1 :> 36 @@ 5 :> 48) \cup Series(Bucket("x", "2"), 2 :> 60 @@ 7 :> 72)
  \cup Series(Bucket("y", "1"), 4 :> 84) \cup Series(Bucket("y", "w"), 3 :> 96) \cup Series(Bucket("x", ""), 7 :> 700024)

------------------------------------------------------------------------------
(* Expressions *)

Name(n) == M("n", "=", <<n>>)
m == Selector(<<Name("m")>>)
q == Selector(<<Name("q")>>)
hist == Selector(<<Name("hist")>>)
Sel(ms) == Selector(<<Name("m")>> \o ms)
SelQ(ms) == Selector(<<Name("q")>> \o ms)
Offset(n, o) == [n EXCEPT !.originalOffset = o]
At(n, t) == [n EXCEPT !.timestamp = t]
One == Num(12)
By(op, g, e) == Aggr(op, e, Nil, g, FALSE)
Without(op, g, e) == Aggr(op, e, Nil, g, TRUE)
VM(card, on, labels, include) == [card |-> card, on |-> on, labels |-> labels, include |-> include]
Default == VM("one_to_one", FALSE, {}, {})
On(labels) == VM("one_to_one", TRUE, labels, {})
Ignoring(labels) == VM("one_to_one", FALSE, labels, {})
SetOn(labels) == VM("many_to_many", TRUE, labels, {})
SetDefault == VM("many_to_many", FALSE, {}, {})
Eq(n, v) == M(n, "=", <<v>>)
Ne(n, v) == M(n, "!=", <<v>>)
Re(n, p) == M(n, "=~", p)
NRe(n, p) == M(n, "!~", p)
Over(f, e, r) == Call(f, <<Matrix(e, r)>>)
OverSub(f, e, r, s) == Call(f, <<SubqueryNode(e, r, s)>>)

Times ==
  { m, Offset(m, 2), StepInvariant(At(m, 5)), StepInvariant(Offset(At(m, 7), 2)),
    Call("timestamp", <<m>>), Call("timestamp", <<Paren(Offset(m, 1))>>), Call("timestamp", <<StepInvariant(At(m, 5))>>),
    Call("timestamp", <<Call("sort", <<m>>)>>), Call("timestamp", <<Neg(m)>>),
    Over("sum_over_time", m, 3), Over("count_over_time", Offset(m, 1), 4), Over("last_over_time", m, 4),
    StepInvariant(Over("sum_over_time", At(m, 6), 3)), Call("predict_linear", <<Matrix(m, 3), Num(24)>>),
    OverSub("sum_over_time", m, 4, 2), OverSub("count_over_time", Offset(m, 1), 5, 2),
    Call("sum_over_time", <<Offset(SubqueryNode(m, 3, 1), 2)>>),
    StepInvariant(Call("sum_over_time", <<At(SubqueryNode(m, 3, 2), 6)>>)),
    Call("predict_linear", <<StepInvariant(Offset(At(SubqueryNode(m, 3, 2), 7), 1)), StepInvariant(Num(24))>>),
    Call("sum_over_time", <<SubqueryNode(StepInvariant(At(m, 3)), 3, 2)>>),
    OverSub("sum_over_time", OverSub("count_over_time", m, 3, 1), 4, 2),
    OverSub("sum_over_time", Call("sum_over_time", <<Offset(SubqueryNode(Offset(m, 1), 3, 1), 1)>>), 4, 2),
    OverSub("count_over_time", StepInvariant(Call("last_over_time", <<At(SubqueryNode(m, 3, 2), 5)>>)), 4, 3),
    Call("absent_over_time", <<Matrix(Sel(<<Eq("a", "y")>>), 2)>>), Bin("mul", m, Call("time", <<>>), NoMatching) }

(* Queries of e; what is step invariant as a whole is wrapped as a whole, *)
(* but never across a subquery.                                           *)
Around(e) ==
  LET outer(x) == {By("sum", {"a"}, x), Without("max", {"b"}, x), Neg(Paren(x)), Call("absent", <<x>>)}
  IN  {OverSub("last_over_time", e, 4, 2), Bin("mul", e, q, VM("many_to_one", TRUE, {"a"}, {}))}
      \cup (IF e.k = "stepinv" THEN {StepInvariant(x) : x \in outer(e.expr)} ELSE outer(e))

Shapes ==
  { Bin("add", Paren(Bin("mul", Num(24), Paren(Num(36)), NoMatching)), Neg(Num(12)), NoMatching),
    Bin("sub", m, Paren(Bin("div", Num(24), Num(12), NoMatching)), NoMatching),
    Call("sort", <<Paren(Bin("gtr", Call("sort_desc", <<m>>), Num(40), NoMatching))>>),
    Aggr("topk", Call("sort", <<m>>), One, {"z"}, FALSE), Aggr("count_values", m, Str("a"), {"z"}, FALSE),
    By("sum", {"a"}, Paren(Neg(m))), Without("max", {"a"}, m), By("avg", {}, m), Aggr("quantile", m, Num(6), {"a"}, FALSE),
    Call("scalar", <<Sel(<<Eq("a", "y")>>)>>), Call("absent", <<Sel(<<Eq("a", "y"), Eq("b", "x")>>)>>),
    Bin("sub", m, q, Default), Bin("sub", m, q, On({"a", "z"})), Bin("add", m, q, VM("many_to_one", TRUE, {"a"}, {"b"})),
    Bin("and", m, q, SetOn({"a"})), Bin("or", m, q, SetDefault), Bin("unless", m, q, SetOn({"z"})),
    Call("histogram_count", <<hist>>), Call("histogram_quantile", <<Num(6), hist>>),
    Call("histogram_quantile", <<Num(6), Call("histogram_count", <<hist>>)>>),
    Call("histogram_count", <<Call("histogram_quantile", <<Num(6), hist>>)>>),
    Call("histogram_count", <<By("sum", {"a"}, hist)>>), Call("histogram_count", <<Bin("trim", hist, One, NoMatching)>>),
    Call("histogram_count", <<OverSub("last_over_time", hist, 4, 1)>>) }

(* Selectors of one metric, and operands that constrain each other. *)
Selections ==
  { Bin("div", Sel(<<Eq("a", "x")>>), m, Default), Bin("or", Sel(<<Eq("a", "x"), Eq("b", "y")>>), Sel(<<Eq("b", "y")>>), SetDefault),
    Bin("or", Sel(<<Eq("a", "x")>>), Sel(<<Ne("a", "x")>>), SetDefault),
    By("sum", {"z"}, Bin("or", Sel(<<Eq("z", "e"), Re("a", <<"x">>)>>), Sel(<<Eq("z", "e")>>), SetDefault)),
    Bin("unless", Selector(<<M("n", "=~", <<"m">>), Eq("a", "x")>>), Selector(<<M("n", "=~", <<"m">>)>>), SetDefault),
    Call("absent", <<Bin("and", Sel(<<Eq("a", "x"), Eq("b", "x")>>), Sel(<<Eq("a", "x")>>), SetDefault)>>) }
  \cup { Bin(op, Sel(<<lm>>), SelQ(<<rm>>), vm) :
          op \in {"sub", "and"},
          lm \in {Eq("a", "x"), Ne("a", "x"), Re("a", <<".+">>)},
          rm \in {Eq("a", "y"), Ne("a", "y"), Re("a", <<"x", "y">>), NRe("a", <<".*">>), Eq("z", "e")},
          vm \in {Default, On({"a"}), Ignoring({"b"}), Ignoring({"a", "b"})} }

Projections ==
  { By("sum", {"a"}, Sel(<<Eq("z", "e")>>)), Without("sum", {"a"}, m), Without("count", {"b", "z"}, m), By("count", {}, Bin("mul", m, Num(24), NoMatching)),
    By("sum", {"a"}, Bin("mul", m, q, Ignoring({"b"}))), Without("sum", {"z"}, Bin("sub", m, q, On({"a", "z"}))),
    By("sum", {"a"}, Bin("mul", m, q, VM("many_to_one", TRUE, {"a", "z"}, {"b"}))),
    By("sum", {"b"}, Bin("mul", m, q, VM("many_to_one", TRUE, {"a"}, {"b", "z"}))),
    By("sum", {"a"}, Bin("mul", q, m, VM("one_to_many", FALSE, {"b"}, {}))),
    By("sum", {"b"}, Call("label_replace", <<m, Str("b"), Str(""), Str("a"), Str("")>>)),
    By("sum", {"z"}, Call("label_replace", <<m, Str("b"), Str(""), Str("a"), Str("")>>)),
    Without("sum", {"a"}, Call("label_replace", <<m, Str("b"), Str(""), Str("a"), Str("")>>)),
    Without("sum", {"b"}, Call("label_replace", <<m, Str("b"), Str(""), Str("a"), Str("")>>)),
    By("sum", {"a"}, Over("sum_over_time", m, 3)), By("sum", {"a"}, Aggr("topk", m, One, {"z"}, FALSE)),
    By("max", {"a"}, Call("histogram_quantile", <<Num(6), hist>>)), By("sum", {"a"}, Bin("mul", m, Call("scalar", <<hist>>), NoMatching)),
    Call("absent", <<By("sum", {"a"}, m)>>), Bin("and", Without("sum", {"b"}, m), q, SetOn({"a"})) }

(* Arguments and parameters that change from step to step, or are missing. *)
time == Call("time", <<>>)
Y == Sel(<<Eq("a", "y")>>)
Minus(e, v) == Bin("sub", e, Num(v), NoMatching)
Sometimes == Minus(Call("scalar", <<Y>>), 60)
Counting == Minus(time, 48)
Mixed == Selector(<<M("n", "=~", <<"m", "hist">>)>>)
Buckets3 == Selector(<<Name("bucket")>>)
K(op, p, g, e) == Aggr(op, e, p, g, FALSE)

Stepwise ==
  { K(op, p, g, m) : op \in {"topk", "bottomk"}, p \in {Counting, Sometimes, One}, g \in {{}, {"z"}} }
  \cup { K("limit_ratio", p, {}, e) : p \in {Counting, Bin("div", Counting, Num(24), NoMatching)}, e \in {m, Mixed} }
  \cup { K("quantile", p, {"z"}, Mixed) : p \in {Counting, Call("scalar", <<Y>>)} }
  \cup { By(op, g, Mixed) : op \in {"sum", "avg", "max", "min", "count", "group"}, g \in {{}, {"a"}} }
  \cup { Call("clamp_max", <<e, p>>) : e \in {m, Mixed, OverSub("sum_over_time", m, 3, 2)}, p \in {Call("scalar", <<Y>>), Bin("mul", time, time, NoMatching)} }
  \cup { Call("histogram_quantile", <<p, Buckets3>>) : p \in {Num(6), time, Call("scalar", <<Y>>)} }
  \cup { OverSub("sum_over_time", e, r, s) :
            e \in {K("bottomk", Counting, {}, m), Call("clamp_max", <<m, time>>), Call("histogram_quantile", <<time, Buckets3>>),
                   Bin("mul", m, q, VM("many_to_one", TRUE, {"a"}, {})), By("count", {}, Mixed), Call("vector", <<time>>), Call("absent", <<Y>>),
                   Aggr("count_values", m, Str("a"), {}, FALSE), Bin("or", m, q, SetDefault)},
            r \in {2, 5}, s \in {1, 3} }
  \cup { Call("predict_linear", <<SubqueryNode(m, 3, 2), p>>) : p \in {time, Call("scalar", <<Y>>)} }
  \cup { Call("histogram_count", <<e>>) : e \in {Mixed, Over("sum_over_time", hist, 4), OverSub("last_over_time", hist, 3, 1)} }
  \cup { Call("timestamp", <<Call("timestamp", <<e>>)>>) : e \in {m, Offset(m, 2), Paren(Y)} }
  \cup { Call("vector", <<time>>), Call("vector", <<Call("scalar", <<Y>>)>>), Call("absent_over_time", <<SubqueryNode(Y, 2, 1)>>),
         By("sum", {}, Aggr("count_values", Mixed, Str("a"), {"z"}, FALSE)), K("quantile", Num(6), {}, Aggr("count_values", m, Str("b"), {}, FALSE)),
         Bin("gtr", m, Call("scalar", <<Y>>), NoMatching), Bin("lss", Call("scalar", <<Y>>), m, NoMatching), Bin("mul", Mixed, time, NoMatching),
         Bin("gtr", Counting, Num(0), NoMatching), Bin("add", By("sum", {"a"}, m), K("topk", Counting, {}, By("sum", {"a"}, q)), Default),
         Bin("add", By("max", {"a"}, m), StepInvariant(By("sum", {"a"}, At(q, 6))), Default), Bin("lss", m, q, VM("many_to_one", TRUE, {"a"}, {})),
         Bin("gtr", q, m, VM("one_to_many", TRUE, {"a"}, {"b"})), Bin("sub", q, m, On({"a"})), Bin("or", Y, Call("vector", <<time>>), SetDefault),
         Call("label_replace", <<m, Str("a"), Str(""), Str("z"), Str("")>>), Neg(Selector(<<M("n", "=~", <<"m", "q">>)>>)),
         Call("sum_over_time", <<Matrix(Selector(<<M("n", "=~", <<"m", "q">>)>>), 2)>>) }

(* Aggregations whose selectors are read a few series at a time. *)
Batched ==
  { By(op, g, e) : op \in {"sum", "max", "count"}, g \in {{}, {"a"}}, e \in {m, Mixed, Neg(m), Over("sum_over_time", m, 3), By("sum", {"z"}, m)} }
  \cup { By("sum", {}, Bin("mul", By("max", {"a"}, m), Call("scalar", <<By("count", {}, q)>>), NoMatching)), K("topk", One, {}, By("sum", {"a"}, m)),
         OverSub("sum_over_time", By("sum", {"z"}, m), 4, 1), Bin("sub", By("sum", {"a"}, m), By("sum", {"a"}, q), On({"a"})) }

------------------------------------------------------------------------------
(* Queries *)

Range1 == [start |-> 4, end |-> 8, step |-> 2, lookback |-> 3]
Instant == [start |-> 6, end |-> 6, step |-> 0, lookback |-> 3]
OffStep == [start |-> 4, end |-> 9, step |-> 2, lookback |-> 3]
Thirds(end) == [start |-> 2, end |-> end, step |-> 3, lookback |-> 3]
NoFault == [metric |-> "", read |-> 0]
Local(ast, o, os) ==
  [ast |-> ast, opts |-> o, optimizers |-> os, batchSize |-> 0, endpoints |-> <<>>, static |-> TRUE,
   skipBinaryPushdown |-> FALSE, samples |-> MCSamples, stepsBatch |-> 2, fault |-> NoFault]

DefaultOptimizers == <<"sort", "merge", "stats", "batch">>
AllOptimizers == <<"sort", "merge", "stats", "propagate", "batch">>
LocalQueries ==
  { Local(e, Range1, DefaultOptimizers) : e \in UNION {Around(x) : x \in Times} }
  \cup { Local(e, o, DefaultOptimizers) : e \in Times \cup Shapes, o \in {Range1, OffStep, Instant} }
  \cup { Local(e, Range1, os) : e \in Selections, os \in {AllOptimizers, <<"propagate", "merge">>} }
  \cup { Local(e, Range1, os) : e \in Projections, os \in {<<"merge", "projection">>, <<"projection", "merge", "batch">>} }

(* What is executed in batches of one, two and three steps. *)
Grid == [start |-> 3, end |-> 9, step |-> 1, lookback |-> 3]
StepwiseQueries ==
  { [Local(e, o, DefaultOptimizers) EXCEPT !.stepsBatch = n] : e \in Stepwise, o \in {Grid, Instant}, n \in 1..3 }
  \cup { [Local(e, Range1, DefaultOptimizers) EXCEPT !.stepsBatch = n] : e \in Times, n \in {1, 3} }
  \cup { [Local(e, Grid, DefaultOptimizers) EXCEPT !.stepsBatch = n, !.batchSize = b] : e \in Batched, n \in {2, 3}, b \in 1..2 }

(* The storage fails a selector of m or q at its first, second or third read. *)
Faulty ==
  { [Local(e, Grid, DefaultOptimizers) EXCEPT !.fault = [metric |-> n, read |-> k]] :
      n \in {"m", "q"}, k \in 1..3,
      e \in { K("topk", Call("scalar", <<q>>), {}, m), K("quantile", Call("scalar", <<q>>), {}, m), By("sum", {}, m), Aggr("count_values", m, Str("a"), {}, FALSE),
              Call("clamp_max", <<m, Call("scalar", <<q>>)>>), Call("histogram_quantile", <<Call("scalar", <<q>>), m>>), Bin("and", m, q, SetDefault),
              Bin("mul", m, q, VM("many_to_one", TRUE, {"a"}, {})), Bin("mul", m, Call("scalar", <<q>>), NoMatching), Bin("or", Call("vector", <<One>>), m, SetDefault),
              OverSub("sum_over_time", m, 3, 1), Call("predict_linear", <<SubqueryNode(m, 3, 2), Call("scalar", <<q>>)>>), Call("absent", <<m>>),
              Bin("mul", q, StepInvariant(Call("scalar", <<At(m, 5)>>)), NoMatching), Call("timestamp", <<Neg(m)>>),
              Call("label_replace", <<m, Str("b"), Str(""), Str("a"), Str("")>>), Call("vector", <<Call("scalar", <<m>>)>>) } }

(* Engines of two regions; one region may be served by an older and a newer *)
(* engine, whose data overlap by more or by less than the lookback.         *)
Engine(id, z, mint, maxt) ==
  [id |-> id, mint |-> mint, maxt |-> maxt, labelSets |-> {"z" :> z}, partition |-> {"z" :> z}]
OnlyEast == <<Engine(1, "e", 0, 8)>>
Regions == <<Engine(1, "e", 0, 8), Engine(2, "w", 0, 8)>>
Split(newMint, oldMaxt) == <<Engine(1, "e", newMint, 10), Engine(2, "e", 0, oldMaxt), Engine(3, "w", 0, 10)>>
Splits == {Split(2, 6), Split(3, 6), Split(4, 7), Split(3, 4), Split(6, 9), Split(7, 10)}

OnEngines(ast, o, es, static, samples) ==
  [ast |-> ast, opts |-> o, optimizers |-> <<"passthrough", "distribute", "batch">>,
   batchSize |-> 0, endpoints |-> es, static |-> static, skipBinaryPushdown |-> FALSE, samples |-> samples, stepsBatch |-> 2, fault |-> NoFault]

(* The series of the result do not depend on the samples' values. *)
Steady ==
  { m, Over("sum_over_time", m, 3), By("sum", {}, m), By("count", {"a"}, m), By("avg", {"a"}, m), Without("sum", {"a"}, m),
    Without("avg", {"z"}, m), By("avg", {"z"}, m), Aggr("quantile", m, Num(6), {"z"}, FALSE), Aggr("quantile", m, Num(6), {"a"}, FALSE), By("group", {}, m),
    By("max", {}, By("sum", {"z"}, m)), By("max", {}, By("sum", {"a"}, m)),
    Call("absent", <<Sel(<<Eq("a", "y")>>)>>), Call("absent_over_time", <<Matrix(m, 2)>>), Call("absent", <<By("sum", {}, m)>>),
    Bin("mul", m, Num(24), NoMatching), Bin("sub", m, q, Default), Bin("sub", m, q, On({"a", "z"})), Bin("sub", m, q, On({"a"})),
    By("sum", {"a"}, Bin("mul", m, Call("scalar", <<Sel(<<Eq("a", "y")>>)>>), NoMatching)),
    By("sum", {"z"}, Call("label_replace", <<m, Str("z"), Str(""), Str("a"), Str("")>>)),
    By("sum", {"b"}, Call("label_replace", <<m, Str("b"), Str(""), Str("a"), Str("")>>)),
    StepInvariant(By("sum", {"a"}, At(m, 5))), OverSub("sum_over_time", By("sum", {"a"}, m), 3, 1),
    Bin("mul", m, Call("time", <<>>), NoMatching), Call("time", <<>>), Call("timestamp", <<m>>), Neg(m) }

Filtering ==
  { Sel(<<Eq("z", "e")>>), Aggr("topk", m, One, {}, FALSE), Aggr("topk", By("sum", {"z", "a"}, m), One, {}, FALSE),
    Aggr("limit_ratio", m, Num(6), {}, FALSE), Aggr("limit_ratio", m, Num(6), {"z"}, FALSE),
    Aggr("count_values", m, Str("a"), {"z"}, FALSE), Aggr("count_values", m, Str("a"), {}, FALSE),
    Bin("gtr", m, Num(40), NoMatching), Bin("or", m, q, SetDefault), Bin("or", m, Call("vector", <<One>>), SetDefault),
    Bin("or", Sel(<<Eq("z", "e")>>), SelQ(<<Eq("z", "w")>>), SetDefault), Bin("or", By("sum", {"a"}, m), By("sum", {"a"}, q), SetDefault),
    Bin("unless", m, q, SetOn({"a"})), Bin("and", m, q, SetDefault), By("count", {}, Offset(m, 2)),
    OverSub("sum_over_time", By("sum", {"a"}, Offset(m, 1)), 4, 2), Over("sum_over_time", Offset(m, 1), 2) }

(* How far before a step they read is added up from a range and an offset. *)
Reaching == {Over("sum_over_time", m, 5), Over("sum_over_time", Offset(m, 1), 4), By("sum", {"a"}, Over("count_over_time", Offset(m, 2), 3))}

(* Samples of one region around the point where its data are split. *)
AtBoundary == { [l |-> L("m", a, "", "e"), t |-> t, v |-> 12 * t + IF a = "x" THEN 0 ELSE 120] : a \in {"x", "y"}, t \in {1, 4, 5} }

DistributedQueries ==
  { OnEngines(e, o, es, st, MCSamples) :
      e \in Steady \cup Filtering, o \in {Range1, Instant}, es \in {Regions, OnlyEast}, st \in BOOLEAN }
  \cup { OnEngines(e, o, es, TRUE, MCSamples) : e \in Steady, o \in {Range1, Instant}, es \in Splits }
  \cup { OnEngines(e, o, es, TRUE, MCSamples) : e \in Steady, o \in {OffStep, Thirds(8), Thirds(9)}, es \in Splits \ {Split(7, 10)} }
  \cup { [OnEngines(e, Range1, Regions, TRUE, MCSamples) EXCEPT !.skipBinaryPushdown = TRUE] : e \in {x \in Steady \cup Filtering : x.k = "bin"} }
  \cup { OnEngines(e, o, Split(2, 7), TRUE, MCSamples) : e \in Reaching, o \in {Range1, OffStep, Thirds(8)} }
  \cup { OnEngines(e, Range1, es, TRUE, s) :
           e \in {By("count", {}, m), Over("sum_over_time", m, 3)}, es \in {Split(2, 5), Split(3, 6)}, s \in SUBSET AtBoundary }

FailingEngines ==
  { [OnEngines(e, Range1, es, TRUE, MCSamples) EXCEPT !.fault = [metric |-> "engine", read |-> 1]] : e \in {By("sum", {"a"}, m), Neg(m)}, es \in {OnlyEast, Regions} }

(* Queries outside the above, each of which shows what the code says of it *)
(* and does not do.                                                        *)

(* The newer engine is complete after the end of the query, before another *)
(* step would have passed; or at 7, two after a step, in a query that ends *)
(* two after its last step.                                                *)
LateEngineQueries == {OnEngines(m, Thirds(8), Split(7, 10), TRUE, MCSamples)}
UnevenEndQueries == {OnEngines(m, Thirds(10), Split(4, 8), TRUE, MCSamples)}
(* An offset and a lookback that are shorter than the overlap, not together. *)
OffsetQueries == {OnEngines(Offset(m, 2), Range1, Split(3, 6), TRUE, MCSamples)}
(* Each region has one engine, and one holds less than the other. *)
YoungRegionQueries == {OnEngines(m, Range1, <<Engine(1, "e", 0, 10), Engine(2, "w", 3, 10)>>, TRUE, MCSamples)}
(* A filter drops from the newer answer what the older one keeps. *)
OutdatedQueries == {OnEngines(Bin("lss", m, Num(60), NoMatching), Thirds(8), Split(3, 7), TRUE, MCSamples)}
(* Selectors that hold more series than a batch. *)
BatchedScalarQueries == {[Local(By("sum", {}, Bin("mul", m, Num(24), NoMatching)), Grid, DefaultOptimizers) EXCEPT !.batchSize = 1]}
BatchedCountValuesQueries == {[Local(Aggr("count_values", m, Str("a"), {}, FALSE), Grid, DefaultOptimizers) EXCEPT !.batchSize = 1]}

MCQueries == LocalQueries \cup StepwiseQueries \cup Faulty \cup DistributedQueries \cup FailingEngines
=============================================================================
