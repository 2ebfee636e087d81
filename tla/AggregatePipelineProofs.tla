----------------------- MODULE AggregatePipelineProofs -----------------------
(* However series are sharded, batched and merged, the aggregate returns every *)
(* step once and with every sample, and a failed load or read fails the query. *)
EXTENDS AggregatePipelineSteps

-----------------------------------------------------------------------------
(* The steps of the aggregate. *)

(* A table of the series X, which is reset when these are none. *)
TableOf(table, v, X) == table = Table(Query, v, X) \/ (table = EmptyTable(v) /\ X = {})
SamplesMerge(table, v, X, Y) == addSamples(table, Vec(Query, Y, v)) = Table(Query, v, X \cup Y)

(* Adding the samples of the series Y to the table of the series X gives the *)
(* table of both (aggregate of hashAggregate).                               *)
LEMMA SamplesAdded ==
  ASSUME in \in Inputs, Sharded, NEW v \in Nat, NEW X, X \subseteq 1..Query.count,
         NEW Y, Y \subseteq 1..Query.count, X \cap Y = {}, NEW table, TableOf(table, v, X)
  PROVE  SamplesMerge(table, v, X, Y)
  <1>1. PICK q : q = Query
    OBVIOUS
  <1>2. World(q) /\ AllSeries = q.series /\ in.group = q.group
    BY <1>1, QueryWorld, AppendedSeries, Zenon DEF Query
  <1> DEFINE G(Z) == {<<q.group[q.series[p[1]]], q.series[p[1]], p[2]>> : p \in Ids(q, Z, v)}
             s == Cardinality(Ids(q, X, v))
             a == Cardinality(Ids(q, Y, v))
  <1>3. /\ Ids(q, X \cup Y, v) = Ids(q, X, v) \cup Ids(q, Y, v)
        /\ Cardinality(Ids(q, X \cup Y, v)) = s + a
    <2>1. X \subseteq 1..q.count /\ Y \subseteq 1..q.count /\ v \in Int
      BY <1>1
    <2>2. X \cap Y = {} /\ World(q)
      BY <1>2
    <2>3. Added(q, X, Y, v)
      BY <2>1, <2>2, IdsUnion, Zenon
    <2> QED
      BY <2>3 DEF Added
  <1>4. G(X \cup Y) = G(X) \cup G(Y)
    <2>1. \A A, B, C : C = A \cup B =>
            {<<q.group[q.series[p[1]]], q.series[p[1]], p[2]>> : p \in C} =
            {<<q.group[q.series[p[1]]], q.series[p[1]], p[2]>> : p \in A}
              \cup {<<q.group[q.series[p[1]]], q.series[p[1]], p[2]>> : p \in B}
      BY Zenon
    <2> QED
      BY <1>3, <2>1, Zenon
  <1>5. Vec(q, Y, v).t = v /\ Vec(q, Y, v).ids = Ids(q, Y, v) /\ Vec(q, Y, v).num = a
    BY DEF Vec
  <1>6. {<<GroupOf(x[1]), AllSeries[x[1]], x[2]>> : x \in Vec(q, Y, v).ids} = G(Y)
    BY <1>2, <1>5, Zenon DEF GroupOf
  <1>7. \E t : table = [t |-> t, param |-> v, num |-> s, groups |-> G(X)]
    <2>1. CASE table = Table(q, v, X)
      BY <2>1, Zenon DEF Table
    <2>2. CASE table = EmptyTable(v) /\ X = {}
      <3>1. Ids(q, X, v) = {}
        BY <2>2 DEF Ids
      <3>2. s = 0 /\ G(X) = {}
        <4>1. Cardinality({}) = 0
          BY FS_EmptySet
        <4> QED
          BY <3>1, <4>1
      <3> HIDE DEF s, G
      <3>3. table = [t |-> NoTs, param |-> v, num |-> s, groups |-> G(X)]
        BY <2>2, <3>2 DEF EmptyTable
      <3> QED
        BY <3>3, Zenon
    <2> QED
      BY <1>1, <2>1, <2>2, Zenon DEF TableOf
  <1>8. Table(q, v, X \cup Y) = [t |-> v, param |-> v, num |-> s + a, groups |-> G(X) \cup G(Y)]
    BY <1>3, <1>4, Zenon DEF Table
  <1> HIDE DEF G, s, a
  <1>9. PICK t : table = [t |-> t, param |-> v, num |-> s, groups |-> G(X)]
    BY <1>7, Zenon
  <1>10. addSamples(table, Vec(q, Y, v)) =
           [table EXCEPT !.t = v, !.num = table.num + a, !.groups = table.groups \cup G(Y)]
    BY <1>5, <1>6, Zenon DEF addSamples
  <1> QED
    BY <1>1, <1>8, <1>9, <1>10, Zenon DEF SamplesMerge

(* Tables ts of the first g series of the shards, reset ones when g is none. *)
Ready(ts, v, g) ==
  /\ DOMAIN ts = 1..StepsBatch
  /\ \A k \in 1..WLen(v) : \/ ts[k] = Table(Query, v + k - 1, Upto(Query, g))
                           \/ ts[k] = EmptyTable(v + k - 1) /\ g = None
Filled(ts, v, g) ==
  /\ DOMAIN ts = 1..StepsBatch
  /\ \A k \in 1..WLen(v) : ts[k] = Table(Query, v + k - 1, Upto(Query, g))

(* Aggregating the series of the buffer, which come after those of the       *)
(* tables, gives tables of all of them.                                      *)
LEMMA TablesAggregated ==
  ASSUME in \in Inputs, Sharded, NEW v \in Nat, v >= 1, NEW g \in Counts(Query), NEW h \in Counts(Query),
         \A i \in Shards : g[i] <= h[i], TempAt(v, g, h), NEW ts, Ready(ts, v, g)
  PROVE  Filled(aggregate(ts), v, h)
  <1>1. PICK q : q = Query
    OBVIOUS
  <1>2. World(q) /\ None \in Counts(q)
    BY <1>1, QueryWorld, NoneCounts
  <1>3. v <= NumSteps /\ n = WLen(v) /\ temp = Window(q, Between(q, g, h), v)
    BY <1>1 DEF TempAt
  <1>4. WLen(v) \in 1..StepsBatch /\ StepsBatch \in Nat
    BY <1>3, WindowBounds, StepsAssumption
  <1>5. \A k \in 1..WLen(v) : temp[k] = Vec(q, Between(q, g, h), v + k - 1)
    <2>1. PICK B : B = Between(q, g, h)
      OBVIOUS
    <2>2. \A k \in 1..WLen(v) : Window(q, B, v)[k] = Vec(q, B, v + k - 1)
      BY <1>3, WindowSteps
    <2> QED
      BY <1>3, <2>1, <2>2
  <1> DEFINE X == Upto(q, g)
             Y == Between(q, g, h)
  <1>6. X \subseteq 1..q.count /\ Y \subseteq 1..q.count /\ X \cap Y = {} /\ X \cup Y = Upto(q, h)
    <2>1. X \subseteq 1..q.count /\ Y \subseteq 1..q.count
      BY <1>1, <1>2, BetweenIds DEF Upto
    <2>2. X \cup Y = Upto(q, h) /\ X \cap Y = {}
      BY <1>1, <1>2, BetweenExtends
    <2> QED
      BY <2>1, <2>2
  <1>7. g = None => X = {}
    BY <1>2, BetweenSame DEF Upto
  <1>8. ASSUME NEW k \in 1..WLen(v)
        PROVE  aggregate(ts)[k] = Table(q, v + k - 1, Upto(q, h))
    <2>1. k \in DOMAIN ts /\ k <= n /\ v + k - 1 \in Nat
      BY <1>3, <1>4 DEF Ready
    <2>2. aggregate(ts)[k] = addSamples(ts[k], temp[k])
      BY <2>1 DEF aggregate
    <2>3. PICK u \in Nat : u = v + k - 1
      BY <2>1
    <2>4. ts[k] = Table(q, u, X) \/ (ts[k] = EmptyTable(u) /\ X = {})
      BY <1>1, <1>7, <2>3 DEF Ready
    <2>5. temp[k] = Vec(q, Y, u)
      BY <1>5, <2>3
    <2> HIDE DEF X, Y
    <2>6. addSamples(ts[k], Vec(q, Y, u)) = Table(q, u, X \cup Y)
      <3>1. PICK table : table = ts[k]
        OBVIOUS
      <3>2. TableOf(table, u, X)
        BY <1>1, <2>4, <3>1 DEF TableOf
      <3>3. X \subseteq 1..Query.count /\ Y \subseteq 1..Query.count /\ X \cap Y = {}
        BY <1>1, <1>6
      <3>4. SamplesMerge(table, u, X, Y)
        BY <3>2, <3>3, SamplesAdded, Zenon
      <3> QED
        BY <1>1, <3>1, <3>4 DEF SamplesMerge
    <2> QED
      BY <1>6, <2>2, <2>3, <2>5, <2>6, Zenon
  <1>9. DOMAIN aggregate(ts) = 1..StepsBatch
    BY DEF aggregate, Ready
  <1> QED
    BY <1>1, <1>8, <1>9 DEF Filled

(* What the next call pulls first: the shards of which no window is held.    *)
LEMMA StartsPulling ==
  ASSUME GoPull, UNCHANGED <<load, shardVars, inVectors, failed>>, NEW v, hasLast' = FALSE, Aggregated(v)'
  PROVE  Pulling(v)' /\ pc' = "pull" /\ pending' \subseteq Shards
  <1>1. pc' = "pull" /\ pending' = {i \in Shards : inVectors[i] = <<>>} /\ inVectors' = inVectors
    BY DEF GoPull
  <1> QED
    BY <1>1 DEF Pulling

(* The state after a step of the aggregate from the first window on. *)
LEMMA AggregateSteps ==
  ASSUME IInv, pc \in {"idle", "agg", "emit"}, UNCHANGED <<load, shardVars, inVectors, failed>>,
         pending' \subseteq Shards, hasLast' \in BOOLEAN, {n', numTables'} \subseteq 0..StepsBatch, calls' \in Nat,
         pc' \in {"idle", "pull", "agg", "emit", "done"}, DOMAIN tables' = 1..StepsBatch,
         out' \in Seq(Tables(Query)), \A k \in 1..Len(out') : out'[k] = Table(Query, k, 1..Query.count),
         pc' = "idle" => Lookahead(First(calls))' /\ OutAt(First(calls))',
         pc' \in {"pull", "agg", "emit"} =>
           \E c \in 0..calls' : /\ calls' = c + 1 /\ OutAt(First(c))' /\ (pc' = "pull" => Pulling(First(c))')
                                /\ (pc' = "agg" => Aggregating(First(c))') /\ (pc' = "emit" => Emitting(First(c))'),
         pc' = "done" => OutAt(NumSteps + 1)'
  PROVE  IInv'
  <1>1. TypeOK /\ Shape /\ Failures /\ Running /\ Query' = Query /\ ~failed
    BY SameShards DEF IInv, Failures
  <1>2. TypeOK'
    <2>1. {failed', hasLast'} \subseteq BOOLEAN
      BY <1>1, Zenon DEF TypeOK
    <2> QED
      BY <1>1, <2>1 DEF TypeOK, load, shardVars
  <1>3. Shape'
    BY <1>1 DEF Shape, load, shardVars
  <1>4. Failures'
    BY <1>1 DEF Failures, load
  <1>5. Sharded' /\ (offsets = [j \in Shards |-> Before(j)])' /\ Exhausted' /\ loaded' = Shards
    BY <1>1, SameShards, SameExhausted DEF Running, load
  <1>6. pc' # "done" => Running'
    BY <1>5 DEF Running
  <1> QED
    BY <1>2, <1>3, <1>4, <1>6 DEF IInv

(* The tables as they are before the buffer is aggregated. *)
LEMMA TablesBefore ==
  ASSUME NEW v \in Nat, v >= 1, v <= NumSteps, NEW g, TablesAt(v, g), Shape
  PROVE  Ready(tables, v, g)
  <1>1. WLen(v) \in 1..StepsBatch /\ v + WLen(v) - 1 <= NumSteps /\ StepsBatch \in Nat /\ NumSteps \in Nat
    BY WindowBounds, StepsAssumption
  <1>2. \A k \in 1..WLen(v) : k \in 1..StepsBatch /\ v + k - 1 <= NumSteps
    BY <1>1
  <1> QED
    BY <1>2 DEF TablesAt, TablesNew, TablesFull, Ready, Shape

(* Next of the aggregate starts with the window after the last one returned. *)
LEMMA AggBeginKeeps ==
  ASSUME IInv, AggBegin
  PROVE  IInv'
  <1>1. /\ pc = "idle" /\ calls' = calls + 1 /\ hasLast' = FALSE /\ GoPull
        /\ UNCHANGED <<load, shardVars, inVectors, failed, temp, n, out>>
        /\ TypeOK /\ Shape /\ Running /\ in \in Inputs
    BY DEF AggBegin, IInv, TypeOK
  <1>2. PICK c \in Nat : c = calls
    BY <1>1 DEF TypeOK
  <1>3. PICK v \in Nat : v = First(c) /\ v >= 1
    BY FirstWindow
  <1>4. Lookahead(v) /\ OutAt(v) /\ Sharded
    BY <1>1, <1>2, <1>3 DEF Running
  <1>5. PICK q : q = Query
    OBVIOUS
  <1>6. World(q) /\ Query' = q /\ None \in Counts(q)
    <2>1. World(q) /\ Query' = q
      BY <1>1, <1>5, QueryWorld, SameShards
    <2> QED
      BY <2>1, NoneCounts
  <1>7. PICK reset : reset = [k \in 1..StepsBatch |-> EmptyTable(Params[k])]
    BY Zenon
  <1>8. /\ hasLast => tables' = aggregate(reset) /\ numTables' = n
        /\ ~hasLast => tables' = reset /\ numTables' = 0
    BY <1>7 DEF AggBegin
  <1>9. \A k \in 1..StepsBatch : /\ reset[k] = EmptyTable(Params[k]) /\ reset[k].param = Params[k]
                                 /\ v + k - 1 <= NumSteps => Params[k] = v + k - 1
    <2>1. \A k \in 1..StepsBatch : calls * StepsBatch + k = v + k - 1
      <3>1. PICK p \in Nat : p = c * StepsBatch /\ v = p + 1
        BY <1>3, StepsAssumption DEF First
      <3>2. \A k \in 1..StepsBatch : p + k = v + k - 1
        BY <3>1, StepsAssumption
      <3> QED
        BY <1>2, <3>1, <3>2
    <2> QED
      BY <1>7, <2>1 DEF Params, EmptyTable
  <1>10. Aggregated(v)' /\ DOMAIN tables' = 1..StepsBatch /\ numTables' \in 0..StepsBatch
    <2>1. CASE hasLast
      <3>1. PICK h \in Counts(q) : TempAt(v, None, h) /\ \A i \in Shards : ShardNow(i, v, h[i])
        BY <1>4, <1>5, <2>1 DEF Lookahead
      <3>2. \A i \in Shards : None[i] <= h[i]
        <4>1. \A i \in Shards : h[i] \in 0..q.count
          BY <3>1 DEF Counts
        <4> QED
          BY <4>1 DEF None
      <3>3. WLen(v) \in 1..StepsBatch /\ v + WLen(v) - 1 <= NumSteps /\ StepsBatch \in Nat /\ NumSteps \in Nat
        BY <1>3, <3>1, WindowBounds, StepsAssumption DEF TempAt
      <3>4. Ready(reset, v, None)
        BY <1>7, <1>9, <3>3 DEF Ready
      <3>5. Filled(aggregate(reset), v, h)
        <4>1. None \in Counts(Query) /\ h \in Counts(Query)
          BY <1>5, <1>6
        <4> QED
          BY <1>1, <1>3, <1>4, <3>1, <3>2, <3>4, <4>1, TablesAggregated
      <3>6. TablesFull(v, h)'
        BY <1>5, <1>6, <1>8, <2>1, <3>1, <3>5 DEF TablesFull, Filled, TempAt
      <3>7. \A i \in Shards : ShardNow(i, v, h[i])'
        BY <1>1, <1>5, <1>6, <3>1, Zenon DEF ShardNow, shardVars
      <3> QED
        BY <1>1, <1>6, <1>8, <2>1, <3>5, <3>6, <3>7 DEF Aggregated, Filled, TypeOK
    <2>2. CASE ~hasLast
      <3>1. \A i \in Shards : NewNow(i, v)'
        BY <1>1, <1>4, <1>5, <1>6, <2>2 DEF Lookahead, NewNow, shardVars
      <3>2. TablesNew(v)'
        BY <1>8, <1>9, <2>2 DEF TablesNew
      <3>3. DOMAIN tables' = 1..StepsBatch /\ numTables' \in 0..StepsBatch
        BY <1>7, <1>8, <2>2, StepsAssumption
      <3> QED
        BY <3>1, <3>2, <3>3 DEF Aggregated
    <2> QED
      BY <2>1, <2>2
  <1>11. Pulling(v)' /\ pc' = "pull" /\ pending' \subseteq Shards
    BY <1>1, <1>10, StartsPulling, Zenon
  <1>12. \E b \in 0..calls' : /\ calls' = b + 1 /\ OutAt(First(b))' /\ (pc' = "pull" => Pulling(First(b))')
                              /\ (pc' = "agg" => Aggregating(First(b))') /\ (pc' = "emit" => Emitting(First(b))')
    <2>1. c \in 0..calls' /\ calls' = c + 1 /\ First(c)' = v
      BY <1>1, <1>2, <1>3
    <2>2. OutAt(v)'
      BY <1>1, <1>4 DEF OutAt
    <2> QED
      BY <1>11, <2>1, <2>2
  <1>13. hasLast' \in BOOLEAN /\ {n', numTables'} \subseteq 0..StepsBatch /\ calls' \in Nat
    <2>1. hasLast' \in BOOLEAN
      BY <1>1, Zenon
    <2>2. n' \in 0..StepsBatch /\ numTables' \in 0..StepsBatch /\ calls' \in Nat
      BY <1>1, <1>2, <1>10 DEF TypeOK
    <2> QED
      BY <2>1, <2>2
  <1>14. out' \in Seq(Tables(Query)) /\ \A k \in 1..Len(out') : out'[k] = Table(Query, k, 1..Query.count)
    BY <1>1 DEF Shape
  <1> QED
    BY <1>1, <1>10, <1>11, <1>12, <1>13, <1>14, AggregateSteps

(* What the aggregate finds in the buffer: the end of the shards, the next   *)
(* series of its window, or, when it has all of them, the next window.       *)
LEMMA BufferIs ==
  ASSUME in \in Inputs, NEW v \in Nat, v >= 1, Aggregating(v)
  PROVE  \/ n = 0 /\ Aggregated(v) /\ \A i \in Shards : inVectors[i] = <<>> /\ curStep[i] > NumSteps
         \/ /\ n > 0 /\ SameWindow
            /\ \E g, h \in Counts(Query) : /\ TablesAt(v, g) /\ TempAt(v, g, h)
                                           /\ \A i \in Shards : g[i] <= h[i] /\ ShardNow(i, v, h[i])
         \/ /\ n > 0 /\ ~SameWindow /\ TablesFull(v, Query.size)
            /\ \E h \in Counts(Query) : /\ TempAt(v + StepsBatch, None, h)
                                        /\ \A i \in Shards : ShardNow(i, v + StepsBatch, h[i])
  <1>1. ASSUME NEW u \in Nat, u >= 1, NEW g, NEW h, TempAt(u, g, h)
        PROVE  n > 0 /\ temp[1].t = u
    <2>1. u <= NumSteps /\ n = WLen(u) /\ temp = Window(Query, Between(Query, g, h), u)
      BY <1>1 DEF TempAt
    <2>2. WLen(u) \in 1..StepsBatch
      BY <1>1, <2>1, WindowBounds
    <2>3. temp[1].t = u
      BY <1>1, <2>1, WindowSteps
    <2> QED
      BY <2>1, <2>2, <2>3
  <1>2. ASSUME NEW g, TablesFull(v, g)
        PROVE  tables[1].t = v
    <2>1. v <= NumSteps /\ numTables = WLen(v) /\ \A k \in 1..numTables : tables[k] = Table(Query, v + k - 1, Upto(Query, g))
      BY <1>2 DEF TablesFull
    <2>2. 1 \in 1..numTables /\ v + 1 - 1 = v
      <3>1. WLen(v) \in 1..StepsBatch
        BY <2>1, WindowBounds
      <3> QED
        BY <2>1, <3>1
    <2>3. tables[1] = Table(Query, v + 1 - 1, Upto(Query, g))
      BY <2>1, <2>2
    <2> QED
      BY <2>2, <2>3 DEF Table
  <1>3. TablesNew(v) => tables[1].t = NoTs
    <2>1. 1 \in 1..StepsBatch
      BY StepsAssumption
    <2>2. TablesNew(v) => \E p : tables[1] = EmptyTable(p)
      BY <2>1, Zenon DEF TablesNew
    <2>3. \A p : EmptyTable(p).t = NoTs
      BY DEF EmptyTable
    <2> QED
      BY <2>2, <2>3, Zenon
  <1>4. v + StepsBatch \in Nat /\ v + StepsBatch >= 1 /\ v # v + StepsBatch /\ v # NoTs
    BY StepsAssumption DEF NoTs
  <1>5. ASSUME NEW g, NEW h, TablesAt(v, g), TempAt(v, g, h)
        PROVE  n > 0 /\ SameWindow
    BY <1>1, <1>2, <1>3, <1>5, Zenon DEF TablesAt, SameWindow
  <1>6. ASSUME TablesFull(v, Query.size), NEW h, TempAt(v + StepsBatch, None, h)
        PROVE  n > 0 /\ ~SameWindow
    BY <1>1, <1>2, <1>4, <1>6 DEF SameWindow
  <1> QED
    BY <1>5, <1>6 DEF Aggregating

(* At the end of all shards the tables have all series of their window.      *)
LEMMA EndIs ==
  ASSUME in \in Inputs, TypeOK, NEW v \in Nat, v >= 1, Aggregated(v),
         \A i \in Shards : inVectors[i] = <<>> /\ curStep[i] > NumSteps
  PROVE  /\ TablesFull(v, Query.size) \/ (TablesNew(v) /\ v > NumSteps)
         /\ \A i \in Shards : NewNow(i, v + StepsBatch)
  <1>1. PICK q : q = Query
    OBVIOUS
  <1>2. World(q)
    BY <1>1, QueryWorld
  <1>3. NumSteps \in Nat /\ StepsBatch \in Nat /\ StepsBatch >= 1 /\ v + StepsBatch \in Nat
    BY StepsAssumption
  <1>4. \A i \in Shards : curStep[i] = NumSteps + 1
    BY <1>3 DEF TypeOK
  <1>5. \E i \in Shards : TRUE
    BY ShardsAssumption DEF Shards
  <1>6. v <= NumSteps => Cut(v) # NumSteps + 1
    BY <1>3 DEF Cut
  <1>7. v > NumSteps => Cut(v) = NumSteps + 1 /\ Cut(v + StepsBatch) = NumSteps + 1
    BY <1>3 DEF Cut
  <1>8. CASE TablesNew(v) /\ \A i \in Shards : NewNow(i, v)
    <2>1. \A i \in Shards : curStep[i] = Cut(v) /\ curSeries[i] = 0
      <3>1. \A i \in Shards : \A e : ~Holds(q, i, <<>>, curSeries[i], curStep[i], v, 0, e)
        BY WindowSteps, Zenon DEF Holds
      <3> QED
        BY <1>1, <1>8, <3>1 DEF NewNow, New
    <2>2. v > NumSteps
      BY <1>3, <1>4, <1>5, <1>6, <2>1
    <2> QED
      BY <1>4, <1>7, <1>8, <2>1, <2>2 DEF NewNow, New
  <1>9. CASE \E g \in Counts(q) : TablesFull(v, g) /\ \A i \in Shards : ShardNow(i, v, g[i])
    <2>1. PICK g \in Counts(q) : TablesFull(v, g) /\ \A i \in Shards : ShardNow(i, v, g[i])
      BY <1>9
    <2>2. v <= NumSteps
      BY <2>1 DEF TablesFull
    <2>3. \A i \in Shards : Read(q, i, curSeries[i], curStep[i], v, g[i])
      BY <1>1, <2>1, EmptyShard DEF ShardNow
    <2>4. \A i \in Shards : curStep[i] = Cut(v + StepsBatch) /\ curSeries[i] = 0 /\ g[i] = q.size[i]
      BY <1>4, <1>6, <2>2, <2>3 DEF Read
    <2>5. g = q.size
      BY <1>2, <2>4 DEF Counts, World
    <2> QED
      BY <1>1, <2>1, <2>4, <2>5 DEF NewNow, New
  <1> QED
    BY <1>1, <1>8, <1>9 DEF Aggregated

(* A turn of the loop of Next takes the next series of the window, or leaves *)
(* the loop with the next window in the buffer.                              *)
LEMMA AggBatchKeeps ==
  ASSUME IInv, AggBatch
  PROVE  IInv'
  <1>1. /\ pc = "agg" /\ UNCHANGED <<load, shardVars, inVectors, failed, temp, n, calls, out>>
        /\ TypeOK /\ Shape /\ Running /\ in \in Inputs /\ Sharded
    BY Zenon DEF AggBatch, IInv, TypeOK, Running
  <1>2. PICK c \in 0..calls : calls = c + 1 /\ OutAt(First(c)) /\ Aggregating(First(c))
    BY <1>1 DEF Running
  <1>3. PICK v \in Nat : v = First(c) /\ v >= 1
    <2>1. c \in Nat
      BY <1>1 DEF TypeOK
    <2> QED
      BY <2>1, FirstWindow
  <1>4. PICK q : q = Query
    OBVIOUS
  <1>5. Query' = q /\ ~hasLast
    BY <1>1, <1>2, <1>4, SameShards, Zenon DEF Aggregating
  <1>6. OutAt(v)' /\ First(c)' = v /\ c \in 0..calls' /\ calls' = c + 1
    BY <1>1, <1>2, <1>3 DEF OutAt
  <1>7. out' \in Seq(Tables(Query)) /\ \A k \in 1..Len(out') : out'[k] = Table(Query, k, 1..Query.count)
    BY <1>1 DEF Shape
  <1>8. n' \in 0..StepsBatch /\ calls' \in Nat
    BY <1>1 DEF TypeOK
  <1>9. ASSUME pending' \subseteq Shards, hasLast' \in BOOLEAN, numTables' \in 0..StepsBatch, DOMAIN tables' = 1..StepsBatch,
               (pc' = "pull" /\ Pulling(v)') \/ (pc' = "emit" /\ Emitting(v)')
        PROVE  IInv'
    <2>1. \E b \in 0..calls' : /\ calls' = b + 1 /\ OutAt(First(b))' /\ (pc' = "pull" => Pulling(First(b))')
                               /\ (pc' = "agg" => Aggregating(First(b))') /\ (pc' = "emit" => Emitting(First(b))')
      BY <1>6, <1>9
    <2>2. {n', numTables'} \subseteq 0..StepsBatch
      BY <1>8, <1>9
    <2> QED
      BY <1>1, <1>7, <1>8, <1>9, <2>1, <2>2, AggregateSteps
  <1>10. CASE n = 0 /\ Aggregated(v) /\ \A i \in Shards : inVectors[i] = <<>> /\ curStep[i] > NumSteps
    <2>1. hasLast' = FALSE /\ pc' = "emit" /\ UNCHANGED <<tables, numTables, pending>>
      <3>1. ~(n > 0)
        BY <1>10
      <3>2. hasLast' = (n > 0) /\ pc' = "emit" /\ UNCHANGED <<tables, numTables, pending>>
        BY <3>1 DEF AggBatch
      <3>3. (n > 0) = FALSE
        BY <3>1
      <3> QED
        BY <3>2, <3>3, Zenon
    <2>2. /\ TablesFull(v, Query.size) \/ (TablesNew(v) /\ v > NumSteps)
          /\ \A i \in Shards : NewNow(i, v + StepsBatch)
      BY <1>1, <1>3, <1>10, EndIs, Zenon
    <2>3. (TablesFull(v, Query.size) \/ (TablesNew(v) /\ v > NumSteps))'
      BY <1>4, <1>5, <2>1, <2>2, Zenon DEF TablesFull, TablesNew
    <2>4. \A i \in Shards : NewNow(i, v + StepsBatch)'
      BY <1>1, <1>4, <1>5, <2>2, Zenon DEF NewNow, shardVars
    <2>5. Emitting(v)'
      BY <2>1, <2>3, <2>4 DEF Emitting, Lookahead
    <2>6. hasLast' \in BOOLEAN
      BY <2>1, Zenon
    <2> QED
      BY <1>1, <1>9, <2>1, <2>5, <2>6, Zenon DEF TypeOK, Shape
  <1>11. CASE /\ n > 0 /\ SameWindow
              /\ \E g, h \in Counts(Query) : /\ TablesAt(v, g) /\ TempAt(v, g, h)
                                             /\ \A i \in Shards : g[i] <= h[i] /\ ShardNow(i, v, h[i])
    <2>1. tables' = aggregate(tables) /\ numTables' = n /\ GoPull /\ hasLast' = hasLast
      BY <1>11 DEF AggBatch
    <2>2. PICK g \in Counts(Query) : \E h \in Counts(Query) :
                 /\ TablesAt(v, g) /\ TempAt(v, g, h) /\ \A i \in Shards : g[i] <= h[i] /\ ShardNow(i, v, h[i])
      BY <1>11
    <2>3. PICK h \in Counts(Query) :
                 /\ TablesAt(v, g) /\ TempAt(v, g, h) /\ \A i \in Shards : g[i] <= h[i] /\ ShardNow(i, v, h[i])
      BY <2>2
    <2>4. v <= NumSteps /\ n = WLen(v)
      BY <2>3 DEF TempAt
    <2>5. Ready(tables, v, g)
      BY <1>1, <1>3, <2>3, <2>4, TablesBefore
    <2>6. Filled(aggregate(tables), v, h)
      BY <1>1, <1>3, <2>3, <2>5, TablesAggregated
    <2>7. TablesFull(v, h)' /\ DOMAIN tables' = 1..StepsBatch
      BY <1>4, <1>5, <2>1, <2>4, <2>6 DEF TablesFull, Filled
    <2>8. \A i \in Shards : ShardNow(i, v, h[i])'
      BY <1>1, <1>4, <1>5, <2>3, Zenon DEF ShardNow, shardVars
    <2>9. Aggregated(v)'
      BY <1>4, <1>5, <2>3, <2>7, <2>8 DEF Aggregated
    <2>10. hasLast' = FALSE /\ hasLast' \in BOOLEAN
      BY <1>1, <1>5, <2>1 DEF TypeOK
    <2>11. Pulling(v)' /\ pc' = "pull" /\ pending' \subseteq Shards
      BY <1>1, <2>1, <2>9, <2>10, StartsPulling, Zenon
    <2>12. numTables' \in 0..StepsBatch
      BY <1>1, <2>1 DEF TypeOK
    <2> QED
      BY <1>9, <2>7, <2>10, <2>11, <2>12
  <1>12. CASE /\ n > 0 /\ ~SameWindow /\ TablesFull(v, Query.size)
              /\ \E h \in Counts(Query) : /\ TempAt(v + StepsBatch, None, h)
                                          /\ \A i \in Shards : ShardNow(i, v + StepsBatch, h[i])
    <2>1. hasLast' = TRUE /\ pc' = "emit" /\ UNCHANGED <<tables, numTables, pending>>
      BY <1>12, Zenon DEF AggBatch
    <2>2. PICK h \in Counts(Query) : /\ TempAt(v + StepsBatch, None, h)
                                     /\ \A i \in Shards : ShardNow(i, v + StepsBatch, h[i])
      BY <1>12
    <2>3. TempAt(v + StepsBatch, None, h)'
      BY <1>1, <1>4, <1>5, <2>2 DEF TempAt
    <2>4. \A i \in Shards : ShardNow(i, v + StepsBatch, h[i])'
      BY <1>1, <1>4, <1>5, <2>2, Zenon DEF ShardNow, shardVars
    <2>5. TablesFull(v, Query.size)'
      BY <1>4, <1>5, <1>12, <2>1 DEF TablesFull
    <2>6. Emitting(v)'
      BY <1>4, <1>5, <2>1, <2>2, <2>3, <2>4, <2>5 DEF Emitting, Lookahead
    <2>7. hasLast' \in BOOLEAN
      BY <2>1, Zenon
    <2> QED
      BY <1>1, <1>9, <2>1, <2>6, <2>7, Zenon DEF TypeOK, Shape
  <1> QED
    BY <1>1, <1>2, <1>3, <1>10, <1>11, <1>12, BufferIs, Zenon

(* The steps that are returned follow those returned before. *)
LEMMA StepsReturned ==
  ASSUME Shape, NEW m \in 0..StepsBatch, m = numTables, NEW a \in Nat, Len(out) = a,
         out' = out \o SubSeq(tables, 1, numTables),
         \A k \in 1..m : a + k \in 1..NumSteps /\ tables[k] = Table(Query, a + k, 1..Query.count)
  PROVE  /\ out' \in Seq(Tables(Query)) /\ Len(out') = a + m
         /\ \A k \in 1..Len(out') : out'[k] = Table(Query, k, 1..Query.count)
  <1>1. PICK q : q = Query
    OBVIOUS
  <1>2. PICK T : T = Tables(q)
    OBVIOUS
  <1>3. PICK x : x = out
    OBVIOUS
  <1>4. PICK f : f = tables
    OBVIOUS
  <1>5. x \in Seq(T) /\ Len(x) = a /\ DOMAIN f = 1..StepsBatch /\ StepsBatch \in Nat /\ m \in Nat
    BY <1>1, <1>2, <1>3, <1>4, StepsAssumption DEF Shape
  <1>6. PICK y : y = SubSeq(f, 1, m)
    BY Zenon
  <1>7. Len(y) = m /\ DOMAIN y = 1..m /\ \A k \in 1..m : y[k] = f[k]
    BY <1>5, <1>6
  <1>8. \A k \in 1..m : y[k] \in T
    BY <1>1, <1>2, <1>4, <1>7, Zenon DEF Tables
  <1>9. y \in Seq(T)
    <2>1. y = [k \in 1..m |-> f[k]]
      BY <1>5, <1>6
    <2>2. y \in [1..m -> T]
      BY <1>7, <1>8, <2>1
    <2> QED
      BY <1>5, <2>2
  <1>10. PICK z : z = x \o y
    BY Zenon
  <1>11. /\ z \in Seq(T) /\ Len(z) = a + m
         /\ \A k \in 1..a : z[k] = x[k]
         /\ \A k \in 1..m : z[a + k] = y[k]
    <2>1. x \in Seq(T) /\ y \in Seq(T)
      BY <1>5, <1>9, Zenon
    <2>2. x \o y \in Seq(T) /\ Len(x \o y) = Len(x) + Len(y)
      BY <2>1, Concatenation, Zenon
    <2>3. \A k \in 1..Len(x) : (x \o y)[k] = x[k]
      BY <2>1, Concatenation, Zenon
    <2>4. ASSUME NEW k \in 1..Len(y)
          PROVE  (x \o y)[Len(x) + k] = y[k]
      BY <2>1
    <2> QED
      BY <1>5, <1>7, <1>10, <2>2, <2>3, <2>4, Zenon
  <1>12. out' = z
    BY <1>3, <1>4, <1>6, <1>10
  <1>13. ASSUME NEW k \in 1..(a + m)
         PROVE  z[k] = Table(q, k, 1..q.count)
    <2>1. CASE k <= a
      <3>1. k \in 1..Len(out)
        BY <1>5, <2>1
      <3> QED
        BY <1>1, <1>3, <1>5, <1>11, <3>1 DEF Shape
    <2>2. CASE k > a
      <3>1. PICK j \in 1..m : k = a + j
        BY <1>5, <2>2
      <3> QED
        BY <1>1, <1>4, <1>7, <1>11, <3>1, Zenon
    <2>3. k \in Int
      BY <1>5
    <2> QED
      BY <2>1, <2>2, <2>3
  <1> QED
    BY <1>1, <1>2, <1>11, <1>12, <1>13, Zenon

(* Next of the aggregate returns its complete window, or the end.            *)
LEMMA AggEmitKeeps ==
  ASSUME IInv, AggEmit
  PROVE  IInv'
  <1>1. /\ pc = "emit" /\ out' = out \o SubSeq(tables, 1, numTables) /\ pc' = (IF numTables = 0 THEN "done" ELSE "idle")
        /\ UNCHANGED <<load, shardVars, pending, inVectors, failed, temp, n, hasLast, tables, numTables, calls>>
        /\ TypeOK /\ Shape /\ Running /\ in \in Inputs
    BY Zenon DEF AggEmit, IInv, TypeOK
  <1>2. PICK c \in 0..calls : calls = c + 1 /\ OutAt(First(c)) /\ Emitting(First(c))
    BY <1>1 DEF Running
  <1>3. PICK v \in Nat : v = First(c) /\ v >= 1 /\ First(calls) = v + StepsBatch
    <2>1. c \in Nat
      BY <1>1 DEF TypeOK
    <2> QED
      BY <1>2, <2>1, FirstWindow
  <1>4. PICK q : q = Query
    OBVIOUS
  <1>5. Query' = q /\ World(q)
    BY <1>1, <1>4, SameShards, QueryWorld
  <1>6. PICK m \in 0..StepsBatch : m = numTables
    BY <1>1 DEF TypeOK
  <1>7. PICK a \in Nat : a = Len(out) /\ a = Cut(v) - 1
    BY <1>1, <1>2, <1>3, WindowBounds DEF OutAt, Shape
  <1>8. NumSteps \in Nat /\ StepsBatch \in Nat /\ m \in Nat
    BY StepsAssumption
  <1>9. \/ TablesFull(v, q.size) /\ v <= NumSteps /\ m = WLen(v) /\ m >= 1 /\ a = v - 1 /\ a + m = Cut(v + StepsBatch) - 1
        \/ v > NumSteps /\ m = 0 /\ a = NumSteps /\ a + m = Cut(v + StepsBatch) - 1
    <2>1. CASE TablesFull(v, q.size)
      <3>1. v <= NumSteps /\ m = WLen(v)
        BY <1>6, <2>1 DEF TablesFull
      <3>2. m >= 1 /\ v + m = Cut(v + StepsBatch)
        BY <1>3, <1>8, <3>1, WindowBounds
      <3>3. Cut(v) = v
        BY <3>1 DEF Cut
      <3> QED
        BY <1>7, <1>8, <2>1, <3>1, <3>2, <3>3
    <2>2. CASE TablesNew(v) /\ v > NumSteps
      <3>1. m = 0
        BY <1>6, <2>2 DEF TablesNew
      <3>2. Cut(v) = NumSteps + 1 /\ Cut(v + StepsBatch) = NumSteps + 1
        BY <1>8, <2>2 DEF Cut
      <3> QED
        BY <1>7, <1>8, <2>2, <3>1, <3>2
    <2> QED
      BY <1>2, <1>3, <1>4, <2>1, <2>2 DEF Emitting
  <1>10. \A k \in 1..m : a + k \in 1..NumSteps /\ tables[k] = Table(q, a + k, 1..q.count)
    <2> SUFFICES ASSUME NEW k \in 1..m
                 PROVE  a + k \in 1..NumSteps /\ tables[k] = Table(q, a + k, 1..q.count)
      OBVIOUS
    <2>1. TablesFull(v, q.size) /\ v <= NumSteps /\ m = WLen(v) /\ a = v - 1
      BY <1>8, <1>9
    <2>2. v + WLen(v) - 1 <= NumSteps
      BY <1>3, <2>1, WindowBounds
    <2>3. a + k \in 1..NumSteps /\ a + k = v + k - 1
      BY <1>8, <2>1, <2>2
    <2>4. tables[k] = Table(q, v + k - 1, Upto(q, q.size))
      BY <1>4, <1>6, <2>1 DEF TablesFull
    <2>5. Upto(q, q.size) = 1..q.count
      BY <1>5, UptoAll
    <2> QED
      BY <2>3, <2>4, <2>5
  <1>11. /\ out' \in Seq(Tables(Query)) /\ Len(out') = a + m
         /\ \A k \in 1..Len(out') : out'[k] = Table(Query, k, 1..Query.count)
    BY <1>1, <1>4, <1>6, <1>7, <1>10, StepsReturned, Zenon
  <1>12. pc' = "idle" => Lookahead(First(calls))' /\ OutAt(First(calls))'
    <2>1. PICK u : u = v + StepsBatch
      OBVIOUS
    <2>2. Lookahead(u)
      BY <1>2, <1>3, <2>1 DEF Emitting
    <2>3. Lookahead(u)'
      <3>1. \A i, d : (ShardNow(i, u, d)' <=> ShardNow(i, u, d)) /\ (NewNow(i, u)' <=> NewNow(i, u))
        BY <1>1, <1>4, <1>5, Zenon DEF ShardNow, NewNow, shardVars
      <3>2. \A f, g : TempAt(u, f, g)' <=> TempAt(u, f, g)
        BY <1>1, <1>4, <1>5 DEF TempAt
      <3> QED
        BY <1>1, <1>4, <1>5, <2>2, <3>1, <3>2, Zenon DEF Lookahead
    <2>4. OutAt(u)'
      BY <1>9, <1>11, <2>1 DEF OutAt
    <2>5. First(calls)' = u
      BY <1>1, <1>3, <2>1
    <2> QED
      BY <2>3, <2>4, <2>5
  <1>13. pc' = "done" => OutAt(NumSteps + 1)'
    <2>1. pc' = "done" => m = 0
      BY <1>1, <1>6
    <2>2. Cut(NumSteps + 1) = NumSteps + 1
      BY <1>8 DEF Cut
    <2> QED
      BY <1>8, <1>9, <1>11, <2>1, <2>2 DEF OutAt
  <1>14. /\ pending' \subseteq Shards /\ hasLast' \in BOOLEAN /\ {n', numTables'} \subseteq 0..StepsBatch /\ calls' \in Nat
         /\ DOMAIN tables' = 1..StepsBatch /\ pc' \in {"idle", "done"}
    BY <1>1 DEF TypeOK, Shape
  <1> QED
    BY <1>1, <1>11, <1>12, <1>13, <1>14, AggregateSteps, Zenon

-----------------------------------------------------------------------------
(* What the invariant says of the output. *)

(* The table of all series is what an aggregation over the whole input sees: *)
(* the filtered selector lists every matching series once (loadSeries), so   *)
(* no sample of the table is missing and none counts twice.                  *)
LEMMA TableIsReference ==
  ASSUME in \in Inputs, NEW k \in Nat
  PROVE  Table(Query, k, 1..Query.count) =
           [t |-> k, param |-> k, groups |-> Reference(k), num |-> Cardinality(Reference(k))]
  <1>1. PICK q : q = Query
    OBVIOUS
  <1>2. World(q) /\ q.count = Len(Filtered) /\ q.series = Filtered /\ q.group = in.group /\ q.count \in Nat
    <2>1. World(q)
      BY <1>1, QueryWorld
    <2>2. q.count = Len(Filtered) /\ q.series = Filtered /\ q.group = in.group
      BY <1>1 DEF Query
    <2> QED
      BY <2>1, <2>2, Zenon DEF World
  <1>3. \A x \in 1..q.count : q.pts[x][k] = LastSample(q.series[x], k)
    BY <1>1, <1>2 DEF Query, SamplesOf
  <1>4. /\ \A x \in 1..q.count : q.series[x] \in in.match
        /\ \A x, y \in 1..q.count : q.series[x] = q.series[y] => x = y
        /\ \A s \in in.match : \E x \in 1..q.count : q.series[x] = s
    BY <1>2, FilteredSeries, Zenon
  <1>5. PICK X : X = 1..q.count
    OBVIOUS
  <1> DEFINE S == Ids(q, X, k)
             triple(p) == <<q.group[q.series[p[1]]], q.series[p[1]], p[2]>>
             T == {triple(p) : p \in S}
             f == [p \in S |-> triple(p)]
  <1>6. \A p \in S : p[1] \in X /\ p[2] \in q.pts[p[1]][k] /\ p = <<p[1], p[2]>>
    BY IdsMembers
  <1>7. T = Reference(k)
    <2>1. ASSUME NEW p \in S
          PROVE  triple(p) \in Reference(k)
      <3>1. p[1] \in 1..q.count /\ p[2] \in LastSample(q.series[p[1]], k)
        BY <1>5, <1>3, <1>6
      <3>2. PICK s \in in.match : s = q.series[p[1]]
        BY <1>4, <3>1
      <3>3. PICK u \in LastSample(s, k) : u = p[2]
        BY <3>1, <3>2
      <3>4. triple(p) = <<in.group[s], s, u>>
        BY <1>2, <3>2, <3>3
      <3> HIDE DEF triple
      <3>5. <<in.group[s], s, u>> \in Reference(k)
        <4>1. <<in.group[s], s, u>> \in {<<in.group[s], s, w>> : w \in LastSample(s, k)}
          BY Zenon
        <4> QED
          BY <4>1, Zenon DEF Reference
      <3> QED
        BY <3>4, <3>5, Zenon
    <2>2. ASSUME NEW s \in in.match, NEW u \in LastSample(s, k)
          PROVE  <<in.group[s], s, u>> \in T
      <3>1. PICK x \in 1..q.count : q.series[x] = s
        BY <1>4
      <3>2. PICK p : p = <<x, u>>
        BY Zenon
      <3>3. p \in S /\ p[1] = x /\ p[2] = u
        <4>1. u \in q.pts[x][k]
          BY <1>3, <3>1
        <4> QED
          BY <1>5, <3>2, <4>1, IdsMembers, Zenon
      <3>4. triple(p) = <<in.group[s], s, u>>
        BY <1>2, <3>1, <3>3
      <3> QED
        BY <3>3, <3>4
    <2>3. T \subseteq Reference(k)
      BY <2>1, Zenon
    <2> HIDE DEF T
    <2>4. Reference(k) \subseteq T
      BY <2>2 DEF Reference
    <2> QED
      BY <2>3, <2>4
  <1>8. \A p, r \in S : triple(p) = triple(r) => p = r
    <2> SUFFICES ASSUME NEW p \in S, NEW r \in S, triple(p) = triple(r)
                 PROVE  p = r
      BY Zenon
    <2>1. p[1] \in 1..q.count /\ r[1] \in 1..q.count /\ p = <<p[1], p[2]>> /\ r = <<r[1], r[2]>>
      BY <1>5, <1>6
    <2>2. q.series[p[1]] = q.series[r[1]] /\ p[2] = r[2]
      BY Zenon
    <2>3. p[1] = r[1]
      BY <1>4, <2>1, <2>2
    <2> QED
      BY <2>1, <2>2, <2>3
  <1>9. Cardinality(T) = Cardinality(S)
    <2>1. IsFiniteSet(S)
      <3>1. World(q) /\ X \subseteq 1..q.count
        BY <1>2, <1>5, Zenon
      <3>2. k \in Int
        OBVIOUS
      <3> QED
        BY <3>1, <3>2, IdsFinite, Zenon
    <2>2. f \in [S -> T] /\ \A p \in S : f[p] = triple(p)
      BY Zenon
    <2>3. \A y \in T : \E p \in S : triple(p) = y
      BY Zenon
    <2> HIDE DEF S, T, f, triple
    <2>4. f \in Injection(S, T) /\ f \in Surjection(S, T)
      BY <1>8, <2>2, <2>3 DEF Injection, IsInjective, Surjection
    <2> QED
      BY <2>1, <2>4, FS_Surjection
  <1>10. Table(q, k, 1..q.count) = [t |-> k, param |-> k, num |-> Cardinality(S), groups |-> T]
    BY <1>5, Zenon DEF Table
  <1> HIDE DEF S, T
  <1> QED
    BY <1>1, <1>7, <1>9, <1>10

(* Every step keeps the invariant. *)
LEMMA NextKeeps ==
  ASSUME IInv, [Next]_vars
  PROVE  IInv'
  <1>1. CASE \E i \in Shards : LoadShard(i) \/ LoadFails(i) \/ ShardNext(i) \/ ShardEnds(i) \/ ShardFails(i)
    BY <1>1, LoadShardKeeps, LoadFailsKeeps, ShardNextKeeps, ShardStopsKeeps
  <1>2. CASE SeriesLoaded
    BY <1>2, SeriesLoadedKeeps
  <1>3. CASE Coalesce
    BY <1>3, CoalesceKeeps
  <1>4. CASE AggBegin
    BY <1>4, AggBeginKeeps
  <1>5. CASE AggBatch
    BY <1>5, AggBatchKeeps
  <1>6. CASE AggEmit
    BY <1>6, AggEmitKeeps
  <1>7. CASE UNCHANGED vars
    <2>1. /\ UNCHANGED load /\ UNCHANGED shardVars /\ pending' = pending /\ inVectors' = inVectors /\ failed' = failed
          /\ temp' = temp /\ n' = n /\ hasLast' = hasLast /\ tables' = tables /\ numTables' = numTables
          /\ calls' = calls /\ out' = out /\ pc' = pc
      BY <1>7 DEF vars, aggVars
    <2>2. Query' = Query /\ Filtered' = Filtered /\ (Sharded' <=> Sharded) /\ (Exhausted' <=> Exhausted)
      BY <2>1, SameShards, SameExhausted
    <2>3. TypeOK' /\ Shape' /\ Failures'
      BY <2>1, <2>2, Zenon DEF TypeOK, Shape, Failures, IInv, load, shardVars
    <2>4. Loading => Loading'
      BY <2>1, <2>2 DEF Loading, seriesShard, load, shardVars
    <2>5. \A v : OutAt(v) => OutAt(v)'
      BY <2>1 DEF OutAt
    <2>6. Running => Running'
      <3>1. \A i, v, d : (ShardNow(i, v, d)' <=> ShardNow(i, v, d)) /\ (NewNow(i, v)' <=> NewNow(i, v))
        BY <2>1, <2>2, Zenon DEF ShardNow, NewNow, shardVars
      <3>2. \A v, f, g : (TempAt(v, f, g)' <=> TempAt(v, f, g)) /\ (TablesFull(v, g)' <=> TablesFull(v, g)) /\ (TablesNew(v)' <=> TablesNew(v))
        BY <2>1, <2>2, Zenon DEF TempAt, TablesFull, TablesNew
      <3>3. \A v : Aggregated(v)' <=> Aggregated(v)
        BY <2>2, <3>1, <3>2 DEF Aggregated
      <3>4. \A v : Lookahead(v)' <=> Lookahead(v)
        BY <2>1, <2>2, <3>1, <3>2 DEF Lookahead
      <3>5. \A v : Pulling(v)' <=> Pulling(v)
        BY <2>1, <3>3, Zenon DEF Pulling, shardVars
      <3>6. \A v : Aggregating(v)' <=> Aggregating(v)
        <4>1. \A v, g : TablesAt(v, g)' <=> TablesAt(v, g)
          BY <3>2, Zenon DEF TablesAt
        <4> QED
          BY <2>1, <2>2, <3>1, <3>2, <3>3, <4>1, Zenon DEF Aggregating, shardVars
      <3>7. \A v : Emitting(v)' <=> Emitting(v)
        BY <2>2, <3>2, <3>4 DEF Emitting
      <3>8. (offsets = [i \in Shards |-> Before(i)])' <=> offsets = [i \in Shards |-> Before(i)]
        BY <2>1, SameShards
      <3> QED
        BY <2>1, <2>2, <2>5, <3>4, <3>5, <3>6, <3>7, <3>8, Zenon DEF Running, load
    <2> QED
      BY <2>1, <2>3, <2>4, <2>5, <2>6 DEF IInv
  <1> QED
    BY <1>1, <1>2, <1>3, <1>4, <1>5, <1>6, <1>7 DEF Next, Terminated

(* The invariant holds in every state of a query. *)
LEMMA Invariant == Spec => []IInv
  BY InitIInv, NextKeeps, PTL DEF Spec

-----------------------------------------------------------------------------
(* The theorems. *)

(* The variables of the selectors, coalesce and the aggregate keep their     *)
(* types: no shard reads past its series or past the step after the last     *)
(* one, and no window is longer than a batch (Next of the vector selector).  *)
THEOREM TypeCorrect == Spec => []TypeOK
  <1>1. IInv => TypeOK
    BY DEF IInv
  <1> QED
    BY <1>1, Invariant, PTL

(* However the series are sharded and batched, and in whatever order the     *)
(* goroutines of coalesce run, the aggregate returns every step once, in     *)
(* order, with its parameter and with the samples of all matching series     *)
(* exactly once (Next of vectorSelector, coalesce and aggregate together).   *)
THEOREM OutputCorrect == Spec => []OutputIsReference
  <1>1. IInv => OutputIsReference
    <2> SUFFICES ASSUME IInv
                 PROVE  OutputIsReference
      OBVIOUS
    <2>1. in \in Inputs /\ Len(out) \in Nat /\ DOMAIN out = 1..Len(out)
      <3>1. in \in Inputs /\ out \in Seq(Tables(Query))
        BY Zenon DEF IInv, TypeOK, Shape
      <3>2. PICK T : out \in Seq(T)
        BY <3>1, Zenon
      <3> QED
        BY <3>1, <3>2
    <2>2. \A k \in DOMAIN out : k \in Nat /\ out[k] = Table(Query, k, 1..Query.count)
      BY <2>1 DEF IInv, Shape
    <2>3. pc = "done" => Len(out) = NumSteps
      <3>1. Cut(NumSteps + 1) - 1 = NumSteps
        BY StepsAssumption DEF Cut
      <3> QED
        BY <3>1 DEF IInv, OutAt
    <2> QED
      BY <2>1, <2>2, <2>3, TableIsReference, Zenon DEF OutputIsReference
  <1> QED
    BY <1>1, Invariant, PTL

(* A load or a read that has failed is never turned into a result: the query *)
(* can only end with the error, although the once of the selector reports it *)
(* to one shard only (GetSeries of the series selector, Next of coalesce).   *)
THEOREM FailuresSurface == Spec => []ErrorsSurface
  <1>1. IInv => ErrorsSurface
    BY DEF IInv, Failures, ErrorsSurface
  <1> QED
    BY <1>1, Invariant, PTL
=============================================================================
