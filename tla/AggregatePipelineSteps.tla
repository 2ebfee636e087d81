------------------------ MODULE AggregatePipelineSteps ------------------------
(* The steps of the selectors and of coalesce preserve the invariant.          *)
EXTENDS AggregatePipelineLemmas

-----------------------------------------------------------------------------
(* The selectors. *)

(* A shard that is at its end, or fails, leaves its place as it is. *)
LEMMA ShardStopsKeeps ==
  ASSUME IInv, NEW i \in Shards, ShardEnds(i) \/ ShardFails(i)
  PROVE  IInv'
  <1>1. /\ pc = "pull" /\ pc' = pc /\ i \in pending /\ pending' = pending \ {i} /\ Running /\ TypeOK /\ Shape
        /\ UNCHANGED <<load, shardVars, inVectors, aggVars, pc>>
        /\ (failed' = failed /\ curStep[i] > NumSteps) \/ failed' = TRUE
    BY DEF ShardEnds, ShardFails, IInv
  <1>2. in' = in /\ Query' = Query
    BY <1>1, SameShards DEF load
  <1>3. {failed', hasLast'} \subseteq BOOLEAN
    <2>1. failed' \in BOOLEAN
      <3>1. CASE failed' = failed
        BY <1>1, <3>1 DEF TypeOK
      <3>2. CASE failed' = TRUE
        BY <3>2, Zenon
      <3> QED
        BY <1>1, <3>1, <3>2, Zenon
    <2>2. hasLast' \in BOOLEAN
      BY <1>1 DEF TypeOK, aggVars
    <2> QED
      BY <2>1, <2>2
  <1>4. TypeOK'
    BY <1>1, <1>3 DEF TypeOK, load, shardVars, aggVars
  <1>5. Shape'
    BY <1>1, <1>2 DEF Shape, load, shardVars, aggVars
  <1>6. Failures'
    <2>1. failed => failed'
      BY <1>1, Zenon
    <2> QED
      BY <1>1, <2>1 DEF Failures, IInv, load
  <1>7. Running'
    <2>1. PICK c \in 0..calls : calls = c + 1 /\ OutAt(First(c)) /\ Pulling(First(c))
      BY <1>1 DEF Running
    <2>2. calls' = calls /\ out' = out /\ hasLast' = hasLast /\ tables' = tables /\ numTables' = numTables /\ inVectors' = inVectors
      BY <1>1 DEF aggVars
    <2>3. PICK v : v = First(c)
      OBVIOUS
    <2>4. Aggregated(v)'
      BY <1>1, <2>1, <2>2, <2>3, SameAggregated DEF Pulling
    <2>5. curStep' = curStep
      BY <1>1 DEF shardVars
    <2>6. ASSUME NEW j \in Shards, j \notin pending', inVectors'[j] = <<>>, ~failed'
          PROVE  curStep'[j] > NumSteps
      <3>1. j = i \/ j \notin pending
        BY <1>1, <2>6
      <3>2. ~failed /\ curStep[i] > NumSteps
        BY <1>1, <2>6
      <3> QED
        BY <2>1, <2>2, <2>5, <2>6, <3>1, <3>2 DEF Pulling
    <2>7. Pulling(v)'
      BY <1>1, <2>1, <2>2, <2>3, <2>4, <2>6 DEF Pulling
    <2>8. OutAt(v)'
      BY <2>1, <2>2, <2>3 DEF OutAt
    <2>9. Sharded' /\ (offsets = [j \in Shards |-> Before(j)])' /\ Exhausted' /\ loaded' = Shards
      BY <1>1, SameShards, SameExhausted DEF Running, load
    <2>10. First(c)' = v
      BY <2>3
    <2> QED
      BY <1>1, <2>1, <2>2, <2>7, <2>8, <2>9, <2>10 DEF Running
  <1> QED
    BY <1>1, <1>4, <1>5, <1>6, <1>7 DEF IInv

(* A shard that has returned a batch has marked only series as ended that    *)
(* have no sample at the steps to come.                                      *)
LEMMA ShardNextExhausts ==
  ASSUME in \in Inputs, Sharded, Exhausted, Places, Shape, NEW i \in Shards, ShardNext(i)
  PROVE  Exhausted'
  <1>1. curStep[i] <= NumSteps /\ UNCHANGED load
    BY Zenon DEF ShardNext
  <1>2. exhausted' = exhausted \cup {shard[i][k] : k \in {j \in BatchSeries(i) : Ends(shard[i][j], BatchSteps(i))}}
    BY Zenon DEF ShardNext
  <1>3. shard' = shard /\ \A s, t : LastSample(s, t)' = LastSample(s, t)
    BY <1>1, SameShards, Zenon DEF load
  <1>4. Len(shard[i]) \in Nat /\ \A k \in 1..Len(shard[i]) : shard[i][k] \in in.match
    BY ShardEntries, Zenon
  <1>5. /\ nextSeries(i) \in curSeries[i]..Len(shard[i]) /\ BatchLen(i) = WLen(curStep[i]) /\ WLen(curStep[i]) \in 1..StepsBatch
        /\ curStep[i] \in Nat /\ curStep[i] >= 1 /\ curSeries[i] \in Nat /\ curStep[i] + WLen(curStep[i]) - 1 <= NumSteps
        /\ AllRead(i) <=> nextSeries(i) = Len(shard[i])
    BY <1>1, <1>4, BatchBounds, Zenon
  <1>6. NumSteps \in Nat /\ StepsBatch \in Nat
    BY StepsAssumption
  <1>7. PICK s \in Nat : s = curStep[i]
    BY <1>5, Zenon
  <1>8. PICK w \in Nat : w = WLen(s) /\ s + w - 1 <= NumSteps /\ BatchLen(i) = w
    BY <1>5, <1>6, <1>7
  <1>9. PICK c \in Nat : c = curSeries[i]
    BY <1>5, Zenon
  <1>10. PICK m \in Nat : m = nextSeries(i) /\ c <= m /\ m <= Len(shard[i])
    BY <1>4, <1>5, <1>9
  <1>11. \A k : k \in BatchSeries(i) <=> k \in (c + 1)..m
    BY <1>9, <1>10 DEF BatchSeries
  <1>12. \A k \in BatchSeries(i) : k \in 1..Len(shard[i]) /\ k <= m
    BY <1>4, <1>10, <1>11
  <1>13. /\ curSeries'[i] = (IF AllRead(i) THEN 0 ELSE m) /\ curStep'[i] = IF AllRead(i) THEN s + w ELSE s
         /\ \A j \in Shards : j # i => curSeries'[j] = curSeries[j] /\ curStep'[j] = curStep[j]
    <2>1. /\ curSeries' = [curSeries EXCEPT ![i] = IF AllRead(i) THEN 0 ELSE nextSeries(i)]
          /\ curStep' = [curStep EXCEPT ![i] = IF AllRead(i) THEN @ + BatchLen(i) ELSE @]
      BY Zenon DEF ShardNext
    <2> QED
      BY <1>7, <1>8, <1>10, <2>1 DEF Shape
  <1>14. ASSUME NEW j \in Shards, NEW k \in 1..Len(shard[j]), shard[j][k] \in exhausted', NEW t \in 1..NumSteps,
                t >= NextRead(j, k)'
         PROVE  LastSample(shard[j][k], t) = {}
    <2>1. CASE j # i
      <3>1. shard[j][k] \in exhausted
        <4>1. SUFFICES ASSUME NEW l \in BatchSeries(i), shard[j][k] = shard[i][l]
                       PROVE  FALSE
          BY <1>2, <1>14, Zenon
        <4>2. l \in 1..Len(shard[i])
          BY <1>12
        <4> QED
          BY <2>1, <4>1, <4>2, ShardEntriesDiffer, Zenon
      <3>2. NextRead(j, k)' = NextRead(j, k)
        BY <1>13, <2>1 DEF NextRead
      <3> QED
        BY <1>14, <3>1, <3>2, Zenon DEF Exhausted
    <2>2. CASE j = i
      <3>1. k \in Nat /\ k >= 1 /\ t \in Nat /\ t <= NumSteps
        BY <1>4, <1>6, <1>14, <2>2
      <3>2. NextRead(i, k) = IF k <= c THEN s + StepsBatch ELSE s
        BY <1>7, <1>9, Zenon DEF NextRead
      <3>3. AllRead(i) => t >= s + w
        <4> SUFFICES ASSUME AllRead(i)
                     PROVE  t >= s + w
          OBVIOUS
        <4>1. curSeries'[i] = 0 /\ curStep'[i] = s + w /\ ~(k <= 0)
          BY <1>13, <3>1
        <4>2. NextRead(i, k)' = s + w
          BY <4>1 DEF NextRead
        <4> QED
          BY <1>14, <2>2, <4>2
      <3>4. ~AllRead(i) => t >= IF k <= m THEN s + StepsBatch ELSE s
        <4> SUFFICES ASSUME ~AllRead(i)
                     PROVE  t >= IF k <= m THEN s + StepsBatch ELSE s
          OBVIOUS
        <4>1. curSeries'[i] = m /\ curStep'[i] = s
          BY <1>13
        <4>2. NextRead(i, k)' = IF k <= m THEN s + StepsBatch ELSE s
          BY <4>1, Zenon DEF NextRead
        <4> QED
          BY <1>14, <2>2, <4>2
      <3>5. CASE shard[i][k] \in exhausted
        <4>1. AllRead(i) => w = StepsBatch
          <5>1. s + w <= NumSteps => w = StepsBatch
            BY <1>6, <1>8 DEF WLen, Cut
          <5> QED
            BY <1>6, <3>1, <3>3, <5>1
        <4>2. t >= NextRead(i, k)
          BY <1>6, <1>10, <3>1, <3>2, <3>3, <3>4, <4>1
        <4> QED
          BY <1>14, <2>2, <3>5, <4>2, Zenon DEF Exhausted
      <3>6. CASE shard[i][k] \notin exhausted
        <4>1. PICK l \in BatchSeries(i) : Ends(shard[i][l], BatchSteps(i)) /\ shard[i][k] = shard[i][l]
          BY <1>2, <1>14, <2>2, <3>6, Zenon
        <4>2. l = k /\ k <= m
          <5>1. l \in 1..Len(shard[i]) /\ l <= m
            BY <1>12
          <5> QED
            BY <1>14, <2>2, <4>1, <5>1, ShardEntriesDiffer, Zenon
        <4>3. PICK u \in BatchSteps(i) : selectPoint(shard[i][k], u).end
          BY <4>1, <4>2, Zenon DEF Ends
        <4>4. u \in Int /\ u <= s + w - 1
          <5>1. u \in s..(s + w - 1)
            BY <1>7, <1>8, Zenon DEF BatchSteps
          <5> QED
            BY <5>1
        <4>5. w <= StepsBatch
          BY <1>5, <1>7, <1>8
        <4>6. t >= u
          BY <1>6, <3>1, <3>3, <3>4, <4>2, <4>4, <4>5
        <4>7. shard[i][k] \in in.match /\ t \in Int
          BY <1>4, <1>14, <2>2, <3>1
        <4> QED
          BY <2>2, <4>3, <4>4, <4>6, <4>7, PointIsLastSample
      <3> QED
        BY <3>5, <3>6
    <2> QED
      BY <2>1, <2>2
  <1> QED
    BY <1>3, <1>14, Zenon DEF Exhausted

(* A shard of which coalesce holds nothing has returned what left coalesce. *)
LEMMA EmptyShard ==
  ASSUME NEW q, NEW i \in Shards, NEW v \in Nat, v >= 1, NEW c, NEW s, NEW d, ShardAt(q, i, <<>>, c, s, v, d)
  PROVE  Read(q, i, c, s, v, d)
  <1>1. \A u \in Nat : u >= 1 => \A a, e : ~Holds(q, i, <<>>, c, s, u, a, e)
    BY WindowSteps DEF Holds
  <1>2. v + StepsBatch \in Nat /\ v + StepsBatch >= 1
    BY WindowBounds
  <1> QED
    BY <1>1, <1>2, Zenon DEF ShardAt

(* The window a shard returns. *)
LEMMA ShardWindow ==
  ASSUME in \in Inputs, Sharded, offsets = [j \in Shards |-> Before(j)], Exhausted, Places, Shape,
         NEW i \in Shards, ShardNext(i)
  PROVE  inVectors'[i] = Window(Query, IdsOf(Query, i, curSeries[i], nextSeries(i)), curStep[i])
  <1>1. /\ curStep[i] <= NumSteps
        /\ inVectors' = [inVectors EXCEPT ![i] = [k \in 1..BatchLen(i) |-> StepVector(i, curStep[i] + k - 1)]]
    BY DEF ShardNext
  <1>2. Len(shard[i]) \in Nat
    BY ShardEntries
  <1>3. /\ BatchLen(i) = WLen(curStep[i]) /\ WLen(curStep[i]) \in Nat /\ curStep[i] \in Nat
        /\ curStep[i] + WLen(curStep[i]) - 1 <= NumSteps
    BY <1>1, <1>2, BatchBounds
  <1>4. PICK X : X = IdsOf(Query, i, curSeries[i], nextSeries(i))
    OBVIOUS
  <1>5. \A k \in 1..WLen(curStep[i]) : StepVector(i, curStep[i] + k - 1) = Vec(Query, X, curStep[i] + k - 1)
    <2> SUFFICES ASSUME NEW k \in 1..WLen(curStep[i])
                 PROVE  StepVector(i, curStep[i] + k - 1) = Vec(Query, X, curStep[i] + k - 1)
      OBVIOUS
    <2>1. PICK t \in Int : t = curStep[i] + k - 1
      BY <1>3
    <2>2. curStep[i] <= t /\ t <= NumSteps
      BY <1>3, <2>1, StepsAssumption
    <2> QED
      BY <1>1, <1>4, <2>1, <2>2, StepVectorIs, Zenon
  <1>6. inVectors'[i] = [k \in 1..BatchLen(i) |-> StepVector(i, curStep[i] + k - 1)]
    BY <1>1 DEF Shape
  <1> QED
    BY <1>3, <1>4, <1>5, <1>6 DEF Window

(* A shard returns its next batch. *)
LEMMA ShardNextKeeps ==
  ASSUME IInv, NEW i \in Shards, ShardNext(i)
  PROVE  IInv'
  <1>1. /\ pc = "pull" /\ pc' = pc /\ i \in pending /\ pending' = pending \ {i} /\ curStep[i] <= NumSteps
        /\ Running /\ TypeOK /\ Shape /\ Failures /\ in \in Inputs /\ UNCHANGED load /\ UNCHANGED aggVars /\ failed' = failed
    BY Zenon DEF ShardNext, IInv, TypeOK
  <1>2. Sharded /\ offsets = [j \in Shards |-> Before(j)] /\ Exhausted /\ Places
    BY <1>1, Zenon DEF Running, TypeOK, Places
  <1>3. Query' = Query /\ shard' = shard /\ in' = in
    BY <1>1, SameShards, Zenon DEF load
  <1>4. World(Query)
    BY <1>1, QueryWorld, Zenon
  <1>5. PICK q : q = Query
    OBVIOUS
  <1>6. Len(shard[i]) = q.size[i] /\ q.size[i] \in Nat /\ \A k \in 1..Len(shard[i]) : shard[i][k] \in in.match
    BY <1>1, <1>2, <1>5, ShardEntries, Zenon
  <1>7. /\ nextSeries(i) \in curSeries[i]..q.size[i] /\ BatchLen(i) = WLen(curStep[i]) /\ WLen(curStep[i]) \in 1..StepsBatch
        /\ curStep[i] \in Nat /\ curStep[i] >= 1 /\ curSeries[i] \in Nat /\ curStep[i] + WLen(curStep[i]) - 1 <= NumSteps
        /\ (AllRead(i) <=> nextSeries(i) = q.size[i])
    BY <1>1, <1>2, <1>6, BatchBounds, Zenon
  <1>8. PICK w : w = Window(q, IdsOf(q, i, curSeries[i], nextSeries(i)), curStep[i])
    OBVIOUS
  <1>9. inVectors'[i] = w
    BY <1>1, <1>2, <1>5, <1>8, ShardWindow, Zenon
  <1>10. w # <<>> /\ Len(w) = WLen(curStep[i])
    BY <1>1, <1>7, <1>8, WindowSteps, Zenon
  <1>11. /\ curSeries'[i] = (IF AllRead(i) THEN 0 ELSE nextSeries(i))
         /\ curStep'[i] = IF AllRead(i) THEN curStep[i] + WLen(curStep[i]) ELSE curStep[i]
         /\ DOMAIN inVectors' = Shards
         /\ \A j \in Shards : j # i => curSeries'[j] = curSeries[j] /\ curStep'[j] = curStep[j] /\ inVectors'[j] = inVectors[j]
    <2>1. /\ curSeries' = [curSeries EXCEPT ![i] = IF AllRead(i) THEN 0 ELSE nextSeries(i)]
          /\ curStep' = [curStep EXCEPT ![i] = IF AllRead(i) THEN @ + BatchLen(i) ELSE @]
      BY Zenon DEF ShardNext
    <2>2. inVectors' = [inVectors EXCEPT ![i] = [k \in 1..BatchLen(i) |-> StepVector(i, curStep[i] + k - 1)]]
      BY Zenon DEF ShardNext
    <2>3. curSeries \in [Shards -> Nat] /\ curStep \in [Shards -> Nat] /\ DOMAIN inVectors = Shards
      BY <1>1, Zenon DEF Shape
    <2>4. DOMAIN inVectors' = Shards /\ \A j \in Shards : j # i => inVectors'[j] = inVectors[j]
      BY <2>2, <2>3
    <2> QED
      BY <1>7, <2>1, <2>3, <2>4
  <1>12. /\ curSeries'[i] \in 0..q.size[i] /\ curStep'[i] \in 1..(NumSteps + 1)
    <2>1. PICK m \in Nat : m = nextSeries(i) /\ m <= q.size[i]
      BY <1>6, <1>7
    <2>2. PICK s \in Nat : s = curStep[i]
      BY <1>7
    <2>3. PICK l \in Nat : l = WLen(s) /\ s >= 1 /\ s + l - 1 <= NumSteps /\ s <= NumSteps
      BY <1>1, <1>7, <2>2, StepsAssumption
    <2>4. curSeries'[i] \in {0, m} /\ curStep'[i] \in {s, s + l}
      BY <1>11, <2>1, <2>2, <2>3
    <2> QED
      BY <1>6, <2>1, <2>3, <2>4, StepsAssumption
  <1>13. TypeOK'
    <2>1. \A j \in Shards : /\ Range(shard'[j]) \subseteq in.match
                            /\ curSeries'[j] \in 0..Len(shard'[j]) /\ curStep'[j] \in 1..(NumSteps + 1)
                            /\ Len(inVectors'[j]) \in 0..StepsBatch
      <3> SUFFICES ASSUME NEW j \in Shards
                   PROVE  /\ Range(shard[j]) \subseteq in.match
                          /\ curSeries'[j] \in 0..Len(shard[j]) /\ curStep'[j] \in 1..(NumSteps + 1)
                          /\ Len(inVectors'[j]) \in 0..StepsBatch
        BY <1>3
      <3>1. Range(shard[j]) \subseteq in.match
        BY <1>1 DEF TypeOK
      <3>2. CASE j = i
        <4>1. WLen(curStep[i]) \in 0..StepsBatch
          BY <1>7
        <4> QED
          BY <1>6, <1>9, <1>10, <1>12, <3>1, <3>2, <4>1
      <3>3. CASE j # i
        BY <1>1, <1>11, <3>1, <3>3 DEF TypeOK
      <3> QED
        BY <3>2, <3>3
    <2>2. exhausted' \subseteq in.match
      <3>1. \A k \in BatchSeries(i) : k \in 1..Len(shard[i])
        <4>1. PICK c \in Nat : c = curSeries[i]
          BY <1>7
        <4>2. PICK m \in Nat : m = nextSeries(i) /\ m <= Len(shard[i])
          BY <1>6, <1>7
        <4> QED
          BY <1>6, <4>1, <4>2 DEF BatchSeries
      <3>2. exhausted' = exhausted \cup {shard[i][k] : k \in {j \in BatchSeries(i) : Ends(shard[i][j], BatchSteps(i))}}
        BY Zenon DEF ShardNext
      <3>3. exhausted \subseteq in.match
        BY <1>1, Zenon DEF TypeOK
      <3> QED
        BY <1>6, <3>1, <3>2, <3>3, Zenon
    <2> QED
      BY <1>1, <1>3, <2>1, <2>2 DEF TypeOK, load, aggVars
  <1>14. Shape'
    <2>1. curSeries' \in [Shards -> Nat] /\ curStep' \in [Shards -> Nat]
      <3>1. curSeries \in [Shards -> Nat] /\ curStep \in [Shards -> Nat]
        BY <1>1, Zenon DEF Shape
      <3>2. PICK x \in Nat : x = curSeries'[i]
        BY <1>6, <1>12
      <3>3. PICK y \in Nat : y = curStep'[i]
        BY <1>12, StepsAssumption
      <3>4. /\ curSeries' = [curSeries EXCEPT ![i] = IF AllRead(i) THEN 0 ELSE nextSeries(i)]
            /\ curStep' = [curStep EXCEPT ![i] = IF AllRead(i) THEN @ + BatchLen(i) ELSE @]
        BY Zenon DEF ShardNext
      <3>5. curSeries' = [curSeries EXCEPT ![i] = x] /\ curStep' = [curStep EXCEPT ![i] = y]
        BY <3>1, <3>2, <3>3, <3>4
      <3> QED
        BY <3>1, <3>5
    <2> QED
      BY <1>1, <1>3, <1>11, <2>1 DEF Shape, aggVars
  <1>15. Failures'
    BY <1>1 DEF Failures, load
  <1>16. Exhausted'
    BY <1>1, <1>2, ShardNextExhausts
  <1>17. ASSUME NEW v \in Nat, v >= 1, Pulling(v)
         PROVE  Pulling(v)'
    <2>1. inVectors[i] = <<>> /\ hasLast' = hasLast /\ tables' = tables /\ numTables' = numTables
      BY <1>1, <1>17 DEF Pulling, aggVars
    <2>2. /\ \A d \in 0..q.size[i] : Read(q, i, curSeries[i], curStep[i], v, d) => ShardAt(q, i, w, curSeries'[i], curStep'[i], v, d)
          /\ New(q, i, <<>>, curSeries[i], curStep[i], v) => New(q, i, w, curSeries'[i], curStep'[i], v)
      <3>1. curSeries[i] \in 0..q.size[i]
        BY <1>6, <1>7
      <3>2. nextSeries(i) = q.size[i] => curSeries'[i] = 0 /\ curStep'[i] = curStep[i] + WLen(curStep[i])
        BY <1>7, <1>11, Zenon
      <3>3. nextSeries(i) # q.size[i] => curSeries'[i] = nextSeries(i) /\ curStep'[i] = curStep[i]
        BY <1>7, <1>11, Zenon
      <3>4. PICK m \in Nat : m = q.size[i]
        BY <1>6
      <3>5. PICK a \in 0..m : a = curSeries[i]
        BY <3>1, <3>4
      <3>6. PICK s \in Nat : s = curStep[i]
        BY <1>7
      <3>7. PICK e \in a..m : e = nextSeries(i)
        BY <1>7, <3>4, <3>5
      <3>8. PICK a2 : a2 = curSeries'[i]
        OBVIOUS
      <3>9. PICK s2 : s2 = curStep'[i]
        OBVIOUS
      <3>10. (e = q.size[i] => a2 = 0 /\ s2 = s + WLen(s)) /\ (e # q.size[i] => a2 = e /\ s2 = s)
        BY <3>2, <3>3, <3>6, <3>7, <3>8, <3>9
      <3>11. World(q) /\ s <= NumSteps /\ w = Window(q, IdsOf(q, i, a, e), s)
        BY <1>1, <1>4, <1>5, <1>8, <3>5, <3>6, <3>7
      <3>12. /\ \A d \in 0..q.size[i] : Read(q, i, a, s, v, d) => ShardAt(q, i, w, a2, s2, v, d)
             /\ New(q, i, <<>>, a, s, v) => New(q, i, w, a2, s2, v)
        BY <1>17, <3>4, <3>10, <3>11, ShardMoves, Zenon
      <3> QED
        BY <3>5, <3>6, <3>8, <3>9, <3>12, Zenon
    <2>3. ASSUME NEW j \in Shards, NEW g \in Counts(q), ShardNow(j, v, g[j])
          PROVE  ShardNow(j, v, g[j])'
      <3>1. CASE j = i
        <4>1. g[i] \in 0..q.size[i]
          BY <1>4, <1>5 DEF Counts, World
        <4>2. Read(q, i, curSeries[i], curStep[i], v, g[i])
          <5>1. ShardAt(q, i, <<>>, curSeries[i], curStep[i], v, g[i])
            BY <1>5, <2>1, <2>3, <3>1 DEF ShardNow
          <5> QED
            BY <1>17, <5>1, EmptyShard, Zenon
        <4> QED
          BY <1>3, <1>5, <1>9, <2>2, <3>1, <4>1, <4>2, Zenon DEF ShardNow
      <3>2. CASE j # i
        BY <1>3, <1>11, <2>3, <3>2, Zenon DEF ShardNow
      <3> QED
        BY <3>1, <3>2
    <2>4. ASSUME NEW j \in Shards, NewNow(j, v)
          PROVE  NewNow(j, v)'
      <3>1. CASE j = i
        BY <1>3, <1>5, <1>9, <2>1, <2>2, <2>4, <3>1, Zenon DEF NewNow
      <3>2. CASE j # i
        BY <1>3, <1>11, <2>4, <3>2, Zenon DEF NewNow
      <3> QED
        BY <3>1, <3>2
    <2>5. (TablesNew(v) => TablesNew(v)') /\ \A g : TablesFull(v, g) => TablesFull(v, g)'
      BY <1>3, <2>1, Zenon DEF TablesNew, TablesFull
    <2>6. Aggregated(v)'
      BY <1>3, <1>5, <1>17, <2>3, <2>4, <2>5 DEF Aggregated, Pulling
    <2>7. \A j \in Shards : j \in pending' => inVectors'[j] = <<>>
      BY <1>1, <1>11, <1>17, Zenon DEF Pulling
    <2>8. \A j \in Shards : j \notin pending' /\ inVectors'[j] = <<>> /\ ~failed' => curStep'[j] > NumSteps
      BY <1>1, <1>9, <1>10, <1>11, <1>17 DEF Pulling
    <2> QED
      BY <1>17, <2>1, <2>6, <2>7, <2>8 DEF Pulling
  <1>18. Running'
    <2>1. PICK c \in 0..calls : calls = c + 1 /\ OutAt(First(c)) /\ Pulling(First(c))
      BY <1>1 DEF Running
    <2>2. c \in Nat /\ calls' = calls /\ out' = out
      BY <1>1 DEF TypeOK, aggVars
    <2>3. PICK v \in Nat : v = First(c) /\ v >= 1
      BY <2>2, FirstWindow
    <2>4. Pulling(v)' /\ OutAt(v)'
      BY <1>17, <2>1, <2>2, <2>3 DEF OutAt
    <2>5. Sharded' /\ (offsets = [j \in Shards |-> Before(j)])' /\ loaded' = Shards
      BY <1>1, SameShards DEF Running, load
    <2>6. First(c)' = v
      BY <2>3
    <2> QED
      BY <1>1, <1>16, <2>1, <2>2, <2>4, <2>5, <2>6 DEF Running
  <1> QED
    BY <1>1, <1>13, <1>14, <1>15, <1>18 DEF IInv

-----------------------------------------------------------------------------
(* The merge of the shards. *)

(* The shards coalesce holds a window of, and those it merges. *)
Held == {i \in Shards : inVectors[i] # <<>>}
At == {i \in Held : inVectors[i][1].t = MinTs(Held)}

(* What a step of coalesce does without a failure. *)
LEMMA CoalesceStep ==
  ASSUME Coalesce, ~failed
  PROVE  /\ pc = "pull" /\ pending = {} /\ pc' = "agg"
         /\ UNCHANGED <<load, shardVars, pending, failed, hasLast, tables, numTables, calls, out>>
         /\ Held = {} => n' = 0 /\ inVectors' = inVectors
         /\ Held # {} => /\ n' = Len(inVectors[Min(At)]) /\ temp' = [k \in 1..Len(inVectors[Min(At)]) |-> merged(At, k)]
                         /\ inVectors' = [i \in Shards |->
                              IF i \in At THEN SubSeq(inVectors[i], Len(inVectors[Min(At)]) + 1, Len(inVectors[i]))
                              ELSE inVectors[i]]
  BY Zenon DEF Coalesce, Held, At

(* A window that has been merged to its end is empty. *)
LEMMA WindowUsed ==
  ASSUME NEW q, NEW X, NEW v \in Nat, v >= 1, v <= NumSteps
  PROVE  SubSeq(Window(q, X, v), WLen(v) + 1, Len(Window(q, X, v))) = <<>>
  <1>1. PICK w : w = Window(q, X, v)
    OBVIOUS
  <1>2. PICK m \in Nat : m = WLen(v)
    BY WindowBounds
  <1>3. Len(w) = m /\ DOMAIN w = 1..m /\ w = [k \in 1..m |-> Vec(q, X, v + k - 1)]
    BY <1>1, <1>2, WindowSteps DEF Window
  <1>4. PICK S : S = {w[k] : k \in 1..m}
    BY Zenon
  <1>5. w \in Seq(S)
    <2>1. w \in [1..m -> S]
      BY <1>3, <1>4
    <2> QED
      BY <2>1
  <1>6. SubSeq(w, m + 1, m) = <<>>
    BY <1>3, <1>5
  <1> QED
    BY <1>1, <1>2, <1>3, <1>6

(* The smallest of the numbers of a set. *)
LEMMA MinIs ==
  ASSUME NEW T, T \subseteq Nat, NEW m \in T, \A t \in T : m <= t
  PROVE  Min(T) = m
  <1>1. Min(T) \in T /\ Min(T) <= m
    BY MinOfNumbers, Zenon
  <1>2. Min(T) \in Nat /\ m \in Nat /\ m <= Min(T)
    BY <1>1, Zenon
  <1> QED
    BY <1>1, <1>2

(* coalesce merges the windows at v it holds after the counts d; they leave it *)
(* whole.                                                                      *)
LEMMA CoalesceMerges ==
  ASSUME Coalesce, ~failed, in \in Inputs, NEW v \in Nat, v >= 1, v <= NumSteps, NEW d \in Counts(Query), At # {},
         \A i \in At : \E e \in 0..Query.size[i] : Holds(Query, i, inVectors[i], curSeries[i], curStep[i], v, d[i], e)
  PROVE  \E h \in Counts(Query) :
           /\ TempAt(v, d, h)'
           /\ \A i \in Shards : /\ d[i] <= h[i]
                                /\ i \in At => inVectors'[i] = <<>> /\ ShardNow(i, v, h[i])'
                                /\ i \notin At => h[i] = d[i] /\ inVectors'[i] = inVectors[i]
  <1>1. PICK q : q = Query
    OBVIOUS
  <1>2. World(q) /\ Query' = q
    BY <1>1, QueryWorld, CoalesceStep, SameShards
  <1>3. At \subseteq Shards /\ Held # {}
    BY DEF At, Held
  <1>4. \A i \in Shards : q.size[i] \in Nat /\ q.size[i] <= q.count /\ q.count \in Nat /\ d[i] \in 0..q.count /\ d[i] <= q.size[i]
    BY <1>1, <1>2, CountBounds, Zenon
  <1>5. PICK h \in Counts(q) :
           \A i \in Shards : /\ i \in At => Holds(q, i, inVectors[i], curSeries[i], curStep[i], v, d[i], h[i])
                             /\ i \notin At => h[i] = d[i]
    <2> DEFINE last(i) == CHOOSE e \in 0..q.size[i] : Holds(q, i, inVectors[i], curSeries[i], curStep[i], v, d[i], e)
               g == [i \in Shards |-> IF i \in At THEN last(i) ELSE d[i]]
    <2>1. \A i \in At : last(i) \in 0..q.size[i] /\ Holds(q, i, inVectors[i], curSeries[i], curStep[i], v, d[i], last(i))
      BY <1>1, Zenon
    <2> HIDE DEF last
    <2>2. g \in Counts(q)
      <3>1. ASSUME NEW i \in Shards
            PROVE  g[i] \in 0..q.count /\ g[i] <= q.size[i]
        <4>1. PICK m \in Nat, c \in Nat : m = q.size[i] /\ c = q.count /\ m <= c
          BY <1>4, Zenon
        <4>2. \A x \in 0..m : x \in 0..c /\ x <= m
          BY <4>1
        <4>3. CASE i \in At
          BY <2>1, <4>1, <4>2, <4>3, Zenon
        <4>4. CASE i \notin At
          BY <1>4, <4>4, Zenon
        <4> QED
          BY <4>3, <4>4, Zenon
      <3>2. g \in [Shards -> 0..q.count]
        BY <3>1, Zenon
      <3> QED
        BY <3>1, <3>2, Zenon DEF Counts
    <2>3. \A i \in Shards : (i \in At => g[i] = last(i)) /\ (i \notin At => g[i] = d[i])
      OBVIOUS
    <2> HIDE DEF g
    <2> QED
      BY <1>3, <2>1, <2>2, <2>3, Zenon
  <1>6. \A i \in At : /\ inVectors[i] = Window(q, IdsOf(q, i, d[i], h[i]), v) /\ d[i] <= h[i]
                      /\ Read(q, i, curSeries[i], curStep[i], v, h[i])
    <2> SUFFICES ASSUME NEW i \in At
                 PROVE  /\ inVectors[i] = Window(q, IdsOf(q, i, d[i], h[i]), v) /\ d[i] <= h[i]
                        /\ Read(q, i, curSeries[i], curStep[i], v, h[i])
      BY Zenon
    <2>1. Holds(q, i, inVectors[i], curSeries[i], curStep[i], v, d[i], h[i])
      BY <1>3, <1>5, Zenon
    <2>2. /\ inVectors[i] = Window(q, IdsOf(q, i, d[i], h[i]), v) /\ h[i] \in d[i]..q.size[i]
          /\ Read(q, i, curSeries[i], curStep[i], v, h[i])
      BY <2>1, Zenon DEF Holds
    <2>3. PICK a \in Nat : a = d[i]
      BY <1>3, <1>4
    <2>4. PICK b \in Nat : b = q.size[i]
      BY <1>3, <1>4, Zenon
    <2>5. \A x \in a..b : a <= x
      OBVIOUS
    <2> QED
      BY <2>2, <2>3, <2>4, <2>5, Zenon
  <1>7. Min(At) \in At
    <2>1. At \subseteq Nat
      BY <1>3 DEF Shards
    <2> QED
      BY <2>1, MinOfNumbers, Zenon
  <1>8. \A i \in At : Len(inVectors[i]) = WLen(v)
    <2> SUFFICES ASSUME NEW i \in At
                 PROVE  Len(inVectors[i]) = WLen(v)
      BY Zenon
    <2>1. PICK X : inVectors[i] = Window(q, X, v)
      BY <1>6, Zenon
    <2>2. Len(Window(q, X, v)) = WLen(v)
      BY WindowSteps, Zenon
    <2> QED
      BY <2>1, <2>2, Zenon
  <1>9. n' = WLen(v) /\ temp' = [k \in 1..WLen(v) |-> merged(At, k)]
    BY <1>3, <1>7, <1>8, CoalesceStep, Zenon
  <1>10. \A k \in 1..WLen(v) : merged(At, k) = Vec(q, Between(q, d, h), v + k - 1)
    <2>1. PICK A : A = At
      BY Zenon
    <2>2. /\ A \subseteq Shards /\ A # {} /\ d \in Counts(q) /\ \A i \in Shards : i \notin A => h[i] = d[i]
          /\ \A i \in A : inVectors[i] = Window(q, IdsOf(q, i, d[i], h[i]), v)
      BY <1>1, <1>3, <1>5, <1>6, <2>1, Zenon
    <2>3. \A k \in 1..WLen(v) : merged(A, k) = Vec(q, Between(q, d, h), v + k - 1)
      BY <1>2, <2>2, MergedWindows, Zenon
    <2> QED
      BY <2>1, <2>3, Zenon
  <1>11. TempAt(v, d, h)'
    BY <1>2, <1>9, <1>10, Zenon DEF TempAt, Window
  <1>12. ASSUME NEW i \in Shards
         PROVE  /\ d[i] <= h[i]
                /\ i \in At => inVectors'[i] = <<>> /\ ShardNow(i, v, h[i])'
                /\ i \notin At => h[i] = d[i] /\ inVectors'[i] = inVectors[i]
    <2>1. curSeries' = curSeries /\ curStep' = curStep
      BY CoalesceStep DEF shardVars
    <2>2. inVectors'[i] = IF i \in At THEN SubSeq(inVectors[i], WLen(v) + 1, Len(inVectors[i])) ELSE inVectors[i]
      BY <1>3, <1>7, <1>8, CoalesceStep, Zenon
    <2>3. CASE i \in At
      <3>1. inVectors'[i] = <<>>
        <4>1. PICK X : inVectors[i] = Window(q, X, v)
          BY <1>6, <2>3, Zenon
        <4>2. SubSeq(Window(q, X, v), WLen(v) + 1, Len(Window(q, X, v))) = <<>>
          BY WindowUsed
        <4> QED
          BY <2>2, <2>3, <4>1, <4>2, Zenon
      <3>2. ShardNow(i, v, h[i])'
        BY <1>2, <1>6, <2>1, <2>3, <3>1, Zenon DEF ShardNow, ShardAt
      <3> QED
        BY <1>6, <2>3, <3>1, <3>2, Zenon
    <2>4. CASE i \notin At
      <3>1. h[i] = d[i] /\ inVectors'[i] = inVectors[i]
        BY <1>5, <2>2, <2>4, Zenon
      <3>2. PICK a \in Nat : a = d[i]
        BY <1>4
      <3>3. a <= a
        OBVIOUS
      <3> QED
        BY <2>4, <3>1, <3>2, <3>3, Zenon
    <2> QED
      BY <2>3, <2>4, Zenon
  <1> QED
    BY <1>1, <1>5, <1>11, <1>12, Zenon

(* A window that coalesce holds has the time of its first step. *)
LEMMA HeldStart ==
  ASSUME NEW q, NEW i, NEW w, NEW c, NEW s, NEW u \in Nat, u >= 1, NEW a, NEW e, Holds(q, i, w, c, s, u, a, e)
  PROVE  w[1].t = u /\ u <= NumSteps
  <1>1. PICK X : w = Window(q, X, u) /\ u <= NumSteps
    BY Zenon DEF Holds
  <1> QED
    BY <1>1, WindowSteps, Zenon

(* The window held for a shard is one at v or, when all series of the window *)
(* at v have left coalesce, one at the next window.                          *)
LEMMA HeldWindow ==
  ASSUME NEW q, NEW i \in Shards, NEW v \in Nat, v >= 1, NEW w, w # <<>>, NEW c, NEW s, NEW d, ShardAt(q, i, w, c, s, v, d)
  PROVE  \/ w[1].t = v /\ \E e \in 0..q.size[i] : Holds(q, i, w, c, s, v, d, e)
         \/ /\ w[1].t = v + StepsBatch /\ v + StepsBatch <= NumSteps /\ d = q.size[i]
            /\ \E e \in 0..q.size[i] : Holds(q, i, w, c, s, v + StepsBatch, 0, e)
  <1>1. v + StepsBatch \in Nat /\ v + StepsBatch >= 1
    BY WindowBounds
  <1>2. \A u \in Nat : u >= 1 => \A a, e : Holds(q, i, w, c, s, u, a, e) => w[1].t = u /\ u <= NumSteps
    BY HeldStart, Zenon
  <1> QED
    BY <1>1, <1>2, Zenon DEF ShardAt

(* A shard of which nothing has left coalesce. *)
LEMMA NewShard ==
  ASSUME NEW q, World(q), NEW i \in Shards, NEW v \in Nat, v >= 1, NEW w, NEW c, NEW s, New(q, i, w, c, s, v)
  PROVE  ShardAt(q, i, w, c, s, v, None[i]) /\ (w # <<>> => w[1].t = v)
  <1>1. None[i] = 0
    BY DEF None
  <1>2. \A a, e : Holds(q, i, w, c, s, v, a, e) => w[1].t = v
    BY HeldStart, Zenon
  <1> QED
    BY <1>1, <1>2, Zenon DEF New, ShardAt, Read

(* coalesce after its goroutines, while the window at v is aggregated. *)
LEMMA CoalesceReturns ==
  ASSUME Coalesce, ~failed, in \in Inputs, TypeOK, NEW v \in Nat, v >= 1, Pulling(v)
  PROVE  Aggregating(v)' /\ n' \in 0..StepsBatch /\ \A i \in Shards : inVectors'[i] \in {<<>>, inVectors[i]}
  <1>1. PICK q : q = Query
    OBVIOUS
  <1>2. World(q) /\ Query' = q
    BY <1>1, QueryWorld, CoalesceStep, SameShards
  <1>3. /\ pending = {} /\ hasLast' = hasLast /\ ~hasLast /\ tables' = tables /\ numTables' = numTables
        /\ curSeries' = curSeries /\ curStep' = curStep /\ UNCHANGED <<load, shardVars>>
    BY CoalesceStep DEF Pulling, shardVars
  <1>4. \A i \in Shards : inVectors[i] = <<>> => curStep[i] > NumSteps
    BY <1>3 DEF Pulling
  <1>5. (TablesNew(v) => TablesNew(v)') /\ \A g : TablesFull(v, g) => TablesFull(v, g)'
    BY <1>1, <1>2, <1>3 DEF TablesNew, TablesFull
  <1>6. None \in Counts(q) /\ \A i \in Shards : None[i] = 0
    BY <1>2, NoneCounts
  <1>7. PICK g \in Counts(q) :
           /\ TablesAt(v, g) /\ \A i \in Shards : ShardNow(i, v, g[i])
           /\ ~TablesFull(v, g) => \A i \in Held : inVectors[i][1].t = v
    <2>1. CASE TablesNew(v) /\ \A i \in Shards : NewNow(i, v)
      <3>1. \A i \in Shards : ShardNow(i, v, None[i]) /\ (inVectors[i] # <<>> => inVectors[i][1].t = v)
        <4> SUFFICES ASSUME NEW i \in Shards
                     PROVE  ShardNow(i, v, None[i]) /\ (inVectors[i] # <<>> => inVectors[i][1].t = v)
          BY Zenon
        <4>1. PICK w, c, s : w = inVectors[i] /\ c = curSeries[i] /\ s = curStep[i]
          BY Zenon
        <4>2. World(q) /\ New(q, i, w, c, s, v)
          BY <1>1, <1>2, <2>1, <4>1, Zenon DEF NewNow
        <4>3. ShardAt(q, i, w, c, s, v, None[i])
          BY <4>2, NewShard, Zenon
        <4>4. w # <<>> => w[1].t = v
          BY <4>2, NewShard, Zenon
        <4> QED
          BY <1>1, <4>1, <4>3, <4>4, Zenon DEF ShardNow
      <3> QED
        BY <1>6, <2>1, <3>1 DEF TablesAt, Held
    <2>2. CASE \E g \in Counts(q) : TablesFull(v, g) /\ \A i \in Shards : ShardNow(i, v, g[i])
      BY <2>2, Zenon DEF TablesAt
    <2> QED
      BY <1>1, <2>1, <2>2, Zenon DEF Pulling, Aggregated
  <1>8. TablesAt(v, g)'
    BY <1>5, <1>7 DEF TablesAt
  <1>9. ASSUME NEW i \in Held
        PROVE  /\ i \in Shards
               /\ \/ inVectors[i][1].t = v /\ \E e \in 0..q.size[i] : Holds(q, i, inVectors[i], curSeries[i], curStep[i], v, g[i], e)
                  \/ /\ inVectors[i][1].t = v + StepsBatch /\ v + StepsBatch <= NumSteps /\ g[i] = q.size[i]
                     /\ \E e \in 0..q.size[i] : Holds(q, i, inVectors[i], curSeries[i], curStep[i], v + StepsBatch, 0, e)
    <2>1. i \in Shards /\ inVectors[i] # <<>>
      BY DEF Held
    <2>2. ShardAt(q, i, inVectors[i], curSeries[i], curStep[i], v, g[i])
      BY <1>1, <1>7, <2>1, Zenon DEF ShardNow
    <2> QED
      BY <2>1, <2>2, HeldWindow, Zenon
  <1>10. v + StepsBatch \in Nat /\ v + StepsBatch >= 1 /\ v < v + StepsBatch
    BY StepsAssumption
  <1> DEFINE T == {inVectors[i][1].t : i \in Held}
  <1>11. T \subseteq {v, v + StepsBatch} /\ T \subseteq Nat
    BY <1>9, <1>10, Zenon
  <1>12. CASE Held = {}
    <2>1. n' = 0 /\ inVectors' = inVectors
      BY <1>12, CoalesceStep
    <2>2. Aggregated(v)'
      BY <1>3, <2>1, SameAggregated, Zenon DEF Pulling
    <2>3. \A i \in Shards : inVectors'[i] = <<>> /\ curStep'[i] > NumSteps
      BY <1>3, <1>4, <1>12, <2>1 DEF Held
    <2>4. 0 \in 0..StepsBatch
      BY StepsAssumption
    <2> QED
      BY <1>3, <2>1, <2>2, <2>3, <2>4, Zenon DEF Aggregating
  <1>13. CASE v \in T
    <2>1. MinTs(Held) = v
      <3>1. \A t \in T : v <= t
        BY <1>10, <1>11
      <3> HIDE DEF T
      <3>2. Min(T) = v
        BY <1>11, <1>13, <3>1, MinIs, Zenon
      <3> QED
        BY <3>2 DEF MinTs, T
    <2>2. At = {i \in Held : inVectors[i][1].t = v}
      BY <2>1 DEF At
    <2>3. At # {} /\ \A i \in At : \E e \in 0..q.size[i] : Holds(q, i, inVectors[i], curSeries[i], curStep[i], v, g[i], e)
      <3>1. PICK i \in Held : inVectors[i][1].t = v
        BY <1>13, Zenon
      <3>2. v # v + StepsBatch
        BY <1>10
      <3>3. \A k \in At : k \in Held /\ inVectors[k][1].t = v
        BY <2>2, Zenon
      <3> QED
        BY <1>9, <2>2, <3>1, <3>2, <3>3, Zenon
    <2>4. v <= NumSteps
      BY <2>3, Zenon DEF Holds
    <2>5. PICK h \in Counts(q) :
             /\ TempAt(v, g, h)'
             /\ \A i \in Shards : /\ g[i] <= h[i]
                                  /\ i \in At => inVectors'[i] = <<>> /\ ShardNow(i, v, h[i])'
                                  /\ i \notin At => h[i] = g[i] /\ inVectors'[i] = inVectors[i]
      BY <1>1, <2>3, <2>4, CoalesceMerges, Zenon
    <2>6. \A i \in Shards : i \notin At => ShardNow(i, v, h[i])'
      BY <1>1, <1>2, <1>3, <1>7, <2>5, Zenon DEF ShardNow
    <2>7. n' = WLen(v) /\ WLen(v) \in 0..StepsBatch
      BY <2>4, <2>5, StepOfWindow, Zenon DEF TempAt
    <2> QED
      BY <1>1, <1>2, <1>3, <1>8, <2>5, <2>6, <2>7, Zenon DEF Aggregating
  <1>14. CASE Held # {} /\ v \notin T
    <2>1. PICK u \in Nat : u = v + StepsBatch
      BY <1>10
    <2>2. \A i \in Held : /\ inVectors[i][1].t = u /\ u <= NumSteps /\ g[i] = q.size[i]
                          /\ \E e \in 0..q.size[i] : Holds(q, i, inVectors[i], curSeries[i], curStep[i], u, 0, e)
      BY <1>9, <1>14, <2>1, Zenon
    <2>3. T = {u} /\ u >= 1 /\ u <= NumSteps
      <3>1. PICK i \in Held : TRUE
        BY <1>14
      <3>2. u >= 1 /\ u <= NumSteps
        BY <1>10, <2>1, <2>2, <3>1, Zenon
      <3>3. \A x : x \in T <=> x = u
        BY <2>2, <3>1
      <3> QED
        BY <3>2, <3>3
    <2>4. MinTs(Held) = u
      <3>1. Min(T) = u
        <4> HIDE DEF T
        <4>1. u \in T /\ \A t \in T : u <= t
          BY <2>3
        <4> QED
          BY <1>11, <4>1, MinIs, Zenon
      <3> QED
        BY <3>1 DEF MinTs
    <2>5. At = Held
      BY <2>2, <2>4, Zenon DEF At
    <2>6. Held = Shards
      <3> SUFFICES ASSUME NEW i \in Shards, inVectors[i] = <<>>
                   PROVE  FALSE
        BY DEF Held
      <3>1. ShardAt(q, i, <<>>, curSeries[i], curStep[i], v, g[i])
        BY <1>1, <1>7, Zenon DEF ShardNow
      <3>2. Read(q, i, curSeries[i], curStep[i], v, g[i])
        BY <3>1, EmptyShard, Zenon
      <3>3. Cut(v) = v /\ Cut(v + StepsBatch) = v + StepsBatch /\ v <= NumSteps
        BY <1>10, <2>1, <2>3, StepsAssumption DEF Cut
      <3>4. curStep[i] <= NumSteps
        BY <2>1, <2>3, <3>2, <3>3, Zenon DEF Read
      <3>5. curStep[i] \in Nat /\ NumSteps \in Nat /\ curStep[i] > NumSteps
        BY <1>4, StepsAssumption DEF TypeOK
      <3> QED
        BY <3>4, <3>5
    <2>7. TablesFull(v, q.size)'
      <3>1. g = q.size
        <4>1. g = [i \in Shards |-> g[i]]
          BY DEF Counts
        <4>2. q.size = [i \in Shards |-> q.size[i]]
          BY <1>2, Zenon DEF World
        <4>3. \A i \in Shards : g[i] = q.size[i]
          BY <2>2, <2>6, Zenon
        <4>4. [i \in Shards |-> g[i]] = [i \in Shards |-> q.size[i]]
          BY <4>3, Zenon
        <4> QED
          BY <4>1, <4>2, <4>4, Zenon
      <3>2. TablesFull(v, g)
        BY <1>7, <1>10, <1>14, <2>1, <2>2, Zenon
      <3> QED
        BY <1>5, <3>1, <3>2
    <2>8. PICK h \in Counts(q) :
             /\ TempAt(u, None, h)'
             /\ \A i \in Shards : i \in At => inVectors'[i] = <<>> /\ ShardNow(i, u, h[i])'
      <3>1. At # {} /\ \A i \in At : \E e \in 0..q.size[i] : Holds(q, i, inVectors[i], curSeries[i], curStep[i], u, None[i], e)
        BY <1>6, <1>14, <2>2, <2>5, <2>6, Zenon
      <3> QED
        BY <1>1, <1>6, <2>3, <3>1, CoalesceMerges, Zenon
    <2>9. n' = WLen(u) /\ WLen(u) \in 0..StepsBatch
      BY <2>3, <2>8, StepOfWindow, Zenon DEF TempAt
    <2> QED
      BY <1>2, <1>3, <2>1, <2>5, <2>6, <2>7, <2>8, <2>9, Zenon DEF Aggregating
  <1> QED
    BY <1>12, <1>13, <1>14

(* coalesce reports a failure, or hands what its shards returned to the      *)
(* aggregate.                                                                *)
LEMMA CoalesceKeeps ==
  ASSUME IInv, Coalesce
  PROVE  IInv'
  <1>1. /\ pc = "pull" /\ Running /\ TypeOK /\ Shape /\ Failures /\ in \in Inputs /\ UNCHANGED load /\ UNCHANGED shardVars
        /\ UNCHANGED <<pending, failed, hasLast, tables, numTables, calls, out>>
    BY Zenon DEF Coalesce, IInv, TypeOK
  <1>2. in' = in /\ Query' = Query
    BY <1>1, SameShards DEF load
  <1>3. CASE failed
    <2>1. pc' = "failed" /\ UNCHANGED <<inVectors, temp, n>>
      BY <1>3 DEF Coalesce
    <2>2. TypeOK'
      BY <1>1, <2>1 DEF TypeOK, load, shardVars
    <2>3. Shape'
      BY <1>1, <1>2, <2>1 DEF Shape, load, shardVars
    <2>4. Failures'
      BY <1>1, <2>1 DEF Failures, load
    <2> QED
      BY <2>1, <2>2, <2>3, <2>4 DEF IInv
  <1>4. CASE ~failed
    <2>1. PICK c \in 0..calls : calls = c + 1 /\ OutAt(First(c)) /\ Pulling(First(c))
      BY <1>1 DEF Running
    <2>2. c \in Nat
      <3>1. PICK m \in Nat : m = calls
        BY <1>1, Zenon DEF TypeOK
      <3>2. \A x \in 0..m : x \in Nat
        OBVIOUS
      <3> QED
        BY <3>1, <3>2, Zenon
    <2>3. PICK v \in Nat : v = First(c) /\ v >= 1
      BY <2>2, FirstWindow
    <2>4. Aggregating(v)' /\ n' \in 0..StepsBatch /\ \A i \in Shards : inVectors'[i] \in {<<>>, inVectors[i]}
      BY <1>1, <1>4, <2>1, <2>3, CoalesceReturns
    <2>5. pc' = "agg" /\ DOMAIN inVectors' = Shards
      BY <1>1, <1>4, CoalesceStep, Zenon DEF Shape
    <2>6. \A i \in Shards : Len(inVectors'[i]) \in 0..StepsBatch
      <3>1. Len(<<>>) = 0 /\ 0 \in 0..StepsBatch
        BY StepsAssumption
      <3> QED
        BY <1>1, <2>4, <3>1 DEF TypeOK
    <2>7. TypeOK'
      BY <1>1, <2>4, <2>5, <2>6, Zenon DEF TypeOK, load, shardVars
    <2>8. Shape'
      BY <1>1, <1>2, <2>5, Zenon DEF Shape, load, shardVars
    <2>9. Failures'
      BY <1>1, <1>4, <2>5 DEF Failures, load
    <2>10. OutAt(v)' /\ First(c)' = v
      BY <1>1, <2>1, <2>3 DEF OutAt
    <2>11. Sharded' /\ (offsets = [j \in Shards |-> Before(j)])' /\ Exhausted' /\ loaded' = Shards
      BY <1>1, SameShards, SameExhausted, Zenon DEF Running, load
    <2>12. Running'
      BY <1>1, <2>1, <2>4, <2>5, <2>10, <2>11, Zenon DEF Running
    <2> QED
      BY <2>5, <2>7, <2>8, <2>9, <2>12 DEF IInv
  <1> QED
    BY <1>3, <1>4

=============================================================================
