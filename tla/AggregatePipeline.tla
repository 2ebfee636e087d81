-------------------------- MODULE AggregatePipeline --------------------------
(***************************************************************************)
(* An aggregation over a sharded vector selector: the series of a shared   *)
(* selector are split over shards (storage/prometheus), each shard returns *)
(* windows of steps for a few series at a time, coalesce merges the shards *)
(* (execution/exchange/coalesce.go) and the hash aggregate merges all      *)
(* windows with the same timestamps (execution/aggregate).                 *)
(*                                                                         *)
(* A window is a sequence of step vectors [t, ids, num]: ids are pairs of  *)
(* a sample ID and the timestamp of the sample, num is how many samples    *)
(* were appended; a sample that is appended twice counts twice. The        *)
(* concurrency operators between shards and coalesce deliver the batches   *)
(* of their shard in order, as shown of module Concurrent, and are left    *)
(* out.                                                                    *)
(***************************************************************************)
EXTENDS Integers, Sequences, FiniteSetsExt

CONSTANTS
  NumShards,  \* DecodingConcurrency
  StepsBatch, \* steps in a batch
  NumSteps,   \* steps of the query: 1, 2, ..., NumSteps
  Lookback,   \* lookback delta
  Offset,     \* offset of the selector
  Inputs      \* [live, stale, group, match, batch]: the series of the storage
              \* and the series in a batch of a shard, 0 for all of them

ASSUME ShardsAssumption == NumShards \in Nat \ {0, 1}
ASSUME StepsAssumption == StepsBatch \in Nat \ {0} /\ NumSteps \in Nat
ASSUME PointsAssumption == Lookback \in Nat \ {0} /\ Offset \in Int
ASSUME InputsAssumption ==
  \A x \in Inputs :
    /\ x.group \in Seq(Range(x.group)) /\ x.match \subseteq DOMAIN x.group /\ x.batch \in Nat
    /\ \A s \in x.match : x.live[s] \cup x.stale[s] \subseteq Int

Shards == 1..NumShards

VARIABLES
  in,         \* the input of the query
  selector,   \* series of the shared selector: "new", "ok" or "failed"
  shard,      \* the series of each shard; empty before it is loaded
  loaded,     \* the shards whose Series has returned
  curSeries,  \* currentSeries of each shard: series before it are done
  curStep,    \* currentStep of each shard
  exhausted,  \* the series whose iterators have ended
  offsets,    \* sampleOffsets of coalesce
  pending,    \* the shards the goroutines of coalesce are reading
  inVectors,  \* window held for each shard; empty when there is none
  failed,     \* a goroutine of coalesce has reported an error
  temp, n,    \* tempBuf of the aggregate that coalesce fills, and how much of it
  hasLast,    \* lastBatch is set: it shares the slices of temp
  tables,     \* the aggregation tables: [t, param, groups, num]
  numTables,  \* how many of them are populated
  calls,      \* calls of the parameter operator
  out,        \* the steps the aggregate has returned
  pc          \* "series", "idle", "pull", "agg", "emit", "done" or "failed"

load == <<in, selector, shard, loaded, offsets>>
shardVars == <<curSeries, curStep, exhausted>>
aggVars == <<temp, n, hasLast, tables, numTables, calls, out>>
vars == <<load, shardVars, pending, inVectors, failed, aggVars, pc>>

NoTs == 0
EmptyTable(p) == [t |-> NoTs, param |-> p, groups |-> {}, num |-> 0]

Init ==
  /\ in \in Inputs
  /\ selector = "new" /\ shard = [i \in Shards |-> <<>>] /\ loaded = {} /\ offsets = <<>>
  /\ curSeries = [i \in Shards |-> 0] /\ curStep = [i \in Shards |-> 1] /\ exhausted = {}
  /\ pending = {} /\ inVectors = [i \in Shards |-> <<>>] /\ failed = FALSE
  /\ temp = <<>> /\ n = 0 /\ hasLast = FALSE /\ calls = 0 /\ out = <<>>
  /\ tables = [k \in 1..StepsBatch |-> EmptyTable(0)] /\ numTables = 0
  /\ pc = "series"

-----------------------------------------------------------------------------
(* The series of a filtered selector, and the part of them of one shard. *)

filtered[s \in 0..Len(in.group)] ==
  IF s = 0 THEN <<>> ELSE IF s \in in.match THEN Append(filtered[s - 1], s) ELSE filtered[s - 1]
Filtered == filtered[Len(in.group)]

seriesShard(series, i) ==
  SubSeq(series, ((i - 1) * Len(series)) \div NumShards + 1, (i * Len(series)) \div NumShards)

(* GetSeries of the selector all shards share: the first call loads the    *)
(* series; its error is reported to that call only, later calls succeed    *)
(* and find no series.                                                     *)
LoadShard(i) ==
  /\ pc = "series" /\ i \notin loaded
  /\ loaded' = loaded \cup {i}
  /\ shard' = [shard EXCEPT ![i] = IF selector = "failed" THEN <<>> ELSE seriesShard(Filtered, i)]
  /\ selector' = IF selector = "new" THEN "ok" ELSE selector
  /\ UNCHANGED <<in, offsets, shardVars, pending, inVectors, failed, aggVars, pc>>

(* Mutant: the error of a failed load is dropped. *)
ReportedLost == FALSE
Reported == TRUE

LoadFails(i) ==
  /\ pc = "series" /\ selector = "new"
  /\ selector' = "failed" /\ loaded' = loaded \cup {i} /\ failed' = Reported
  /\ UNCHANGED <<in, shard, offsets, shardVars, pending, inVectors, aggVars, pc>>

(* The series of coalesce after those of its first i shards. *)
appended[i \in 0..NumShards] == IF i = 0 THEN <<>> ELSE appended[i - 1] \o shard[i]

(* loadSeries of coalesce after its goroutines, and initializeTables. *)
SeriesLoaded ==
  /\ pc = "series" /\ loaded = Shards
  /\ IF failed THEN pc' = "failed" /\ UNCHANGED offsets
     ELSE /\ offsets' = [i \in Shards |-> Len(appended[i - 1])]
          /\ pc' = "idle"
  /\ UNCHANGED <<in, selector, shard, loaded, shardVars, pending, inVectors, failed, aggVars>>

(* The series of coalesce by sample ID. *)
AllSeries == appended[NumShards]
GroupOf(id) == in.group[AllSeries[id]]

-----------------------------------------------------------------------------
(* The vector selector. *)

(* selectPoint: the sample at ts - Offset or the last one before it, and   *)
(* whether the iterator has ended.                                         *)
selectPoint(s, ts) ==
  LET ref  == ts - Offset
      all  == in.live[s] \cup in.stale[s]
      none == \A t \in all : t < ref
      prev == {t \in all : t < ref}
      t    == IF ref \in all THEN ref ELSE IF prev = {} THEN ref - Lookback ELSE Max(prev)
  IN  [ok |-> ref - Lookback < t /\ t \in in.live[s], t |-> t, end |-> none /\ t <= ref - Lookback]

(* Mutant: a series is taken as ended as soon as its last sample is read. *)
EndsAtLastSample(s, w) == \E ts \in w : \A t \in in.live[s] \cup in.stale[s] : t < ts - Offset
Ends(s, w) == \E ts \in w : selectPoint(s, ts).end

(* Mutant: the last window is not cut at the end of the query. *)
BatchLenUncut(i) == StepsBatch
BatchLen(i) == Min({StepsBatch, NumSteps - curStep[i] + 1})

(* The batch of shard i: its steps and its series. *)
BatchSteps(i) == curStep[i]..(curStep[i] + BatchLen(i) - 1)
seriesBatchSize(i) ==
  IF in.batch = 0 \/ Len(shard[i]) < in.batch THEN Len(shard[i]) ELSE in.batch
nextSeries(i) == Min({curSeries[i] + seriesBatchSize(i), Len(shard[i])})
BatchSeries(i) == (curSeries[i] + 1)..nextSeries(i)

(* The series of the batch with a sample at ts: an ended one is not read. *)
Sampled(i, ts) ==
  {k \in BatchSeries(i) : LET s == shard[i][k]
                          IN  /\ s \notin exhausted /\ ~Ends(s, curStep[i]..(ts - 1))
                              /\ selectPoint(s, ts).ok}
StepVector(i, ts) ==
  LET ids == {<<offsets[i] + k, selectPoint(shard[i][k], ts).t>> : k \in Sampled(i, ts)}
  IN  [t |-> ts, ids |-> ids, num |-> Cardinality(ids)]

(* Mutant: a shard without series stays at its first window. *)
AllReadIfAny(i) == nextSeries(i) = Len(shard[i]) /\ Len(shard[i]) > 0
AllRead(i) == nextSeries(i) = Len(shard[i])

(* Next of the vector selector of a shard, called by a goroutine of        *)
(* coalesce, which turns the IDs of the shard into its own.                *)
ShardNext(i) ==
  /\ pc = "pull" /\ i \in pending /\ curStep[i] <= NumSteps
  /\ inVectors' = [inVectors EXCEPT ![i] = [k \in 1..BatchLen(i) |-> StepVector(i, curStep[i] + k - 1)]]
  /\ exhausted' = exhausted \cup {shard[i][k] : k \in {j \in BatchSeries(i) : Ends(shard[i][j], BatchSteps(i))}}
  /\ curSeries' = [curSeries EXCEPT ![i] = IF AllRead(i) THEN 0 ELSE nextSeries(i)]
  /\ curStep' = [curStep EXCEPT ![i] = IF AllRead(i) THEN @ + BatchLen(i) ELSE @]
  /\ pending' = pending \ {i}
  /\ UNCHANGED <<load, failed, aggVars, pc>>

ShardEnds(i) ==
  /\ pc = "pull" /\ i \in pending /\ curStep[i] > NumSteps
  /\ pending' = pending \ {i}
  /\ UNCHANGED <<load, shardVars, inVectors, failed, aggVars, pc>>

(* An iterator error or a cancelled context. *)
ShardFails(i) ==
  /\ pc = "pull" /\ i \in pending
  /\ pending' = pending \ {i} /\ failed' = TRUE
  /\ UNCHANGED <<load, shardVars, inVectors, aggVars, pc>>

-----------------------------------------------------------------------------
MinTs(held) == Min({inVectors[i][1].t : i \in held})

(* The samples of step k of the windows of the shards at, one after the    *)
(* other.                                                                  *)
merged(at, k) ==
  LET has == {i \in at : k <= Len(inVectors[i])}
      num[i \in 0..NumShards] == IF i = 0 THEN 0 ELSE num[i - 1] + (IF i \in has THEN inVectors[i][k].num ELSE 0)
  IN  [t |-> inVectors[Min(at)][k].t, ids |-> UNION {inVectors[i][k].ids : i \in has}, num |-> num[NumShards]]

(* Next of coalesce after its goroutines: the windows at the smallest      *)
(* timestamp are merged into the buffer of the aggregate; what is longer   *)
(* than the first of them, and later windows, stay for the next call.      *)
Coalesce ==
  /\ pc = "pull" /\ pending = {}
  /\ LET held  == {i \in Shards : inVectors[i] # <<>>}
         at    == {i \in held : inVectors[i][1].t = MinTs(held)}
         first == Len(inVectors[Min(at)])
     IN  IF failed THEN pc' = "failed" /\ UNCHANGED <<inVectors, temp, n>>
         ELSE IF held = {} THEN n' = 0 /\ pc' = "agg" /\ UNCHANGED <<inVectors, temp>>
         ELSE /\ n' = first /\ pc' = "agg"
              /\ temp' = [k \in 1..first |-> merged(at, k)]
              /\ inVectors' = [i \in Shards |-> IF i \in at THEN SubSeq(inVectors[i], first + 1, Len(inVectors[i]))
                                                ELSE inVectors[i]]
  /\ UNCHANGED <<load, shardVars, pending, failed, hasLast, tables, numTables, calls, out>>

-----------------------------------------------------------------------------
(* The hash aggregate. *)

addSamples(table, v) ==
  [table EXCEPT !.t = v.t, !.num = @ + v.num,
                !.groups = @ \cup {<<GroupOf(x[1]), AllSeries[x[1]], x[2]>> : x \in v.ids}]
aggregate(ts) == [k \in DOMAIN ts |-> IF k <= n THEN addSamples(ts[k], temp[k]) ELSE ts[k]]

(* The parameter operator returns the next window of its own; after its    *)
(* end the old parameters stay.                                            *)
Params == [k \in 1..StepsBatch |->
             IF calls * StepsBatch + k <= NumSteps THEN calls * StepsBatch + k ELSE tables[k].param]

GoPull == pc' = "pull" /\ pending' = {i \in Shards : inVectors[i] = <<>>}

(* Next up to its loop: the tables are reset, and the batch that was read  *)
(* too far in the last call is aggregated before the buffer is used again. *)
AggBegin ==
  /\ pc = "idle"
  /\ calls' = calls + 1
  /\ LET reset == [k \in 1..StepsBatch |-> EmptyTable(Params[k])]
     IN  IF hasLast THEN tables' = aggregate(reset) /\ numTables' = n
         ELSE tables' = reset /\ numTables' = 0
  /\ hasLast' = FALSE
  /\ GoPull
  /\ UNCHANGED <<load, shardVars, inVectors, failed, temp, n, out>>

SameWindow == tables[1].t = NoTs \/ temp[1].t = tables[1].t

(* One turn of the loop of Next. *)
AggBatch ==
  /\ pc = "agg"
  /\ IF n > 0 /\ SameWindow
     THEN tables' = aggregate(tables) /\ numTables' = n /\ GoPull /\ UNCHANGED hasLast
     ELSE hasLast' = (n > 0) /\ pc' = "emit" /\ UNCHANGED <<tables, numTables, pending>>
  /\ UNCHANGED <<load, shardVars, inVectors, failed, temp, n, calls, out>>

AggEmit ==
  /\ pc = "emit"
  /\ out' = out \o SubSeq(tables, 1, numTables)
  /\ pc' = IF numTables = 0 THEN "done" ELSE "idle"
  /\ UNCHANGED <<load, shardVars, pending, inVectors, failed, temp, n, hasLast, tables, numTables, calls>>

Terminated == pc \in {"done", "failed"} /\ UNCHANGED vars

Next ==
  \/ \E i \in Shards : LoadShard(i) \/ LoadFails(i) \/ ShardNext(i) \/ ShardEnds(i) \/ ShardFails(i)
  \/ SeriesLoaded \/ Coalesce \/ AggBegin \/ AggBatch \/ AggEmit \/ Terminated

Spec == Init /\ [][Next]_vars
FairSpec == Spec /\ WF_vars(Next)

-----------------------------------------------------------------------------
(* What an aggregation over the whole input sees at step t: the last       *)
(* sample of each matching series in the lookback window, unless stale.    *)
LastSample(s, t) ==
  LET w == {u \in in.live[s] \cup in.stale[s] : t - Offset - Lookback < u /\ u <= t - Offset}
  IN  IF w = {} THEN {} ELSE {Max(w)} \cap in.live[s]
Reference(t) == UNION {{<<in.group[s], s, u>> : u \in LastSample(s, t)} : s \in in.match}

(* Types of the variables of the selectors, coalesce and the aggregate.    *)
TypeOK ==
  /\ in \in Inputs /\ selector \in {"new", "ok", "failed"} /\ loaded \subseteq Shards
  /\ \A i \in Shards : /\ Range(shard[i]) \subseteq in.match
                       /\ curSeries[i] \in 0..Len(shard[i]) /\ curStep[i] \in 1..(NumSteps + 1)
                       /\ Len(inVectors[i]) \in 0..StepsBatch
  /\ exhausted \subseteq in.match /\ pending \subseteq Shards /\ {failed, hasLast} \subseteq BOOLEAN
  /\ {n, numTables} \subseteq 0..StepsBatch /\ calls \in Nat
  /\ pc \in {"series", "idle", "pull", "agg", "emit", "done", "failed"}

(* Every step is returned once, in order, with every sample of every       *)
(* matching series exactly once and with its own parameter, however the    *)
(* series are sharded and batched (Next of vectorSelector, coalesce and    *)
(* aggregate together). A query that ends has returned every step.         *)
OutputIsReference ==
  /\ pc = "done" => Len(out) = NumSteps
  /\ \A k \in DOMAIN out : out[k] = [t |-> k, param |-> k, groups |-> Reference(k),
                                     num |-> Cardinality(Reference(k))]

(* A load or a read that has failed ends the query with an error, although *)
(* the once of the selector tells only one of the shards (GetSeries).      *)
ErrorsSurface == selector = "failed" \/ failed => pc \in {"series", "pull", "failed"}

(* The query ends: no window keeps being repeated (Next of the selector).  *)
Terminates == <>(pc \in {"done", "failed"})
=============================================================================
