# A TLA+ model of the PromQL engine

The engine evaluates a PromQL query as a tree of *vector operators*. An operator
has two calls: `Series` returns the label sets of its output, `Next` fills a
buffer with *step vectors* (the samples of one timestamp) and returns how many;
0 means that there is no more data. Data is pulled from the root. Concurrency
comes from operators that read their children on goroutines of their own.

This directory holds TLA+ modules for the parts of the engine where order,
interleaving, reuse of memory and boundaries make the code hard to test, TLC
configurations that check them on small instances, and TLAPS proofs of the most
important facts for every instance. `PROJECT.json` maps each definition to the
source lines it stands for and lists components, hazards, runs, mutants,
findings and theorems.

## The system

| Part | State | Hard behaviour |
|---|---|---|
| `engine` | slot in the active query tracker, context, result | timeout, `Cancel`, panics and failures against the loop of `Exec` |
| `execution/exchange/concurrent.go` | two channels, a pool of buffers, three goroutines | ownership of buffers, shutdown, errors in the data channel |
| `execution/exchange/coalesce.go` | held windows, sample offsets | children that run out of step, errors of one child |
| `execution/exchange/duplicate_label.go` | output IDs, occupancy masks | overlapping windows of different batches |
| `execution/exchange/dedup.go` | output index, a cache that is never cleared | entries of earlier steps |
| `storage/prometheus` | shared selector, shards, scanners, sample tracker | errors behind a `sync.Once`, release of series, batching |
| `ringbuffer` | windows of range functions, four representations | reuse of slots, incremental results, boundaries |
| `execution/aggregate` | tables of a window, a batch read too far | aliased buffers, windows split over batches |
| `execution/remote` | a remote query executed once | when it is closed |
| `execution/binary` | join tables with timestamps | stale entries, cardinality errors |
| `execution/scan/subquery.go` | ring buffers, inner vectors read too far | aliased buffers, overlapping windows |
| `execution/step_invariant` | a cached vector | error reported once |
| `logicalplan` | plan trees | rewrites that must keep the meaning, start times and coverage of remote queries |
| `execution/execution.go` | none | the options and hints each level of a plan is built with |
| `compute`, `execution/function` | accumulators, scalar arguments | inputs of two kinds, arguments paired by position |
| `query`, `api`, `warnings`, `telemetry` | options, endpoints, accounting | sample limit |

A query composes them as follows: `Exec` pulls from the root; aggregations and
functions pull from `coalesce`; `coalesce` pulls in parallel from concurrency
operators; each of these runs ahead of its consumer over one shard of a
selector or over one remote query. Results of several remote engines pass
`coalesce` and the dedup operator. The planner puts a duplicate label check
over operators that can make label sets equal.

Before that a parsed expression is turned into a plan, rewritten by a list of
optimizers and finished. On a distributed engine two of the optimizers replace
parts of the plan by queries to remote engines, each of which holds some series
over some time.

The modules form two groups. The first takes single operators apart, with their
goroutines, channels, buffers and aliased memory. The second takes whole
queries, from the expression to the vectors Exec reads, with the operators as
sequential machines.

## Modules for single operators

**OperatorStream** is the abstract contract: batches arrive in order and
complete, the end and a failure are reported after the batches before them.
Once the context is done, batches may be skipped and the end may come early.

**Concurrent** models the concurrency operator at the grain of its channel
operations, with the caller, `pull` and `drainBufferOnCancel` as processes. The
inner slices of step vectors have identities, because `Next` swaps them between
the pool and the caller. `Stream == INSTANCE OperatorStream` states the
refinement. The model lets any receiver take a message; Go serves waiting
receivers in order, so the model allows more behaviours, and the counterexample
below is one that Go allows as well. **ConcurrentProofs** holds its theorems.

**DuplicateLabelCheck** models `init` turn by turn and `Next` sample by sample.
A mask is the set of its bits. **DuplicateLabelCheckProofs** holds its theorems.

**RingBuffers** has the operations of the four buffers as operators: generic
(slots that point to histograms on a heap, so that the reuse of dropped slots
is visible), extended, over-time (one accumulator per overlapping step) and
rate (first, last and reset samples). An accumulator is the sequence of its
inputs. The arithmetic of `extrapolatedRate` is left out, its guards and its
detection of resets are kept. **MatrixSelector** moves a buffer over the
windows of a query for one series: prefetched sample, drained iterator,
release, sample tracker, and the errors of reading and of evaluating a window.
The storage is chosen sample by sample while it is read. **MCMatrixSelector** defines the queries.

**AggregatePipeline** composes the shared filtered selector, the vector
selectors of its shards, `coalesce` and the hash aggregate. A step vector is
the set of its samples with the number of samples appended, so that a sample
that is appended twice shows. The concurrency operators in between are left
out, as Concurrent shows that they keep the stream. `MemoizedSeriesIterator` is
external: `selectPoint` is defined by the sample that seek and peek find.
**MCAggregatePipeline** defines the series. The proofs are in three modules:
**AggregatePipelineLemmas** has the facts about loops, sequences, shards, sums
and windows, the inductive invariant and the steps of loading,
**AggregatePipelineSteps** the steps of the selectors and of coalesce, and
**AggregatePipelineProofs** those of the aggregate and the theorems.

**Dedup** models the dedup operator over an arbitrary child, whose steps begin
at `MinTime`, which may be before the epoch; **DedupProofs** holds its theorems.

**QueryExec** models the queries of an engine: `Make*Query`, `Exec`, `Cancel`,
`Close`, the timeout and a remote query read through a concurrency operator,
which appears as its contract. `Series` waits for the answer of the remote query
and may hang, as may a read of it. The query tracker is external. A panic other
than a runtime error is recovered without an error (`recoverEngine`); its
result is called "empty" and kept apart from success. **EngineProofs** holds its
theorems.

**BinaryJoin** models the binary operators: the join tables built from the
series of both sides, the buckets that carry values and timestamps from step to
step, and the two children read at the same time. Values are symbolic, so that
the order of operands shows. The left child runs on a goroutine that reports
through a channel of one error (`errChan`, new for `init` and for every call of
`Next`) and turns a panic into an error; a panic of the right child unwinds
`Next`, and an error of the right side ends `init`, with the goroutine still
running. `delivered` keeps all that the children have put into their buffers, so
that what `Next` joins can be compared with it. The step at position n has the
time `FirstStep + n - 1`; `FirstStep` may be negative. The loops over the samples
of a step are stated on sets: no result depends on the order of samples in a step
vector. Both children deliver the same steps because they have the same options. **MCBinaryJoin**
defines the expressions, **BinaryJoinProofs** holds the theorems.

## Modules for whole queries

**StepTimes** is the arithmetic of steps: the number of steps, the options of a
subquery, and the start of a remote query. Division rounds towards zero, as in
Go. **EngineProofs** holds its theorems, beside those of QueryExec.

**Plan** has the nodes of a plan as records, what the code asks of them
(children, constants, types), and matchers. A pattern is a list of
alternatives; label values are strings that are never taken apart.

**PromQL** is the reference: `Eval(n, t, samples, env)` is the value of an
expression at one time over a set of samples, by recursion on the expression
and without batches, steps or state. It evaluates parsed expressions and plans
alike, so that a plan can be compared with the expression it was made from. A
value is a number in twelfths, so that small averages and quantiles are exact,
or a native histogram; its sum and count are packed into one number.

**Optimizers** has creation (`NewFromAST`) and finishing of a plan and the
optimizers that sort and merge matchers, propagate them over a binary operation,
detect histogram statistics, project labels away and set batch sizes.
**Distribute** has `MinMaxTime`, the passthrough and the distributed execution
optimizer: classification of every node, time ranges of the engines, rewritten
aggregations, `avg` and `absent`. **Planner** runs them in the order of a query,
one action for each.

**Accumulators** are those of `compute`; **Operators** are the operators of a
plan. An operator is a record with its state, and `NextOf(op, cap)` is one call
of `Next`: the operator after the call, the vectors it returned and whether it
failed. Calls of children are nested in it, so that everything an operator
carries from one call to the next is in the record: the clock of a selector and
the series it has come to, the ring buffers and read-ahead vectors of a
subquery, the cached vector of a step invariant expression, the batch an
aggregation has read too far, the vectors coalesce holds, join tables.
`newOperator` builds the tree as `execution.go` does, with nested options and
hints. **Execution** plans, builds and reads a query; **MCExecution** defines
the expressions, samples and engines.

Where an operator has a module of its own, Operators keeps what it returns and
leaves its memory to that module. `NextDedup` merges the samples of one step
without the cache of Dedup: the queries have no histograms under a merge and no
steps before the epoch, where the cache shows. `execBinaryArit` matches the two
vectors of a step directly, without the buckets, histograms and swapped operands
of BinaryJoin. AggregatePipeline in turn has a constant parameter; parameters
that are operators, and that fail, are in Operators.

In these modules the arms of a `CASE` are tried in the order they are written,
as TLC does and as the code's `if` and `switch` statements do.

Definitions marked *Mutant* change the definition that follows them in the way
a plausible mistake would; each is paired in `PROJECT.json` with the property
that has to notice it. No specification uses them.

## Runs

| Run | Checks | Instance |
|---|---|---|
| `concurrent` | ownership of buffers, no blocked return, stable caller batches, refinement of OperatorStream, exit of the goroutines, return of `Next` | channel of 2, 5 batches: the pool of 3 is used again |
| `concurrent_eof` | the contract "0 indicates no more data" under cancellation; **violated** | channel of 2, 2 batches |
| `duplicate_labels` | no duplicate passes, no false alarm, remapped IDs keep their labels | 3 series over 2 label sets, masks of 2 bits, times 0 to 4 with step 2 |
| `range_windows` | incremental windows equal a fresh scan, release loses nothing, the tracker holds the samples of the window | overlapping, touching and separate windows, an offset, an instant query; times to 5 |
| `rate_mixed` | a mixed range has no rate; **violated** | as `range_windows` |
| `aggregate_pipeline` | output equals a direct evaluation, errors surface, the query ends | 2 shards, up to 4 series, 5 steps in batches of 2, series batches 0 to 2 |
| `dedup` | one output series per label set, one sample per step, the last float wins | 3 series over 2 label sets, 2 steps |
| `dedup_stale` | entries of previous iterations are skipped; **violated** | as `dedup` |
| `query_exec` | uninterrupted success is complete, within the limit and closes the remote query; `Exec` returns | 2 queries, 1 slot, up to 2 batches, limit 1 |
| `binary_join` | a step joins what both children have delivered for it (`StepsAsDelivered`), under the right labels, ambiguous matches and only those are refused | set operators, all cardinalities, scalars; up to 2 series a side, 3 steps in batches of 2 |
| `binary_sides` | a join is between two step vectors, each with its side; **violated** with `group_right` | one histogram series a side |
| `plan_and_execute` | every rewrite keeps the meaning of the query (`MeaningPreserved`), remote queries start where their engine is complete (`RemoteScope`), no selector reads outside the range engines are looked up for (`ReadsWithinMinMaxTime`), every returned vector is the value of the expression at its step (`StepsMatch`), steps come once, in order and completely (`EveryStepOnce`), queries fail when and only when they must (`OutcomeJustified`), operators that pair batches by position are at the same step (`Lockstep`) | 2913 queries |

Further configurations hold one query, or a few, that the passing runs leave out,
and one property of these runs (`OfTwoStepVectors` of `binary_sides` for joins)
that TLC refutes on it. *Findings* says what they show.

| Configuration | Property | Instance |
|---|---|---|
| `BinaryJoin_stale.cfg` | `OfTwoStepVectors` | a low card series of floats and histograms |
| `BinaryJoin_blocks.cfg` | `OfTwoStepVectors` | a match on the metric name with `group_left` |
| `BinaryJoin_epoch.cfg` | `RefusedIffAmbiguous` | steps from time -2 |
| `Dedup_epoch.cfg` | `OneSamplePerSeries` | one step at time -1 |
| `Execution_late.cfg` | `RemoteScope` | an engine that is complete after the end of the query |
| `Execution_uneven.cfg` | `RemoteScope` | a query that ends two after its last step |
| `Execution_offset.cfg` | `RemoteScope` | `m offset 2` over a split region |
| `Execution_young.cfg` | `MeaningPreserved` | two regions, one with less data |
| `Execution_outdated.cfg` | `StepsMatch` | `m < 5` over a split region |
| `Execution_scalar.cfg` | `StepsMatch` | `sum(m * 2)` in batches of one series |
| `Execution_countvalues.cfg` | `StepsMatch` | `count_values("a", m)` in batches of one series |

*Bounds.* The mask of 2 bits stands for 64: batches that start in, at the end
of and behind the window of the previous one all occur at times 0 to 4. Five
steps in batches of two give a full, a second and a cut window; a lookback of 3
keeps a sample alive across windows. In `range_windows` the initial capacity of
a buffer is 2, so it grows as well as wraps. In `query_exec` the second query
is a string literal; the queries only share the tracker, and a limit below the
number of batches lets both outcomes occur. In `binary_join` three steps let a
bucket be written, left alone and matched again; shapes (which series match)
and kinds (what a pair yields) are explored by different expressions.

The queries of `plan_and_execute` are: every kind of node with offsets, `@` and
nested subqueries, on a range of three steps and as an instant query, with the
default optimizers; selectors and joins under propagation, merging and
projection in two orders; expressions whose parameters, histograms and scalar
arguments change from step to step, over seven steps in batches of one, two and
three steps; aggregations that read their selectors in batches of one and two
series; every operator over a storage that fails at the first, second or third
read; and some fifty expressions over one engine, engines of two regions, and a
region split between an older and a newer engine at six points, with a failing
engine as well. Over the engines the range has steps of two, ends on a step or
between two steps, or has steps of three; the pushdown of binary operations is on
or off. `RemoteScope` compares the first sample of an engine with `EarliestRead`,
the oldest time at which the remote expression reads, computed from the
expression and not by the planner's own offset. The engines that the code asks
too early are in configurations of their own. Four label names
with a few values each and samples at times 0 to 8 give gaps, staleness, series
that appear and vanish, boundaries of windows with and without a sample on them,
and joins that fail. There is one behaviour for each query, so larger instances
mean more queries, not longer ones.

Deadlock is not checked where a caller may stop: `concurrent`, `concurrent_eof`,
`duplicate_labels` and `query_exec`.

*Fairness.* In Concurrent the goroutines and a call in progress are weakly fair
(the Go scheduler runs what can run); the caller need not call again. In
AggregatePipeline the query as a whole is weakly fair. In QueryExec the next step
of `Exec` is weakly fair and so is its timeout, and the tracker hands out slots
fairly. A step of `Exec` is possible only when its source has something for it:
before the context is done nothing is assumed of a storage, which may hang in
`Series` or in `Next`, and no panic is bound to happen. When the context is done
the storage lets go, with an answer, an error or the end of `pull`. A query that
has been made is executed.

## Findings

* `concurrent_eof`: after a cancellation `Next` can return `(0, nil)` although
  the child has not ended, because the drain takes the error message. `Exec`
  treats this as success.
* `rate_mixed`: the samples that `RateBuffer` keeps can hide a histogram
  between floats, so that a mixed range has a rate.
* `dedup_stale`: a float does not clear the histogram of its cache entry; a
  series that changes from histograms to floats keeps emitting the histogram.
* `binary_sides`: `computeBinaryPairing` swaps floats for `group_right` but not
  histograms, so that `a - group_right b` over histograms is `b - a`.

The further configurations show these:

* *Stale buckets.* As in the dedup cache, a float does not clear the histogram of
  its bucket (`vector.go:360`), and a later step is joined with a histogram of an
  earlier one. `StepsAreJoined` leaves out the steps where this shows (`Tainted`)
  and those where `binary_sides` applies (`Swapped`).
* *Blocks of output series.* `vector.go:596` says "append consecutively so ranks
  land at base, base+1, ...". A label set that was seen keeps its index, so when
  series of different signatures share result labels, base + rank can name a
  series of other labels.
* *The epoch.* Fresh cache entries and buckets are marked by the timestamp -1
  (`dedup.go:150`, `vector.go:522`), a valid step. At that step dedup emits
  samples that no child has, and a join is refused without a collision.
* *Late and uneven engines.* `distribute.go:538` says "A remote engine needs to
  have sufficient scope to do a look-back". An engine whose first complete step
  lies less than a step past the end of the query is asked for the last step: the
  number of remaining steps is negative and rounds to none (`distribute.go:572`).
  When a query ends between two steps, an engine can be asked one step too early.
* *Offsets.* The scope an engine needs is taken from the offset of the last
  selector or the lookback, whichever is larger, instead of their sum
  (`distribute.go:610`).
* *Oldest engine.* `distribute.go:533` says "Do not adjust start time for oldest
  engine since there is no engine to backfill from", but only the engine that is
  oldest of all is meant: that of another partition loses its first steps.
* *Outdated answers.* `execution.go:378` says that sorting by MaxT "ensures that
  samples produced due to staleness will be overwritten". They are only if the
  newer engine returns a sample of the same series; a comparison may drop it.
* *Batches of series.* `set_batch_size.go:85` says that scalar operators "are safe
  with batching". A selector with more series than a batch returns a step once
  for each batch while the scalar is returned once: in `sum(m * 2)` series are
  lost. `count_values` takes every batch for a step of its own.

Some deviations have no configuration; the queries of `plan_and_execute` are
chosen so that they do not show.

* *Repeated matchers.* Merging and propagation keep one matcher for a label.
* *Projection.* A projection can remove what made a join fail with duplicate
  labels; `MeaningPreserved` and `OutcomeJustified` allow it. `or on (a)`
  projects labels of the right side away that the result shows.
* *timestamp.* `timestamp(timestamp(m))` is right only because of the duplicate
  label check around the inner one.
* *Smaller ones.* A querier opened by a construction that fails is not closed
  (`engine.go:405`), and Close may run while goroutines of an interrupted query
  are inside a call of the storage (`engine.go:756`). `distributeAbsent` takes
  the first remote query although there may be none. A subquery adds samples to
  the tracker and never removes them. After an error the step invariant operator
  would replay an empty vector, but no parent calls it again. The distributed
  engine truncates an interval below a second to 0, an instant query.

## Proofs

Each theorem holds for every value of the constants that satisfies the named
assumptions of its module; TLC evaluates these on every run.

*ConcurrentProofs* proves for every capacity and number of batches that the
types hold, that a buffer is in exactly one place, that returning a buffer
never blocks and that the caller's batch is stable. It assumes a positive
capacity and a natural number of batches. The partition of the buffers is not
inductive: the invariant `IInv` adds which program counters hold a buffer
(`Hands`) and that the slices of distinct places are distinct
(`SlicesDisjoint`). Room in `returnChan` then follows by counting: its elements
are distinct buffers, and there are fewer of them than slots. `Refinement` shows
that the operator implements the safety part of OperatorStream: every step is a
step of the contract or leaves the stream as it is. For this the invariant also
says which batches are in the channel, one after the other.

*DuplicateLabelCheckProofs* proves for every list of series, step, mask width
and order of batches that no two samples with equal labels and time pass, that
an alarm is raised for a real duplicate only, and that output IDs keep labels
and are unique. The invariant relates each mask to the samples passed: a sample
at or behind the origin has its bit set, and a set bit has a sample. It assumes
a positive step and width.

*EngineProofs* proves of StepTimes, for every start, end, step, offset and
engine, where a remote query starts. A quotient by a positive step is unique; so
a time that is a whole number of steps away stays put (`AlignedStaysPut`), and
`AlignedStart` says where any other time moves, by the remainder the query leaves
after its last step. `RemoteStartCovers` follows by the cases of
`getStartTimeForEngine`: the start is a step and not a step later than needed,
and the engine holds the samples of that step exactly if it is neither late
(`LateEngine`) nor uneven with the end (`UnevenEngine`). `LateEngineIsAsked` shows
that late engines are asked. What a step needs is here the code's own time, the
step less the offset of `calculateStartOffset`; `RemoteScope` uses the samples the
expression reads. `SubqueryWindowsEvaluated` proves, for negative times too, that
the nested evaluation of a subquery without `@` has every inner step of every
window.

*DedupProofs* proves for every list of series that `loadSeries` makes one output
series for each label set, and for all samples that a step has one sample for
each series (`OneSampleEach`) and that the last float of a series wins
(`LastWins`). The invariant of `loadSeries` adds that output indices exist; that
of `Next` adds what the cache holds of the current step, and that no entry is
of a later one. The last two theorems assume that no step is before the epoch,
since a fresh entry has the time -1; `Dedup_epoch.cfg` shows that they need it.

*EngineProofs* proves of QueryExec, for every number of queries, slots, batches
and samples, that a query that succeeds without an interruption is complete and
has closed its remote query, that results are within the limit and that no more
queries run than the tracker has slots (`ConcurrencyLimited`). The first three
only speak of queries that have returned; `QInv` adds what holds while one runs:
the tracker counts the rows, "finish" is reached at the end of the source or
with the context done, and Exec has not ended its context.

*BinaryJoinProofs* proves for every list of queries, and all samples, that each
step joins what both children have delivered for it (`JoinsWhatIsDelivered`),
that a step is refused exactly when its own matches are ambiguous
(`RefusalIsExact`), and that the values of a returned step are those of its own
samples (`ValuesJoined`). The last two assume that no step is before the epoch,
as `BinaryJoin_epoch.cfg` shows they must. The first rests on the calls: a child that has
returned in this call has filled its buffer with the steps that follow those
joined before, and the receive from the channel of the goroutine tells that it
has returned (`Calls`, `Deliveries`). The invariant of the others has three parts:
`Types`, `Control` (both children are at the same step whenever they are joined)
and `Data` (no bucket is of a later step, and a
histogram in a bucket is one that was given). The last part is what makes stale
entries harmless: a bucket counts only if its timestamp is that of the step, and
one step is one pass over the samples of the low side (`Filled`) and one over
those of the high side. `QueriesAssumption` says that a query has one of the
four cardinalities and that samples are floats or histograms. `ValuesAreJoined`
is `StepsAreJoined` without the labels of the result: the rank of a series among
those of its bucket, which is its output index, is a count over an order of the
series that needs induction, so labels are left to TLC.

*AggregatePipelineProofs*, with the two modules it extends, proves for all
numbers of shards (at least two) and steps, all batch sizes, lookbacks and
offsets, all series and samples and every interleaving of the goroutines that
the output is that of a direct evaluation (`OutputCorrect`) and that a failure
is never turned into a result (`FailuresSurface`). The output is not inductive:
it says nothing of the samples on their way. The invariant `IInv` says where
they are. For the window that starts at step v there are counts g and h, one
number for each shard: the first g series of every shard are in the tables,
those between g and h are in the buffer, and a shard has returned its first h
series, or some more that coalesce holds (`ShardAt`). Some facts carry the
argument:

* the shards are intervals that cover the selected series, and the offsets of
  coalesce make the IDs of the shards adjacent (`ShardBounds`,
  `AppendedSeries`), so IDs between two counts are disjoint from those below
  and the numbers of samples add up (`BetweenExtends`, `SumOfParts`);
* the windows at hand start at v or at the next window, and the next window is
  only merged when every shard has returned all of this one, so one timestamp
  tells the aggregate when its tables are complete (`HeldWindow`, `BufferIs`);
* a shard without series returns every window once. What has been read of it
  cannot be told from the counts, so the invariant distinguishes a shard at
  which nothing of a window has been taken (`New`) from one that has given none;
* an iterator that has ended has no sample at any later step, so that skipping
  it loses nothing (`PointIsLastSample`, `Exhausted`).

TLC has checked the invariant on the states of `aggregate_pipeline`.
`LoopExists` and `LoopInvariant` replace induction over the recursive functions
of the model: a least counterexample to a property of the turns of a loop cannot
exist.

Only TLC checks liveness (`ENABLED` and fairness are beyond the prover), the
labels of `StepsAreJoined`, and RingBuffers and MatrixSelector, whose windows
are computed by folds over the samples. The modules for whole queries declare
recursive operators, as plans and operator trees are recursive, and facts about
these need induction over data.

## Not modelled

* Encoding of plans, telemetry, explain output, sorting of results, warnings,
  and label hashing, which is taken to be free of collisions: no control flow
  depends on them, or they have no state.
* Floating point: Kahan sums, variance, the arithmetic of histograms, and the
  many functions that map a number to a number.
* Of the operators of whole queries: `limitk`, `label_join`,
  `histogram_fraction`, `stddev`, `bool`, functions of two parameters over a
  range, sample limits, shards and concurrency operators (in the modules for
  single operators), and the final check of label sets in Exec, whose root has
  a duplicate label check. topk may keep any of several equal samples; no query
  of the run has such a tie.
* The option of distributed execution to skip deduplication, and the truncation
  of times to seconds by the distributed engine.
* The sample tracker of the vector selector and of subqueries, and the reuse of
  iterators in instant queries.
* User-defined nodes, fingerprints, the test storage and scripts.
