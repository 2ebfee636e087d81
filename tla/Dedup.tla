-------------------------------- MODULE Dedup --------------------------------
(***************************************************************************)
(* The dedup operator over the merged results of several engines           *)
(* (execution/exchange/dedup.go). Input series with equal labels share an  *)
(* output series. A cache keeps the last sample of every output series; it *)
(* is not cleared between step vectors, the timestamp of an entry tells    *)
(* whether it belongs to the current one.                                  *)
(*                                                                         *)
(* The child is arbitrary: any labels, any samples at any increasing       *)
(* timestamps. A step vector of it is two sequences of pairs               *)
(* <<series, value>>, the floats and the histograms; one of the operator   *)
(* is two functions on output series, because its samples are appended in  *)
(* the order of their IDs. Hashes are taken to be collision free.          *)
(***************************************************************************)
EXTENDS Integers, Sequences, Functions, FiniteSetsExt

CONSTANTS
  Labels,    \* label sets
  MaxSeries, \* bound on the series of the child
  Values,    \* values of samples
  MinTime,   \* timestamps are at least MinTime, which may be before 1970
  MaxTime    \* and at most MaxTime

ASSUME BoundsAssumption == MaxSeries \in Nat /\ MinTime \in Int /\ MaxTime \in Int /\ MinTime <= MaxTime

NoTime == -1   \* the timestamp of a fresh entry, as in the code
BeforeFirst == MinTime - 1
NoHist == 0
ASSUME ValuesAssumption == Values \subseteq Nat \ {NoHist}

VARIABLES
  input,       \* labels of the series of the child
  pos,         \* how many of them loadSeries has looked at
  series,      \* labels of the output series
  outputIndex, \* the output series of each input series
  dedupCache,  \* [t, v, h] of each output series; h is NoHist for nil
  now,         \* timestamp of the last step vector
  given,       \* that step vector of the child: [floats, hists]
  emitted      \* and what the operator has made of it

vars == <<input, pos, series, outputIndex, dedupCache, now, given, emitted>>

NoVector == [floats |-> <<>>, hists |-> <<>>]

Init ==
  /\ input \in UNION {[1..m -> Labels] : m \in 0..MaxSeries}
  /\ pos = 0 /\ series = <<>> /\ outputIndex = <<>> /\ dedupCache = <<>>
  /\ now = BeforeFirst /\ given = NoVector /\ emitted = NoVector

-----------------------------------------------------------------------------
(* Mutant: an index is made for every series, known labels or not. *)
OutputOfAlways(l) == Len(series) + 1

(* Mutant: the ID of a new series is taken after it was appended. *)
OutputOfLate(l) == IF l \in Range(series) THEN CHOOSE o \in DOMAIN series : series[o] = l
                   ELSE Len(series) + 2

OutputOf(l) == IF l \in Range(series) THEN CHOOSE o \in DOMAIN series : series[o] = l
               ELSE Len(series) + 1

LoadSeries ==
  /\ pos < Len(input)
  /\ LET l == input[pos + 1]
     IN  /\ outputIndex' = Append(outputIndex, OutputOf(l))
         /\ series' = IF OutputOf(l) > Len(series) THEN Append(series, l) ELSE series
  /\ dedupCache' = [o \in DOMAIN series' |-> [t |-> NoTime, v |-> 0, h |-> NoHist]]
  /\ pos' = pos + 1
  /\ UNCHANGED <<input, now, given, emitted>>

-----------------------------------------------------------------------------
(* The value of output series o after a loop over samples: its last one. *)
LastOf(samples, o, old) ==
  LET js == {j \in DOMAIN samples : outputIndex[samples[j][1]] = o}
  IN  IF js = {} THEN old ELSE samples[Max(js)][2]
Hit(samples, o) == \E j \in DOMAIN samples : outputIndex[samples[j][1]] = o

(* Mutant: the entries keep the timestamp of their first sample. *)
CacheTimeKept(t, vec, o) ==
  IF (Hit(vec.floats, o) \/ Hit(vec.hists, o)) /\ dedupCache[o].t = NoTime THEN t ELSE dedupCache[o].t
CacheTime(t, vec, o) ==
  IF Hit(vec.floats, o) \/ Hit(vec.hists, o) THEN t ELSE dedupCache[o].t

(* Mutant: the first sample of a series stays. *)
CacheFloatFirst(vec, o) == IF dedupCache[o].t # NoTime THEN dedupCache[o].v ELSE LastOf(vec.floats, o, 0)
CacheFloat(vec, o) == LastOf(vec.floats, o, dedupCache[o].v)

Cached(t, vec) ==
  [o \in DOMAIN series |-> [t |-> CacheTime(t, vec, o), v |-> CacheFloat(vec, o),
                            h |-> LastOf(vec.hists, o, dedupCache[o].h)]]

(* The loop over the cache: one sample of each entry with timestamp t, a   *)
(* float unless the entry has a histogram.                                 *)
EmitFloats(cache, t) ==
  [o \in {p \in DOMAIN cache : cache[p].t = t /\ cache[p].h = NoHist} |-> cache[o].v]
EmitHists(cache, t) ==
  [o \in {p \in DOMAIN cache : cache[p].t = t /\ cache[p].h # NoHist} |-> cache[o].h]

(* The body of the loop of Next: one step vector. *)
NextVector(t, vec) ==
  /\ pos = Len(input) /\ t > now
  /\ now' = t /\ given' = vec
  /\ dedupCache' = Cached(t, vec)
  /\ emitted' = [floats |-> EmitFloats(dedupCache', t), hists |-> EmitHists(dedupCache', t)]
  /\ UNCHANGED <<input, pos, series, outputIndex>>

(* The child has no more data: Next returns 0. *)
ChildEnds == pos = Len(input) /\ UNCHANGED vars

(* A series has at most one sample in a step vector; they come in any order. *)
Orders(S) == {f \in [1..Cardinality(S) -> S] : IsInjective(f)}
Pairs(f, w) == [j \in DOMAIN f |-> <<f[j], w[f[j]]>>]

Next ==
  \/ LoadSeries \/ ChildEnds
  \/ \E t \in MinTime..MaxTime, F \in SUBSET DOMAIN input : \E H \in SUBSET (DOMAIN input \ F) :
       \E f \in Orders(F), h \in Orders(H), w \in [F \cup H -> Values] :
         NextVector(t, [floats |-> Pairs(f, w), hists |-> Pairs(h, w)])

Spec == Init /\ [][Next]_vars

-----------------------------------------------------------------------------
SeriesOf(samples) == {x[1] : x \in Range(samples)}
SamplesOf(samples, o) == {x[2] : x \in {y \in Range(samples) : outputIndex[y[1]] = o}}

(* Types of the fields of dedupOperator and of its cache. *)
TypeOK ==
  /\ pos \in 0..Len(input) /\ Len(outputIndex) = pos /\ now \in BeforeFirst..MaxTime
  /\ Range(outputIndex) \subseteq DOMAIN series /\ DOMAIN dedupCache = DOMAIN series
  /\ \A o \in DOMAIN dedupCache : /\ dedupCache[o].t \in {NoTime} \cup MinTime..now /\ dedupCache[o].v \in Values \cup {0}
                                  /\ dedupCache[o].h \in Values \cup {NoHist}

(* Series with the same labels share an output series and others do not,   *)
(* so that the result has no duplicate labels (loadSeries).                *)
LabelsIdentifySeries ==
  /\ IsInjective(series)
  /\ \A i \in DOMAIN outputIndex : series[outputIndex[i]] = input[i]

(* A step vector has one sample of exactly the output series some input    *)
(* series has a sample of: entries of earlier vectors are told apart by    *)
(* their timestamps (the loop over dedupCache in Next).                    *)
OneSamplePerSeries ==
  now # BeforeFirst =>
    /\ DOMAIN emitted.floats \cup DOMAIN emitted.hists
         = {outputIndex[i] : i \in SeriesOf(given.floats) \cup SeriesOf(given.hists)}
    /\ DOMAIN emitted.floats \cap DOMAIN emitted.hists = {}

(* A float that is emitted is the last float of its output series in the   *)
(* vector, not an earlier one (the comment on dedupOperator).              *)
LastSampleWins ==
  \A o \in DOMAIN emitted.floats :
    /\ Hit(given.floats, o)
    /\ emitted.floats[o] = LastOf(given.floats, o, NoTime)

(* A sample that was added in a previous iteration is skipped: what is     *)
(* emitted for a step vector is a sample of that vector (the comment in    *)
(* the loop over dedupCache).                                              *)
SkipsPreviousIterations ==
  /\ \A o \in DOMAIN emitted.floats : emitted.floats[o] \in SamplesOf(given.floats, o)
  /\ \A o \in DOMAIN emitted.hists : emitted.hists[o] \in SamplesOf(given.hists, o)
=============================================================================
