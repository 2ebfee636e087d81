----------------------------- MODULE DedupProofs -----------------------------
(* loadSeries gives every label set one output series, for every list of      *)
(* series of the child, and Next makes of every step vector one with the last *)
(* sample of each of them.                                                    *)
EXTENDS Dedup, SequenceTheorems, FiniteSetTheorems, WellFoundedInduction, TLAPS

(* What loadSeries has done after pos series.  That output indices exist is   *)
(* part of it: without it nothing is known of the labels they lead to.        *)
IInv ==
  /\ input \in Seq(Labels) /\ pos \in Nat /\ pos <= Len(input)
  /\ series \in Seq(Labels)
  /\ outputIndex \in Seq(Nat) /\ Len(outputIndex) = pos
  /\ \A o, p \in 1..Len(series) : series[o] = series[p] => o = p
  /\ \A i \in 1..pos : outputIndex[i] \in 1..Len(series) /\ series[outputIndex[i]] = input[i]

(* Before the first series there is nothing to show. *)
LEMMA InitHolds == Init => IInv
<1> SUFFICES ASSUME Init PROVE IInv
  OBVIOUS
<1>1. PICK m \in 0..MaxSeries : input \in [1..m -> Labels]
  BY Zenon DEF Init
<1>2. m \in Nat
  BY <1>1, BoundsAssumption
<1>3. input \in Seq(Labels)
  BY <1>1, <1>2, SeqDef
<1> QED
  BY <1>3, EmptySeq, LenProperties DEF Init, IInv

(* The output series of a label set is one that has it, or the next one. *)
LEMMA OutputOfLabels ==
  ASSUME IInv, NEW l \in Labels
  PROVE  \/ OutputOf(l) \in 1..Len(series) /\ series[OutputOf(l)] = l
         \/ OutputOf(l) = Len(series) + 1 /\ \A o \in 1..Len(series) : series[o] # l
<1>1. series \in Seq(Labels) /\ DOMAIN series = 1..Len(series) /\ Len(series) \in Nat
  BY LenProperties DEF IInv
<1>2. CASE l \in Range(series)
  <2>1. \E o \in DOMAIN series : series[o] = l
    BY <1>2 DEF Range
  <2>2. OutputOf(l) = CHOOSE o \in DOMAIN series : series[o] = l
    BY <1>2 DEF OutputOf
  <2> QED
    BY <1>1, <2>1, <2>2
<1>3. CASE l \notin Range(series)
  <2>1. \A o \in DOMAIN series : series[o] # l
    BY <1>3 DEF Range
  <2> QED
    BY <1>1, <1>3, <2>1 DEF OutputOf
<1> QED
  BY <1>2, <1>3

(* One turn of the loop of loadSeries: the series gets a known index, or a new *)
(* one whose labels no earlier output series has.                              *)
LEMMA LoadSeriesPreserves == IInv /\ LoadSeries => IInv'
<1> SUFFICES ASSUME IInv, LoadSeries PROVE IInv'
  OBVIOUS
<1> DEFINE l == input[pos + 1]
           new == OutputOf(l)
<1>1. /\ input' = input /\ pos' = pos + 1 /\ pos < Len(input)
      /\ outputIndex' = Append(outputIndex, new)
      /\ series' = IF new > Len(series) THEN Append(series, l) ELSE series
  BY DEF LoadSeries
<1>2. /\ input \in Seq(Labels) /\ series \in Seq(Labels) /\ outputIndex \in Seq(Nat)
      /\ Len(input) \in Nat /\ Len(series) \in Nat /\ Len(outputIndex) = pos /\ pos \in Nat
  BY LenProperties DEF IInv
<1>3. l \in Labels
  BY <1>1, <1>2, ElementOfSeq
<1>4. \/ new \in 1..Len(series) /\ series[new] = l
      \/ new = Len(series) + 1 /\ \A o \in 1..Len(series) : series[o] # l
  BY <1>3, OutputOfLabels
<1>5. new \in Nat
  BY <1>2, <1>4
<1>6. /\ outputIndex' \in Seq(Nat) /\ Len(outputIndex') = pos + 1 /\ outputIndex'[pos + 1] = new
      /\ \A i \in 1..pos : outputIndex'[i] = outputIndex[i]
  <2> HIDE DEF new
  <2> QED
    BY <1>1, <1>2, <1>5, AppendProperties
<1>7. /\ series' \in Seq(Labels) /\ Len(series') \in Nat /\ Len(series) <= Len(series')
      /\ \A o \in 1..Len(series) : series'[o] = series[o]
      /\ new \in 1..Len(series') /\ series'[new] = l
      /\ \A o, p \in 1..Len(series') : series'[o] = series'[p] => o = p
  <2>1. CASE new \in 1..Len(series) /\ series[new] = l
    <3>1. series' = series
      BY <1>1, <1>2, <2>1
    <3> QED
      BY <1>2, <2>1, <3>1 DEF IInv
  <2>2. CASE new = Len(series) + 1 /\ \A o \in 1..Len(series) : series[o] # l
    <3>1. series' = Append(series, l)
      BY <1>1, <1>2, <2>2
    <3> HIDE DEF l, new
    <3>2. /\ series' \in Seq(Labels) /\ Len(series') = Len(series) + 1 /\ series'[Len(series) + 1] = l
          /\ \A o \in 1..Len(series) : series'[o] = series[o]
      BY <1>2, <1>3, <3>1, AppendProperties
    <3>3. \A o, p \in 1..Len(series) : series[o] = series[p] => o = p
      BY DEF IInv
    <3>4. \A o, p \in 1..(Len(series) + 1) : series'[o] = series'[p] => o = p
      <4> SUFFICES ASSUME NEW o \in 1..(Len(series) + 1), NEW p \in 1..(Len(series) + 1), series'[o] = series'[p]
                   PROVE  o = p
        OBVIOUS
      <4>1. CASE o \in 1..Len(series) /\ p \in 1..Len(series)
        BY <3>2, <3>3, <4>1
      <4>2. CASE o = Len(series) + 1 /\ p \in 1..Len(series)
        BY <2>2, <3>2, <4>2
      <4>3. CASE p = Len(series) + 1 /\ o \in 1..Len(series)
        BY <2>2, <3>2, <4>3
      <4> QED
        BY <1>2, <4>1, <4>2, <4>3
    <3> QED
      BY <1>2, <2>2, <3>2, <3>4
  <2> QED
    BY <1>4, <2>1, <2>2
<1>8. \A i \in 1..(pos + 1) : outputIndex'[i] \in 1..Len(series') /\ series'[outputIndex'[i]] = input[i]
  <2> SUFFICES ASSUME NEW i \in 1..(pos + 1)
               PROVE  outputIndex'[i] \in 1..Len(series') /\ series'[outputIndex'[i]] = input[i]
    OBVIOUS
  <2>1. CASE i = pos + 1
    BY <1>6, <1>7, <2>1
  <2>2. CASE i \in 1..pos
    <3>1. outputIndex[i] \in 1..Len(series) /\ series[outputIndex[i]] = input[i]
      BY <2>2 DEF IInv
    <3> HIDE DEF new
    <3>2. outputIndex'[i] = outputIndex[i]
      BY <1>6, <2>2
    <3>3. series'[outputIndex[i]] = series[outputIndex[i]] /\ outputIndex[i] \in 1..Len(series')
      BY <1>2, <1>7, <3>1
    <3> QED
      BY <3>1, <3>2, <3>3
  <2> QED
    BY <1>2, <2>1, <2>2
<1> HIDE DEF l, new
<1>9. /\ input' \in Seq(Labels) /\ pos' \in Nat /\ pos' <= Len(input')
      /\ Len(outputIndex') = pos' /\ outputIndex' \in Seq(Nat) /\ series' \in Seq(Labels)
  BY <1>1, <1>2, <1>6, <1>7
<1>10. \A o, p \in 1..Len(series') : series'[o] = series'[p] => o = p
  BY <1>7
<1>11. \A i \in 1..pos' : outputIndex'[i] \in 1..Len(series') /\ series'[outputIndex'[i]] = input'[i]
  BY <1>1, <1>8, Zenon
<1> QED
  BY <1>9, <1>10, <1>11 DEF IInv

(* Next of the operator touches neither the index nor the series. *)
LEMMA NextPreserves == IInv /\ [Next]_vars => IInv'
<1> SUFFICES ASSUME IInv, [Next]_vars PROVE IInv'
  OBVIOUS
<1>1. CASE LoadSeries
  BY <1>1, LoadSeriesPreserves
<1>2. CASE UNCHANGED <<input, pos, series, outputIndex>>
  BY <1>2 DEF IInv
<1>3. CASE ChildEnds \/ UNCHANGED vars
  BY <1>2, <1>3 DEF ChildEnds, vars
<1>4. ASSUME NEW t, NEW vec, NextVector(t, vec) PROVE IInv'
  BY <1>2, <1>4 DEF NextVector
<1> QED
  BY Zenon, <1>1, <1>3, <1>4 DEF Next

(* The invariant contains what is to be shown. *)
LEMMA IInvImplies == IInv => LabelsIdentifySeries
<1> SUFFICES ASSUME IInv PROVE LabelsIdentifySeries
  OBVIOUS
<1>1. DOMAIN series = 1..Len(series) /\ DOMAIN outputIndex = 1..pos
  BY LenProperties DEF IInv
<1>2. IsInjective(series)
  BY <1>1 DEF IsInjective, IInv
<1>3. \A i \in DOMAIN outputIndex : series[outputIndex[i]] = input[i]
  BY <1>1 DEF IInv
<1> QED
  BY <1>2, <1>3 DEF LabelsIdentifySeries

(* For every set of labels and every list of series of the child, the merged  *)
(* result has no two series with the same labels, and every sample of the     *)
(* child goes to the series with its labels (loadSeries of dedupOperator).    *)
THEOREM SeriesIdentified == Spec => []LabelsIdentifySeries
<1>1. Init => IInv
  BY InitHolds
<1>2. IInv /\ [Next]_vars => IInv'
  BY NextPreserves
<1>3. IInv => LabelsIdentifySeries
  BY IInvImplies
<1> QED
  BY <1>1, <1>2, <1>3, PTL DEF Spec

-----------------------------------------------------------------------------
(* A loop over the samples of a vector ends with the last sample of a series. *)

(* What the child gives: samples of its series. *)
OfChild(samples) ==
  \E n \in Nat : /\ DOMAIN samples = 1..n
                 /\ \A j \in 1..n : samples[j][1] \in 1..pos /\ samples[j][2] \in Values

(* A set of numbers has a least one. *)
LEMMA LeastNumber ==
  ASSUME NEW T, T \subseteq Nat, T # {}
  PROVE  \E x \in T : \A y \in T : x <= y
<1> DEFINE R == OpToRel(<, Nat)
<1>1. \A x, y \in Nat : <<y, x>> \in R <=> y < x
  BY Zenon DEF OpToRel
<1>2. IsWellFoundedOn(R, Nat)
  BY NatLessThanWellFounded, Zenon
<1> HIDE DEF R
<1>3. \E x \in T : \A y \in T : ~ (<<y, x>> \in R)
  BY <1>2, WFMin, Zenon
<1>4. PICK x \in T : \A y \in T : ~ (<<y, x>> \in R)
  BY <1>3
<1>5. \A y \in T : ~ (y < x)
  BY <1>1, <1>4, Zenon
<1> QED
  BY <1>5

(* A set of indices has a greatest one. *)
LEMMA LastIndex ==
  ASSUME NEW n \in Nat, NEW js, js \subseteq 1..n, js # {}
  PROVE  Max(js) \in js
<1> DEFINE T == {k \in Nat : n - k \in js}
<1>1. PICK j \in js : TRUE
  BY Zenon
<1>2. T \subseteq Nat /\ n - j \in T
  OBVIOUS
<1>3. \E x \in T : \A y \in T : x <= y
  <2> HIDE DEF T
  <2> QED
    BY <1>2, LeastNumber, Zenon
<1>4. PICK x \in T : \A y \in T : x <= y
  BY <1>3
<1>5. \A y \in js : n - y \in T /\ y \in Nat
  OBVIOUS
<1>6. n - x \in js /\ \A y \in js : n - x >= y
  BY <1>4, <1>5
<1> QED
  BY <1>6, Zenon DEF Max

(* A series with a sample gets one of the vector, whatever it had before; a   *)
(* series without one keeps what it had.                                      *)
LEMMA LastOfValue ==
  ASSUME NEW samples, OfChild(samples), NEW o, NEW old
  PROVE  /\ Hit(samples, o) => /\ LastOf(samples, o, old) \in Values
                               /\ \A other : LastOf(samples, o, other) = LastOf(samples, o, old)
         /\ ~Hit(samples, o) => LastOf(samples, o, old) = old
<1> DEFINE js == {j \in DOMAIN samples : outputIndex[samples[j][1]] = o}
<1>1. PICK n \in Nat : /\ DOMAIN samples = 1..n
                       /\ \A j \in 1..n : samples[j][1] \in 1..pos /\ samples[j][2] \in Values
  BY DEF OfChild
<1>2. js \subseteq 1..n /\ (Hit(samples, o) <=> js # {})
  BY <1>1 DEF Hit
<1>3. \A other : LastOf(samples, o, other) = IF js = {} THEN other ELSE samples[Max(js)][2]
  BY DEF LastOf
<1> HIDE DEF js
<1>4. js # {} => Max(js) \in 1..n
  BY <1>2, LastIndex, Zenon
<1>5. js # {} => samples[Max(js)][2] \in Values
  BY <1>1, <1>4
<1> QED
  BY <1>2, <1>3, <1>5, Zenon

(* The output series of the samples of the child exist. *)
LEMMA HitSeries ==
  ASSUME IInv, NEW samples, OfChild(samples)
  PROVE  /\ {outputIndex[i] : i \in SeriesOf(samples)} = {o \in 1..Len(series) : Hit(samples, o)}
<1>1. PICK n \in Nat : /\ DOMAIN samples = 1..n
                       /\ \A j \in 1..n : samples[j][1] \in 1..pos /\ samples[j][2] \in Values
  BY DEF OfChild
<1>2. SeriesOf(samples) = {samples[j][1] : j \in 1..n}
  BY <1>1 DEF SeriesOf, Range
<1>3. \A i \in 1..pos : outputIndex[i] \in 1..Len(series)
  BY DEF IInv
<1>4. \A o : Hit(samples, o) <=> \E j \in 1..n : outputIndex[samples[j][1]] = o
  BY <1>1 DEF Hit
<1>5. ASSUME NEW i \in SeriesOf(samples)
      PROVE  outputIndex[i] \in 1..Len(series) /\ Hit(samples, outputIndex[i])
  BY <1>1, <1>2, <1>3, <1>4, <1>5
<1>6. ASSUME NEW o \in 1..Len(series), Hit(samples, o) PROVE \E i \in SeriesOf(samples) : outputIndex[i] = o
  BY <1>2, <1>4, <1>6
<1> QED
  BY <1>5, <1>6, Zenon

-----------------------------------------------------------------------------
(* The cache between two step vectors: no entry is from the future, so an     *)
(* entry with the timestamp of the current vector was written for it, unless  *)
(* that timestamp is the one of entries that were never written.              *)
CacheInv ==
  /\ now \in BeforeFirst..MaxTime
  /\ DOMAIN dedupCache = 1..Len(series)
  /\ \A o \in 1..Len(series) : /\ dedupCache[o].t \in {NoTime} \cup MinTime..now
                               /\ dedupCache[o].v \in Values \cup {0}
                               /\ dedupCache[o].h \in Values \cup {NoHist}
  /\ now # BeforeFirst => pos = Len(input)
  /\ now = BeforeFirst => emitted = NoVector
  /\ MinTime >= 0 => OneSamplePerSeries /\ LastSampleWins

(* Next of the operator: one step vector. *)
LEMMA NextVectorKeeps ==
  ASSUME IInv, CacheInv, NEW t \in MinTime..MaxTime, NEW vec,
         OfChild(vec.floats), OfChild(vec.hists), NextVector(t, vec)
  PROVE  CacheInv'
<1>1. /\ pos = Len(input) /\ t > now /\ now' = t /\ given' = vec
      /\ dedupCache' = Cached(t, vec)
      /\ emitted' = [floats |-> EmitFloats(dedupCache', t), hists |-> EmitHists(dedupCache', t)]
      /\ UNCHANGED <<input, pos, series, outputIndex>>
  BY DEF NextVector
<1>2. t \in Int /\ now \in Int /\ MinTime \in Int /\ MaxTime \in Int /\ t >= MinTime /\ t <= MaxTime
  BY BoundsAssumption DEF CacheInv, BeforeFirst
<1>3. series \in Seq(Labels) /\ DOMAIN series = 1..Len(series)
  BY LenProperties DEF IInv
<1> DEFINE F(o) == Hit(vec.floats, o)
           H(o) == Hit(vec.hists, o)
<1>4. /\ DOMAIN dedupCache' = 1..Len(series)
      /\ \A o \in 1..Len(series) :
           /\ dedupCache'[o].t = IF F(o) \/ H(o) THEN t ELSE dedupCache[o].t
           /\ dedupCache'[o].v = LastOf(vec.floats, o, dedupCache[o].v)
           /\ dedupCache'[o].h = LastOf(vec.hists, o, dedupCache[o].h)
  BY <1>1, <1>3 DEF Cached, CacheTime, CacheFloat
<1>5. \A o \in 1..Len(series) :
        /\ dedupCache'[o].t \in {NoTime} \cup MinTime..t
        /\ dedupCache'[o].v \in Values \cup {0}
        /\ dedupCache'[o].h \in Values \cup {NoHist}
  <2> SUFFICES ASSUME NEW o \in 1..Len(series)
               PROVE  /\ dedupCache'[o].t \in {NoTime} \cup MinTime..t
                      /\ dedupCache'[o].v \in Values \cup {0}
                      /\ dedupCache'[o].h \in Values \cup {NoHist}
    OBVIOUS
  <2>1. /\ dedupCache[o].t \in {NoTime} \cup MinTime..now /\ dedupCache[o].v \in Values \cup {0}
        /\ dedupCache[o].h \in Values \cup {NoHist}
    BY DEF CacheInv
  <2>2. dedupCache'[o].t \in {NoTime} \cup MinTime..t
    BY <1>1, <1>2, <1>4, <2>1 DEF NoTime
  <2>3. LastOf(vec.floats, o, dedupCache[o].v) \in Values \cup {0}
    BY <2>1, LastOfValue
  <2>4. LastOf(vec.hists, o, dedupCache[o].h) \in Values \cup {NoHist}
    BY <2>1, LastOfValue
  <2> QED
    BY <1>4, <2>2, <2>3, <2>4
(* The timestamp tells the entries of this vector from all others. *)
<1>6. ASSUME MinTime >= 0 PROVE \A o \in 1..Len(series) : dedupCache'[o].t = t <=> F(o) \/ H(o)
  <2> SUFFICES ASSUME NEW o \in 1..Len(series), ~(F(o) \/ H(o)) PROVE dedupCache'[o].t # t
    BY <1>4
  <2>1. dedupCache'[o].t = dedupCache[o].t /\ dedupCache[o].t \in {NoTime} \cup MinTime..now
    BY <1>4 DEF CacheInv
  <2> QED
    BY <1>1, <1>2, <1>6, <2>1 DEF NoTime
<1>7. \A o \in 1..Len(series) : H(o) => dedupCache'[o].h # NoHist
  <2> SUFFICES ASSUME NEW o \in 1..Len(series), H(o) PROVE dedupCache'[o].h # NoHist
    OBVIOUS
  <2>1. LastOf(vec.hists, o, dedupCache[o].h) \in Values
    BY LastOfValue
  <2> QED
    BY <1>4, <2>1, ValuesAssumption
<1>8. /\ emitted'.floats = EmitFloats(dedupCache', t)
      /\ emitted'.hists = EmitHists(dedupCache', t)
  BY <1>1
<1>9. /\ DOMAIN emitted'.floats = {o \in 1..Len(series) : dedupCache'[o].t = t /\ dedupCache'[o].h = NoHist}
      /\ DOMAIN emitted'.hists = {o \in 1..Len(series) : dedupCache'[o].t = t /\ dedupCache'[o].h # NoHist}
      /\ \A o \in DOMAIN emitted'.floats : emitted'.floats[o] = dedupCache'[o].v
  BY <1>4, <1>8 DEF EmitFloats, EmitHists
<1>10. ASSUME MinTime >= 0 PROVE OneSamplePerSeries'
  <2>1. {outputIndex[i] : i \in SeriesOf(vec.floats)} = {o \in 1..Len(series) : F(o)}
    BY HitSeries
  <2>2. {outputIndex[i] : i \in SeriesOf(vec.hists)} = {o \in 1..Len(series) : H(o)}
    BY HitSeries
  <2> HIDE DEF F, H
  <2>3. DOMAIN emitted'.floats \cup DOMAIN emitted'.hists = {o \in 1..Len(series) : F(o) \/ H(o)}
    BY <1>6, <1>9, <1>10
  <2>4. {outputIndex[i] : i \in SeriesOf(vec.floats) \cup SeriesOf(vec.hists)} = {o \in 1..Len(series) : F(o) \/ H(o)}
    BY <2>1, <2>2, Zenon
  <2>5. DOMAIN emitted'.floats \cap DOMAIN emitted'.hists = {}
    BY <1>9
  <2>6. DOMAIN emitted'.floats \cup DOMAIN emitted'.hists
          = {outputIndex'[i] : i \in SeriesOf(given'.floats) \cup SeriesOf(given'.hists)}
    BY <1>1, <2>3, <2>4
  <2> QED
    BY <2>5, <2>6 DEF OneSamplePerSeries, SeriesOf
<1>11. ASSUME MinTime >= 0 PROVE LastSampleWins'
  <2> SUFFICES ASSUME NEW o \in DOMAIN emitted'.floats
               PROVE  F(o) /\ emitted'.floats[o] = LastOf(vec.floats, o, NoTime)
    <3>1. \A o : Hit(given.floats, o)' <=> F(o)
      BY <1>1 DEF Hit
    <3>2. \A o : LastOf(given.floats, o, NoTime)' = LastOf(vec.floats, o, NoTime)
      BY <1>1, Zenon DEF LastOf, NoTime
    <3> HIDE DEF F
    <3> QED
      BY <3>1, <3>2, Zenon DEF LastSampleWins
  <2>1. o \in 1..Len(series) /\ dedupCache'[o].t = t /\ dedupCache'[o].h = NoHist
    BY <1>9
  <2>2. F(o)
    BY <1>6, <1>7, <1>11, <2>1
  <2>3. emitted'.floats[o] = LastOf(vec.floats, o, dedupCache[o].v)
    BY <1>4, <1>9, <2>1
  <2> QED
    BY <2>2, <2>3, LastOfValue
<1> HIDE DEF F, H
<1>12. now' \in BeforeFirst..MaxTime /\ now' # BeforeFirst /\ pos' = Len(input')
  BY <1>1, <1>2 DEF BeforeFirst
<1>13. \A o \in 1..Len(series') : /\ dedupCache'[o].t \in {NoTime} \cup MinTime..now'
                                 /\ dedupCache'[o].v \in Values \cup {0}
                                 /\ dedupCache'[o].h \in Values \cup {NoHist}
  BY <1>1, <1>5, Zenon
<1>14. DOMAIN dedupCache' = 1..Len(series')
  BY <1>1, <1>4
<1> QED
  BY <1>10, <1>11, <1>12, <1>13, <1>14, Zenon DEF CacheInv

(* The samples that Next of this specification lets the child give. *)
LEMMA PairsOfChild ==
  ASSUME IInv, pos = Len(input), NEW F, F \subseteq DOMAIN input, NEW f \in Orders(F),
         NEW G, F \subseteq G, NEW w \in [G -> Values]
  PROVE  OfChild(Pairs(f, w))
<1>1. DOMAIN input = 1..pos /\ pos \in Nat
  BY LenProperties DEF IInv
<1>2. IsFiniteSet(1..pos)
  BY <1>1, FS_Interval
<1>3. IsFiniteSet(F)
  BY <1>1, <1>2, FS_Subset
<1>4. Cardinality(F) \in Nat
  BY <1>3, FS_CardinalityType
<1>5. f \in [1..Cardinality(F) -> F]
  BY DEF Orders
<1>6. DOMAIN Pairs(f, w) = 1..Cardinality(F)
  BY <1>5 DEF Pairs
<1>7. \A j \in 1..Cardinality(F) : Pairs(f, w)[j][1] \in 1..pos /\ Pairs(f, w)[j][2] \in Values
  BY <1>1, <1>5 DEF Pairs
<1> QED
  BY <1>4, <1>6, <1>7 DEF OfChild

(* loadSeries fills the cache with entries of no step, before any step. *)
LEMMA LoadSeriesKeeps == IInv /\ IInv' /\ CacheInv /\ LoadSeries => CacheInv'
<1> SUFFICES ASSUME IInv, IInv', CacheInv, LoadSeries PROVE CacheInv'
  OBVIOUS
<1>1. /\ pos < Len(input) /\ UNCHANGED <<now, emitted, given>>
      /\ dedupCache' = [o \in DOMAIN series' |-> [t |-> NoTime, v |-> 0, h |-> NoHist]]
  BY DEF LoadSeries
<1>2. DOMAIN series' = 1..Len(series')
  BY LenProperties DEF IInv
<1>3. now = BeforeFirst /\ emitted = NoVector
  BY <1>1 DEF CacheInv, IInv
<1>4. /\ DOMAIN dedupCache' = 1..Len(series')
      /\ \A o \in 1..Len(series') : /\ dedupCache'[o].t \in {NoTime} \cup MinTime..now'
                                    /\ dedupCache'[o].v \in Values \cup {0}
                                    /\ dedupCache'[o].h \in Values \cup {NoHist}
  BY <1>1, <1>2, <1>3 DEF NoTime
<1>5. OneSamplePerSeries'
  BY <1>1, <1>3 DEF OneSamplePerSeries
<1>6. LastSampleWins'
  BY <1>1, <1>3 DEF LastSampleWins, NoVector
<1> QED
  BY <1>1, <1>3, <1>4, <1>5, <1>6 DEF CacheInv

(* The cache holds what it should, after every step vector. *)
LEMMA CacheStep == IInv /\ IInv' /\ CacheInv /\ [Next]_vars => CacheInv'
<1> SUFFICES ASSUME IInv, IInv', CacheInv, [Next]_vars PROVE CacheInv'
  OBVIOUS
<1>1. CASE LoadSeries
  BY <1>1, LoadSeriesKeeps
<1>2. CASE ChildEnds \/ UNCHANGED vars
  <2>1. UNCHANGED <<input, pos, series, outputIndex, dedupCache, now, given, emitted>>
    BY <1>2 DEF ChildEnds, vars
  <2>2. ASSUME MinTime >= 0 PROVE OneSamplePerSeries'
    BY <2>1, <2>2 DEF CacheInv, OneSamplePerSeries, SeriesOf
  <2>3. ASSUME MinTime >= 0 PROVE LastSampleWins'
    <3>1. \A o : Hit(given.floats, o)' <=> Hit(given.floats, o)
      BY <2>1 DEF Hit
    <3>2. \A o : LastOf(given.floats, o, NoTime)' = LastOf(given.floats, o, NoTime)
      BY <2>1, Zenon DEF LastOf, NoTime
    <3>3. emitted' = emitted
      BY <2>1
    <3> QED
      BY <2>3, <3>1, <3>2, <3>3 DEF CacheInv, LastSampleWins
  <2> QED
    BY <2>1, <2>2, <2>3 DEF CacheInv
<1>3. ASSUME NEW t \in MinTime..MaxTime, NEW F \in SUBSET DOMAIN input, NEW H \in SUBSET (DOMAIN input \ F),
             NEW f \in Orders(F), NEW h \in Orders(H), NEW w \in [F \cup H -> Values],
             NextVector(t, [floats |-> Pairs(f, w), hists |-> Pairs(h, w)])
      PROVE  CacheInv'
  <2> DEFINE vec == [floats |-> Pairs(f, w), hists |-> Pairs(h, w)]
  <2>1. pos = Len(input)
    BY <1>3 DEF NextVector
  <2>2. OfChild(Pairs(f, w))
    BY <2>1, PairsOfChild
  <2>3. OfChild(Pairs(h, w))
    BY <2>1, PairsOfChild
  <2>4. vec.floats = Pairs(f, w) /\ vec.hists = Pairs(h, w)
    OBVIOUS
  <2>5. NextVector(t, vec)
    BY <1>3
  <2> HIDE DEF vec
  <2> QED
    BY <2>2, <2>3, <2>4, <2>5, NextVectorKeeps
<1> QED
  BY Zenon, <1>1, <1>2, <1>3 DEF Next

(* There is nothing in the cache at first. *)
LEMMA CacheInit == Init => CacheInv
<1> SUFFICES ASSUME Init PROVE CacheInv
  OBVIOUS
<1>1. series = <<>> /\ dedupCache = <<>> /\ now = BeforeFirst /\ emitted = NoVector
  BY DEF Init
<1>2. Len(series) = 0 /\ DOMAIN dedupCache = {} /\ 1..Len(series) = {}
  BY <1>1
<1>3. now \in BeforeFirst..MaxTime
  BY <1>1, BoundsAssumption DEF BeforeFirst
<1>4. OneSamplePerSeries /\ LastSampleWins
  BY <1>1 DEF OneSamplePerSeries, LastSampleWins, NoVector
<1> QED
  BY <1>1, <1>2, <1>3, <1>4 DEF CacheInv

(* Both invariants together. *)
THEOREM Invariance == Spec => [](IInv /\ CacheInv)
<1>1. Init => IInv /\ CacheInv
  BY InitHolds, CacheInit
<1>2. IInv /\ CacheInv /\ [Next]_vars => IInv' /\ CacheInv'
  BY NextPreserves, CacheStep
<1> QED
  BY <1>1, <1>2, PTL DEF Spec

(* The fields of dedupOperator keep their types: every input series has an    *)
(* output series with an entry in the cache, which the loops of Next index    *)
(* without a check.                                                           *)
THEOREM TypeCorrect == Spec => []TypeOK
<1>1. IInv /\ CacheInv => TypeOK
  <2> SUFFICES ASSUME IInv, CacheInv PROVE TypeOK
    OBVIOUS
  <2>1. /\ DOMAIN series = 1..Len(series) /\ DOMAIN outputIndex = 1..pos /\ Len(input) \in Nat
    BY LenProperties DEF IInv
  <2>2. Range(outputIndex) \subseteq DOMAIN series
    BY <2>1 DEF IInv, Range
  <2>3. pos \in 0..Len(input) /\ Len(outputIndex) = pos
    BY <2>1 DEF IInv
  <2> QED
    BY <2>1, <2>2, <2>3 DEF CacheInv, TypeOK
<1> QED
  BY <1>1, Invariance, PTL

(* For all labels, samples and orders of them: a step vector has a sample of  *)
(* exactly the output series that had one in the child's vector, either a     *)
(* float or a histogram (the loop over dedupCache in Next), as long as no     *)
(* step is before 1970.                                                       *)
THEOREM OneSampleEach == MinTime >= 0 => (Spec => []OneSamplePerSeries)
<1> SUFFICES ASSUME MinTime >= 0 PROVE Spec => []OneSamplePerSeries
  OBVIOUS
<1>1. CacheInv => OneSamplePerSeries
  BY DEF CacheInv
<1> QED
  BY <1>1, Invariance, PTL

(* And a float in it is the last float of its series in the child's vector    *)
(* (the comment on dedupOperator).                                            *)
THEOREM LastWins == MinTime >= 0 => (Spec => []LastSampleWins)
<1> SUFFICES ASSUME MinTime >= 0 PROVE Spec => []LastSampleWins
  OBVIOUS
<1>1. CacheInv => LastSampleWins
  BY DEF CacheInv
<1> QED
  BY <1>1, Invariance, PTL
==============================================================================
