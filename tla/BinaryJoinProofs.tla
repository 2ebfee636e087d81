--------------------------- MODULE BinaryJoinProofs ---------------------------
(***************************************************************************)
(* Proofs about the binary operators (module BinaryJoin), for every query  *)
(* and all samples: Next joins the steps its children have delivered, one  *)
(* by one; a step is refused exactly when its matches are ambiguous; and   *)
(* the values of a step are those of the step's own samples.  The last two *)
(* need a query that begins at or after the epoch: a bucket that was never *)
(* used is marked with the time -1.                                        *)
(***************************************************************************)
EXTENDS BinaryJoin, TLAPS

(* Samples and buckets of the query, and a pair of step vectors. *)
Samples == q.lvals \cup q.rvals \cup {None, Zero}
Bucket == [ats : Int, bts : Int, sid : DOMAIN Low \cup {1}, val : Samples, hist : Samples]
StepPairs == [l : Vectors("lhs"), r : Vectors("rhs")]

(* Every series leads to the bucket of its signature. *)
Tabled ==
  /\ tables.hcBucket = [i \in DOMAIN High |-> signature(High[i])]
  /\ tables.lcBucket = [i \in DOMAIN Low |-> signature(Low[i])]

(* No bucket is of a step after t. *)
BucketsUpTo(b, t) ==
  /\ b \in [Signatures -> Bucket]
  /\ \A s \in Signatures : b[s].ats \in -1..t /\ b[s].bts \in -1..b[s].ats

(* nb is b with the samples of low: the bucket of a series with a sample is   *)
(* of this step and refers to it, every other one is left alone.             *)
Filled(nb, b, ts, low) ==
  /\ nb \in [Signatures -> Bucket]
  /\ \A s \in Signatures :
       IF \E i \in Present(low) : LcSig(i) = s
       THEN /\ nb[s].ats = ts /\ nb[s].bts = b[s].bts
            /\ nb[s].sid \in Present(low) /\ LcSig(nb[s].sid) = s
            /\ low[nb[s].sid].k = "f" => nb[s].val = low[nb[s].sid] /\ nb[s].hist = b[s].hist
            /\ low[nb[s].sid].k # "f" => nb[s].hist = low[nb[s].sid]
       ELSE nb[s] = b[s]

-----------------------------------------------------------------------------
(* The sides of a pair of step vectors by their cardinality. *)
LEMMA SidesOfStep ==
  ASSUME q \in Queries, ~IsScalar, NEW l \in Vectors("lhs"), NEW r \in Vectors("rhs")
  PROVE  LET g == [l |-> l, r |-> r]
         IN  /\ DOMAIN HighOf(g) = DOMAIN High /\ DOMAIN LowOf(g) = DOMAIN Low
             /\ \A i \in DOMAIN High : HighOf(g)[i] = None \/ HighOf(g)[i].k \in {"f", "h"}
             /\ \A i \in DOMAIN Low : /\ LowOf(g)[i] \in Samples
                                      /\ LowOf(g)[i] = None \/ LowOf(g)[i].k \in {"f", "h"}
  <1>1. /\ DOMAIN l = DOMAIN q.lhs /\ \A i \in DOMAIN q.lhs : l[i] \in q.lvals \cup {None}
        /\ DOMAIN r = DOMAIN q.rhs /\ \A i \in DOMAIN q.rhs : r[i] \in q.rvals \cup {None}
    BY DEF Vectors
  <1>2. \A v \in q.lvals \cup q.rvals : v.k \in {"f", "h"}
    BY QueriesAssumption
  <1> QED
    BY <1>1, <1>2 DEF HighOf, LowOf, High, Low, Samples

(* The buckets of the series are among those of the query. *)
LEMMA SignaturesOfSeries ==
  ASSUME Tabled
  PROVE  /\ \A i \in DOMAIN High : HcSig(i) \in Signatures
         /\ \A i \in DOMAIN Low : LcSig(i) \in Signatures
  BY DEF Tabled, HcSig, LcSig, Signatures, High, Low, Range

(* The low card loop of execBinaryArithmetic fills the buckets of the series  *)
(* with a sample and no other.                                               *)
LEMMA FilledBuckets ==
  ASSUME Tabled, NEW b \in [Signatures -> Bucket], NEW ts \in Int, NEW low, DOMAIN low = DOMAIN Low,
         \A i \in DOMAIN Low : low[i] \in Samples,
         NEW nb, nb = fillBuckets(b, ts, low)
  PROVE  Filled(nb, b, ts, low)
  <1>1. nb = [s \in Signatures |-> fill(b[s], s, ts, low)]
    BY DEF fillBuckets
  <1> SUFFICES ASSUME NEW s \in Signatures
               PROVE  /\ nb[s] \in Bucket
                      /\ IF \E i \in Present(low) : LcSig(i) = s
                         THEN /\ nb[s].ats = ts /\ nb[s].bts = b[s].bts
                              /\ nb[s].sid \in Present(low) /\ LcSig(nb[s].sid) = s
                              /\ low[nb[s].sid].k = "f" => nb[s].val = low[nb[s].sid] /\ nb[s].hist = b[s].hist
                              /\ low[nb[s].sid].k # "f" => nb[s].hist = low[nb[s].sid]
                         ELSE nb[s] = b[s]
    BY <1>1 DEF Filled
  <1>2. b[s] \in Bucket /\ nb[s] = fill(b[s], s, ts, low)
    BY <1>1
  <1>3. CASE ~ \E i \in Present(low) : LcSig(i) = s
    BY <1>2, <1>3 DEF fill
  <1>4. CASE \E i \in Present(low) : LcSig(i) = s
    <2> DEFINE i == CHOOSE i \in Present(low) : LcSig(i) = s
    <2>1. i \in Present(low) /\ LcSig(i) = s
      BY <1>4
    <2>2. nb[s] = IF low[i].k = "f" THEN [b[s] EXCEPT !.sid = i, !.val = low[i], !.ats = ts]
                  ELSE [b[s] EXCEPT !.sid = i, !.hist = low[i], !.ats = ts]
      BY <1>2, <1>4 DEF fill
    <2> HIDE DEF i
    <2>3. i \in DOMAIN Low /\ low[i] \in Samples
      BY <2>1 DEF Present
    <2>4. CASE low[i].k = "f"
      <3>1. nb[s] = [b[s] EXCEPT !.sid = i, !.val = low[i], !.ats = ts]
        BY <2>2, <2>4
      <3>2. /\ nb[s] \in Bucket /\ nb[s].ats = ts /\ nb[s].bts = b[s].bts /\ nb[s].sid = i
            /\ nb[s].val = low[i] /\ nb[s].hist = b[s].hist
        BY <1>2, <2>3, <3>1, Zenon DEF Bucket
      <3> QED
        BY <1>4, <2>1, <2>4, <3>2
    <2>5. CASE low[i].k # "f"
      <3>1. nb[s] = [b[s] EXCEPT !.sid = i, !.hist = low[i], !.ats = ts]
        BY <2>2, <2>5
      <3>2. /\ nb[s] \in Bucket /\ nb[s].ats = ts /\ nb[s].bts = b[s].bts /\ nb[s].sid = i
            /\ nb[s].hist = low[i]
        BY <1>2, <2>3, <3>1, Zenon DEF Bucket
      <3> QED
        BY <1>4, <2>1, <2>5, <3>2
    <2> QED
      BY <2>4, <2>5, Zenon
  <1> QED
    BY <1>3, <1>4, Zenon

(* The marks of the high card loop are of this step, on buckets of this step. *)
LEMMA MarkedBuckets ==
  ASSUME Tabled, NEW t \in Int, NEW nb, BucketsUpTo(nb, t), NEW high
  PROVE  BucketsUpTo(markUsed(nb, t, high), t)
  <1> DEFINE b == markUsed(nb, t, high)
             used(s) == \E i \in matched(nb, t, high) : HcSig(i) = s
  <1>1. nb \in [Signatures -> Bucket] /\ \A s \in Signatures : nb[s].ats \in -1..t /\ nb[s].bts \in -1..nb[s].ats
    BY DEF BucketsUpTo
  <1>2. b = [s \in Signatures |-> IF used(s) THEN [nb[s] EXCEPT !.bts = t] ELSE nb[s]]
    BY <1>1 DEF markUsed
  <1>3. \A s \in Signatures : used(s) => nb[s].ats = t
    BY DEF matched, matches
  <1> HIDE DEF b, used
  <1>4. ASSUME NEW s \in Signatures
        PROVE  b[s] \in Bucket /\ b[s].ats \in -1..t /\ b[s].bts \in -1..b[s].ats
    <2>1. nb[s] \in Bucket /\ nb[s].ats \in -1..t /\ nb[s].bts \in -1..nb[s].ats
      BY <1>1
    <2>2. CASE used(s)
      <3>1. b[s] = [nb[s] EXCEPT !.bts = t] /\ nb[s].ats = t
        BY <1>2, <1>3, <2>2
      <3>2. b[s] \in Bucket /\ b[s].ats = t /\ b[s].bts = t
        BY <2>1, <3>1 DEF Bucket
      <3> QED
        BY <2>1, <3>1, <3>2
    <2>3. CASE ~used(s)
      BY <1>2, <2>1, <2>3
    <2> QED
      BY <2>2, <2>3
  <1> QED
    BY <1>2, <1>4 DEF BucketsUpTo, b

(* The buckets of step t are those with a sample of it; none was used yet. *)
OfStep(nb, b, t, low) ==
  \A s \in Signatures : /\ nb[s].ats = t <=> \E i \in Present(low) : LcSig(i) = s
                        /\ nb[s].bts # t /\ b[s].ats # t

(* A bucket is of this step iff a low card sample of this step has its        *)
(* signature: no bucket of an earlier step is taken for one of this step.     *)
LEMMA StepBuckets ==
  ASSUME Tabled, NEW t \in Int, NEW b, BucketsUpTo(b, t), NEW low, DOMAIN low = DOMAIN Low,
         \A i \in DOMAIN Low : low[i] \in Samples,
         NEW nb, nb = fillBuckets(b, t + 1, low)
  PROVE  BucketsUpTo(nb, t + 1) /\ OfStep(nb, b, t + 1, low)
  <1>1. b \in [Signatures -> Bucket] /\ \A s \in Signatures : b[s].ats \in -1..t /\ b[s].bts \in -1..b[s].ats
    BY DEF BucketsUpTo
  <1>2. /\ nb \in [Signatures -> Bucket]
        /\ \A s \in Signatures : IF \E i \in Present(low) : LcSig(i) = s
                                 THEN nb[s].ats = t + 1 /\ nb[s].bts = b[s].bts ELSE nb[s] = b[s]
    <2>1. t + 1 \in Int
      OBVIOUS
    <2>2. Filled(nb, b, t + 1, low)
      BY <1>1, <2>1, FilledBuckets
    <2> QED
      BY <2>2 DEF Filled
  <1>3. \A s \in Signatures : /\ nb[s].ats \in -1..(t + 1) /\ nb[s].bts \in -1..nb[s].ats
                             /\ nb[s].ats = t + 1 <=> \E i \in Present(low) : LcSig(i) = s
                             /\ nb[s].bts # t + 1 /\ b[s].ats # t + 1
    <2> SUFFICES ASSUME NEW s \in Signatures
                 PROVE  /\ nb[s].ats \in -1..(t + 1) /\ nb[s].bts \in -1..nb[s].ats
                        /\ nb[s].ats = t + 1 <=> \E i \in Present(low) : LcSig(i) = s
                        /\ nb[s].bts # t + 1 /\ b[s].ats # t + 1
      OBVIOUS
    <2>1. b[s].ats \in -1..t /\ b[s].bts \in -1..b[s].ats
      BY <1>1
    <2>2. CASE \E i \in Present(low) : LcSig(i) = s
      <3>1. nb[s].ats = t + 1 /\ nb[s].bts = b[s].bts
        BY <1>2, <2>2
      <3> QED
        BY <2>1, <2>2, <3>1
    <2>3. CASE ~ \E i \in Present(low) : LcSig(i) = s
      <3>1. nb[s] = b[s]
        BY <1>2, <2>3
      <3> QED
        BY <2>1, <2>3, <3>1
    <2> QED
      BY <2>2, <2>3
  <1> QED
    BY <1>2, <1>3 DEF BucketsUpTo, OfStep

(* The result of a step: buckets up to this step, and an error iff the        *)
(* matches of the step are ambiguous.                                         *)
Judged(e, g, t) ==
  /\ BucketsUpTo(e.b, t)
  /\ Ambiguous(g) => e.err = TRUE
  /\ ~Ambiguous(g) => e.err = FALSE

(* execBinaryArithmetic refuses a step iff its matches are ambiguous. *)
LEMMA ArithmeticRefuses ==
  ASSUME q \in Queries, ~IsScalar, ~IsSetOp, Tabled, NEW t \in Int, NEW b, BucketsUpTo(b, t),
         NEW l \in Vectors("lhs"), NEW r \in Vectors("rhs"),
         NEW e, e = execArithmetic(b, t + 1, l, r), NEW g, g = [l |-> l, r |-> r]
  PROVE  Judged(e, g, t + 1)
  <1> DEFINE high == HighOf(g)
             low == LowOf(g)
             nb == fillBuckets(b, t + 1, low)
  <1>1. e = IF Present(high) = {} THEN [b |-> b, vec |-> {}, err |-> FALSE]
            ELSE IF lowCardCollision(b, t + 1, low) \/ highCardCollision(nb, t + 1, high)
            THEN [b |-> nb, vec |-> {}, err |-> TRUE]
            ELSE [b |-> markUsed(nb, t + 1, high), vec |-> pairings(nb, t + 1, high), err |-> FALSE]
    BY DEF execArithmetic, HighOf, LowOf
  <1>2. DOMAIN high = DOMAIN High /\ DOMAIN low = DOMAIN Low /\ \A i \in DOMAIN Low : low[i] \in Samples
    BY SidesOfStep
  <1> HIDE DEF high, low
  <1>3. /\ BucketsUpTo(nb, t + 1)
        /\ \A s \in Signatures : /\ nb[s].ats = t + 1 <=> \E i \in Present(low) : LcSig(i) = s
                                 /\ nb[s].bts # t + 1 /\ b[s].ats # t + 1
    <2>1. BucketsUpTo(nb, t + 1) /\ OfStep(nb, b, t + 1, low)
      BY <1>2, StepBuckets, Zenon
    <2> QED
      BY <2>1 DEF OfStep
  <1> HIDE DEF nb
  <1>4. \A i \in Present(high) : i \in DOMAIN High /\ HcSig(i) \in Signatures
    BY <1>2, SignaturesOfSeries DEF Present
  <1>5. \A i \in Present(low) : LcSig(i) \in Signatures
    BY <1>2, SignaturesOfSeries DEF Present
  <1>6. lowCardCollision(b, t + 1, low) <=> \E i, j \in Present(low) : i # j /\ LcSig(i) = LcSig(j)
    BY <1>3, <1>5 DEF lowCardCollision
  <1>7. \A i : i \in matched(nb, t + 1, high) <=> i \in Present(high) /\ Partners(i, low) # {}
    BY <1>3, <1>4 DEF matched, matches, Partners
  <1>8. highCardCollision(nb, t + 1, high) <=>
          /\ q.card = "one_to_one"
          /\ \E i, j \in Present(high) : i # j /\ HcSig(i) = HcSig(j) /\ Partners(i, low) # {}
    <2>1. \A i, j : HcSig(i) = HcSig(j) => Partners(i, low) = Partners(j, low)
      BY DEF Partners
    <2> QED
      BY <1>3, <1>4, <1>7, <2>1 DEF highCardCollision
  <1>9. Ambiguous(g) <=> /\ Present(high) # {}
                         /\ lowCardCollision(b, t + 1, low) \/ highCardCollision(nb, t + 1, high)
    BY <1>6, <1>8 DEF Ambiguous, high, low
  <1>10. BucketsUpTo(b, t + 1)
    BY DEF BucketsUpTo
  <1>11. BucketsUpTo(markUsed(nb, t + 1, high), t + 1)
    BY <1>3, MarkedBuckets
  <1> QED
    BY <1>1, <1>3, <1>9, <1>10, <1>11 DEF Judged

-----------------------------------------------------------------------------
(* What the operations of binary.go return, by the kinds of their operands: *)
(* two floats never fail and lose no comparison, and a comparison of a      *)
(* float with a histogram is incompatible.                                  *)
LEMMA FloatsOperate ==
  ASSUME NEW op, NEW l, NEW r, NEW e, e = binOp(op, l, r, None, None)
  PROVE  /\ ~e.err
         /\ op \in {"eql", "gtr"} => ~e.incompatible /\ e.v = l
         /\ e.incompatible => ~e.keep
  <1>1. op = "eql" => e = Result(l, l.x = r.x)
    BY DEF binOp
  <1>2. op = "gtr" => e = Result(l, l.x[1] > r.x[1])
    BY DEF binOp
  <1>3. op = "trim" => e = Incompatible
    BY DEF binOp
  <1>4. op \notin {"eql", "gtr", "trim"} => e = Result(Float(l.x \o r.x), TRUE)
    BY Zenon DEF binOp
  <1>6. ~Incompatible.err /\ Incompatible.incompatible /\ ~Incompatible.keep
    BY DEF Incompatible
  <1>7. CASE op = "eql"
    BY <1>1, <1>7 DEF Result
  <1>8. CASE op = "gtr"
    BY <1>2, <1>8 DEF Result
  <1>9. CASE op = "trim"
    BY <1>3, <1>6, <1>9
  <1>10. CASE op \notin {"eql", "gtr", "trim"}
    BY <1>4, <1>10 DEF Result
  <1> QED
    BY <1>7, <1>8, <1>9, <1>10

(* A comparison of a float with a histogram keeps nothing. *)
LEMMA MixedOperate ==
  ASSUME NEW op, NEW l, NEW r, NEW hl, NEW hr, hl = None \/ hr = None, hl # None \/ hr # None,
         NEW e, e = binOp(op, l, r, hl, hr)
  PROVE  /\ ~e.err
         /\ op \in {"eql", "gtr"} => e.incompatible
         /\ e.incompatible => ~e.keep
  <1>1. op \in {"eql", "gtr"} => e = Incompatible
    BY Zenon DEF binOp
  <1>2. e = Incompatible \/ e = Result(Hist(l.x \o hr.x), TRUE) \/ e = Result(Hist(hl.x \o r.x), TRUE)
    <2>1. CASE hl = None
      BY <2>1, Zenon DEF binOp
    <2>2. CASE hl # None
      BY <2>2, Zenon DEF binOp
    <2> QED
      BY <2>1, <2>2, Zenon
  <1>3. \A v, k : ~Result(v, k).err /\ ~Result(v, k).incompatible
    BY DEF Result
  <1>4. ~Incompatible.err /\ Incompatible.incompatible /\ ~Incompatible.keep
    BY DEF Incompatible
  <1>5. CASE e = Incompatible
    BY <1>4, <1>5
  <1>6. CASE e = Result(Hist(l.x \o hr.x), TRUE) \/ e = Result(Hist(hl.x \o r.x), TRUE)
    BY <1>1, <1>3, <1>4, <1>6, Zenon
  <1> QED
    BY <1>2, <1>5, <1>6, Zenon

(* The operation on a high card sample v and a low card sample w. *)
Sided(v, w) == IF q.card = "one_to_many" THEN Applied(w, v) ELSE Applied(v, w)

(* The value of a pair in execBinaryArithmetic is the operation on the high  *)
(* card sample and the low card sample, as long as the bucket holds this     *)
(* one only and group_right meets no histogram.                              *)
LEMMA PairValue ==
  ASSUME q \in Queries, NEW v, v.k \in {"f", "h"}, NEW w, w.k \in {"f", "h"}, NEW jp,
         w.k = "f" => jp.val = w /\ jp.hist = None,
         w.k = "h" => jp.hist = w,
         q.card = "one_to_many" => v.k = "f" /\ w.k = "f"
  PROVE  pairValue(v, jp) = Sided(v, w)
  <1> DEFINE e == pairResult(v, jp)
  <1>1. pairValue(v, jp) =
          IF e.err \/ (e.incompatible /\ (v.k = "h" \/ jp.hist # None)) THEN None
          ELSE IF q.bool /\ (v.k = "h" \/ jp.hist = None) THEN Float(IF e.keep THEN <<1>> ELSE <<0>>)
          ELSE IF e.keep THEN e.v ELSE None
    BY DEF pairValue
  <1>2. \A x : x.k \in {"f", "h"} => x # None
    BY DEF None
  <1>3. q.bool => q.op \in {"eql", "gtr"}
    BY QueriesAssumption
  <1>4. Sided(v, w) = Outcome(e)
    <2>1. CASE v.k = "f" /\ w.k = "f"
      BY <2>1 DEF Sided, Applied, pairResult, computeBinaryPairing
    <2>2. CASE v.k = "f" /\ w.k = "h"
      BY <1>2, <2>2 DEF Sided, Applied, pairResult, computeBinaryPairing
    <2>3. CASE v.k = "h" /\ w.k = "f"
      BY <2>3 DEF Sided, Applied, pairResult, computeBinaryPairing
    <2>4. CASE v.k = "h" /\ w.k = "h"
      BY <1>2, <2>4 DEF Sided, Applied, pairResult, computeBinaryPairing
    <2> QED
      BY <2>1, <2>2, <2>3, <2>4
  <1>5. CASE v.k = "f" /\ w.k = "f"
    <2>1. e = IF q.card = "one_to_many" THEN binOp(q.op, w, v, None, None) ELSE binOp(q.op, v, w, None, None)
      BY <1>5 DEF pairResult, computeBinaryPairing
    <2> HIDE DEF e
    <2>2. /\ ~e.err
          /\ q.op \in {"eql", "gtr"} => ~e.incompatible
          /\ e.incompatible => ~e.keep
      BY <2>1, FloatsOperate
    <2> QED
      BY <1>1, <1>3, <1>4, <1>5, <2>2 DEF Outcome
  <1>6. CASE v.k = "f" /\ w.k = "h"
    <2>1. e = binOp(q.op, v, Zero, None, w)
      BY <1>2, <1>6 DEF pairResult, computeBinaryPairing
    <2> HIDE DEF e
    <2>2. ~e.err /\ (q.op \in {"eql", "gtr"} => e.incompatible)
      <3>1. w # None
        BY <1>2, <1>6
      <3> QED
        BY <2>1, <3>1, MixedOperate
    <2>3. jp.hist # None
      BY <1>2, <1>6
    <2> QED
      BY <1>1, <1>3, <1>4, <1>6, <2>2, <2>3 DEF Outcome
  <1>7. CASE v.k = "h"
    <2> HIDE DEF e
    <2> QED
      BY <1>1, <1>4, <1>7 DEF Outcome
  <1> QED
    BY <1>5, <1>6, <1>7

(* The value of the scalar operator is the operation on both sides, or the   *)
(* sample of the vector where a comparison filters.                          *)
LEMMA ScalarValue ==
  ASSUME q \in Queries, NEW v, v.k \in {"f", "h"}, NEW w, w.k = "f",
         NEW a, a = IF q.card = "scalar_left" THEN Applied(w, v) ELSE Applied(v, w)
  PROVE  scalarValue(v, w) = IF a # None /\ IsComparison(q.op) /\ ~q.bool THEN v ELSE a
  <1> DEFINE e == scalarResult(v, w)
  <1>1. scalarValue(v, w) = IF e.err THEN None
                            ELSE IF v.k = "f" /\ q.bool THEN Float(IF e.keep THEN <<1>> ELSE <<0>>)
                            ELSE IF ~e.keep THEN None
                            ELSE IF v.k = "f" /\ IsComparison(q.op) THEN v
                            ELSE e.v
    BY DEF scalarValue
  <1>2. \A x : x.k \in {"f", "h"} => x # None
    BY DEF None
  <1>3. q.bool => q.op \in {"eql", "gtr"}
    BY QueriesAssumption
  <1>4. a = Outcome(e)
    <2>1. CASE v.k = "f"
      BY <2>1 DEF Applied, scalarResult
    <2>2. CASE v.k = "h"
      BY <2>2 DEF Applied, scalarResult
    <2> QED
      BY <2>1, <2>2
  <1>5. CASE v.k = "f"
    <2>1. e = IF q.card = "scalar_left" THEN binOp(q.op, w, v, None, None) ELSE binOp(q.op, v, w, None, None)
      BY <1>5 DEF scalarResult
    <2> HIDE DEF e
    <2>2. /\ ~e.err
          /\ q.op \in {"eql", "gtr"} => ~e.incompatible /\ e.v \in {v, w}
          /\ e.incompatible => ~e.keep
      BY <2>1, FloatsOperate
    <2>3. v # None /\ w # None
      BY <1>2, <1>5
    <2>4. Float(<<0>>) # None /\ Float(<<1>>) # None
      BY DEF Float, None
    <2>5. CASE q.bool
      BY <1>1, <1>3, <1>4, <1>5, <2>2, <2>5 DEF Outcome
    <2>6. CASE ~q.bool /\ q.op \in {"eql", "gtr"}
      BY <1>1, <1>4, <1>5, <2>2, <2>3, <2>6 DEF Outcome, IsComparison
    <2>7. CASE ~q.bool /\ q.op \notin {"eql", "gtr"}
      BY <1>1, <1>4, <1>5, <2>2, <2>7 DEF Outcome, IsComparison
    <2> QED
      BY <2>5, <2>6, <2>7
  <1>6. CASE v.k = "h"
    <2>1. e = IF q.card = "scalar_left" THEN binOp(q.op, w, Zero, None, v) ELSE binOp(q.op, Zero, w, v, None)
      BY <1>6 DEF scalarResult
    <2> HIDE DEF e
    <2>2. v # None
      BY <1>2, <1>6
    <2>3. ~e.err /\ (q.op \in {"eql", "gtr"} => e.incompatible) /\ (e.incompatible => ~e.keep)
      BY <2>1, <2>2, MixedOperate
    <2>4. CASE e.incompatible
      BY <1>1, <1>4, <1>6, <2>3, <2>4 DEF Outcome
    <2>5. CASE ~e.incompatible
      BY <1>1, <1>3, <1>4, <1>6, <2>3, <2>5 DEF Outcome, IsComparison
    <2> QED
      BY <2>4, <2>5
  <1> QED
    BY <1>5, <1>6

-----------------------------------------------------------------------------
(* The samples of a step without their labels. *)
Unlabelled(S) == {[from |-> e.from, val |-> e.val] : e \in S}
Yields(e, S) == Unlabelled(e.vec) = Unlabelled(S)

(* The scalar operator returns the values expected of the step. *)
LEMMA ScalarStep ==
  ASSUME q \in Queries, IsScalar, NEW t \in Int, NEW b, BucketsUpTo(b, t),
         NEW l \in Vectors("lhs"), NEW r \in Vectors("rhs"),
         NEW e, e = execScalar(b, l, r), NEW g, g = [l |-> l, r |-> r]
  PROVE  Judged(e, g, t + 1) /\ Yields(e, ExpectedScalar(g))
  <1> DEFINE left == q.card = "scalar_left"
             other == IF left THEN r ELSE l
             side == IF left THEN "rhs" ELSE "lhs"
             scalar == IF left THEN l[1] ELSE r[1]
             a(i) == IF left THEN Applied(scalar, other[i]) ELSE Applied(other[i], scalar)
             value(i) == IF a(i) # None /\ IsComparison(q.op) /\ ~q.bool THEN other[i] ELSE a(i)
  <1>1. scalar.k = "f"
    <2>1. CASE left
      <3>1. DOMAIN q.lhs = {1} /\ \A v \in q.lvals : v.k = "f"
        BY <2>1, QueriesAssumption
      <3>2. l \in [DOMAIN q.lhs -> q.lvals]
        BY <2>1 DEF Vectors, IsScalar, Asked
      <3> QED
        BY <2>1, <3>1, <3>2
    <2>2. CASE ~left
      <3>1. q.card = "scalar_right"
        BY <2>2 DEF IsScalar
      <3>2. DOMAIN q.rhs = {1} /\ \A v \in q.rvals : v.k = "f"
        BY <3>1, QueriesAssumption
      <3>3. r \in [DOMAIN q.rhs -> q.rvals]
        BY <3>1 DEF Vectors, IsScalar, Asked
      <3> QED
        BY <2>2, <3>2, <3>3
    <2> QED
      BY <2>1, <2>2
  <1>2. \A i \in Present(other) : other[i].k \in {"f", "h"}
    <2>1. \A v \in q.lvals \cup q.rvals : v.k \in {"f", "h"}
      BY QueriesAssumption
    <2>2. \A i \in DOMAIN other : other[i] \in q.lvals \cup q.rvals \cup {None}
      BY DEF Vectors
    <2> QED
      BY <2>1, <2>2 DEF Present
  <1>3. \A i \in Present(other) : scalarValue(other[i], scalar) = value(i)
    <2> SUFFICES ASSUME NEW i \in Present(other)
                 PROVE  scalarValue(other[i], scalar) = value(i)
      OBVIOUS
    <2>1. other[i].k \in {"f", "h"}
      BY <1>2
    <2> QED
      BY <1>1, <2>1, ScalarValue
  <1>4. e = [b |-> b, err |-> FALSE,
             vec |-> {x \in {[id |-> i, from |-> <<side, i>>, val |-> scalarValue(other[i], scalar)]
                             : i \in Present(other)} : x.val # None}]
    BY DEF execScalar
  <1>5. ExpectedScalar(g) = {x \in {[labels |-> tables.series[i], from |-> <<side, i>>, val |-> value(i)]
                                    : i \in Present(other)} : x.val # None}
    BY DEF ExpectedScalar
  <1> HIDE DEF value, other, side, scalar
  <1>6. \A y : y \in Unlabelled(e.vec) <=>
          \E i \in Present(other) : value(i) # None /\ y = [from |-> <<side, i>>, val |-> value(i)]
    <2> DEFINE x(i) == [id |-> i, from |-> <<side, i>>, val |-> scalarValue(other[i], scalar)]
    <2>1. \A i \in Present(other) : x(i).from = <<side, i>> /\ x(i).val = value(i)
      BY <1>3
    <2>2. e.vec = {z \in {x(i) : i \in Present(other)} : z.val # None}
      BY <1>4
    <2> HIDE DEF x
    <2> QED
      BY <2>1, <2>2 DEF Unlabelled
  <1>7. \A y : y \in Unlabelled(ExpectedScalar(g)) <=>
          \E i \in Present(other) : value(i) # None /\ y = [from |-> <<side, i>>, val |-> value(i)]
    <2> DEFINE x(i) == [labels |-> tables.series[i], from |-> <<side, i>>, val |-> value(i)]
    <2>1. \A i : x(i).from = <<side, i>> /\ x(i).val = value(i)
      OBVIOUS
    <2>2. ExpectedScalar(g) = {z \in {x(i) : i \in Present(other)} : z.val # None}
      BY <1>5
    <2> HIDE DEF x
    <2> QED
      BY <2>1, <2>2 DEF Unlabelled
  <1>8. Unlabelled(e.vec) = Unlabelled(ExpectedScalar(g))
    BY <1>6, <1>7, Zenon DEF Unlabelled
  <1>9. BucketsUpTo(b, t + 1) /\ ~Ambiguous(g)
    BY DEF BucketsUpTo, Ambiguous
  <1> QED
    BY <1>4, <1>8, <1>9 DEF Judged, Yields

(* The set operators return the values expected of the step: a mark of an    *)
(* earlier step is never taken for one of this step.                         *)
LEMMA SetStep ==
  ASSUME q \in Queries, ~IsScalar, IsSetOp, q.card # "one_to_many", Tabled, NEW t \in Int, NEW b, BucketsUpTo(b, t),
         NEW l \in Vectors("lhs"), NEW r \in Vectors("rhs"),
         NEW e, e = execSetOp(b, t + 1, l, r), NEW g, g = [l |-> l, r |-> r]
  PROVE  Judged(e, g, t + 1) /\ Yields(e, ExpectedSet(g))
  <1> DEFINE marks == IF q.op = "or" THEN {HcSig(i) : i \in Present(l)} ELSE {LcSig(i) : i \in Present(r)}
             nb == MarkAt(b, marks, t + 1)
             left == {i \in Present(l) : /\ q.op = "and" => nb[HcSig(i)].ats = t + 1
                                         /\ q.op = "unless" => nb[HcSig(i)].ats # t + 1}
             right == {i \in Present(r) : q.op = "or" /\ nb[LcSig(i)].ats # t + 1}
             x(i) == [id |-> tables.hcBase[i], from |-> <<"lhs", i>>, val |-> l[i]]
             y(i) == [id |-> tables.lcBase[i], from |-> <<"rhs", i>>, val |-> r[i]]
  <1>1. e.b = nb /\ e.err = FALSE /\ e.vec = {x(i) : i \in left} \cup {y(i) : i \in right}
    BY Zenon DEF execSetOp
  <1>2. b \in [Signatures -> Bucket] /\ \A s \in Signatures : b[s].ats \in -1..t /\ b[s].bts \in -1..b[s].ats
    BY DEF BucketsUpTo
  <1>3. nb = [s \in Signatures |-> IF s \in marks THEN [b[s] EXCEPT !.ats = t + 1] ELSE b[s]]
    BY <1>2 DEF MarkAt
  <1> HIDE DEF marks, nb
  <1>4. ASSUME NEW s \in Signatures
        PROVE  /\ nb[s] \in Bucket /\ nb[s].ats \in -1..(t + 1) /\ nb[s].bts \in -1..nb[s].ats
               /\ nb[s].ats = t + 1 <=> s \in marks
    <2>1. b[s] \in Bucket /\ b[s].ats \in -1..t /\ b[s].bts \in -1..b[s].ats
      BY <1>2
    <2>2. CASE s \in marks
      <3>1. nb[s] = [b[s] EXCEPT !.ats = t + 1]
        BY <1>3, <2>2
      <3>2. nb[s] \in Bucket /\ nb[s].ats = t + 1 /\ nb[s].bts = b[s].bts
        BY <2>1, <3>1 DEF Bucket
      <3> QED
        BY <2>1, <2>2, <3>2
    <2>3. CASE s \notin marks
      <3>1. nb[s] = b[s]
        BY <1>3, <2>3
      <3> QED
        BY <2>1, <2>3, <3>1
    <2> QED
      BY <2>2, <2>3, Zenon
  <1>5. BucketsUpTo(nb, t + 1)
    BY <1>3, <1>4 DEF BucketsUpTo
  <1>6. /\ \A i \in Present(l) : HcSig(i) \in Signatures
        /\ \A i \in Present(r) : LcSig(i) \in Signatures
    <2>1. DOMAIN l = DOMAIN High /\ DOMAIN r = DOMAIN Low
      BY DEF Vectors, High, Low
    <2> QED
      BY <2>1, SignaturesOfSeries DEF Present
  <1>7. left = {i \in Present(l) : /\ q.op = "and" => Partners(i, r) # {}
                                   /\ q.op = "unless" => Partners(i, r) = {}}
    <2>1. q.op # "or" => \A i : Partners(i, r) # {} <=> HcSig(i) \in marks
      BY DEF Partners, marks
    <2> QED
      BY <1>4, <1>6, <2>1
  <1>8. right = {j \in Present(r) : q.op = "or" /\ \A i \in Present(l) : HcSig(i) # LcSig(j)}
    <2>1. q.op = "or" => \A s : s \in marks <=> \E i \in Present(l) : HcSig(i) = s
      BY DEF marks
    <2> QED
      BY <1>4, <1>6, <2>1
  <1> HIDE DEF left, right
  <1> DEFINE u(i) == [labels |-> q.lhs[i], from |-> <<"lhs", i>>, val |-> l[i]]
             w(i) == [labels |-> q.rhs[i], from |-> <<"rhs", i>>, val |-> r[i]]
  <1>9. ExpectedSet(g) = {u(i) : i \in left} \cup {w(i) : i \in right}
    BY <1>7, <1>8, Zenon DEF ExpectedSet
  <1>10. \A i : /\ x(i).from = u(i).from /\ x(i).val = u(i).val
                /\ y(i).from = w(i).from /\ y(i).val = w(i).val
    OBVIOUS
  <1> HIDE DEF x, y, u, w
  <1>11. \A z : z \in Unlabelled(e.vec) <=> z \in Unlabelled(ExpectedSet(g))
    <2>1. \A z : z \in Unlabelled(e.vec) <=> \/ \E i \in left : z = [from |-> x(i).from, val |-> x(i).val]
                                             \/ \E i \in right : z = [from |-> y(i).from, val |-> y(i).val]
      BY <1>1 DEF Unlabelled
    <2>2. \A z : z \in Unlabelled(ExpectedSet(g)) <=> \/ \E i \in left : z = [from |-> u(i).from, val |-> u(i).val]
                                                     \/ \E i \in right : z = [from |-> w(i).from, val |-> w(i).val]
      BY <1>9 DEF Unlabelled
    <2> QED
      BY <1>10, <2>1, <2>2
  <1>12. Unlabelled(e.vec) = Unlabelled(ExpectedSet(g))
    BY <1>11, Zenon DEF Unlabelled
  <1>13. ~Ambiguous(g)
    BY DEF Ambiguous
  <1> QED
    BY <1>1, <1>5, <1>12, <1>13 DEF Judged, Yields

(* execBinaryArithmetic returns the values expected of a step, when no bucket *)
(* that has held a histogram gets a float and group_right meets no histogram. *)
LEMMA ArithmeticValues ==
  ASSUME q \in Queries, ~IsScalar, ~IsSetOp, Tabled, NEW t \in Int, NEW b, BucketsUpTo(b, t),
         NEW l \in Vectors("lhs"), NEW r \in Vectors("rhs"),
         NEW e, e = execArithmetic(b, t + 1, l, r), NEW g, g = [l |-> l, r |-> r],
         ~Ambiguous(g), ~Swapped(g),
         \A j \in Present(LowOf(g)) : LowOf(g)[j].k = "f" => b[LcSig(j)].hist = None
  PROVE  Yields(e, ExpectedJoin(g))
  <1> DEFINE high == HighOf(g)
             low == LowOf(g)
             nb == fillBuckets(b, t + 1, low)
             value(i) == pairValue(high[i], nb[HcSig(i)])
             Pairs == {p \in Present(high) \X Present(low) : HcSig(p[1]) = LcSig(p[2])}
  <1>1. e = IF Present(high) = {} THEN [b |-> b, vec |-> {}, err |-> FALSE]
            ELSE IF lowCardCollision(b, t + 1, low) \/ highCardCollision(nb, t + 1, high)
            THEN [b |-> nb, vec |-> {}, err |-> TRUE]
            ELSE [b |-> markUsed(nb, t + 1, high), vec |-> pairings(nb, t + 1, high), err |-> FALSE]
    BY Zenon DEF execArithmetic, HighOf, LowOf
  <1>2. /\ DOMAIN high = DOMAIN High /\ DOMAIN low = DOMAIN Low
        /\ \A i \in DOMAIN High : high[i] = None \/ high[i].k \in {"f", "h"}
        /\ \A i \in DOMAIN Low : low[i] \in Samples /\ (low[i] = None \/ low[i].k \in {"f", "h"})
    BY SidesOfStep, Zenon
  <1>3. ExpectedJoin(g) =
          {x \in {[labels |-> resultMetric(High[p[1]], Low[p[2]]), from |-> <<HighSide, p[1]>>, val |-> Joined(p[1], p[2], g)]
                  : p \in Pairs} : x.val # None}
    BY Zenon DEF ExpectedJoin
  <1>4. e.err = FALSE
    <2>1. Judged(e, g, t + 1)
      BY ArithmeticRefuses
    <2> QED
      BY <2>1 DEF Judged
  <1>5. e.vec = IF Present(high) = {} THEN {} ELSE pairings(nb, t + 1, high)
    <2> HIDE DEF high, low, nb, value, Pairs
    <2>1. CASE Present(high) = {}
      <3>1. e = [b |-> b, vec |-> {}, err |-> FALSE]
        BY <1>1, <2>1, Zenon
      <3> QED
        BY <2>1, <3>1
    <2>2. CASE Present(high) # {} /\ (lowCardCollision(b, t + 1, low) \/ highCardCollision(nb, t + 1, high))
      <3>1. e = [b |-> nb, vec |-> {}, err |-> TRUE]
        BY <1>1, <2>2, Zenon
      <3> QED
        BY <1>4, <3>1
    <2>3. CASE Present(high) # {} /\ ~(lowCardCollision(b, t + 1, low) \/ highCardCollision(nb, t + 1, high))
      <3>1. e = [b |-> markUsed(nb, t + 1, high), vec |-> pairings(nb, t + 1, high), err |-> FALSE]
        BY <1>1, <2>3, Zenon
      <3> QED
        <4>1. e.vec = pairings(nb, t + 1, high)
          BY <3>1
        <4> QED
          BY <2>3, <4>1, Zenon
    <2> QED
      BY <2>1, <2>2, <2>3, Zenon
  <1>6. \A i, j \in Present(low) : Present(high) # {} /\ LcSig(i) = LcSig(j) => i = j
    BY Zenon DEF Ambiguous
  <1>7. /\ \A i \in Present(high) : i \in DOMAIN High /\ HcSig(i) \in Signatures /\ high[i].k \in {"f", "h"}
        /\ \A i \in Present(low) : i \in DOMAIN Low /\ low[i].k \in {"f", "h"}
    <2> HIDE DEF high, low
    <2> QED
      BY <1>2, SignaturesOfSeries DEF Present
  <1>8. q.card = "one_to_many" => /\ \A i \in Present(high) : high[i].k = "f"
                                  /\ \A i \in Present(low) : low[i].k = "f"
    <2> SUFFICES ASSUME q.card = "one_to_many"
                 PROVE  /\ \A i \in Present(high) : high[i].k = "f"
                        /\ \A i \in Present(low) : low[i].k = "f"
      BY Zenon
    <2>1. high = g.r /\ low = g.l
      BY DEF HighOf, LowOf
    <2>2. \A v \in Range(g.l) \cup Range(g.r) : v.k # "h"
      BY Zenon DEF Swapped
    <2> HIDE DEF high, low
    <2>3. /\ \A i \in Present(high) : high[i] \in Range(g.r)
          /\ \A i \in Present(low) : low[i] \in Range(g.l)
      BY <2>1, Zenon DEF Present, Range
    <2> QED
      BY <1>7, <2>2, <2>3, Zenon
  <1>9. \A j \in Present(low) : low[j].k = "f" => b[LcSig(j)].hist = None
    OBVIOUS
  <1>10. \A i, j : Joined(i, j, g) = Sided(high[i], low[j])
    BY DEF Joined, Sided
  <1> HIDE DEF high, low
  <1>11. /\ Filled(nb, b, t + 1, low)
         /\ \A s \in Signatures : nb[s].ats = t + 1 <=> \E i \in Present(low) : LcSig(i) = s
    <2> HIDE DEF nb
    <2>1. t + 1 \in Int
      OBVIOUS
    <2>2. b \in [Signatures -> Bucket]
      BY DEF BucketsUpTo
    <2>3. DOMAIN low = DOMAIN Low /\ \A i \in DOMAIN Low : low[i] \in Samples
      BY <1>2, Zenon
    <2>4. nb = fillBuckets(b, t + 1, low)
      BY Zenon DEF nb
    <2>5. Filled(nb, b, t + 1, low)
      BY <2>1, <2>2, <2>3, <2>4, FilledBuckets, Zenon
    <2>6. OfStep(nb, b, t + 1, low)
      BY <2>3, <2>4, StepBuckets, Zenon
    <2> QED
      BY <2>5, <2>6 DEF OfStep
  <1> HIDE DEF nb
  (* A match has one low card sample, and its bucket holds it. *)
  <1>12. ASSUME NEW i \in matched(nb, t + 1, high)
         PROVE  /\ i \in Present(high)
                /\ nb[HcSig(i)].sid \in Present(low) /\ LcSig(nb[HcSig(i)].sid) = HcSig(i)
                /\ value(i) = Joined(i, nb[HcSig(i)].sid, g)
    <2> DEFINE s == HcSig(i)
               jp == nb[s]
               j == jp.sid
    <2>1. i \in Present(high) /\ s \in Signatures /\ high[i].k \in {"f", "h"} /\ jp.ats = t + 1
      BY <1>7 DEF matched, matches
    <2>2. \E k \in Present(low) : LcSig(k) = s
      BY <1>11, <2>1, Zenon
    <2>3. /\ j \in Present(low) /\ LcSig(j) = s
          /\ low[j].k = "f" => jp.val = low[j] /\ jp.hist = b[s].hist
          /\ low[j].k # "f" => jp.hist = low[j]
      BY <1>11, <2>1, <2>2, Zenon DEF Filled
    <2> HIDE DEF s, jp, j
    <2>4. low[j].k \in {"f", "h"}
      BY <1>7, <2>3, Zenon
    <2>5. low[j].k = "f" => jp.val = low[j] /\ jp.hist = None
      BY <1>9, <2>3
    <2>6. low[j].k = "h" => jp.hist = low[j]
      BY <2>3
    <2>7. q.card = "one_to_many" => high[i].k = "f" /\ low[j].k = "f"
      BY <1>8, <2>1, <2>3, Zenon
    <2>8. pairValue(high[i], jp) = Sided(high[i], low[j])
      <3> DEFINE v == high[i]
                 w == low[j]
      <3>1. /\ v.k \in {"f", "h"} /\ w.k \in {"f", "h"}
            /\ w.k = "f" => jp.val = w /\ jp.hist = None
            /\ w.k = "h" => jp.hist = w
            /\ q.card = "one_to_many" => v.k = "f" /\ w.k = "f"
        BY <2>1, <2>4, <2>5, <2>6, <2>7, Zenon
      <3> HIDE DEF v, w
      <3>2. pairValue(v, jp) = Sided(v, w)
        BY <3>1, PairValue
      <3> QED
        BY <3>2 DEF v, w
    <2>9. value(i) = Joined(i, j, g)
      BY <1>10, <2>8, Zenon DEF jp, s
    <2> QED
      BY <2>1, <2>3, <2>9, Zenon DEF s, jp, j
  <1>13. \A i, j : <<i, j>> \in Pairs => i \in matched(nb, t + 1, high) /\ nb[HcSig(i)].sid = j
    <2> SUFFICES ASSUME NEW i, NEW j, <<i, j>> \in Pairs
                 PROVE  i \in matched(nb, t + 1, high) /\ nb[HcSig(i)].sid = j
      BY Zenon
    <2>1. i \in Present(high) /\ j \in Present(low) /\ LcSig(j) = HcSig(i)
      BY Zenon
    <2>2. i \in matched(nb, t + 1, high)
      BY <1>7, <1>11, <2>1, Zenon DEF matched, matches
    <2> QED
      BY <1>6, <1>12, <2>1, <2>2, Zenon
  <1> DEFINE x(i) == pairing(nb, i, high[i])
             z(p) == [labels |-> resultMetric(High[p[1]], Low[p[2]]), from |-> <<HighSide, p[1]>>, val |-> Joined(p[1], p[2], g)]
  <1>14. \A i : x(i).from = <<HighSide, i>> /\ x(i).val = value(i)
    BY DEF pairing
  <1>15. \A p : z(p).from = <<HighSide, p[1]>> /\ z(p).val = Joined(p[1], p[2], g)
    BY Zenon
  <1>16. Present(high) # {} => e.vec = {y \in {x(i) : i \in matched(nb, t + 1, high)} : y.val # None}
    BY <1>5, Zenon DEF pairings
  <1>17. ExpectedJoin(g) = {y \in {z(p) : p \in Pairs} : y.val # None}
    BY <1>3, Zenon
  <1>18. \A p \in Pairs : p = <<p[1], p[2]>> /\ p[1] \in Present(high)
    <2>1. \A p \in Present(high) \X Present(low) : p = <<p[1], p[2]>> /\ p[1] \in Present(high)
      OBVIOUS
    <2>2. Pairs \subseteq Present(high) \X Present(low)
      BY Zenon
    <2> HIDE DEF Pairs
    <2> QED
      BY <2>1, <2>2
  <1>19. \A i \in matched(nb, t + 1, high) : <<i, nb[HcSig(i)].sid>> \in Pairs
    BY <1>12, Zenon
  <1> HIDE DEF x, z, Pairs, value
  <1>20. CASE Present(high) = {}
    <2>1. Pairs = {} /\ e.vec = {}
      BY <1>5, <1>18, <1>20
    <2> QED
      BY <1>17, <2>1, Zenon DEF Yields, Unlabelled
  <1>21. CASE Present(high) # {}
    <2> DEFINE M == matched(nb, t + 1, high)
               sid(i) == nb[HcSig(i)].sid
    <2>1. \A y : y \in Unlabelled(e.vec) <=>
            \E i \in M : value(i) # None /\ y = [from |-> <<HighSide, i>>, val |-> value(i)]
      BY <1>14, <1>16, <1>21, Zenon DEF Unlabelled
    <2>2. \A y : y \in Unlabelled(ExpectedJoin(g)) <=>
            \E p \in Pairs : /\ Joined(p[1], p[2], g) # None
                             /\ y = [from |-> <<HighSide, p[1]>>, val |-> Joined(p[1], p[2], g)]
      BY <1>15, <1>17, Zenon DEF Unlabelled
    <2>3. \A p \in Pairs : p[1] \in M /\ sid(p[1]) = p[2]
      BY <1>13, <1>18
    <2>4. \A i \in M : value(i) = Joined(i, sid(i), g) /\ <<i, sid(i)>> \in Pairs
      BY <1>12, <1>19, Zenon
    <2> HIDE DEF M, sid
    <2>5. ASSUME NEW y, y \in Unlabelled(e.vec)
          PROVE  y \in Unlabelled(ExpectedJoin(g))
      <3>1. PICK i \in M : value(i) # None /\ y = [from |-> <<HighSide, i>>, val |-> value(i)]
        BY <2>1, <2>5, Zenon
      <3> DEFINE p == <<i, sid(i)>>
      <3>2. p \in Pairs /\ p[1] = i /\ p[2] = sid(i) /\ value(i) = Joined(i, sid(i), g)
        BY <2>4, Zenon
      <3> HIDE DEF p
      <3> QED
        BY <2>2, <3>1, <3>2, Zenon
    <2>6. ASSUME NEW y, y \in Unlabelled(ExpectedJoin(g))
          PROVE  y \in Unlabelled(e.vec)
      <3>1. PICK p \in Pairs : /\ Joined(p[1], p[2], g) # None
                               /\ y = [from |-> <<HighSide, p[1]>>, val |-> Joined(p[1], p[2], g)]
        BY <2>2, <2>6, Zenon
      <3>2. p[1] \in M /\ value(p[1]) = Joined(p[1], p[2], g)
        BY <2>3, <2>4, Zenon
      <3> QED
        BY <2>1, <3>1, <3>2, Zenon
    <2> QED
      BY <2>5, <2>6, Zenon DEF Yields, Unlabelled
  <1> QED
    BY <1>20, <1>21

(* The histogram in bucket s of nb was there in b or is of the step g. *)
HistogramOf(nb, b, g, s) ==
  \/ nb[s].hist = b[s].hist
  \/ \E i \in Present(LowOf(g)) : LcSig(i) = s /\ LowOf(g)[i].k = "h"

(* What a step leaves in the buckets: a histogram that was there or one of   *)
(* this step.                                                                *)
LEMMA StepHistograms ==
  ASSUME q \in Queries, ~IsScalar, Tabled, NEW t \in Int, NEW b, BucketsUpTo(b, t),
         NEW l \in Vectors("lhs"), NEW r \in Vectors("rhs"),
         NEW e, e = execBinaryOperation(b, t + 1, l, r), NEW g, g = [l |-> l, r |-> r],
         NEW s \in Signatures
  PROVE  HistogramOf(e.b, b, g, s)
  <1>1. b \in [Signatures -> Bucket]
    BY DEF BucketsUpTo
  <1>2. CASE IsSetOp
    <2> DEFINE marks == IF q.op = "or" THEN {HcSig(i) : i \in Present(l)} ELSE {LcSig(i) : i \in Present(r)}
    <2>1. e.b = MarkAt(b, marks, t + 1)
      BY <1>2, Zenon DEF execBinaryOperation, execSetOp
    <2> HIDE DEF marks
    <2>2. e.b[s] = IF s \in marks THEN [b[s] EXCEPT !.ats = t + 1] ELSE b[s]
      BY <1>1, <2>1 DEF MarkAt
    <2>3. b[s] \in Bucket
      BY <1>1
    <2> QED
      BY <2>2, <2>3 DEF Bucket, HistogramOf
  <1>3. CASE ~IsSetOp
    <2> DEFINE high == HighOf(g)
               low == LowOf(g)
               nb == fillBuckets(b, t + 1, low)
    <2>1. e.b \in {b, nb, markUsed(nb, t + 1, high)}
      BY <1>3, Zenon DEF execBinaryOperation, execArithmetic, HighOf, LowOf
    <2>2. /\ DOMAIN low = DOMAIN Low
          /\ \A i \in DOMAIN Low : low[i] \in Samples /\ (low[i] = None \/ low[i].k \in {"f", "h"})
      BY SidesOfStep, Zenon
    <2> HIDE DEF high, low
    <2>3. Filled(nb, b, t + 1, low)
      <3>1. t + 1 \in Int /\ \A i \in DOMAIN Low : low[i] \in Samples
        BY <2>2
      <3> QED
        BY <1>1, <2>2, <3>1, FilledBuckets, Zenon
    <2> HIDE DEF nb
    <2>4. nb[s] \in Bucket /\ nb \in [Signatures -> Bucket]
      BY <2>3, Zenon DEF Filled
    <2>5. markUsed(nb, t + 1, high)[s].hist = nb[s].hist
      <3> DEFINE u == \E i \in matched(nb, t + 1, high) : HcSig(i) = s
      <3>1. markUsed(nb, t + 1, high)[s] = IF u THEN [nb[s] EXCEPT !.bts = t + 1] ELSE nb[s]
        BY <2>4 DEF markUsed
      <3> HIDE DEF u
      <3> QED
        BY <2>4, <3>1 DEF Bucket
    <2>6. nb[s].hist = b[s].hist \/ \E i \in Present(low) : LcSig(i) = s /\ low[i].k = "h"
      <3>1. \A i \in Present(low) : low[i].k \in {"f", "h"}
        BY <2>2, Zenon DEF Present
      <3>2. CASE \E i \in Present(low) : LcSig(i) = s
        <4>1. /\ nb[s].sid \in Present(low) /\ LcSig(nb[s].sid) = s
              /\ low[nb[s].sid].k = "f" => nb[s].hist = b[s].hist
          BY <2>3, <3>2, Zenon DEF Filled
        <4> QED
          BY <3>1, <4>1, Zenon
      <3>3. CASE ~\E i \in Present(low) : LcSig(i) = s
        <4>1. nb[s] = b[s]
          BY <2>3, <3>3, Zenon DEF Filled
        <4> QED
          BY <4>1, Zenon
      <3> QED
        BY <3>2, <3>3, Zenon
    <2> QED
      BY <2>1, <2>5, <2>6, Zenon DEF low, HistogramOf
  <1> QED
    BY <1>2, <1>3

(* A step of the operator is judged and valued by its own samples. *)
LEMMA StepExecuted ==
  ASSUME q \in Queries, ~IsScalar => Tabled, NEW t \in Int, NEW b, BucketsUpTo(b, t),
         NEW l \in Vectors("lhs"), NEW r \in Vectors("rhs"),
         NEW e, e = execBinaryOperation(b, t + 1, l, r), NEW g, g = [l |-> l, r |-> r]
  PROVE  /\ Judged(e, g, t + 1)
         /\ \/ Ambiguous(g)
            \/ ~IsScalar /\ ~IsSetOp /\ Swapped(g)
            \/ /\ ~IsScalar /\ ~IsSetOp
               /\ \E j \in Present(LowOf(g)) : LowOf(g)[j].k = "f" /\ b[LcSig(j)].hist # None
            \/ Yields(e, Expected(g))
  <1>1. CASE IsScalar
    <2>1. e = execScalar(b, l, r)
      BY <1>1 DEF execBinaryOperation
    <2>2. Judged(e, g, t + 1) /\ Yields(e, ExpectedScalar(g))
      BY <1>1, <2>1, ScalarStep
    <2>3. Expected(g) = ExpectedScalar(g)
      BY <1>1 DEF Expected
    <2> QED
      BY <2>2, <2>3
  <1>2. CASE ~IsScalar /\ IsSetOp
    <2>1. e = execSetOp(b, t + 1, l, r)
      BY <1>2 DEF execBinaryOperation
    <2>2. q.card # "one_to_many"
      BY <1>2, QueriesAssumption DEF IsSetOp
    <2>3. Judged(e, g, t + 1) /\ Yields(e, ExpectedSet(g))
      BY <1>2, <2>1, <2>2, SetStep
    <2>4. Expected(g) = ExpectedSet(g)
      BY <1>2 DEF Expected
    <2> QED
      BY <2>3, <2>4
  <1>3. CASE ~IsScalar /\ ~IsSetOp
    <2>1. e = execArithmetic(b, t + 1, l, r)
      BY <1>3 DEF execBinaryOperation
    <2>2. Judged(e, g, t + 1)
      BY <1>3, <2>1, ArithmeticRefuses
    <2>3. Expected(g) = ExpectedJoin(g)
      BY <1>3 DEF Expected
    <2>4. ASSUME ~Ambiguous(g), ~Swapped(g),
                 \A j \in Present(LowOf(g)) : LowOf(g)[j].k = "f" => b[LcSig(j)].hist = None
          PROVE  Yields(e, ExpectedJoin(g))
      BY <1>3, <2>1, <2>4, ArithmeticValues, Zenon
    <2> QED
      BY <1>3, <2>2, <2>3, <2>4, Zenon
  <1> QED
    BY <1>1, <1>2, <1>3, Zenon

-----------------------------------------------------------------------------
(* Sequences of whatever values: the step vectors that Next returns. *)
IsSeq(s) == \E S : s \in Seq(S)

(* The batch and the output of Next have a length. *)
LEMMA SeqLength ==
  ASSUME NEW s, IsSeq(s)
  PROVE  Len(s) \in Nat /\ DOMAIN s = 1..Len(s) /\ (Len(s) = 0 <=> s = <<>>)
  <1>1. PICK S : s \in Seq(S)
    BY DEF IsSeq
  <1> QED
    BY <1>1

(* Append adds one step vector at the end of the batch and moves no other. *)
LEMMA Appending ==
  ASSUME NEW s, IsSeq(s), NEW x
  PROVE  /\ IsSeq(Append(s, x)) /\ Len(Append(s, x)) = Len(s) + 1
         /\ \A i \in 1..Len(s) : Append(s, x)[i] = s[i]
         /\ Append(s, x)[Len(s) + 1] = x
  <1>1. PICK S : s \in Seq(S)
    BY DEF IsSeq
  <1> DEFINE T == S \cup {x}
  <1>2. s \in Seq(T) /\ x \in T
    BY <1>1
  <1> HIDE DEF T
  <1>3. Append(s, x) \in Seq(T)
    BY <1>2
  <1> QED
    BY <1>2, <1>3 DEF IsSeq

(* Next hands out the batch after the steps it handed out before. *)
LEMMA Concatenating ==
  ASSUME NEW s, IsSeq(s), NEW t, IsSeq(t)
  PROVE  /\ IsSeq(s \o t) /\ Len(s \o t) = Len(s) + Len(t)
         /\ \A i \in 1..(Len(s) + Len(t)) : (s \o t)[i] = IF i <= Len(s) THEN s[i] ELSE t[i - Len(s)]
  <1>1. PICK S, T : s \in Seq(S) /\ t \in Seq(T)
    BY DEF IsSeq
  <1> DEFINE U == S \cup T
  <1>2. s \in Seq(U) /\ t \in Seq(U)
    BY <1>1
  <1> HIDE DEF U
  <1>3. s \o t \in Seq(U)
    BY <1>2
  <1> QED
    BY <1>2, <1>3 DEF IsSeq

-----------------------------------------------------------------------------
(* The variables have their types. *)
Types ==
  /\ q \in Queries /\ known \subseteq Sides /\ pending \subseteq Sides /\ failed \subseteq Sides
  /\ pc \in {"init", "idle", "read", "done", "failed", "ambiguous"} /\ errChan \in {"empty", "error", "closed"}
  /\ pos \in [Sides -> 0..NumSteps]
  /\ DOMAIN buf = Sides /\ \A s \in Sides : buf[s] \in Seq(Vectors(s))
  /\ DOMAIN delivered = Sides /\ \A s \in Sides : delivered[s] \in Seq(Vectors(s))
  /\ given \in Seq(StepPairs) /\ IsSeq(batch) /\ IsSeq(out)

(* Next is called after Series has returned, and a child that has failed is  *)
(* not running.                                                              *)
Calls ==
  /\ pc \in {"idle", "read"} \/ pending # {} => Asked \subseteq known
  /\ pending \cap failed = {}

(* The children deliver the steps that follow those returned; a child is     *)
(* running only in a call of Next before it joins steps, or is left behind   *)
(* by a call that panicked; and the channel tells whether lhs is running.    *)
Control ==
  /\ Calls
  /\ pc \notin {"read", "failed"} => pending = {}
  /\ "lhs" \in pending => errChan = "empty"
  /\ pending # {} => batch = <<>>
  /\ pc = "init" => given = <<>>
  /\ pc \in {"init", "idle"} => batch = <<>> /\ \A s \in Sides : pos[s] = Len(out)
  /\ pc = "idle" => failed = {}
  /\ pc = "read" => \A s \in Sides :
       /\ s \in pending => pos[s] = Len(out)
       /\ s \notin pending /\ s \notin failed =>
            pos[s] = Len(out) + Len(buf[s]) /\ Len(buf[s]) = Min2(StepsBatch, NumSteps - Len(out))
  /\ pc = "read" /\ batch # <<>> => Joining /\ Len(batch) <= StepsRead
  /\ Len(given) = Len(out) + Len(batch) + (IF pc = "ambiguous" THEN 1 ELSE 0)
  /\ Len(given) <= NumSteps

(* Before the first call of Series or Next there is no step and no bucket use. *)
LEMMA TypesInit == Init => Types /\ Control
  <1> SUFFICES ASSUME Init
               PROVE  Types /\ Control
    OBVIOUS
  <1>1. IsSeq(<<>>) /\ <<>> \in Seq(StepPairs) /\ \A s \in Sides : <<>> \in Seq(Vectors(s))
    <2>1. \A S : <<>> \in Seq(S)
      OBVIOUS
    <2> QED
      BY <2>1 DEF IsSeq
  <1>2. Types
    BY <1>1, BatchAssumption DEF Init, Types
  <1>3. Control
    BY BatchAssumption DEF Init, Control, Calls
  <1> QED
    BY <1>2, <1>3

(* Every action of the operator, its callers and its children keeps the types. *)
LEMMA TypesStep == Types /\ Control /\ [Next]_vars => Types'
  <1> SUFFICES ASSUME Types, Control, [Next]_vars
               PROVE  Types'
    OBVIOUS
  <1>1. q' = q
    BY Zenon DEF Next, vars, SeriesReturns, ChildReturns, ChildFails, LhsSends, RhsPanics, InitFails, InitReturns,
           NextCalled, ContextDone, NextFails, NextEnds, JoinStep, NextReturns, Stopped
  <1>2. (\A s \in Sides : Vectors(s)' = Vectors(s)) /\ StepPairs' = StepPairs
    BY <1>1 DEF StepPairs, Vectors, Asked, IsScalar
  <1>3. ASSUME UNCHANGED <<pos, buf, delivered, given, batch, out>>, known' \subseteq Sides, pending' \subseteq Sides,
               failed' \subseteq Sides, pc' \in {"init", "idle", "read", "done", "failed", "ambiguous"},
               errChan' \in {"empty", "error", "closed"}
        PROVE  Types'
    BY <1>1, <1>2, <1>3 DEF Types
  <1>4. ASSUME NEW s \in Sides, SeriesReturns(s)
        PROVE  Types'
    BY <1>3, <1>4 DEF SeriesReturns, Closed, Types
  <1>5. ASSUME NEW s \in Sides, ChildReturns(s)
        PROVE  Types'
    <2> DEFINE n == Min2(StepsBatch, NumSteps - pos[s])
    <2>1. PICK b \in [1..n -> Vectors(s)] : /\ buf' = [buf EXCEPT ![s] = b] /\ pos' = [pos EXCEPT ![s] = @ + n]
                                            /\ delivered' = [delivered EXCEPT ![s] = @ \o b]
      BY <1>5, Zenon DEF ChildReturns
    <2>2. pos[s] \in 0..NumSteps
      BY DEF Types
    <2>3. n \in 0..(NumSteps - pos[s])
      BY <2>2, BatchAssumption DEF Min2
    <2> HIDE DEF n
    <2>4. b \in Seq(Vectors(s))
      <3>1. n \in Nat
        BY <2>2, <2>3, BatchAssumption
      <3> QED
        BY <3>1
    <2>5. pos' \in [Sides -> 0..NumSteps]
      <3>1. pos[s] + n \in 0..NumSteps
        BY <2>2, <2>3, BatchAssumption
      <3> QED
        BY <2>1, <3>1 DEF Types
    <2>6. DOMAIN buf' = Sides /\ \A x \in Sides : buf'[x] \in Seq(Vectors(x)')
      BY <1>2, <2>1, <2>4 DEF Types
    <2>7. /\ UNCHANGED <<known, failed, given, batch, out, pc>> /\ pending' \subseteq Sides
          /\ errChan' \in {"empty", "error", "closed"}
      BY <1>5 DEF ChildReturns, Closed, Types
    <2>8. DOMAIN delivered' = Sides /\ \A x \in Sides : delivered'[x] \in Seq(Vectors(x)')
      BY <1>2, <2>1, <2>4 DEF Types
    <2> QED
      BY <1>1, <1>2, <2>5, <2>6, <2>7, <2>8, Zenon DEF Types
  <1>6. ASSUME NEW s \in Sides, ChildFails(s)
        PROVE  Types'
    BY <1>3, <1>6 DEF ChildFails, Types
  <1>11. CASE LhsSends \/ RhsPanics
    BY <1>3, <1>11 DEF LhsSends, RhsPanics, Types
  <1>7. CASE InitFails \/ InitReturns \/ NextCalled \/ ContextDone \/ NextFails \/ NextEnds
    BY <1>3, <1>7, Zenon DEF InitFails, InitReturns, NextCalled, ContextDone, NextFails, NextEnds, Types
  <1>8. CASE JoinStep
    <2> DEFINE l == buf["lhs"][Len(batch) + 1]
               r == buf["rhs"][Len(batch) + 1]
               e == execBinaryOperation(buckets, StepTime(Len(given) + 1), l, r)
    <2>1. l \in Vectors("lhs") /\ r \in Vectors("rhs")
      <3>1. Len(batch) \in Nat
        BY SeqLength DEF Types
      <3>2. buf["lhs"] \in Seq(Vectors("lhs")) /\ buf["rhs"] \in Seq(Vectors("rhs"))
        BY DEF Types, Sides
      <3>3. Len(batch) < StepsRead
        BY <1>8 DEF JoinStep
      <3>4. Len(buf["lhs"]) \in Nat /\ Len(buf["rhs"]) \in Nat
        BY <3>2
      <3>5. Len(batch) < Len(buf["lhs"]) /\ Len(batch) < Len(buf["rhs"])
        BY <3>1, <3>3, <3>4 DEF StepsRead, Min2
      <3> QED
        BY <3>1, <3>2, <3>5
    <2>2. /\ given' = Append(given, [l |-> l, r |-> r])
          /\ (pc' = "ambiguous" /\ batch' = batch) \/ (batch' = Append(batch, e.vec) /\ pc' = pc)
          /\ UNCHANGED <<known, pos, buf, delivered, pending, failed, errChan, out>>
      BY <1>8 DEF JoinStep
    <2> HIDE DEF l, r, e
    <2>3. given' \in Seq(StepPairs)
      <3>1. [l |-> l, r |-> r] \in StepPairs
        BY <2>1 DEF StepPairs
      <3>2. \A S, x, y : x \in Seq(S) /\ y \in S => Append(x, y) \in Seq(S)
        OBVIOUS
      <3> QED
        BY <2>2, <3>1, <3>2, Zenon DEF Types
    <2>4. IsSeq(batch')
      <3>1. IsSeq(batch)
        BY DEF Types
      <3>2. IsSeq(Append(batch, e.vec))
        BY <3>1, Appending
      <3> QED
        BY <2>2, <3>1, <3>2, Zenon
    <2> QED
      BY <1>1, <1>2, <2>2, <2>3, <2>4 DEF Types
  <1>9. CASE NextReturns
    <2>1. /\ pc' = "idle" /\ out' = out \o batch /\ batch' = <<>>
          /\ UNCHANGED <<known, pos, buf, delivered, pending, failed, errChan, given>>
      BY <1>9 DEF NextReturns
    <2>2. IsSeq(out \o batch)
      BY Concatenating DEF Types
    <2>3. <<>> \in Seq({})
      OBVIOUS
    <2>4. IsSeq(<<>>)
      BY <2>3 DEF IsSeq
    <2> QED
      BY <1>1, <1>2, <2>1, <2>2, <2>4 DEF Types
  <1>10. CASE UNCHANGED vars
    BY <1>1, <1>3, <1>10 DEF vars, Types
  <1> QED
    BY <1>4, <1>5, <1>6, <1>7, <1>8, <1>9, <1>10, <1>11 DEF Next, Stopped

(* No call of Next starts before Series has returned, nor after an error.     *)
LEMMA CallsStep == Types /\ Control /\ [Next]_vars => Calls'
  <1> SUFFICES ASSUME Types, Control, [Next]_vars
               PROVE  Calls'
    OBVIOUS
  <1>1. q' = q
    BY Zenon DEF Next, vars, SeriesReturns, ChildReturns, ChildFails, LhsSends, RhsPanics, InitFails, InitReturns,
           NextCalled, ContextDone, NextFails, NextEnds, JoinStep, NextReturns, Stopped
  <1>2. Asked' = Asked
    BY <1>1, Zenon DEF Asked
  <1>3. Calls /\ (pc = "idle" => failed = {}) /\ (pc \notin {"read", "failed"} => pending = {})
    BY DEF Control
  <1>4. ASSUME known \subseteq known', pending' \subseteq pending, pending' \cap failed' = {},
               pc' \in {"idle", "read"} => pc \in {"idle", "read"}
        PROVE  Calls'
    BY <1>2, <1>3, <1>4 DEF Calls
  <1>5. ASSUME NEW s \in Sides, SeriesReturns(s)
        PROVE  Calls'
    <2>1. /\ pc \in {"init", "failed"} /\ s \in Asked /\ s \notin known /\ known' = known \cup {s}
          /\ pending' = pending /\ pc' = pc
      BY <1>5 DEF SeriesReturns
    <2>2. pending = {}
      BY <1>3, <2>1 DEF Calls
    <2> QED
      BY <2>1, <2>2 DEF Calls
  <1>6. ASSUME NEW s \in Sides, ChildReturns(s)
        PROVE  Calls'
    <2>1. pending' = pending \ {s} /\ UNCHANGED <<known, failed, pc>>
      BY <1>6, Zenon DEF ChildReturns
    <2> QED
      BY <1>3, <1>4, <2>1 DEF Calls
  <1>7. ASSUME NEW s \in Sides, ChildFails(s)
        PROVE  Calls'
    BY <1>3, <1>4, <1>7 DEF ChildFails, Calls
  <1>8. CASE LhsSends \/ RhsPanics
    BY <1>3, <1>4, <1>8 DEF LhsSends, RhsPanics, Calls
  <1>9. CASE InitFails \/ ContextDone \/ NextFails \/ NextEnds
    BY <1>3, <1>4, <1>9 DEF InitFails, ContextDone, NextFails, NextEnds, Calls
  <1>10. CASE InitReturns
    BY <1>2, <1>3, <1>10 DEF InitReturns, Calls
  <1>11. CASE NextCalled
    BY <1>2, <1>3, <1>11 DEF NextCalled, Calls
  <1>12. CASE JoinStep \/ NextReturns
    <2>1. UNCHANGED <<known, pending, failed>> /\ pc = "read"
      BY <1>12, Zenon DEF JoinStep, NextReturns, Joining
    <2> QED
      BY <1>3, <1>4, <2>1 DEF Calls
  <1>13. CASE UNCHANGED vars
    BY <1>3, <1>4, <1>13 DEF vars, Calls
  <1> QED
    BY <1>5, <1>6, <1>7, <1>8, <1>9, <1>10, <1>11, <1>12, <1>13 DEF Next, Stopped

(* Every action keeps the two children at the same step, and what was read in   *)
(* step with what was joined.                                                   *)
LEMMA ControlStep == Types /\ Control /\ [Next]_vars => Control'
  <1> SUFFICES ASSUME Types, Control, [Next]_vars
               PROVE  Control'
    OBVIOUS
  <1>1. /\ Len(out) \in Nat /\ Len(batch) \in Nat /\ Len(given) \in Nat
        /\ Len(batch) = 0 <=> batch = <<>>
    BY SeqLength DEF Types
  <1>17. Calls'
    BY CallsStep
  <1>2. ASSUME NEW s \in Sides, SeriesReturns(s)
        PROVE  Control'
    <2>1. /\ pc \in {"init", "failed"} /\ s \in Asked /\ s \notin known
          /\ UNCHANGED <<pos, buf, pending, given, batch, out, pc>>
      BY <1>2 DEF SeriesReturns
    <2>2. pending = {}
      BY <2>1 DEF Control, Calls
    <2> QED
      BY <1>17, <2>1, <2>2 DEF Control
  <1>3. ASSUME NEW s \in Sides, ChildReturns(s)
        PROVE  Control'
    <2> DEFINE n == Min2(StepsBatch, NumSteps - pos[s])
    <2>1. PICK b \in [1..n -> Vectors(s)] : buf' = [buf EXCEPT ![s] = b] /\ pos' = [pos EXCEPT ![s] = @ + n]
      BY <1>3, Zenon DEF ChildReturns
    <2>2. /\ s \in pending /\ pending' = pending \ {s}
          /\ UNCHANGED <<q, known, tables, buckets, failed, given, batch, out, pc>>
      BY <1>3 DEF ChildReturns
    <2>9. "lhs" \in pending' => errChan' = "empty"
      BY <1>3 DEF ChildReturns, Closed, Control
    <2>10. pc \in {"read", "failed"} /\ batch = <<>>
      BY <2>2 DEF Control
    <2>11. CASE pc = "failed"
      BY <1>17, <2>2, <2>9, <2>10, <2>11 DEF Control
    <2> SUFFICES ASSUME pc = "read" PROVE Control'
      BY <2>10, <2>11
    <2>3. pc = "read" /\ batch = <<>> /\ pos[s] = Len(out)
      BY <2>2 DEF Control
    <2>4. n \in Nat
      <3>1. pos[s] \in 0..NumSteps
        BY DEF Types
      <3> QED
        BY <3>1, BatchAssumption DEF Min2
    <2>5. pos'[s] = Len(out) + n /\ n = Min2(StepsBatch, NumSteps - Len(out))
      BY <2>1, <2>3 DEF Types
    <2> HIDE DEF n
    <2>6. buf'[s] = b /\ Len(b) = n
      BY <2>1, <2>4 DEF Types
    <2>7. \A x \in Sides \ {s} : pos'[x] = pos[x] /\ buf'[x] = buf[x]
      BY <2>1 DEF Types
    <2>8. \A x \in Sides :
            /\ x \in pending' => pos'[x] = Len(out)
            /\ x \notin pending' /\ x \notin failed =>
                 pos'[x] = Len(out) + Len(buf'[x]) /\ Len(buf'[x]) = Min2(StepsBatch, NumSteps - Len(out))
      BY <2>2, <2>3, <2>5, <2>6, <2>7, Zenon DEF Control
    <2> QED
      BY <1>17, <2>2, <2>3, <2>8, <2>9, Zenon DEF Control, Min2
  <1>4. ASSUME NEW s \in Sides, ChildFails(s)
        PROVE  Control'
    <2>1. /\ s \in pending /\ pending' = pending \ {s} /\ failed' = failed \cup {s}
          /\ UNCHANGED <<pos, buf, errChan, given, batch, out, pc>>
      BY <1>4 DEF ChildFails
    <2>2. pc \in {"read", "failed"} /\ batch = <<>>
      BY <2>1 DEF Control
    <2> QED
      BY <1>17, <2>1, <2>2 DEF Control, Min2
  <1>14. CASE LhsSends
    <2>1. /\ "lhs" \in failed /\ UNCHANGED <<pos, buf, pending, failed, given, batch, out, pc>>
      BY <1>14 DEF LhsSends
    <2>2. "lhs" \notin pending /\ failed # {}
      BY <2>1 DEF Control, Calls
    <2>3. pc = "read" => batch = <<>>
      BY <2>2 DEF Control, Joining
    <2> QED
      BY <1>17, <2>1, <2>2, <2>3 DEF Control, Min2
  <1>15. CASE RhsPanics
    BY <1>15, <1>17 DEF RhsPanics, Control
  <1>16. BothRead => pending = {}
    BY Zenon DEF BothRead, Control, Types, Sides
  <1>5. CASE InitFails
    BY <1>5, <1>17 DEF InitFails, Control
  <1>6. CASE InitReturns
    BY <1>6, <1>17 DEF InitReturns, Control
  <1>7. CASE NextCalled
    BY <1>7, <1>17 DEF NextCalled, Control
  <1>8. CASE ContextDone
    BY <1>8, <1>17 DEF ContextDone, Control
  <1>9. CASE NextFails
    BY <1>9, <1>16, <1>17 DEF NextFails, Control
  <1>10. CASE NextEnds
    BY <1>10, <1>16, <1>17 DEF NextEnds, Control
  <1>11. CASE JoinStep
    <2> DEFINE l == buf["lhs"][Len(batch) + 1]
               r == buf["rhs"][Len(batch) + 1]
               e == execBinaryOperation(buckets, StepTime(Len(given) + 1), l, r)
    <2>1. /\ pc = "read" /\ BothRead /\ pending = {} /\ failed = {} /\ \A s \in Sides : buf[s] # <<>>
          /\ Len(batch) < StepsRead
      BY <1>11, <1>16, Zenon DEF JoinStep, Joining
    <2>2. /\ given' = Append(given, [l |-> l, r |-> r])
          /\ (pc' = "ambiguous" /\ batch' = batch) \/ (batch' = Append(batch, e.vec) /\ pc' = pc)
          /\ UNCHANGED <<pos, buf, pending, failed, errChan, out>>
      BY <1>11, Zenon DEF JoinStep
    <2> HIDE DEF l, r, e
    <2>3. Len(given') = Len(given) + 1
      BY <2>2 DEF Types
    <2>4. Len(given) = Len(out) + Len(batch)
      BY <2>1 DEF Control
    <2>5. Len(given') <= NumSteps
      <3>1. pos["lhs"] = Len(out) + Len(buf["lhs"]) /\ pos["lhs"] \in 0..NumSteps
        BY <2>1 DEF Control, Types, Sides
      <3>2. Len(buf["lhs"]) \in Nat /\ Len(buf["rhs"]) \in Nat
        BY DEF Types, Sides
      <3>3. Len(batch) < Len(buf["lhs"])
        BY <1>1, <2>1, <3>2 DEF StepsRead, Min2
      <3> QED
        BY <1>1, <2>3, <2>4, <3>1, <3>2, <3>3, BatchAssumption
    <2>6. pending' = {} /\ failed' = {} /\ StepsRead' = StepsRead /\ \A s \in Sides : buf'[s] # <<>>
      BY <2>1, <2>2 DEF StepsRead
    <2>7. CASE pc' = "ambiguous" /\ batch' = batch
      <3>1. Len(given') = Len(out') + Len(batch') + 1
        BY <2>2, <2>3, <2>4, <2>7
      <3> QED
        BY <1>17, <2>5, <2>6, <2>7, <3>1 DEF Control
    <2>8. CASE batch' = Append(batch, e.vec) /\ pc' = pc
      <3>1. Len(batch') = Len(batch) + 1
        BY <2>8, Appending DEF Types
      <3>2. Len(given') = Len(out') + Len(batch') + 0
        BY <1>1, <2>2, <2>3, <2>4, <3>1
      <3>3. Len(batch') <= StepsRead'
        <4>1. StepsRead \in Nat
          BY DEF StepsRead, Min2, Types, Sides
        <4> QED
          BY <1>1, <2>1, <2>6, <3>1, <4>1
      <3>4. pc' = "read" /\ Joining'
        BY <2>1, <2>2, <2>6, <2>8 DEF Joining, BothRead
      <3>5. \A s \in Sides : /\ pos'[s] = Len(out') + Len(buf'[s])
                             /\ Len(buf'[s]) = Min2(StepsBatch, NumSteps - Len(out'))
        BY <2>1, <2>2 DEF Control
      <3> QED
        BY <1>17, <2>5, <2>6, <3>2, <3>3, <3>4, <3>5 DEF Control, Min2
    <2> QED
      BY <2>2, <2>7, <2>8
  <1>12. CASE NextReturns
    <2>1. /\ pc = "read" /\ pending = {} /\ failed = {} /\ Len(batch) = StepsRead
          /\ pc' = "idle" /\ out' = out \o batch /\ batch' = <<>>
          /\ UNCHANGED <<pos, buf, pending, failed, given>>
      BY <1>12, <1>16 DEF NextReturns, Joining
    <2>2. Len(out') = Len(out) + Len(batch) /\ Len(batch') = 0
      <3>1. Len(out \o batch) = Len(out) + Len(batch)
        BY Concatenating DEF Types
      <3> QED
        BY <2>1, <3>1
    <2>3. \A s \in Sides : pos[s] = Len(out) + Len(buf[s]) /\ Len(buf[s]) = Len(batch)
      <3>1. \A s \in Sides : /\ pos[s] = Len(out) + Len(buf[s])
                             /\ Len(buf[s]) = Min2(StepsBatch, NumSteps - Len(out))
        BY <2>1 DEF Control
      <3>2. StepsRead = Len(buf["lhs"]) /\ Len(buf["lhs"]) = Len(buf["rhs"])
        BY <3>1 DEF StepsRead, Min2, Sides
      <3> QED
        BY <2>1, <3>1, <3>2, Zenon DEF Sides
    <2>4. \A s \in Sides : pos'[s] = Len(out')
      BY <2>1, <2>2, <2>3, Zenon
    <2>5. Len(given') = Len(out') + Len(batch') + 0 /\ Len(given') <= NumSteps
      <3>1. Len(given) = Len(out) + Len(batch) /\ Len(given) <= NumSteps
        BY <2>1 DEF Control
      <3> QED
        BY <1>1, <2>1, <2>2, <3>1
    <2> QED
      BY <1>17, <2>1, <2>4, <2>5 DEF Control
  <1>13. CASE UNCHANGED vars
    BY <1>13, <1>17, Zenon DEF vars, Control, Joining, BothRead, StepsRead, Min2
  <1> QED
    BY <1>2, <1>3, <1>4, <1>5, <1>6, <1>7, <1>8, <1>9, <1>10, <1>11, <1>12, <1>13,
       <1>14, <1>15 DEF Next, Stopped

-----------------------------------------------------------------------------
(* What is expected of a step depends on the query and its tables only. *)
LEMMA SameSides ==
  ASSUME q' = q
  PROVE  /\ (IsScalar' <=> IsScalar) /\ (IsSetOp' <=> IsSetOp)
         /\ High' = High /\ Low' = Low /\ HighSide' = HighSide
         /\ \A g : HighOf(g)' = HighOf(g) /\ LowOf(g)' = LowOf(g)
  <1>1. (IsScalar' <=> IsScalar) /\ (IsSetOp' <=> IsSetOp)
    BY DEF IsScalar, IsSetOp
  <1>2. High' = High /\ Low' = Low /\ HighSide' = HighSide
    BY DEF High, Low, HighSide
  <1>3. \A g : HighOf(g)' = HighOf(g) /\ LowOf(g)' = LowOf(g)
    BY DEF HighOf, LowOf
  <1> QED
    BY <1>1, <1>2, <1>3

(* Neither do the signatures of the series. *)
LEMMA SameSignatures ==
  ASSUME q' = q
  PROVE  Signatures' = Signatures /\ Bucket' = Bucket /\ \A s : signature(s)' = signature(s)
  <1>1. \A s : signature(s)' = signature(s)
    BY DEF signature
  <1>2. Signatures' = Signatures
    BY <1>1 DEF Signatures
  <1>3. Bucket' = Bucket
    BY SameSides, Zenon DEF Bucket, Samples
  <1> QED
    BY <1>1, <1>2, <1>3

(* Nor what operation is applied to a pair of samples. *)
LEMMA SameOperations ==
  ASSUME q' = q
  PROVE  /\ \A hc, lc : resultMetric(hc, lc)' = resultMetric(hc, lc)
         /\ \A l, r : Applied(l, r)' = Applied(l, r)
         /\ \A g : Swapped(g)' <=> Swapped(g)
  <1>1. \A hc, lc : resultMetric(hc, lc)' = resultMetric(hc, lc)
    BY DEF resultMetric, shouldDropMetricName
  <1>2. \A e : Outcome(e)' = Outcome(e)
    BY DEF Outcome
  <1>3. \A l, r : Applied(l, r)' = Applied(l, r)
    BY <1>2 DEF Applied
  <1>4. \A g : Swapped(g)' <=> Swapped(g)
    BY DEF Swapped
  <1> QED
    BY <1>1, <1>3, <1>4

(* A call that joins nothing leaves the time stamps of the buckets as they were. *)
LEMMA SameBuckets ==
  ASSUME q' = q, buckets' = buckets, given' = given, BucketsUpTo(buckets, StepTime(Len(given)))
  PROVE  BucketsUpTo(buckets, StepTime(Len(given)))'
  BY SameSignatures DEF BucketsUpTo

(* The signature tables of initJoinTables decide which steps are ambiguous. *)
LEMMA SameTables ==
  ASSUME q' = q, tables' = tables
  PROVE  /\ Tabled' <=> Tabled
         /\ \A i : HcSig(i)' = HcSig(i) /\ LcSig(i)' = LcSig(i)
         /\ \A g : Ambiguous(g)' <=> Ambiguous(g)
  <1>1. \A i : HcSig(i)' = HcSig(i) /\ LcSig(i)' = LcSig(i)
    BY DEF HcSig, LcSig
  <1>2. Tabled' <=> Tabled
    <2>1. [i \in DOMAIN High |-> signature(High[i])]' = [i \in DOMAIN High |-> signature(High[i])]
      BY SameSides, SameSignatures
    <2>2. [i \in DOMAIN Low |-> signature(Low[i])]' = [i \in DOMAIN Low |-> signature(Low[i])]
      BY SameSides, SameSignatures
    <2> QED
      BY <2>1, <2>2, Zenon DEF Tabled
  <1>3. \A i, low : Partners(i, low)' = Partners(i, low)
    BY <1>1 DEF Partners
  <1>4. \A g : Ambiguous(g)' <=> Ambiguous(g)
    BY <1>1, <1>3, SameSides DEF Ambiguous
  <1> QED
    BY <1>1, <1>2, <1>4

(* The values expected of a pair of step vectors do not change. *)
LEMMA SameExpected ==
  ASSUME q' = q, tables' = tables
  PROVE  \A g : Expected(g)' = Expected(g)
  <1>1. \A i : HcSig(i)' = HcSig(i) /\ LcSig(i)' = LcSig(i)
    BY DEF HcSig, LcSig
  <1>2. \A i, low : Partners(i, low)' = Partners(i, low)
    BY <1>1 DEF Partners
  <1>3. \A g : ExpectedScalar(g)' = ExpectedScalar(g)
    <2>1. \A l, r : Applied(l, r)' = Applied(l, r)
      BY SameOperations
    <2> TAKE g
    <2> DEFINE left     == q.card = "scalar_left"
               v        == IF left THEN g.r ELSE g.l
               side     == IF left THEN "rhs" ELSE "lhs"
               applied(i) == IF left THEN Applied(g.l[1], v[i]) ELSE Applied(v[i], g.r[1])
               value(i) == IF applied(i) # None /\ IsComparison(q.op) /\ ~q.bool THEN v[i] ELSE applied(i)
               item(i)  == [labels |-> tables.series[i], from |-> <<side, i>>, val |-> value(i)]
               items    == {item(i) : i \in Present(v)}
    <2>2. v' = v /\ side' = side
      OBVIOUS
    <2>3. \A i : applied(i)' = applied(i)
      BY <2>1, <2>2, Zenon
    <2>4. \A i : value(i)' = value(i)
      <3> HIDE DEF v, applied
      <3> QED
        BY <2>2, <2>3, Zenon
    <2>5. \A i : item(i)' = item(i)
      BY <2>2, <2>4, Zenon
    <2>6. ExpectedScalar(g) = {e \in items : e.val # None} /\ ExpectedScalar(g)' = {e \in items' : e.val # None}
      BY Zenon DEF ExpectedScalar
    <2> HIDE DEF v, side, applied, value, item
    <2>7. items' = items
      BY <2>2, <2>5
    <2> QED
      BY <2>6, <2>7
  <1>4. \A g : ExpectedSet(g)' = ExpectedSet(g)
    BY <1>1, <1>2, Zenon DEF ExpectedSet
  <1>5. \A i, j, g : Joined(i, j, g)' = Joined(i, j, g)
    BY SameSides, SameOperations, Zenon DEF Joined
  <1>6. \A g : ExpectedJoin(g)' = ExpectedJoin(g)
    <2>1. \A hc, lc : resultMetric(hc, lc)' = resultMetric(hc, lc)
      BY SameOperations
    <2> TAKE g
    <2> DEFINE item(p) == [labels |-> resultMetric(High[p[1]], Low[p[2]]), from |-> <<HighSide, p[1]>>,
                           val |-> Joined(p[1], p[2], g)]
               Pairs   == {p \in Present(HighOf(g)) \X Present(LowOf(g)) : HcSig(p[1]) = LcSig(p[2])}
               items   == {item(p) : p \in Pairs}
    <2>2. High' = High /\ Low' = Low /\ HighSide' = HighSide /\ HighOf(g)' = HighOf(g) /\ LowOf(g)' = LowOf(g)
      BY SameSides
    <2>3. \A p : item(p)' = item(p)
      BY <1>5, <2>1, <2>2, Zenon
    <2>4. Pairs' = Pairs
      BY <1>1, <2>2
    <2>5. ExpectedJoin(g) = {e \in items : e.val # None} /\ ExpectedJoin(g)' = {e \in items' : e.val # None}
      BY Zenon DEF ExpectedJoin
    <2> HIDE DEF item, Pairs
    <2>6. items' = items
      BY <2>3, <2>4
    <2> QED
      BY <2>5, <2>6
  <1> QED
    BY <1>3, <1>4, <1>6, SameSides DEF Expected

(* A step that was left out or not stays so, whatever step comes next. *)
LEMMA SameLeftOut ==
  ASSUME q' = q, tables' = tables, NEW n \in Nat, \A m \in 1..n : given'[m] = given[m], n > 0
  PROVE  LeftOut(n)' <=> LeftOut(n)
  <1>1. \A m \in 1..n : LowOf(given[m])' = LowOf(given[m])
    BY SameSides
  <1>2. n \in 1..n /\ \A m \in 1..(n - 1) : m \in 1..n
    OBVIOUS
  <1>3. (Swapped(given[n]))' <=> Swapped(given[n])
    <2>1. given'[n] = given[n]
      BY <1>2
    <2> QED
      BY <2>1, SameOperations
  <1>4. Tainted(n)' <=> Tainted(n)
    <2>1. \A x : LcSig(x)' = LcSig(x)
      BY SameTables, Zenon
    <2>2. \A m \in 1..(n - 1) : LowOf(given[m])' = LowOf(given[m])
      BY <1>1, <1>2
    <2>3. LowOf(given[n])' = LowOf(given[n])
      BY <1>1, <1>2
    <2> QED
      <3> DEFINE P(m) == \E i \in Present(LowOf(given[m])), j \in Present(LowOf(given[n])) :
                           LcSig(i) = LcSig(j) /\ LowOf(given[m])[i].k = "h" /\ LowOf(given[n])[j].k = "f"
      <3>1. ASSUME NEW m \in 1..(n - 1)
            PROVE  P(m)' <=> P(m)
        <4>1. LowOf(given[m])' = LowOf(given[m])
          BY <2>2, Zenon
        <4> QED
          BY <2>1, <2>3, <4>1, Zenon DEF Present
      <3>2. Tainted(n) <=> \E m \in 1..(n - 1) : P(m)
        BY Zenon DEF Tainted
      <3>3. Tainted(n)' <=> \E m \in 1..(n - 1) : P(m)'
        BY Zenon DEF Tainted
      <3> QED
        BY <3>1, <3>2, <3>3, Zenon
  <1> QED
    BY <1>3, <1>4, SameSides, Zenon DEF LeftOut

(* The values of step n are those expected of it, if it is not left out. *)
StepOK(n) ==
  /\ ~Ambiguous(given[n])
  /\ LeftOut(n) \/ Unlabelled((out \o batch)[n]) = Unlabelled(Expected(given[n]))

(* The histogram of a bucket comes from a step that was joined. *)
HistsGiven ==
  ~IsScalar => \A s \in Signatures : buckets[s].hist # None =>
    \E m \in 1..Len(given) : \E i \in Present(LowOf(given[m])) :
      LcSig(i) = s /\ LowOf(given[m])[i].k = "h"

(* The buckets know no step but those joined, and all of these are right. *)
Data ==
  /\ pc \notin {"init", "failed"} /\ ~IsScalar => Tabled
  /\ BucketsUpTo(buckets, StepTime(Len(given)))
  /\ HistsGiven
  /\ \A n \in 1..(Len(out) + Len(batch)) : StepOK(n)
  /\ pc = "ambiguous" => Ambiguous(given[Len(given)])

(* The buckets start unused, and no step has the time that says so. *)
LEMMA DataInit == FirstStep >= 0 /\ Init => Data
  <1> SUFFICES ASSUME FirstStep >= 0, Init
               PROVE  Data
    OBVIOUS
  <1>1. pc = "init" /\ buckets = [s \in Signatures |-> EmptyBucket] /\ given = <<>> /\ batch = <<>> /\ out = <<>>
    BY DEF Init
  <1>2. EmptyBucket \in Bucket /\ EmptyBucket.ats = -1 /\ EmptyBucket.bts = -1 /\ EmptyBucket.hist = None
    <2>1. None \in Samples /\ Zero \in Samples /\ NoTs \in Int /\ NoTs = -1
      BY DEF NoTs, Samples
    <2> QED
      BY <2>1, Zenon DEF EmptyBucket, Bucket
  <1>3. BucketsUpTo(buckets, StepTime(Len(given)))
    <2>1. -1 \in -1..StepTime(Len(given)) /\ -1 \in -1..-1
      BY <1>1, BatchAssumption DEF StepTime
    <2> QED
      BY <1>1, <1>2, <2>1, Zenon DEF BucketsUpTo
  <1>4. HistsGiven
    BY <1>1, <1>2 DEF HistsGiven
  <1> QED
    BY <1>1, <1>3, <1>4 DEF Data

(* A step that was joined as expected stays so when later steps are joined. *)
LEMMA SameStep ==
  ASSUME q' = q, tables' = tables, NEW n \in Nat, n > 0, \A m \in 1..n : given'[m] = given[m],
         (out' \o batch')[n] = (out \o batch)[n], StepOK(n)
  PROVE  StepOK(n)'
  <1>1. given'[n] = given[n]
    OBVIOUS
  <1>2. LeftOut(n)' <=> LeftOut(n)
    BY SameLeftOut
  <1>3. (Ambiguous(given[n]))' <=> Ambiguous(given[n])
    BY <1>1, SameTables
  <1>4. (Expected(given[n]))' = Expected(given[n])
    BY <1>1, SameExpected
  <1>5. (Unlabelled(Expected(given[n])))' = Unlabelled(Expected(given[n]))
    BY <1>4
  <1>6. (Unlabelled((out \o batch)[n]))' = Unlabelled((out \o batch)[n])
    OBVIOUS
  <1> QED
    BY <1>2, <1>3, <1>5, <1>6, Zenon DEF StepOK

(* A call that joins nothing leaves the histograms of the buckets explained. *)
LEMMA SameHistograms ==
  ASSUME q' = q, tables' = tables, buckets' = buckets, given' = given, HistsGiven
  PROVE  HistsGiven'
  <1>1. (IsScalar' <=> IsScalar) /\ Signatures' = Signatures
    BY SameSides, SameSignatures
  <1>2. \A m : LowOf(given[m])' = LowOf(given[m])
    BY SameSides
  <1>3. \A i : LcSig(i)' = LcSig(i)
    BY SameTables
  <1> QED
    BY <1>1, <1>2, <1>3, Zenon DEF HistsGiven

(* A turn of the loop of Next over the steps of a batch. *)
LEMMA JoinKeepsData ==
  ASSUME Types, Control, Data, JoinStep
  PROVE  Data'
  <1>1. /\ Len(out) \in Nat /\ Len(batch) \in Nat /\ Len(given) \in Nat
        /\ IsSeq(batch) /\ IsSeq(out) /\ given \in Seq(StepPairs) /\ q \in Queries
    BY SeqLength DEF Types
  <1>2. PICK t \in Nat : t = Len(given)
    BY <1>1
  <1>19. StepTime(t) \in Int /\ StepTime(Len(given) + 1) = StepTime(t) + 1 /\ StepTime(t + 1) = StepTime(t) + 1
    BY <1>2, BatchAssumption DEF StepTime
  <1>18. PICK ts \in Int : ts = StepTime(t) /\ StepTime(Len(given) + 1) = ts + 1 /\ StepTime(t + 1) = ts + 1
    BY <1>19, Zenon
  <1> DEFINE l == buf["lhs"][Len(batch) + 1]
             r == buf["rhs"][Len(batch) + 1]
             e == execBinaryOperation(buckets, ts + 1, l, r)
             g == [l |-> l, r |-> r]
  <1>3. /\ pc = "read" /\ q' = q /\ tables' = tables /\ out' = out
        /\ given' = Append(given, g) /\ buckets' = e.b
        /\ IF e.err THEN pc' = "ambiguous" /\ batch' = batch ELSE batch' = Append(batch, e.vec) /\ pc' = pc
    BY <1>18, Zenon DEF JoinStep, Joining
  <1>4. l \in Vectors("lhs") /\ r \in Vectors("rhs")
    <2>1. buf["lhs"] \in Seq(Vectors("lhs")) /\ buf["rhs"] \in Seq(Vectors("rhs"))
      BY DEF Types, Sides
    <2>2. Len(batch) < StepsRead
      BY Zenon DEF JoinStep
    <2>3. Len(buf["lhs"]) \in Nat /\ Len(buf["rhs"]) \in Nat
      BY <2>1
    <2>4. Len(batch) < Len(buf["lhs"]) /\ Len(batch) < Len(buf["rhs"])
      BY <1>1, <2>2, <2>3 DEF StepsRead, Min2
    <2> QED
      BY <1>1, <2>1, <2>4
  <1>5. g \in StepPairs
    BY <1>4 DEF StepPairs
  <1>6. t = Len(out) + Len(batch)
    <2>1. Len(given) = Len(out) + Len(batch) + 0
      BY <1>3, Zenon DEF Control
    <2> QED
      BY <1>1, <1>2, <2>1
  <1>7. BucketsUpTo(buckets, ts) /\ (~IsScalar => Tabled) /\ HistsGiven
    BY <1>2, <1>3, <1>18, Zenon DEF Data
  <1>8. e = execBinaryOperation(buckets, ts + 1, l, r) /\ g = [l |-> l, r |-> r]
    BY Zenon
  <1> HIDE DEF l, r, e, g
  <1>9. /\ Judged(e, g, ts + 1)
        /\ \/ Ambiguous(g)
           \/ ~IsScalar /\ ~IsSetOp /\ Swapped(g)
           \/ /\ ~IsScalar /\ ~IsSetOp
              /\ \E j \in Present(LowOf(g)) : LowOf(g)[j].k = "f" /\ buckets[LcSig(j)].hist # None
           \/ Yields(e, Expected(g))
    BY <1>1, <1>4, <1>7, <1>8, StepExecuted, Zenon
  <1>10. /\ Len(given') = t + 1 /\ given'[t + 1] = g
         /\ \A m \in 1..t : given'[m] = given[m]
    BY <1>1, <1>2, <1>3, <1>5
  <1>11. Ambiguous(g) <=> e.err
    BY <1>9, Zenon DEF Judged
  <1>12. BucketsUpTo(buckets, StepTime(Len(given)))'
    <2>1. BucketsUpTo(e.b, ts + 1)
      BY <1>9, Zenon DEF Judged
    <2>2. Signatures' = Signatures /\ Bucket' = Bucket
      BY <1>3, SameSignatures
    <2>3. buckets' = e.b /\ StepTime(Len(given')) = ts + 1
      BY <1>3, <1>10, <1>18
    <2> QED
      BY <2>1, <2>2, <2>3 DEF BucketsUpTo
  <1>13. HistsGiven'
    <2>1. (IsScalar' <=> IsScalar) /\ Signatures' = Signatures
      BY <1>3, SameSides, SameSignatures
    <2>2. \A m : LowOf(given[m])' = LowOf(given'[m])
      BY <1>3, SameSides, Zenon
    <2>3. \A i : LcSig(i)' = LcSig(i)
      BY <1>3, SameTables
    <2>4. ASSUME ~IsScalar, NEW s \in Signatures, e.b[s].hist # None
          PROVE  \E m \in 1..Len(given') : \E i \in Present(LowOf(given'[m])) :
                   LcSig(i) = s /\ LowOf(given'[m])[i].k = "h"
      <3>1. Tabled
        BY <1>7, <2>4
      <3>2. \/ e.b[s].hist = buckets[s].hist
            \/ \E i \in Present(LowOf(g)) : LcSig(i) = s /\ LowOf(g)[i].k = "h"
        <4>1. HistogramOf(e.b, buckets, g, s)
          BY <1>1, <1>4, <1>7, <1>8, <2>4, <3>1, StepHistograms
        <4> QED
          BY <4>1 DEF HistogramOf
      <3>3. CASE \E i \in Present(LowOf(g)) : LcSig(i) = s /\ LowOf(g)[i].k = "h"
        <4>1. t + 1 \in 1..Len(given')
          BY <1>10
        <4> QED
          BY <1>10, <3>3, <4>1, Zenon
      <3>4. CASE e.b[s].hist = buckets[s].hist
        <4>1. PICK m \in 1..t : \E i \in Present(LowOf(given[m])) : LcSig(i) = s /\ LowOf(given[m])[i].k = "h"
          BY <1>2, <1>7, <2>4, <3>4, Zenon DEF HistsGiven
        <4>2. m \in 1..Len(given')
          BY <1>10
        <4>3. given'[m] = given[m]
          BY <1>10
        <4> QED
          BY <4>1, <4>2, <4>3, Zenon
      <3> QED
        BY <3>2, <3>3, <3>4, Zenon
    <2>5. ASSUME ~IsScalar, NEW s \in Signatures, buckets'[s].hist # None
          PROVE  \E m \in 1..Len(given') : \E i \in Present(LowOf(given[m])') :
                   LcSig(i)' = s /\ LowOf(given[m])'[i].k = "h"
      <3>1. e.b[s].hist # None
        BY <1>3, <2>5
      <3>2. PICK m \in 1..Len(given') : \E i \in Present(LowOf(given'[m])) : LcSig(i) = s /\ LowOf(given'[m])[i].k = "h"
        BY <2>4, <2>5, <3>1, Zenon
      <3> QED
        BY <2>2, <2>3, <3>2, Zenon
    <2> QED
      BY <2>1, <2>5 DEF HistsGiven
  <1>14. ~IsScalar' => Tabled'
    BY <1>3, <1>7, SameSides, SameTables
  <1>15. ASSUME NEW n \in 1..t, (out' \o batch')[n] = (out \o batch)[n]
         PROVE  StepOK(n)'
    <2>1. n \in Nat /\ n > 0 /\ n \in 1..(Len(out) + Len(batch))
      BY <1>6
    <2>2. StepOK(n)
      BY <2>1 DEF Data
    <2>3. \A m \in 1..n : m \in 1..t
      OBVIOUS
    <2>4. \A m \in 1..n : given'[m] = given[m]
      BY <1>10, <2>3
    <2> QED
      BY <1>3, <1>15, <2>1, <2>2, <2>4, SameStep, Zenon
  <1>16. CASE e.err
    <2>1. pc' = "ambiguous" /\ batch' = batch
      BY <1>3, <1>16
    <2>2. \A n \in 1..(Len(out') + Len(batch')) : StepOK(n)'
      <3>1. Len(out') + Len(batch') = t
        BY <1>3, <1>6, <2>1
      <3>2. out' \o batch' = out \o batch
        BY <1>3, <2>1
      <3> QED
        BY <1>15, <3>1, <3>2, Zenon
    <2>3. Ambiguous(given[Len(given)])'
      <3>1. given'[Len(given')] = g
        BY <1>10
      <3>2. Ambiguous(g)
        BY <1>11, <1>16
      <3> QED
        BY <1>3, <3>1, <3>2, SameTables
    <2> QED
      BY <1>12, <1>13, <1>14, <2>1, <2>2, <2>3 DEF Data
  <1>17. CASE ~e.err
    <2>1. pc' = "read" /\ batch' = Append(batch, e.vec)
      BY <1>3, <1>17
    <2>2. /\ IsSeq(batch') /\ Len(batch') = Len(batch) + 1
          /\ \A i \in 1..Len(batch) : batch'[i] = batch[i]
          /\ batch'[Len(batch) + 1] = e.vec
      BY <1>1, <2>1, Appending
    <2>3. Len(out) + Len(batch') = t + 1
      <3>1. Len(batch') = Len(batch) + 1
        BY <2>2
      <3> QED
        BY <1>1, <1>6, <3>1
    <2>4. /\ \A n \in 1..t : (out' \o batch')[n] = (out \o batch)[n]
          /\ (out' \o batch')[t + 1] = e.vec
      <3>1. \A n \in 1..t : (out \o batch)[n] = IF n <= Len(out) THEN out[n] ELSE batch[n - Len(out)]
        BY <1>1, <1>6, Concatenating
      <3>2. \A n \in 1..(t + 1) : (out \o batch')[n] = IF n <= Len(out) THEN out[n] ELSE batch'[n - Len(out)]
        <4>1. IsSeq(out) /\ IsSeq(batch')
          BY <1>1, <2>2
        <4>2. \A n \in 1..(Len(out) + Len(batch')) :
                (out \o batch')[n] = IF n <= Len(out) THEN out[n] ELSE batch'[n - Len(out)]
          BY <4>1, Concatenating
        <4> QED
          BY <2>3, <4>2
      <3>3. ASSUME NEW n \in 1..t
            PROVE  (out \o batch')[n] = (out \o batch)[n]
        <4>1. n > Len(out) => n - Len(out) \in 1..Len(batch)
          BY <1>1, <1>6
        <4>2. n \in 1..(t + 1)
          OBVIOUS
        <4>3. n > Len(out) => batch'[n - Len(out)] = batch[n - Len(out)]
          BY <2>2, <4>1
        <4>4. n <= Len(out) \/ n > Len(out)
          BY <1>1
        <4>5. CASE n <= Len(out)
          BY <3>1, <3>2, <4>2, <4>5
        <4>6. CASE n > Len(out)
          <5>1. ~(n <= Len(out))
            BY <1>1, <4>6
          <5> QED
            BY <3>1, <3>2, <4>2, <4>3, <4>6, <5>1, Zenon
        <4> QED
          BY <4>4, <4>5, <4>6, Zenon
      <3>4. (out \o batch')[t + 1] = e.vec
        <4> DEFINE u == t + 1
        <4>1. u \in 1..u /\ ~(u <= Len(out)) /\ u - Len(out) = Len(batch) + 1
          BY <1>1, <1>6
        <4>2. \A n \in 1..u : (out \o batch')[n] = IF n <= Len(out) THEN out[n] ELSE batch'[n - Len(out)]
          BY <3>2, Zenon
        <4> HIDE DEF u
        <4>3. (out \o batch')[u] = batch'[u - Len(out)]
          BY <4>1, <4>2, Zenon
        <4>4. (out \o batch')[u] = e.vec
          BY <2>2, <4>1, <4>3
        <4> QED
          BY <4>4 DEF u
      <3>5. out' \o batch' = out \o batch'
        BY <1>3
      <3> QED
        BY <3>3, <3>4, <3>5, Zenon
    <2>5. LeftOut(t + 1)' \/ Unlabelled(e.vec) = Unlabelled(Expected(g))
      <3>1. (IsScalar' <=> IsScalar) /\ (IsSetOp' <=> IsSetOp)
        BY <1>3, SameSides
      <3>2. CASE Yields(e, Expected(g))
        BY <3>2 DEF Yields
      <3>3. CASE ~IsScalar /\ ~IsSetOp /\ Swapped(g)
        <4>1. (Swapped(given[t + 1]))'
          BY <1>3, <1>10, <3>3, SameOperations, Zenon
        <4> QED
          BY <3>1, <3>3, <4>1 DEF LeftOut
      <3>4. CASE /\ ~IsScalar /\ ~IsSetOp
                 /\ \E j \in Present(LowOf(g)) : LowOf(g)[j].k = "f" /\ buckets[LcSig(j)].hist # None
        <4>1. PICK j \in Present(LowOf(g)) : LowOf(g)[j].k = "f" /\ buckets[LcSig(j)].hist # None
          BY <3>4
        <4>2. LcSig(j) \in Signatures
          <5>1. DOMAIN LowOf(g) = DOMAIN Low
            BY <1>1, <1>4, <1>8, <3>4, SidesOfStep, Zenon
          <5> QED
            BY <1>7, <3>4, <5>1, SignaturesOfSeries, Zenon DEF Present
        <4>3. PICK m \in 1..t : \E i \in Present(LowOf(given[m])) : LcSig(i) = LcSig(j) /\ LowOf(given[m])[i].k = "h"
          BY <1>2, <1>7, <3>4, <4>1, <4>2, Zenon DEF HistsGiven
        <4>4. PICK i \in Present(LowOf(given[m])) : LcSig(i) = LcSig(j) /\ LowOf(given[m])[i].k = "h"
          BY <4>3
        <4>5. LowOf(given[m])' = LowOf(given[m]) /\ LowOf(given[t + 1])' = LowOf(g)
          BY <1>3, <1>10, SameSides, Zenon
        <4>6. m \in 1..(t + 1 - 1)
          OBVIOUS
        <4>7. i \in Present(LowOf(given[m])') /\ j \in Present(LowOf(given[t + 1])')
          BY <4>1, <4>4, <4>5, Zenon
        <4>8. LcSig(i)' = LcSig(j)'
          BY <1>3, <4>4, SameTables, Zenon
        <4>9. LowOf(given[m])'[i].k = "h" /\ LowOf(given[t + 1])'[j].k = "f"
          BY <4>1, <4>4, <4>5, Zenon
        <4>10. Tainted(t + 1)'
          <5> DEFINE u == t + 1
          <5>1. m \in 1..(u - 1)
            BY <4>6
          <5>2. j \in Present(LowOf(given[u])') /\ LowOf(given[u])'[j].k = "f"
            BY <4>7, <4>9, Zenon
          <5> HIDE DEF u
          <5>3. Tainted(u)'
            BY <4>7, <4>8, <4>9, <5>1, <5>2, Zenon DEF Tainted
          <5> QED
            BY <5>3 DEF u
        <4> QED
          BY <3>1, <3>4, <4>10, Zenon DEF LeftOut
      <3> QED
        BY <1>9, <1>11, <1>17, <3>2, <3>3, <3>4, Zenon
    <2>6. StepOK(t + 1)'
      <3>1. ~Ambiguous(given[t + 1])'
        BY <1>3, <1>10, <1>11, <1>17, SameTables, Zenon
      <3>2. Expected(given[t + 1])' = Expected(g)
        BY <1>3, <1>10, SameExpected
      <3>3. Unlabelled((out \o batch)[t + 1])' = Unlabelled(e.vec)
        BY <2>4
      <3>4. Unlabelled(Expected(given[t + 1]))' = Unlabelled(Expected(g))
        BY <3>2
      <3> QED
        BY <2>5, <3>1, <3>3, <3>4, Zenon DEF StepOK
    <2>7. \A n \in 1..(Len(out') + Len(batch')) : StepOK(n)'
      <3>1. \A n \in 1..t : StepOK(n)'
        BY <1>15, <2>4, Zenon
      <3>2. \A n \in 1..(t + 1) : n \in 1..t \/ n = t + 1
        OBVIOUS
      <3>3. Len(out') + Len(batch') = t + 1
        BY <1>3, <2>3
      <3> QED
        BY <2>6, <3>1, <3>2, <3>3
    <2> QED
      BY <1>12, <1>13, <1>14, <2>1, <2>7 DEF Data
  <1> QED
    BY <1>16, <1>17

(* Every action keeps the steps returned and buffered as expected, and the      *)
(* buckets free of time stamps to come.                                          *)
LEMMA DataStep == Types /\ Control /\ Data /\ [Next]_vars => Data'
  <1> SUFFICES ASSUME Types, Control, Data, [Next]_vars
               PROVE  Data'
    OBVIOUS
  <1>1. /\ Len(out) \in Nat /\ Len(batch) \in Nat /\ Len(given) \in Nat
        /\ IsSeq(batch) /\ IsSeq(out)
    BY SeqLength DEF Types
  <1>2. q' = q
    BY Zenon DEF Next, vars, SeriesReturns, ChildReturns, ChildFails, LhsSends, RhsPanics, InitFails, InitReturns,
           NextCalled, ContextDone, NextFails, NextEnds, JoinStep, NextReturns, Stopped
  (* Actions that join nothing. *)
  <1>3. ASSUME UNCHANGED <<tables, buckets, given>>, pc \in {"init", "failed"} => pc' \in {"init", "failed"},
               pc' = "ambiguous" => pc = "ambiguous", Len(out') + Len(batch') = Len(out) + Len(batch),
               \A n \in 1..(Len(out) + Len(batch)) : (out' \o batch')[n] = (out \o batch)[n]
        PROVE  Data'
    <2>1. (Tabled' <=> Tabled) /\ (IsScalar' <=> IsScalar)
      BY <1>2, <1>3, SameSides, SameTables, Zenon
    <2>2. BucketsUpTo(buckets, StepTime(Len(given)))'
      <3>1. BucketsUpTo(buckets, StepTime(Len(given)))
        BY DEF Data
      <3> QED
        BY <1>2, <1>3, <3>1, SameBuckets
    <2>3. HistsGiven'
      <3>1. HistsGiven
        BY DEF Data
      <3> QED
        BY <1>2, <1>3, <3>1, SameHistograms
    <2>4. ASSUME NEW n \in 1..(Len(out') + Len(batch'))
          PROVE  StepOK(n)'
      <3>1. n \in 1..(Len(out) + Len(batch))
        BY <1>3
      <3>2. n \in Nat /\ n > 0
        BY <1>1, <3>1
      <3>3. StepOK(n) /\ (out' \o batch')[n] = (out \o batch)[n]
        BY <1>3, <3>1 DEF Data
      <3> QED
        BY <1>2, <1>3, <3>2, <3>3, SameStep
    <2>5. pc' = "ambiguous" => Ambiguous(given[Len(given)])'
      <3>1. pc = "ambiguous" => Ambiguous(given[Len(given)])
        BY DEF Data
      <3> QED
        BY <1>2, <1>3, <3>1, SameTables, Zenon
    <2>6. pc' \notin {"init", "failed"} /\ ~IsScalar' => Tabled'
      <3>1. pc \notin {"init", "failed"} /\ ~IsScalar => Tabled
        BY DEF Data
      <3> QED
        BY <1>3, <2>1, <3>1
    <2> QED
      BY <2>2, <2>3, <2>4, <2>5, <2>6 DEF Data
  <1>4. ASSUME UNCHANGED <<tables, buckets, given, batch, out>>,
               pc \in {"init", "failed"} => pc' \in {"init", "failed"}, pc' = "ambiguous" => pc = "ambiguous"
        PROVE  Data'
    BY <1>3, <1>4
  <1>5. ASSUME NEW s \in Sides, SeriesReturns(s) \/ ChildReturns(s) \/ ChildFails(s)
        PROVE  Data'
    <2>1. UNCHANGED <<tables, buckets, given, batch, out, pc>>
      BY <1>5, Zenon DEF SeriesReturns, ChildReturns, ChildFails
    <2> QED
      BY <1>4, <2>1
  <1>6. CASE LhsSends \/ RhsPanics \/ InitFails \/ NextCalled \/ ContextDone \/ NextFails \/ NextEnds
    BY <1>4, <1>6, Zenon DEF LhsSends, RhsPanics, InitFails, NextCalled, ContextDone, NextFails, NextEnds
  <1>7. CASE InitReturns
    <2>1. /\ pc = "init" /\ pc' = "idle" /\ tables' = IF IsScalar THEN scalarTables ELSE initJoinTables
          /\ UNCHANGED <<buckets, given, batch, out>>
      BY <1>7 DEF InitReturns
    <2>2. given = <<>> /\ batch = <<>> /\ Len(out) = 0
      <3>1. given = <<>> /\ batch = <<>> /\ Len(given) = Len(out) + Len(batch) + 0
        BY <2>1 DEF Control
      <3> QED
        BY <1>1, <3>1
    <2>3. ~IsScalar' => Tabled'
      <3> SUFFICES ASSUME ~IsScalar
                   PROVE  Tabled'
        BY <1>2, SameSides
      <3>1. /\ tables'.hcBucket = [i \in DOMAIN High |-> signature(High[i])]
            /\ tables'.lcBucket = [i \in DOMAIN Low |-> signature(Low[i])]
        BY <2>1, Zenon DEF initJoinTables
      <3>2. /\ [i \in DOMAIN High |-> signature(High[i])]' = [i \in DOMAIN High |-> signature(High[i])]
            /\ [i \in DOMAIN Low |-> signature(Low[i])]' = [i \in DOMAIN Low |-> signature(Low[i])]
        BY <1>2, SameSides, SameSignatures, Zenon
      <3> QED
        BY <3>1, <3>2, Zenon DEF Tabled
    <2>4. BucketsUpTo(buckets, StepTime(Len(given)))'
      <3>1. BucketsUpTo(buckets, StepTime(Len(given)))
        BY DEF Data
      <3> QED
        BY <1>2, <2>1, <3>1, SameBuckets
    <2>5. HistsGiven'
      <3>1. ~IsScalar => \A s \in Signatures : buckets[s].hist = None
        <4>1. ASSUME ~IsScalar, NEW s \in Signatures, buckets[s].hist # None
              PROVE  FALSE
          <5>1. \E m \in 1..Len(given) : TRUE
            BY <4>1, Zenon DEF Data, HistsGiven
          <5>2. 1..Len(given) = {}
            BY <2>2
          <5> QED
            BY <5>1, <5>2, Zenon
        <4> QED
          BY <4>1, Zenon
      <3>2. (IsScalar' <=> IsScalar) /\ Signatures' = Signatures
        BY <1>2, SameSides, SameSignatures
      <3> QED
        BY <2>1, <3>1, <3>2, Zenon DEF HistsGiven
    <2> QED
      BY <2>1, <2>2, <2>3, <2>4, <2>5 DEF Data
  <1>8. CASE JoinStep
    BY <1>8, JoinKeepsData
  <1>9. CASE NextReturns
    <2>1. /\ pc = "read" /\ pc' = "idle" /\ out' = out \o batch /\ batch' = <<>>
          /\ UNCHANGED <<tables, buckets, given>>
      BY <1>9, Zenon DEF NextReturns, Joining
    <2>2. IsSeq(out') /\ Len(out') = Len(out) + Len(batch)
      BY <1>1, <2>1, Concatenating
    <2>3. IsSeq(batch') /\ Len(batch') = 0
      <3>1. <<>> \in Seq({})
        OBVIOUS
      <3> QED
        BY <2>1, <3>1 DEF IsSeq
    <2>4. \A n \in 1..(Len(out') + Len(batch')) :
            (out' \o batch')[n] = IF n <= Len(out') THEN out'[n] ELSE batch'[n - Len(out')]
      BY <2>2, <2>3, Concatenating
    <2>5. Len(out') + Len(batch') = Len(out) + Len(batch)
      BY <1>1, <2>2, <2>3
    <2>6. ASSUME NEW n \in 1..(Len(out) + Len(batch))
          PROVE  (out' \o batch')[n] = (out \o batch)[n]
      <3>1. n <= Len(out')
        BY <1>1, <2>2
      <3>2. (out' \o batch')[n] = out'[n]
        BY <2>4, <2>5, <3>1
      <3> QED
        BY <2>1, <3>2
    <2> QED
      BY <1>3, <2>1, <2>5, <2>6, Zenon
  <1>10. CASE UNCHANGED vars
    BY <1>4, <1>10 DEF vars
  <1> QED
    BY <1>5, <1>6, <1>7, <1>8, <1>9, <1>10 DEF Next, Stopped

-----------------------------------------------------------------------------
(* The buffer of a child that has returned holds the steps it delivered after *)
(* those returned, and the steps joined are those delivered.                  *)
Deliveries ==
  /\ \A s \in Sides : Len(delivered[s]) = pos[s]
  /\ pc = "read" => \A s \in Sides : s \notin pending /\ s \notin failed =>
       \A k \in 1..Len(buf[s]) : delivered[s][Len(out) + k] = buf[s][k]
  /\ StepsAsDelivered

(* Nothing is delivered or joined before the first call. *)
LEMMA DeliveriesInit == Init => Deliveries
  <1> SUFFICES ASSUME Init
               PROVE  Deliveries
    OBVIOUS
  <1>1. pc = "init" /\ given = <<>> /\ \A s \in Sides : pos[s] = 0 /\ delivered[s] = <<>>
    BY DEF Init
  <1>2. DOMAIN given = {}
    BY <1>1
  <1> QED
    BY <1>1, <1>2 DEF Deliveries, StepsAsDelivered

(* What a child delivers comes after what it delivered before. *)
LEMMA Extending ==
  ASSUME NEW S, NEW d \in Seq(S), NEW n \in Nat, NEW b \in [1..n -> S]
  PROVE  /\ Len(d \o b) = Len(d) + n
         /\ \A i \in DOMAIN d : i \in DOMAIN (d \o b) /\ (d \o b)[i] = d[i]
         /\ \A i \in 1..n : (d \o b)[Len(d) + i] = b[i]
  <1>1. b \in Seq(S) /\ Len(b) = n
    OBVIOUS
  <1> QED
    BY <1>1

(* Every action keeps the buffers those of the call, and what was joined as    *)
(* it was delivered: Next does not look at lhsBuf while its child fills it.    *)
LEMMA DeliveriesStep == Types /\ Control /\ Deliveries /\ [Next]_vars => Deliveries'
  <1> SUFFICES ASSUME Types, Control, Deliveries, [Next]_vars
               PROVE  Deliveries'
    OBVIOUS
  <1>1. /\ Len(out) \in Nat /\ Len(batch) \in Nat /\ Len(given) \in Nat /\ given \in Seq(StepPairs)
        /\ \A s \in Sides : pos[s] \in Nat /\ delivered[s] \in Seq(Vectors(s)) /\ Len(buf[s]) \in Nat
    <2>1. Len(out) \in Nat /\ Len(batch) \in Nat /\ Len(given) \in Nat /\ given \in Seq(StepPairs)
      BY SeqLength DEF Types
    <2>2. ASSUME NEW s \in Sides
          PROVE  pos[s] \in Nat /\ delivered[s] \in Seq(Vectors(s)) /\ Len(buf[s]) \in Nat
      <3>1. pos[s] \in 0..NumSteps /\ delivered[s] \in Seq(Vectors(s)) /\ buf[s] \in Seq(Vectors(s))
        BY DEF Types
      <3> QED
        BY <3>1
    <2> QED
      BY <2>1, <2>2
  (* Actions that neither deliver nor join. *)
  <1>2. ASSUME UNCHANGED <<pos, buf, delivered, given>>,
               pc' = "read" => /\ out' = out
                               /\ \A s \in Sides : s \notin pending' /\ s \notin failed' =>
                                    pc = "read" /\ s \notin pending /\ s \notin failed
        PROVE  Deliveries'
    <2>1. \A s \in Sides : Len(delivered'[s]) = pos'[s]
      BY <1>2 DEF Deliveries
    <2>2. StepsAsDelivered'
      BY <1>2, Zenon DEF Deliveries, StepsAsDelivered
    <2>3. ASSUME pc' = "read", NEW s \in Sides, s \notin pending', s \notin failed'
          PROVE  \A k \in 1..Len(buf'[s]) : delivered'[s][Len(out') + k] = buf'[s][k]
      <3>1. pc = "read" /\ s \notin pending /\ s \notin failed /\ out' = out
        BY <1>2, <2>3
      <3>2. \A k \in 1..Len(buf[s]) : delivered[s][Len(out) + k] = buf[s][k]
        BY <3>1 DEF Deliveries
      <3> QED
        BY <1>2, <3>1, <3>2
    <2> QED
      BY <2>1, <2>2, <2>3, Zenon DEF Deliveries
  <1>3. ASSUME NEW s \in Sides, SeriesReturns(s)
        PROVE  Deliveries'
    BY <1>2, <1>3 DEF SeriesReturns
  <1>4. ASSUME NEW s \in Sides, ChildFails(s)
        PROVE  Deliveries'
    BY <1>2, <1>4 DEF ChildFails
  <1>5. CASE LhsSends \/ RhsPanics \/ InitFails \/ InitReturns \/ NextCalled \/ ContextDone \/ NextFails \/ NextEnds
    BY <1>2, <1>5, Zenon DEF LhsSends, RhsPanics, InitFails, InitReturns, NextCalled, ContextDone, NextFails, NextEnds
  <1>6. CASE NextReturns
    BY <1>2, <1>6 DEF NextReturns
  <1>7. ASSUME NEW s \in Sides, ChildReturns(s)
        PROVE  Deliveries'
    <2> DEFINE n == Min2(StepsBatch, NumSteps - pos[s])
    <2>1. PICK b \in [1..n -> Vectors(s)] : /\ buf' = [buf EXCEPT ![s] = b] /\ pos' = [pos EXCEPT ![s] = @ + n]
                                            /\ delivered' = [delivered EXCEPT ![s] = @ \o b]
      BY <1>7, Zenon DEF ChildReturns
    <2>2. s \in pending /\ pending' = pending \ {s} /\ UNCHANGED <<failed, given, out, pc>>
      BY <1>7 DEF ChildReturns
    <2>3. n \in Nat
      <3>1. pos[s] \in 0..NumSteps
        BY DEF Types
      <3> QED
        BY <3>1, BatchAssumption DEF Min2
    <2> HIDE DEF n
    <2>4. /\ Len(delivered[s] \o b) = pos[s] + n
          /\ \A i \in DOMAIN delivered[s] : i \in DOMAIN (delivered[s] \o b) /\ (delivered[s] \o b)[i] = delivered[s][i]
          /\ \A i \in 1..n : (delivered[s] \o b)[pos[s] + i] = b[i]
      <3>1. Len(delivered[s]) = pos[s]
        BY DEF Deliveries
      <3>2. /\ Len(delivered[s] \o b) = Len(delivered[s]) + n
            /\ \A i \in DOMAIN delivered[s] : i \in DOMAIN (delivered[s] \o b) /\ (delivered[s] \o b)[i] = delivered[s][i]
            /\ \A i \in 1..n : (delivered[s] \o b)[Len(delivered[s]) + i] = b[i]
        BY <1>1, <2>3, Extending
      <3> QED
        BY <3>1, <3>2, Zenon
    <2>5. /\ delivered'[s] = delivered[s] \o b /\ pos'[s] = pos[s] + n /\ buf'[s] = b /\ Len(b) = n
          /\ \A x \in Sides \ {s} : delivered'[x] = delivered[x] /\ pos'[x] = pos[x] /\ buf'[x] = buf[x]
      BY <2>1, <2>3 DEF Types
    <2>6. \A x \in Sides : Len(delivered'[x]) = pos'[x]
      BY <2>4, <2>5 DEF Deliveries
    <2>7. ASSUME pc = "read", NEW x \in Sides, x \notin pending', x \notin failed,
                 NEW k \in 1..Len(buf'[x])
          PROVE  delivered'[x][Len(out) + k] = buf'[x][k]
      <3>1. CASE x = s
        <4>1. pos[s] = Len(out)
          BY <2>2, <2>7 DEF Control
        <4> QED
          BY <2>4, <2>5, <2>7, <3>1, <4>1, Zenon
      <3>2. CASE x # s
        <4>1. x \in Sides \ {s} /\ x \notin pending
          BY <2>2, <2>7, <3>2
        <4>2. delivered'[x] = delivered[x] /\ buf'[x] = buf[x]
          BY <2>5, <4>1
        <4>3. \A i \in 1..Len(buf[x]) : delivered[x][Len(out) + i] = buf[x][i]
          BY <2>7, <4>1 DEF Deliveries
        <4> QED
          BY <2>7, <4>2, <4>3, Zenon
      <3> QED
        BY <3>1, <3>2
    <2>8. StepsAsDelivered'
      <3> SUFFICES ASSUME NEW m \in DOMAIN given, NEW x \in Sides
                   PROVE  /\ m \in DOMAIN delivered'[x]
                          /\ delivered'[x][m] = IF x = "lhs" THEN given[m].l ELSE given[m].r
        BY <2>2 DEF StepsAsDelivered
      <3>1. m \in DOMAIN delivered[x] /\ delivered[x][m] = IF x = "lhs" THEN given[m].l ELSE given[m].r
        BY DEF Deliveries, StepsAsDelivered
      <3>2. CASE x = s
        BY <2>4, <2>5, <3>1, <3>2, Zenon
      <3>3. CASE x # s
        <4>1. delivered'[x] = delivered[x]
          BY <2>5, <3>3
        <4> QED
          BY <3>1, <4>1
      <3> QED
        BY <3>2, <3>3
    <2> QED
      BY <2>2, <2>6, <2>7, <2>8 DEF Deliveries
  <1>8. CASE JoinStep
    <2> DEFINE l == buf["lhs"][Len(batch) + 1]
               r == buf["rhs"][Len(batch) + 1]
               g == [l |-> l, r |-> r]
    <2>1. /\ pc = "read" /\ BothRead /\ failed = {} /\ Len(batch) < StepsRead
          /\ given' = Append(given, g) /\ UNCHANGED <<pos, buf, delivered, pending, failed, out>>
      BY <1>8, Zenon DEF JoinStep, Joining
    <2>2. pending = {}
      BY <2>1, Zenon DEF BothRead, Control, Types, Sides
    <2>3. Len(given) = Len(out) + Len(batch)
      <3>1. Len(given) = Len(out) + Len(batch) + 0
        BY <2>1 DEF Control
      <3> QED
        BY <1>1, <3>1
    <2>4. Len(batch) + 1 \in 1..Len(buf["lhs"]) /\ Len(batch) + 1 \in 1..Len(buf["rhs"])
      BY <1>1, <2>1 DEF StepsRead, Min2, Sides
    <2>5. \A s \in Sides : /\ Len(given) + 1 \in DOMAIN delivered[s]
                           /\ delivered[s][Len(given) + 1] = buf[s][Len(batch) + 1]
      <3> SUFFICES ASSUME NEW s \in Sides
                   PROVE  /\ Len(given) + 1 \in DOMAIN delivered[s]
                          /\ delivered[s][Len(given) + 1] = buf[s][Len(batch) + 1]
        OBVIOUS
      <3>1. Len(delivered[s]) = Len(out) + Len(buf[s])
        BY <2>1, <2>2, Zenon DEF Control, Deliveries
      <3>2. Len(batch) + 1 \in 1..Len(buf[s])
        BY <2>4 DEF Sides
      <3>3. delivered[s][Len(out) + (Len(batch) + 1)] = buf[s][Len(batch) + 1]
        BY <2>1, <2>2, <3>2 DEF Deliveries
      <3>4. Len(given) + 1 = Len(out) + (Len(batch) + 1) /\ Len(given) + 1 \in 1..Len(delivered[s])
        BY <1>1, <2>3, <3>1, <3>2
      <3> QED
        BY <1>1, <3>3, <3>4
    <2>6. g.l = l /\ g.r = r
      OBVIOUS
    <2>7. delivered["lhs"][Len(given) + 1] = l /\ delivered["rhs"][Len(given) + 1] = r
      BY <2>5 DEF Sides
    <2> HIDE DEF g, l, r
    <2>8. /\ DOMAIN given' = DOMAIN given \cup {Len(given) + 1}
          /\ given'[Len(given) + 1] = g /\ \A m \in DOMAIN given : given'[m] = given[m]
      <3>1. PICK S : given \in Seq(S) /\ g \in S
        <4>1. given \in Seq(StepPairs \cup {g}) /\ g \in StepPairs \cup {g}
          BY <1>1
        <4> QED
          BY <4>1
      <3> QED
        BY <2>1, <3>1
    <2>9. StepsAsDelivered'
      <3> SUFFICES ASSUME NEW m \in DOMAIN given', NEW x \in Sides
                   PROVE  /\ m \in DOMAIN delivered[x]
                          /\ delivered[x][m] = IF x = "lhs" THEN given'[m].l ELSE given'[m].r
        BY <2>1 DEF StepsAsDelivered
      <3>1. CASE m \in DOMAIN given
        BY <2>8, <3>1, Zenon DEF Deliveries, StepsAsDelivered
      <3>2. CASE m = Len(given) + 1
        BY <2>5, <2>6, <2>7, <2>8, <3>2, Zenon DEF Sides
      <3> QED
        BY <2>8, <3>1, <3>2
    <2> QED
      BY <2>1, <2>9 DEF Deliveries
  <1>9. CASE UNCHANGED vars
    BY <1>2, <1>9 DEF vars
  <1> QED
    BY <1>3, <1>4, <1>5, <1>6, <1>7, <1>8, <1>9 DEF Next, Stopped

-----------------------------------------------------------------------------
(* Every step returned has the values expected of it, without the labels. *)
ValuesAreJoined ==
  \A n \in DOMAIN out : LeftOut(n) \/ Unlabelled(out[n]) = Unlabelled(Expected(given[n]))

(* The inductive invariant of the calls: what the children have delivered and *)
(* what Next has joined of it.                                                *)
THEOREM CallsInOrder == Spec => [](Types /\ Control /\ Deliveries)
  <1>1. Init => Types /\ Control /\ Deliveries
    BY TypesInit, DeliveriesInit
  <1>2. Types /\ Control /\ Deliveries /\ [Next]_vars => (Types /\ Control /\ Deliveries)'
    BY TypesStep, ControlStep, DeliveriesStep
  <1> QED
    BY <1>1, <1>2, PTL DEF Spec

(* The inductive invariant of the buckets: what they may hold of the steps   *)
(* joined, for a query that begins at or after the epoch.                    *)
THEOREM Invariance == FirstStep >= 0 => (Spec => [](Types /\ Control /\ Data))
  <1>1. FirstStep >= 0 /\ Init => Types /\ Control /\ Data
    BY TypesInit, DataInit
  <1>2. Types /\ Control /\ Data /\ [Next]_vars => (Types /\ Control /\ Data)'
    BY TypesStep, ControlStep, DataStep
  <1> QED
    BY <1>1, <1>2, PTL DEF Spec

(* The buckets and the buffers of the operator never run ahead of the steps  *)
(* of the query.                                                             *)
THEOREM TypeCorrect == FirstStep >= 0 => (Spec => []TypeOK)
  <1>1. Types /\ Control /\ Data => TypeOK
    <2> SUFFICES ASSUME Types, Control, Data
                 PROVE  TypeOK
      OBVIOUS
    <2>1. /\ Len(out) \in Nat /\ Len(batch) \in Nat /\ Len(given) \in Nat
      BY SeqLength DEF Types
    <2>2. Len(out) + Len(batch) <= Len(given) /\ Len(given) <= NumSteps
      <3>1. Len(given) = Len(out) + Len(batch) + (IF pc = "ambiguous" THEN 1 ELSE 0) /\ Len(given) <= NumSteps
        BY DEF Control
      <3> QED
        BY <2>1, <3>1
    <2>3. /\ DOMAIN buckets = Signatures
          /\ \A s \in Signatures : /\ buckets[s] \in Bucket /\ buckets[s].ats \in -1..StepTime(Len(given))
                                   /\ buckets[s].bts \in -1..buckets[s].ats
      BY DEF Data, BucketsUpTo
    <2>4. StepTime(Len(given)) \in Int /\ StepTime(NumSteps) \in Int /\ StepTime(Len(given)) <= StepTime(NumSteps)
      BY <2>1, <2>2, BatchAssumption DEF StepTime
    <2>5. \A s \in DOMAIN buckets : /\ buckets[s].ats \in NoTs..StepTime(NumSteps)
                                    /\ buckets[s].bts \in NoTs..buckets[s].ats
      BY <2>3, <2>4 DEF NoTs
    <2> QED
      BY <2>2, <2>5 DEF TypeOK, Types
  <1> QED
    BY <1>1, Invariance, PTL

(* Next joins for each step what its children have delivered for it, however *)
(* the goroutine of lhs is scheduled, and whichever child fails or panics:   *)
(* no call reads lhsBuf before it is filled for this call.                   *)
THEOREM JoinsWhatIsDelivered == Spec => []StepsAsDelivered
  <1>1. Deliveries => StepsAsDelivered
    BY DEF Deliveries
  <1> QED
    BY <1>1, CallsInOrder, PTL

(* execBinaryArithmetic refuses a step iff the matches of that very step are *)
(* ambiguous, whatever the buckets keep from earlier steps.                  *)
THEOREM RefusalIsExact == FirstStep >= 0 => (Spec => []RefusedIffAmbiguous)
  <1>1. Types /\ Data => RefusedIffAmbiguous
    <2> SUFFICES ASSUME Types, Data
                 PROVE  RefusedIffAmbiguous
      OBVIOUS
    <2>1. /\ Len(out) \in Nat /\ Len(batch) \in Nat /\ DOMAIN out = 1..Len(out)
      BY SeqLength DEF Types
    <2>2. \A n \in DOMAIN out : n \in 1..(Len(out) + Len(batch))
      BY <2>1
    <2> QED
      BY <2>2 DEF Data, StepOK, RefusedIffAmbiguous
  <1> QED
    BY <1>1, Invariance, PTL

(* Every step that Next returns has exactly the samples expected of the step *)
(* vectors of its timestamp, each with its value and for its series: nothing *)
(* a bucket kept from an earlier step shows. The steps named by LeftOut are  *)
(* left out.                                                                 *)
THEOREM ValuesJoined == FirstStep >= 0 => (Spec => []ValuesAreJoined)
  <1>1. Types /\ Data => ValuesAreJoined
    <2> SUFFICES ASSUME Types, Data, NEW n \in DOMAIN out
                 PROVE  LeftOut(n) \/ Unlabelled(out[n]) = Unlabelled(Expected(given[n]))
      BY Zenon DEF ValuesAreJoined
    <2>1. /\ Len(out) \in Nat /\ Len(batch) \in Nat /\ DOMAIN out = 1..Len(out)
      BY SeqLength DEF Types
    <2>2. n \in 1..(Len(out) + Len(batch)) /\ n <= Len(out)
      BY <2>1
    <2>3. (out \o batch)[n] = out[n]
      BY <2>2, Concatenating DEF Types
    <2> QED
      BY <2>2, <2>3, Zenon DEF Data, StepOK
  <1> QED
    BY <1>1, Invariance, PTL
===============================================================================
