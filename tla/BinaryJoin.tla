----------------------------- MODULE BinaryJoin -----------------------------
(***************************************************************************)
(* The binary operators (execution/binary): vectorOperator joins the step  *)
(* vectors of two children through buckets that live as long as the query, *)
(* scalarOperator combines a vector with a scalar. Both read their         *)
(* children at the same time, the left one on a goroutine.                 *)
(*                                                                         *)
(* A label set is a function from Labels to numbers, 0 for a label it does *)
(* not have. A sample is [k, x]: k is "f" for a float, "h" for a histogram *)
(* and "none" for no sample; x is its value, or the values an arithmetic   *)
(* operation was applied to, the left one first. A step vector maps the    *)
(* series of a side to samples. Signatures stand for their hashes.         *)
(***************************************************************************)
EXTENDS Integers, Sequences, Functions

CONSTANTS
  Queries,    \* [op, card, bool, on, names, include, lhs, rhs, lvals, rvals]:
              \* the expression, the series of its sides and their samples
  CustomHists,\* the histograms with custom buckets
  StepsBatch, \* steps in a batch
  NumSteps,   \* steps of the query
  FirstStep   \* the time of the first of them, which may be before the epoch

ASSUME BatchAssumption == StepsBatch \in Nat \ {0} /\ NumSteps \in Nat /\ FirstStep \in Int

(* The parser takes bool on comparisons only and matches the set operators *)
(* many to many; a sample is a float or a histogram, and a scalar is one   *)
(* series of floats.                                                       *)
ASSUME QueriesAssumption ==
  \A x \in Queries :
    /\ x.lhs \in Seq(Range(x.lhs)) /\ x.rhs \in Seq(Range(x.rhs))
    /\ x.bool \in BOOLEAN /\ (x.bool => x.op \in {"eql", "gtr"})
    /\ x.op \in {"and", "or", "unless"} => x.card = "many_to_many"
    /\ \A v \in x.lvals \cup x.rvals : v.k \in {"f", "h"}
    /\ x.card = "scalar_left" => Len(x.lhs) = 1 /\ \A v \in x.lvals : v.k = "f"
    /\ x.card = "scalar_right" => Len(x.rhs) = 1 /\ \A v \in x.rvals : v.k = "f"

Sides == {"lhs", "rhs"}
Labels == {"name", "k", "i"}

VARIABLES
  q,          \* the query
  known,      \* the sides whose Series has returned
  tables,     \* the join tables of the query
  buckets,    \* [ats, bts, sid, val, hist] for each signature
  pos,        \* steps each child has delivered
  buf,        \* lhsBuf and rhsBuf as the children have filled them
  delivered,  \* all steps each child has delivered
  pending,    \* the sides whose Next is running
  failed,     \* the sides that have returned an error or panicked
  errChan,    \* the channel of the goroutine started last, errChan of init or lerrChan
              \* of Next: "empty" while it runs, "error" or "closed" when it has ended
  given,      \* the steps of both sides that Next has joined
  batch,      \* the steps written into buf by the call of Next
  out,        \* the steps Next has returned
  pc          \* "init", "idle", "read", "done", "failed" or "ambiguous"

vars == <<q, known, tables, buckets, pos, buf, delivered, pending, failed, errChan, given, batch, out, pc>>

None == [k |-> "none", x |-> <<>>]
Float(v) == [k |-> "f", x |-> v]
Hist(v) == [k |-> "h", x |-> v]
Zero == Float(<<0>>)

IsScalar == q.card \in {"scalar_left", "scalar_right"}
IsSetOp == q.op \in {"and", "or", "unless"}
IsComparison(op) == op \in {"eql", "gtr"}

-----------------------------------------------------------------------------
(* Operations on two values. "sub" stands for the operations without a     *)
(* meaning for a histogram and a float, "trim" for those of a histogram by *)
(* a float only.                                                           *)

Result(v, keep) == [v |-> v, keep |-> keep, incompatible |-> FALSE, err |-> FALSE]
Incompatible == [v |-> None, keep |-> FALSE, incompatible |-> TRUE, err |-> FALSE]
Failure == [v |-> None, keep |-> FALSE, incompatible |-> FALSE, err |-> TRUE]

binOp(op, l, r, hl, hr) ==
  CASE hl = None /\ hr = None ->
         (CASE op = "eql" -> Result(l, l.x = r.x)
            [] op = "gtr" -> Result(l, l.x[1] > r.x[1])
            [] op = "trim" -> Incompatible
            [] OTHER -> Result(Float(l.x \o r.x), TRUE))
    [] hl = None /\ hr # None ->
         IF op = "mul" THEN Result(Hist(l.x \o hr.x), TRUE) ELSE Incompatible
    [] hl # None /\ hr = None ->
         IF op \in {"mul", "div", "trim"} THEN Result(Hist(hl.x \o r.x), TRUE) ELSE Incompatible
    [] OTHER ->
         (CASE op = "sub" -> IF hl.x[1] \in CustomHists <=> hr.x[1] \in CustomHists
                             THEN Result(Hist(hl.x \o hr.x), TRUE) ELSE Failure
            [] op = "eql" -> Result(hl, hl = hr)
            [] OTHER -> Incompatible)

computeBinaryPairing(hval, lval, hlhs, hrhs) ==
  IF q.card = "one_to_many" THEN binOp(q.op, lval, hval, hlhs, hrhs)
  ELSE binOp(q.op, hval, lval, hlhs, hrhs)

-----------------------------------------------------------------------------
(* The join tables. *)

shouldDropMetricName == IF IsComparison(q.op) THEN q.bool ELSE q.op # "trim"

signature(s) ==
  [l \in IF q.on THEN q.names ELSE Labels \ (q.names \cup {"name"}) |-> s[l]]

resultMetric(hc, lc) ==
  [l \in Labels |->
     IF l = "name" /\ q.bool THEN 0
     ELSE IF l \in q.include THEN lc[l]
     ELSE IF q.card = "one_to_one" /\ q.on = (l \notin q.names) THEN 0
     ELSE IF l = "name" /\ shouldDropMetricName THEN 0
     ELSE hc[l]]

(* append of joinHelper: a label set that was seen keeps its index. *)
helperAppend(ls, s) == IF s \in Range(ls) THEN ls ELSE Append(ls, s)

included(s) == [l \in q.include |-> s[l]]

High == IF q.card = "one_to_many" THEN q.rhs ELSE q.lhs
Low == IF q.card = "one_to_many" THEN q.lhs ELSE q.rhs
HighSide == IF q.card = "one_to_many" THEN "rhs" ELSE "lhs"

(* Low card series of a signature, and the first of them for each value of *)
(* the included labels, in order.                                          *)
SameSig(sig) == SelectSeq([i \in DOMAIN Low |-> i], LAMBDA i : signature(Low[i]) = sig)
reps(sig) ==
  SelectSeq(SameSig(sig), LAMBDA i : \A j \in 1..(i - 1) :
    signature(Low[j]) = sig => included(Low[j]) # included(Low[i]))
rank(i) ==
  LET r == reps(signature(Low[i]))
  IN  (CHOOSE k \in DOMAIN r : included(Low[r[k]]) = included(Low[i])) - 1

(* Mutant: every low card series has the rank of the first one. *)
rankFirst(i) == 0
lcOutputOffset(i) == rank(i)

(* The metrics of a high card series, one for each rank. *)
metricsOf(i) ==
  LET r == reps(signature(High[i]))
  IN  CASE q.op = "and" -> IF r = <<>> THEN <<>> ELSE <<High[i]>>
        [] q.op \in {"or", "unless"} -> <<High[i]>>
        [] OTHER -> [k \in DOMAIN r |-> resultMetric(High[i], Low[r[k]])]

(* The series of the operator: the metrics of all high card series, and    *)
(* for "or" the low card series, each label set once.                      *)
joinSeries ==
  LET blocks[i \in 0..Len(High)] == IF i = 0 THEN <<>> ELSE blocks[i - 1] \o metricsOf(i)
      metrics == blocks[Len(High)] \o (IF q.op = "or" THEN Low ELSE <<>>)
      seen[n \in 0..Len(metrics)] == IF n = 0 THEN <<>> ELSE helperAppend(seen[n - 1], metrics[n])
  IN  seen[Len(metrics)]
SeriesId(s) == CHOOSE n \in DOMAIN joinSeries : joinSeries[n] = s

initJoinTables ==
  [series |-> joinSeries,
   hcBucket |-> [i \in DOMAIN High |-> signature(High[i])],
   lcBucket |-> [i \in DOMAIN Low |-> signature(Low[i])],
   hcBase |-> [i \in DOMAIN High |-> IF metricsOf(i) = <<>> THEN 1 ELSE SeriesId(metricsOf(i)[1])],
   lcBase |-> IF q.op = "or" THEN [i \in DOMAIN Low |-> SeriesId(Low[i])] ELSE <<>>,
   offset |-> IF IsSetOp THEN <<>> ELSE [i \in DOMAIN Low |-> lcOutputOffset(i)]]

(* The series of the vector side, with or without their names. *)
scalarTables ==
  LET vector == IF q.card = "scalar_left" THEN q.rhs ELSE q.lhs
  IN  [series |-> [i \in DOMAIN vector |->
                     IF shouldDropMetricName THEN [vector[i] EXCEPT !["name"] = 0] ELSE vector[i]],
       hcBucket |-> <<>>, lcBucket |-> <<>>, hcBase |-> <<>>, lcBase |-> <<>>, offset |-> <<>>]

Signatures == {signature(s) : s \in Range(q.lhs) \cup Range(q.rhs)}
NoTs == -1
StepTime(n) == FirstStep + n - 1
EmptyBucket == [ats |-> NoTs, bts |-> NoTs, sid |-> 1, val |-> Zero, hist |-> None]

-----------------------------------------------------------------------------
(* One step. The result is [b, vec, err]: the buckets, the samples [id,    *)
(* from, val] of the output, where id is an index into the series of the   *)
(* operator and from the input series, and whether the join was refused.   *)

Present(v) == {i \in DOMAIN v : v[i] # None}
HcSig(i) == tables.hcBucket[i]
LcSig(i) == tables.lcBucket[i]

(* "and" and "unless" mark the buckets of rhs and keep or drop by the mark; *)
(* "or" marks those of lhs and adds what rhs has in other buckets.         *)
MarkAt(b, sigs, ts) == [s \in DOMAIN b |-> IF s \in sigs THEN [b[s] EXCEPT !.ats = ts] ELSE b[s]]

execSetOp(b, ts, l, r) ==
  LET marks == IF q.op = "or" THEN {HcSig(i) : i \in Present(l)} ELSE {LcSig(i) : i \in Present(r)}
      nb    == MarkAt(b, marks, ts)
      left  == {i \in Present(l) : /\ q.op = "and" => nb[HcSig(i)].ats = ts
                                   /\ q.op = "unless" => nb[HcSig(i)].ats # ts}
      right == {i \in Present(r) : q.op = "or" /\ nb[LcSig(i)].ats # ts}
  IN  [b |-> nb, err |-> FALSE,
       vec |-> {[id |-> tables.hcBase[i], from |-> <<"lhs", i>>, val |-> l[i]] : i \in left}
               \cup {[id |-> tables.lcBase[i], from |-> <<"rhs", i>>, val |-> r[i]] : i \in right}]

(* Mutant: a bucket matches whenever it was ever written. *)
matchesEver(bucket, ts) == bucket.ats # NoTs
matches(bucket, ts) == bucket.ats = ts

(* Mutant: two series of the low card side may share a bucket. *)
lowCardCollisionLost(b, ts, low) == FALSE
lowCardCollision(b, ts, low) ==
  \E i \in Present(low) :
    b[LcSig(i)].ats = ts \/ \E j \in Present(low) \ {i} : LcSig(i) = LcSig(j)

(* A float sets val, a histogram sets hist; the other one is kept. *)
fill(bucket, s, ts, low) ==
  IF \E i \in Present(low) : LcSig(i) = s
  THEN LET i == CHOOSE i \in Present(low) : LcSig(i) = s
       IN  IF low[i].k = "f" THEN [bucket EXCEPT !.sid = i, !.val = low[i], !.ats = ts]
           ELSE [bucket EXCEPT !.sid = i, !.hist = low[i], !.ats = ts]
  ELSE bucket
fillBuckets(b, ts, low) == [s \in DOMAIN b |-> fill(b[s], s, ts, low)]

(* The value of a high card sample and its bucket, None for no output. *)
pairResult(v, jp) ==
  IF v.k = "h" THEN computeBinaryPairing(Zero, IF jp.hist # None THEN Zero ELSE jp.val, v, jp.hist)
  ELSE computeBinaryPairing(v, IF jp.hist # None THEN Zero ELSE jp.val, None, jp.hist)
pairValue(v, jp) ==
  LET r == pairResult(v, jp)
  IN  IF r.err \/ (r.incompatible /\ (v.k = "h" \/ jp.hist # None)) THEN None
      ELSE IF q.bool /\ (v.k = "h" \/ jp.hist = None) THEN Float(IF r.keep THEN <<1>> ELSE <<0>>)
      ELSE IF r.keep THEN r.v ELSE None

(* The high card samples whose bucket is of this step. *)
matched(nb, ts, high) == {i \in Present(high) : matches(nb[HcSig(i)], ts)}

(* A one-to-one match that uses a bucket for a second time. *)
highCardCollision(nb, ts, high) ==
  /\ q.card = "one_to_one"
  /\ \E i \in matched(nb, ts, high) :
       nb[HcSig(i)].bts = ts \/ \E j \in matched(nb, ts, high) \ {i} : HcSig(i) = HcSig(j)

markUsed(nb, ts, high) ==
  [s \in DOMAIN nb |-> IF \E i \in matched(nb, ts, high) : HcSig(i) = s THEN [nb[s] EXCEPT !.bts = ts] ELSE nb[s]]

pairing(nb, i, v) ==
  [id |-> tables.hcBase[i] + tables.offset[nb[HcSig(i)].sid], from |-> <<HighSide, i>>,
   val |-> pairValue(v, nb[HcSig(i)])]
pairings(nb, ts, high) ==
  {e \in {pairing(nb, i, high[i]) : i \in matched(nb, ts, high)} : e.val # None}

execArithmetic(b, ts, l, r) ==
  LET high == IF q.card = "one_to_many" THEN r ELSE l
      low  == IF q.card = "one_to_many" THEN l ELSE r
      nb   == fillBuckets(b, ts, low)
  IN  IF Present(high) = {} THEN [b |-> b, vec |-> {}, err |-> FALSE]
      ELSE IF lowCardCollision(b, ts, low) \/ highCardCollision(nb, ts, high)
      THEN [b |-> nb, vec |-> {}, err |-> TRUE]
      ELSE [b |-> markUsed(nb, ts, high), vec |-> pairings(nb, ts, high), err |-> FALSE]

scalarResult(v, s) ==
  IF v.k = "f"
  THEN IF q.card = "scalar_left" THEN binOp(q.op, s, v, None, None) ELSE binOp(q.op, v, s, None, None)
  ELSE IF q.card = "scalar_left" THEN binOp(q.op, s, Zero, None, v) ELSE binOp(q.op, Zero, s, v, None)

(* Filters keep the value of the vector, whatever side it is on. *)
scalarValue(v, s) ==
  LET r == scalarResult(v, s)
  IN  IF r.err THEN None
      ELSE IF v.k = "f" /\ q.bool THEN Float(IF r.keep THEN <<1>> ELSE <<0>>)
      ELSE IF ~r.keep THEN None
      ELSE IF v.k = "f" /\ IsComparison(q.op) THEN v
      ELSE r.v

execScalar(b, l, r) ==
  LET scalar == IF q.card = "scalar_left" THEN l[1] ELSE r[1]
      other  == IF q.card = "scalar_left" THEN r ELSE l
      Side   == IF q.card = "scalar_left" THEN "rhs" ELSE "lhs"
  IN  [b |-> b, err |-> FALSE,
       vec |-> {e \in {[id |-> i, from |-> <<Side, i>>, val |-> scalarValue(other[i], scalar)]
                       : i \in Present(other)} : e.val # None}]

execBinaryOperation(b, ts, l, r) ==
  IF IsScalar THEN execScalar(b, l, r)
  ELSE IF IsSetOp THEN execSetOp(b, ts, l, r)
  ELSE execArithmetic(b, ts, l, r)

-----------------------------------------------------------------------------
Init ==
  /\ q \in Queries
  /\ known = {} /\ failed = {} /\ pending = {} /\ pc = "init"
  /\ errChan = IF IsScalar THEN "closed" ELSE "empty"
  /\ tables = [series |-> <<>>, hcBucket |-> <<>>, lcBucket |-> <<>>, hcBase |-> <<>>,
               lcBase |-> <<>>, offset |-> <<>>]
  /\ buckets = [s \in Signatures |-> EmptyBucket]
  /\ pos = [s \in Sides |-> 0] /\ buf = [s \in Sides |-> <<>>] /\ delivered = [s \in Sides |-> <<>>]
  /\ given = <<>> /\ batch = <<>> /\ out = <<>>

(* The children whose Series is called: the scalar operator asks its vector only. *)
Asked ==
  CASE q.card = "scalar_left" -> {"rhs"} [] q.card = "scalar_right" -> {"lhs"} [] OTHER -> Sides

(* A goroutine whose child has returned closes its channel; with an error  *)
(* it first sends the error.                                               *)
Closed(s) == errChan' = IF s = "lhs" THEN "closed" ELSE errChan

(* Series of a child returns, or fails or panics. The goroutine goes on    *)
(* when init has returned an error of rhs.                                 *)
SeriesReturns(s) ==
  /\ pc \in {"init", "failed"} /\ s \in Asked \ known
  /\ known' = known \cup {s}
  /\ \/ Closed(s) /\ UNCHANGED failed
     \/ failed' = failed \cup {s} /\ UNCHANGED errChan
  /\ UNCHANGED <<q, tables, buckets, pos, buf, delivered, pending, given, batch, out, pc>>

(* The channel is new and has room for one error. *)
LhsSends ==
  /\ errChan = "empty" /\ "lhs" \in failed
  /\ errChan' = "error"
  /\ UNCHANGED <<q, known, tables, buckets, pos, buf, delivered, pending, failed, given, batch, out, pc>>

(* init and loadSeries: an error of rhs is returned before lhs is awaited. *)
InitFails ==
  /\ pc = "init" /\ failed # {} /\ ("rhs" \in failed \/ (known = Asked /\ errChan # "empty"))
  /\ pc' = "failed"
  /\ UNCHANGED <<q, known, tables, buckets, pos, buf, delivered, pending, failed, errChan, given, batch, out>>

InitReturns ==
  /\ pc = "init" /\ known = Asked /\ failed = {}
  /\ pc' = "idle" /\ tables' = IF IsScalar THEN scalarTables ELSE initJoinTables
  /\ UNCHANGED <<q, known, buckets, pos, buf, delivered, pending, failed, errChan, given, batch, out>>

NextCalled ==
  /\ pc = "idle"
  /\ pc' = "read" /\ pending' = Sides /\ errChan' = "empty"
  /\ UNCHANGED <<q, known, tables, buckets, pos, buf, delivered, failed, given, batch, out>>

ContextDone ==
  /\ pc = "idle"
  /\ pc' = "failed"
  /\ UNCHANGED <<q, known, tables, buckets, pos, buf, delivered, pending, failed, errChan, given, batch, out>>

Min2(a, b) == IF a < b THEN a ELSE b

(* The step vectors a side may deliver. A scalar always has its sample. *)
Vectors(s) ==
  LET series == IF s = "lhs" THEN q.lhs ELSE q.rhs
      vals   == IF s = "lhs" THEN q.lvals ELSE q.rvals
      empty  == IF IsScalar /\ s \notin Asked THEN {} ELSE {None}
  IN  [DOMAIN series -> vals \cup empty]

(* Next of a child: both children deliver the same steps, as they have the *)
(* same options.                                                           *)
ChildReturns(s) ==
  /\ s \in pending
  /\ pending' = pending \ {s} /\ Closed(s)
  /\ LET n == Min2(StepsBatch, NumSteps - pos[s])
     IN  \E b \in [1..n -> Vectors(s)] :
           /\ buf' = [buf EXCEPT ![s] = b] /\ pos' = [pos EXCEPT ![s] = @ + n]
           /\ delivered' = [delivered EXCEPT ![s] = @ \o b]
  /\ UNCHANGED <<q, known, tables, buckets, failed, given, batch, out, pc>>

(* Next of a child returns an error. The goroutine makes one of a panic.   *)
ChildFails(s) ==
  /\ s \in pending
  /\ pending' = pending \ {s} /\ failed' = failed \cup {s}
  /\ UNCHANGED <<q, known, tables, buckets, pos, buf, delivered, errChan, given, batch, out, pc>>

(* A panic of rhs unwinds Next at once and leaves the goroutine behind.    *)
RhsPanics ==
  /\ pc = "read" /\ "rhs" \in pending
  /\ pending' = pending \ {"rhs"} /\ failed' = failed \cup {"rhs"} /\ pc' = "failed"
  /\ UNCHANGED <<q, known, tables, buckets, pos, buf, delivered, errChan, given, batch, out>>

(* Mutant: the goroutine of lhs is not awaited. *)
RhsRead == "rhs" \notin pending

(* rhs has returned and the receive from the channel of lhs as well. *)
BothRead == "rhs" \notin pending /\ errChan # "empty"

NextFails ==
  /\ pc = "read" /\ BothRead /\ failed # {}
  /\ pc' = "failed"
  /\ UNCHANGED <<q, known, tables, buckets, pos, buf, delivered, pending, failed, errChan, given, batch, out>>

NextEnds ==
  /\ pc = "read" /\ BothRead /\ failed = {} /\ \E s \in Sides : buf[s] = <<>>
  /\ pc' = "done"
  /\ UNCHANGED <<q, known, tables, buckets, pos, buf, delivered, pending, failed, errChan, given, batch, out>>

Joining == pc = "read" /\ BothRead /\ failed = {} /\ \A s \in Sides : buf[s] # <<>>
StepsRead == Min2(Len(buf["lhs"]), Len(buf["rhs"]))

(* A turn of the loop of Next over the steps of both buffers. *)
JoinStep ==
  /\ Joining /\ Len(batch) < StepsRead
  /\ LET l == buf["lhs"][Len(batch) + 1]
         r == buf["rhs"][Len(batch) + 1]
         e == execBinaryOperation(buckets, StepTime(Len(given) + 1), l, r)
     IN  /\ buckets' = e.b
         /\ given' = Append(given, [l |-> l, r |-> r])
         /\ IF e.err THEN pc' = "ambiguous" /\ UNCHANGED batch
            ELSE batch' = Append(batch, e.vec) /\ UNCHANGED pc
  /\ UNCHANGED <<q, known, tables, pos, buf, delivered, pending, failed, errChan, out>>

NextReturns ==
  /\ Joining /\ Len(batch) = StepsRead
  /\ pc' = "idle" /\ out' = out \o batch /\ batch' = <<>>
  /\ UNCHANGED <<q, known, tables, buckets, pos, buf, delivered, pending, failed, errChan, given>>

Stopped == pc \in {"done", "failed", "ambiguous"} /\ UNCHANGED vars

Next ==
  \/ \E s \in Sides : SeriesReturns(s) \/ ChildReturns(s) \/ ChildFails(s)
  \/ LhsSends \/ RhsPanics
  \/ InitFails \/ InitReturns \/ NextCalled \/ ContextDone \/ NextFails \/ NextEnds \/ JoinStep \/ NextReturns
  \/ Stopped

Spec == Init /\ [][Next]_vars

-----------------------------------------------------------------------------
(* What a join promises, from the labels and the step vectors alone. *)

Partners(i, low) == {j \in Present(low) : LcSig(j) = HcSig(i)}

HighOf(g) == IF q.card = "one_to_many" THEN g.r ELSE g.l
LowOf(g) == IF q.card = "one_to_many" THEN g.l ELSE g.r

(* What an operation leaves of a pair of samples. *)
Outcome(e) ==
  IF e.err \/ e.incompatible THEN None
  ELSE IF q.bool THEN Float(IF e.keep THEN <<1>> ELSE <<0>>)
  ELSE IF e.keep THEN e.v ELSE None

(* The operation on the samples of the left and of the right side. *)
Applied(l, r) ==
  Outcome(binOp(q.op, IF l.k = "f" THEN l ELSE Zero, IF r.k = "f" THEN r ELSE Zero,
                IF l.k = "h" THEN l ELSE None, IF r.k = "h" THEN r ELSE None))

Joined(i, j, g) ==
  IF q.card = "one_to_many" THEN Applied(LowOf(g)[j], HighOf(g)[i])
  ELSE Applied(HighOf(g)[i], LowOf(g)[j])

(* The labels and values a step should have, and the series they are of. *)
ExpectedJoin(g) ==
  {e \in {[labels |-> resultMetric(High[p[1]], Low[p[2]]), from |-> <<HighSide, p[1]>>, val |-> Joined(p[1], p[2], g)]
          : p \in {p \in Present(HighOf(g)) \X Present(LowOf(g)) : HcSig(p[1]) = LcSig(p[2])}}
     : e.val # None}

ExpectedSet(g) ==
  LET L == {[labels |-> q.lhs[i], from |-> <<"lhs", i>>, val |-> g.l[i]] :
              i \in {i \in Present(g.l) : /\ q.op = "and" => Partners(i, g.r) # {}
                                          /\ q.op = "unless" => Partners(i, g.r) = {}}}
      R == {[labels |-> q.rhs[j], from |-> <<"rhs", j>>, val |-> g.r[j]] :
              j \in {j \in Present(g.r) : q.op = "or" /\ \A i \in Present(g.l) : HcSig(i) # LcSig(j)}}
  IN  L \cup R

(* A filter keeps the sample of the vector, on whichever side it is. *)
ExpectedScalar(g) ==
  LET left     == q.card = "scalar_left"
      v        == IF left THEN g.r ELSE g.l
      side     == IF left THEN "rhs" ELSE "lhs"
      Value(i) == LET a == IF left THEN Applied(g.l[1], v[i]) ELSE Applied(v[i], g.r[1])
                  IN  IF a # None /\ IsComparison(q.op) /\ ~q.bool THEN v[i] ELSE a
  IN  {e \in {[labels |-> tables.series[i], from |-> <<side, i>>, val |-> Value(i)] : i \in Present(v)} : e.val # None}

Labelled(vec) == {[labels |-> tables.series[e.id], from |-> e.from, val |-> e.val] : e \in vec}

Expected(g) ==
  IF IsScalar THEN ExpectedScalar(g) ELSE IF IsSetOp THEN ExpectedSet(g) ELSE ExpectedJoin(g)

(* Steps the comparison with ExpectedJoin leaves out: a bucket that has    *)
(* held a histogram gets a float.                                          *)
Tainted(n) ==
  \E m \in 1..(n - 1) : \E i \in Present(LowOf(given[m])), j \in Present(LowOf(given[n])) :
    LcSig(i) = LcSig(j) /\ LowOf(given[m])[i].k = "h" /\ LowOf(given[n])[j].k = "f"

Swapped(g) == q.card = "one_to_many" /\ \E v \in Range(g.l) \cup Range(g.r) : v.k = "h"

LeftOut(n) == ~IsScalar /\ ~IsSetOp /\ (Tainted(n) \/ Swapped(given[n]))

Ambiguous(g) ==
  /\ ~IsScalar /\ ~IsSetOp /\ Present(HighOf(g)) # {}
  /\ \/ \E i, j \in Present(LowOf(g)) : i # j /\ LcSig(i) = LcSig(j)
     \/ /\ q.card = "one_to_one"
        /\ \E i, j \in Present(HighOf(g)) : i # j /\ HcSig(i) = HcSig(j) /\ Partners(i, LowOf(g)) # {}

(* The variables have their types. *)
TypeOK ==
  /\ q \in Queries /\ known \subseteq Sides /\ pending \subseteq Sides /\ failed \subseteq Sides
  /\ pc \in {"init", "idle", "read", "done", "failed", "ambiguous"} /\ errChan \in {"empty", "error", "closed"}
  /\ \A s \in DOMAIN buckets : /\ buckets[s].ats \in NoTs..StepTime(NumSteps)
                               /\ buckets[s].bts \in NoTs..buckets[s].ats
  /\ pos \in [Sides -> 0..NumSteps] /\ Len(out) + Len(batch) <= Len(given) /\ Len(given) <= NumSteps

(* Every step that Next returns holds the join of the step vectors of that *)
(* timestamp, under the labels of the pair: nothing that a bucket kept     *)
(* from an earlier step shows. The steps named above are left out.         *)
StepsAreJoined ==
  \A n \in DOMAIN out : LeftOut(n) \/ Labelled(out[n]) = Expected(given[n])

(* A step is refused exactly when its matches are ambiguous: two series of *)
(* the low card side, or of either side of a one-to-one match, share a     *)
(* signature at this very timestamp.                                       *)
RefusedIffAmbiguous ==
  /\ \A n \in DOMAIN out : ~Ambiguous(given[n])
  /\ pc = "ambiguous" => Ambiguous(given[Len(given)])

(* Next joins, for every step, what each child has delivered for it: no    *)
(* call sees a buffer that the goroutine of lhs has not filled yet, or that *)
(* still holds the steps of an earlier call.                               *)
StepsAsDelivered ==
  \A n \in DOMAIN given : \A s \in Sides :
    n \in DOMAIN delivered[s] /\ delivered[s][n] = IF s = "lhs" THEN given[n].l ELSE given[n].r

(* A join is an expression between two step vectors: samples of no other   *)
(* step take part in it, though its buckets outlive the step, and they are *)
(* operands by their sides, also when group_right makes the right side the *)
(* high card side.                                                         *)
OfTwoStepVectors ==
  \A n \in DOMAIN out : ~IsScalar /\ ~IsSetOp => Labelled(out[n]) = ExpectedJoin(given[n])
=============================================================================
