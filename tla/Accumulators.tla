---------------------------- MODULE Accumulators ----------------------------
(* The accumulators of compute/aggregators.go and the tables of them an      *)
(* aggregation keeps for each step of a batch.  Compensated summation and    *)
(* the switch to an incremental mean are left out: they only change rounding. *)
EXTENDS PromQL

(* One record serves all accumulators; each uses some of its fields. *)
NewAcc(op, arg) ==
  [op |-> op, arg |-> arg,
   value |-> 0, count |-> 0,            \* of the floats
   histSum |-> 0, histCount |-> 0,
   points |-> {}]                       \* the floats of a quantile, numbered

AddToSum(a, v) ==
  IF IsHistogram(v) THEN [a EXCEPT !.histSum = IF a.histCount = 0 THEN v ELSE @ + v, !.histCount = @ + 1]
                    ELSE [a EXCEPT !.value = Plus(@, v), !.count = @ + 1]

(* A mean is kept as a sum and a count. *)
AddToAvg(a, v) == AddToSum(a, v)

(* NaN gives way to any other value. *)
AddToExtremum(a, v) ==
  LET first == a.count = 0
      beats == IF a.op = "max" THEN a.value < v ELSE a.value > v
  IN  IF IsHistogram(v) THEN a
      ELSE [a EXCEPT !.count = 1,
                     !.value = IF first \/ a.value = NaN \/ (v # NaN /\ beats) THEN v ELSE @]

AddToCount(a, v) == [a EXCEPT !.value = @ + Unit, !.count = 1]
AddToGroup(a, v) == [a EXCEPT !.value = Unit, !.count = 1]

AddToQuantile(a, v) ==
  IF IsHistogram(v) THEN a
  ELSE [a EXCEPT !.count = @ + 1, !.points = @ \cup {[l |-> a.count, v |-> v]}]

Add(a, v) ==
  CASE a.op = "sum" -> AddToSum(a, v)
    [] a.op = "avg" -> AddToAvg(a, v)
    [] a.op \in {"max", "min"} -> AddToExtremum(a, v)
    [] a.op = "count" -> AddToCount(a, v)
    [] a.op = "group" -> AddToGroup(a, v)
    [] a.op = "quantile" -> AddToQuantile(a, v)

ValueType(a) ==
  IF a.count > 0 /\ a.histCount > 0 THEN "mixed" ELSE IF a.count > 0 \/ a.histCount > 0 THEN "single" ELSE "none"

AccValue(a) ==
  LET mean(x, n) == ArithValue("div", x, Unit * n)
  IN  CASE a.op = "avg" -> IF a.histCount > 0 THEN mean(a.histSum, a.histCount) ELSE mean(a.value, a.count)
        [] a.op = "quantile" -> CHOOSE x \in AggValues("quantile", a.points, a.arg) : TRUE
        [] a.histCount > 0 -> a.histSum
        [] OTHER -> a.value

------------------------------------------------------------------------------
(* Tables: a timestamp, NoTime when it is fresh, and an accumulator for every *)
(* output series.                                                             *)

ResetTable(op, outputs, arg) == [t |-> NoTime, accs |-> [i \in DOMAIN outputs |-> NewAcc(op, arg)]]

Floats(s) == SelectSeq(s, LAMBDA x : ~IsHistogram(x.v))
Histograms(s) == SelectSeq(s, LAMBDA x : IsHistogram(x.v))

(* A step vector [t, s] is added; output[id] is the output series of series id. *)
AggregateInto(table, output, vector) ==
  [t |-> vector.t,
   accs |-> FoldLeft(LAMBDA accs, x : [accs EXCEPT ![output[x.id]] = Add(@, x.v)],
                     table.accs, Floats(vector.s) \o Histograms(vector.s))]

populateVector(table) ==
  LET single == SelectSeq([i \in DOMAIN table.accs |-> i], LAMBDA i : ValueType(table.accs[i]) = "single")
  IN  [t |-> table.t, s |-> [j \in DOMAIN single |-> [id |-> single[j], v |-> AccValue(table.accs[single[j]])]]]

=============================================================================
