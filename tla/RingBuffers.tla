---------------------------- MODULE RingBuffers ----------------------------
(***************************************************************************)
(* The buffers of range vector functions (package ringbuffer): generic,    *)
(* extended (xrate, xincrease, xdelta), over_time and rate. A buffer is a  *)
(* record; Reset moves it to the window of an evaluation step, Push offers *)
(* it a sample, Eval says what the range function gets to see.             *)
(*                                                                         *)
(* A value is [h, n]: h tells histograms from floats, n is the float or    *)
(* stands for the content of the histogram. Generic buffers keep slots     *)
(* whose histograms live in a heap, since slots are reused and histograms  *)
(* are overwritten in place.                                               *)
(***************************************************************************)
EXTENDS Integers, Sequences, SequencesExt, FiniteSetsExt

CONSTANTS
  InitialSize,  \* slots of a fresh generic buffer: 8 in the code
  HistWeight,   \* samples a histogram counts for: its size over 16 bytes
  Nothing       \* no result

ASSUME SizeAssumption == InitialSize \in Nat \ {0}
ASSUME WeightAssumption == HistWeight \in Nat \ {0}

NoTime == -1000   \* math.MinInt64
Never == 1000     \* math.MaxInt64

valueSampleCount(v) == IF v.h THEN HistWeight ELSE 1
Float(v) == IF v.h THEN 0 ELSE v.n   \* the field F of a value

-----------------------------------------------------------------------------
(* GenericRingBuffer. items are all slots of the array, of which the first *)
(* n hold samples; p points into the heap, 0 is nil.                       *)

EmptySlot == [t |-> 0, f |-> 0, p |-> 0]
NewGeneric == [items |-> [i \in 1..InitialSize |-> EmptySlot], n |-> 0,
               heap |-> <<>>, count |-> 0, start |-> 0]

Pointers(b) == {b.items[i].p : i \in DOMAIN b.items} \ {0}
FreshPointer(b) == Min(1..(Cardinality(Pointers(b)) + 1) \ Pointers(b))
Store(heap, p, x) == [q \in DOMAIN heap \cup {p} |-> IF q = p THEN x ELSE heap[q]]

SlotValue(b, i) == LET s == b.items[i]
                   IN  IF s.p = 0 THEN [h |-> FALSE, n |-> s.f]
                                  ELSE [h |-> TRUE, n |-> b.heap[s.p]]
SlotTime(b, i) == b.items[i].t
Samples(b) == [i \in 1..b.n |-> [t |-> SlotTime(b, i), v |-> SlotValue(b, i)]]

setSample(b, i, t, v) ==
  LET p == IF ~v.h THEN 0 ELSE IF b.items[i].p = 0 THEN FreshPointer(b) ELSE b.items[i].p
  IN  [b EXCEPT !.items[i] = [t |-> t, f |-> Float(v), p |-> p],
                !.heap = IF v.h THEN Store(b.heap, p, v.n) ELSE b.heap]

(* The append of a full slice moves to an array twice as large. *)
Grow(b) == IF b.n < Len(b.items) THEN b
           ELSE [b EXCEPT !.items = b.items \o [i \in 1..b.n |-> EmptySlot]]

pushGeneric(b, t, v) ==
  [setSample(Grow(b), b.n + 1, t, v) EXCEPT !.n = b.n + 1, !.count = b.count + valueSampleCount(v)]

CountOf(b, k) == MapThenSumSet(LAMBDA i : valueSampleCount(SlotValue(b, i)), 1..k)

(* Mutant: the dropped slots are not moved behind the kept ones, so that   *)
(* two slots come to share a histogram.                                    *)
dropWithoutTail(b, k) ==
  [b EXCEPT !.items = SubSeq(b.items, k + 1, b.n) \o SubSeq(b.items, b.n - k + 1, Len(b.items)),
            !.n = b.n - k, !.count = b.count - CountOf(b, k)]

(* Mutant: the dropped samples stay in the sample count. *)
dropUncounted(b, k) ==
  [b EXCEPT !.items = SubSeq(b.items, k + 1, b.n) \o SubSeq(b.items, 1, k)
                      \o SubSeq(b.items, b.n + 1, Len(b.items)),
            !.n = b.n - k]

drop(b, k) ==
  [b EXCEPT !.items = SubSeq(b.items, k + 1, b.n) \o SubSeq(b.items, 1, k)
                      \o SubSeq(b.items, b.n + 1, Len(b.items)),
            !.n = b.n - k, !.count = b.count - CountOf(b, k)]

AtOrBefore(b, mint) == {i \in 1..b.n : SlotTime(b, i) <= mint}

PushGeneric(b, t, v) == IF t <= b.start THEN b ELSE pushGeneric(b, t, v)
ResetGeneric(b, mint) ==
  IF b.n = 0 \/ SlotTime(b, b.n) < mint
  THEN [b EXCEPT !.start = mint, !.n = 0, !.count = 0]
  ELSE drop([b EXCEPT !.start = mint], Cardinality(AtOrBefore(b, mint)))

-----------------------------------------------------------------------------
(* ExtendedRingBuffer: a generic buffer that keeps one baseline. *)

NewExtended(lookback) ==
  [items |-> NewGeneric.items, n |-> 0, heap |-> <<>>, count |-> 0, start |-> 0,
   lookback |-> lookback, appeared |-> NoTime]

ResetExtended(b, mint) ==
  LET k    == Cardinality(AtOrBefore(b, mint))
      keep == k > 0 /\ SlotTime(b, k) >= mint - b.lookback
  IN  drop([b EXCEPT !.start = mint], IF keep THEN k - 1 ELSE k)

ReplaceBaseline(b, i, t, v) ==
  IF t < SlotTime(b, i) THEN b
  ELSE [setSample(b, i, t, v)
        EXCEPT !.count = b.count - valueSampleCount(SlotValue(b, i)) + valueSampleCount(v)]

InsertBaseline(b, t, v) ==
  LET g == Grow(b)
      moved == [g EXCEPT !.items = <<EmptySlot>> \o SubSeq(g.items, 1, g.n)
                                   \o SubSeq(g.items, g.n + 2, Len(g.items))]
  IN  [setSample(moved, 1, t, v) EXCEPT !.n = b.n + 1, !.count = b.count + valueSampleCount(v)]

PushBaseline(b, t, v) ==
  LET olds == AtOrBefore(b, b.start)
  IN  IF b.start - t > b.lookback THEN b
      ELSE IF olds # {} THEN ReplaceBaseline(b, Max(olds), t, v)
      ELSE InsertBaseline(b, t, v)

PushExtended(b, t, v) ==
  LET seen == [b EXCEPT !.appeared = IF b.appeared = NoTime THEN t ELSE Min({t, b.appeared})]
  IN  IF t > b.start THEN pushGeneric(seen, t, v) ELSE PushBaseline(seen, t, v)

-----------------------------------------------------------------------------
(* OverTimeBuffer and RateBuffer work on the windows of the next steps. A  *)
(* window has the bounds and counts of its stepRange; acc is what its      *)
(* accumulator has been given, first its first sample.                     *)

overlapSteps(g) == Min({(g.range - 1) \div g.step + 1, g.steps})

NoSample == [t |-> Never, v |-> [h |-> FALSE, n |-> 0]]
EmptyWindow(mint, maxt) ==
  [mint |-> mint, maxt |-> maxt, num |-> 0, count |-> 0, acc |-> <<>>, first |-> NoSample]

stepRanges(g) ==
  [i \in 1..overlapSteps(g) |->
     LET maxt == g.start + (i - 1) * g.step - g.offset IN EmptyWindow(maxt - g.range, maxt)]

(* The steps a sample is used for: the loop ends at the first other step. *)
UsedFor(ranges, t) ==
  {i \in DOMAIN ranges : \A j \in 1..i : ranges[j].mint < t /\ t <= ranges[j].maxt}

AddSample(w, t, v) ==
  [w EXCEPT !.num = w.num + 1, !.count = w.count + valueSampleCount(v),
            !.acc = Append(w.acc, v),
            !.first = IF t >= w.first.t THEN w.first ELSE [t |-> t, v |-> v]]

AddToWindows(ranges, t, v) ==
  [i \in DOMAIN ranges |-> IF i \in UsedFor(ranges, t) THEN AddSample(ranges[i], t, v) ELSE ranges[i]]

Rotate(ranges, step) ==
  Append(Tail(ranges), EmptyWindow(Last(ranges).mint + step, Last(ranges).maxt + step))

PushOverTime(b, t, v) ==
  IF t <= b.ranges[1].mint THEN b ELSE [b EXCEPT !.ranges = AddToWindows(b.ranges, t, v)]
ResetOverTime(b, mint) ==
  IF b.ranges[1].mint = mint THEN b ELSE [b EXCEPT !.ranges = Rotate(b.ranges, b.step)]

(* The sample before and the sample after a counter reset, both of which   *)
(* lie in the current window. The second case also compares the float of a *)
(* sample with the zero float of a histogram.                              *)
ResetPair(b, t, v) ==
  LET last == b.last.v
      AsFloat(x) == [h |-> FALSE, n |-> Float(x)]
  IN  IF b.last.t <= b.mint THEN <<>>
      ELSE IF v.h /\ last.h
           THEN IF v.n < last.n THEN <<b.last, [t |-> t, v |-> v]>> ELSE <<>>
           ELSE IF Float(last) > Float(v)
                THEN <<[t |-> b.last.t, v |-> AsFloat(last)], [t |-> t, v |-> AsFloat(v)]>>
                ELSE <<>>

PushRate(b, t, v) ==
  IF t <= b.mint THEN b
  ELSE [b EXCEPT !.resets = b.resets \o ResetPair(b, t, v), !.last = [t |-> t, v |-> v],
                 !.ranges = AddToWindows(b.ranges, t, v)]
ResetRate(b, mint) ==
  IF b.ranges[1].mint = mint THEN [b EXCEPT !.mint = mint]
  ELSE [b EXCEPT !.mint = mint, !.resets = SelectSeq(b.resets, LAMBDA s : s.t > mint),
                 !.ranges = Rotate(b.ranges, b.step)]

(* extrapolatedRate: a mixed range has no rate; otherwise the rate is a    *)
(* function of the increase, the first and last sample and their number.   *)
Mixed(s) == \E i, j \in DOMAIN s : s[i].v.h /\ ~s[j].v.h
Increase(s) ==
  Last(s).v.n - s[1].v.n
  + MapThenSumSet(LAMBDA i : IF s[i].v.n < s[i - 1].v.n THEN s[i - 1].v.n ELSE 0, 2..Len(s))
extrapolatedRate(s, num) ==
  IF Mixed(s) THEN Nothing
  ELSE [increase |-> Increase(s), first |-> s[1], last |-> Last(s), num |-> num]

CompactByTime(s) ==
  FoldLeft(LAMBDA acc, x : IF acc # <<>> /\ Last(acc).t = x.t THEN acc ELSE Append(acc, x), <<>>, s)

EvalRate(b) ==
  LET first == b.ranges[1].first
  IN  IF first.t = Never \/ first.t = b.last.t THEN Nothing
      ELSE extrapolatedRate(CompactByTime(<<first>> \o b.resets \o <<b.last>>), b.ranges[1].num)

-----------------------------------------------------------------------------
(* The interface Buffer, by the kind of range function. *)

newBuffer(kind, g) ==
  CASE kind = "generic"  -> NewGeneric
    [] kind = "extended" -> NewExtended(g.lookback - 1)
    [] kind = "overtime" -> [ranges |-> stepRanges(g), step |-> g.step]
    [] kind = "rate"     -> [ranges |-> stepRanges(g), step |-> g.step, resets |-> <<>>,
                             last |-> [NoSample EXCEPT !.t = NoTime], mint |-> Never]

Push(kind, b, t, v) ==
  CASE kind = "generic"  -> PushGeneric(b, t, v)
    [] kind = "extended" -> PushExtended(b, t, v)
    [] kind = "overtime" -> PushOverTime(b, t, v)
    [] kind = "rate"     -> PushRate(b, t, v)

Reset(kind, b, mint) ==
  CASE kind = "generic"  -> ResetGeneric(b, mint)
    [] kind = "extended" -> ResetExtended(b, mint)
    [] kind = "overtime" -> ResetOverTime(b, mint)
    [] kind = "rate"     -> ResetRate(b, mint)

Streaming(kind) == kind \in {"overtime", "rate"}
Empty(kind, b) == IF Streaming(kind) THEN b.ranges[1].first.t = Never ELSE b.n = 0
SampleCount(kind, b) == IF Streaming(kind) THEN b.ranges[1].count ELSE b.count

(* What the range function is given; an empty range has no result. *)
Eval(kind, b) ==
  CASE kind = "rate" -> EvalRate(b)
    [] Empty(kind, b) -> Nothing
    [] OTHER -> CASE kind = "generic"  -> Samples(b)
                  [] kind = "extended" -> [samples |-> Samples(b), appeared |-> b.appeared]
                  [] kind = "overtime" -> b.ranges[1].acc
=============================================================================
