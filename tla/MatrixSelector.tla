--------------------------- MODULE MatrixSelector ---------------------------
(***************************************************************************)
(* One series of the matrix selector                                       *)
(* (storage/prometheus/matrix_selector.go): a scanner moves a buffer over  *)
(* the windows (mint, maxt] of the steps of a query, reading its iterator  *)
(* only once. Windows may overlap, touch or leave gaps. A call of Next     *)
(* evaluates a batch of steps; between calls the scanner keeps the buffer, *)
(* one prefetched sample and the iterator, until the series is drained.    *)
(*                                                                         *)
(* The samples of the storage are chosen as the iterator reaches them.     *)
(***************************************************************************)
EXTENDS RingBuffers

CONSTANTS
  Queries,    \* [start, step, steps, range, offset, lookback]
  Kinds,      \* kinds of range functions
  Values,     \* values of samples
  StepsBatch, \* steps of a batch
  MaxSamples, \* limit of the sample tracker
  MaxTime,    \* bound on the timestamps of samples
  Nil, Stale  \* no iterator or buffer, the stale marker

VARIABLES
  q, kind,     \* the query and the kind of the function
  pc,          \* "idle", "step", "read", "eval", "done" or "failed"
  currentStep, \* first step of the next batch
  n, ts,       \* steps in the batch, timestamp of the step evaluated
  it,          \* timestamp of the last sample read from the iterator, or Nil
  buffer,      \* the scanner's buffer, or Nil
  lastSample,  \* the prefetched sample; its time is NoTime when there is none
  drained, exhausted,
  before,      \* sample count at the start of the batch
  tracked,     \* samples held in the sample tracker
  seen         \* the samples read so far: a function on timestamps

scan == <<it, buffer, lastSample, drained, exhausted>>
vars == <<q, kind, pc, currentStep, n, ts, scan, before, tracked, seen>>

LastStep == q.start + (q.steps - 1) * q.step
IsInstantQuery == q.steps = 1
MaxT(t) == t - q.offset
MinT(t) == t - q.offset - q.range

Init ==
  /\ q \in Queries /\ kind \in Kinds
  /\ pc = "idle" /\ currentStep = q.start /\ n = 0 /\ ts = q.start
  /\ it = Nil /\ buffer = Nil /\ lastSample = [NoSample EXCEPT !.t = NoTime]
  /\ drained = FALSE /\ exhausted = FALSE
  /\ before = 0 /\ tracked = 0 /\ seen = <<>>

-----------------------------------------------------------------------------
(* Mutant: a batch is not cut to the length of the caller's buffer. *)
BatchStepsUncapped == (LastStep - currentStep) \div q.step + 1

BatchSteps == Min({StepsBatch, (LastStep - currentStep) \div q.step + 1})

(* Next up to the loop over the steps: the batch and the lazy buffer. *)
NextBatch ==
  /\ pc = "idle" /\ currentStep <= LastStep
  /\ n' = BatchSteps
  /\ ts' = currentStep
  /\ IF buffer = Nil /\ ~exhausted
     THEN it' = 0 /\ buffer' = newBuffer(kind, q)
     ELSE UNCHANGED <<it, buffer>>
  /\ before' = IF exhausted THEN 0 ELSE SampleCount(kind, buffer')
  /\ pc' = "step"
  /\ UNCHANGED <<q, kind, currentStep, lastSample, drained, exhausted, tracked, seen>>

NextDone ==
  /\ pc = "idle" /\ currentStep > LastStep
  /\ pc' = "done"
  /\ UNCHANGED <<q, kind, currentStep, n, ts, scan, before, tracked, seen>>

(* A cancelled context, or series that cannot be loaded. *)
NextFails ==
  /\ pc = "idle" /\ pc' = "failed"
  /\ UNCHANGED <<q, kind, currentStep, n, ts, scan, before, tracked, seen>>

InBatch == ts < currentStep + n * q.step

OfferPrefetched(b) ==
  /\ buffer' = IF lastSample.t = NoTime THEN b ELSE Push(kind, b, lastSample.t, lastSample.v)
  /\ lastSample' = [lastSample EXCEPT !.t = NoTime]

(* selectPoints up to the loop: the buffer moves to the window of the step. *)
SelectPoints ==
  /\ pc = "step" /\ InBatch /\ ~exhausted
  /\ LET b == Reset(kind, buffer, MinT(ts))
     IN  IF drained \/ lastSample.t > MaxT(ts)
         THEN pc' = "eval" /\ buffer' = b /\ UNCHANGED lastSample
         ELSE pc' = "read" /\ OfferPrefetched(b)
  /\ UNCHANGED <<q, kind, currentStep, n, ts, it, drained, exhausted, before, tracked, seen>>

(* One turn of the loop of selectPoints. A sample is new to the scanner; a *)
(* stale one is skipped, one behind the window is kept for a later step.   *)
ReadSample(t, v) ==
  /\ pc = "read"
  /\ it' = t
  /\ seen' = IF v = Stale THEN seen
             ELSE [u \in DOMAIN seen \cup {t} |-> IF u = t THEN v ELSE seen[u]]
  /\ IF v = Stale THEN UNCHANGED <<buffer, lastSample, pc>>
     ELSE IF t > MaxT(ts)
          THEN lastSample' = [t |-> t, v |-> v] /\ pc' = "eval" /\ UNCHANGED buffer
          ELSE buffer' = Push(kind, buffer, t, v) /\ UNCHANGED <<lastSample, pc>>
  /\ UNCHANGED <<q, kind, currentStep, n, ts, drained, exhausted, before, tracked>>

ReadEnd ==
  /\ pc = "read" /\ drained' = TRUE /\ pc' = "eval"
  /\ UNCHANGED <<q, kind, currentStep, n, ts, it, buffer, lastSample, exhausted, before, tracked, seen>>

ReadError ==
  /\ pc = "read" /\ pc' = "failed"
  /\ UNCHANGED <<q, kind, currentStep, n, ts, scan, before, tracked, seen>>

(* The result of a step, which EvalStep appends to the step vector. *)
Result == Eval(kind, buffer)

EvalStep ==
  /\ pc = "eval"
  /\ ts' = ts + q.step /\ pc' = "step"
  /\ UNCHANGED <<q, kind, currentStep, n, scan, before, tracked, seen>>

(* A range function that cannot be evaluated. *)
EvalFails ==
  /\ pc = "eval" /\ pc' = "failed"
  /\ UNCHANGED <<q, kind, currentStep, n, ts, scan, before, tracked, seen>>

-----------------------------------------------------------------------------
(* Mutant: a drained series is released while its buffer holds samples. *)
releaseDrainedEarly ==
  /\ it' = Nil /\ exhausted' = TRUE /\ buffer' = Nil

releaseDrained ==
  /\ it' = Nil
  /\ IF Empty(kind, buffer)
     THEN exhausted' = TRUE /\ buffer' = Nil
     ELSE UNCHANGED <<exhausted, buffer>>

release == it' = Nil /\ buffer' = Nil /\ UNCHANGED exhausted

updateSampleTracker(delta) ==
  /\ tracked' = tracked + delta
  /\ pc' = IF delta > 0 /\ tracked' > MaxSamples THEN "failed" ELSE "idle"

(* Next after the loop over the steps. *)
EndBatch ==
  /\ pc = "step" /\ (exhausted \/ ~InBatch)
  /\ IF IsInstantQuery THEN release
     ELSE IF ~exhausted /\ drained THEN releaseDrained
     ELSE UNCHANGED <<it, buffer, exhausted>>
  /\ updateSampleTracker(IF IsInstantQuery \/ exhausted THEN 0
                         ELSE SampleCount(kind, buffer) - before)
  /\ currentStep' = IF pc' = "idle" THEN currentStep + n * q.step ELSE currentStep
  /\ UNCHANGED <<q, kind, n, ts, lastSample, drained, before, seen>>

Terminated == pc \in {"done", "failed"} /\ UNCHANGED vars

Next ==
  \/ NextBatch \/ NextDone \/ NextFails \/ SelectPoints
  \/ \E v \in Values \cup {Stale} : it # Nil /\ \E t \in (it + 1)..MaxTime : ReadSample(t, v)
  \/ ReadEnd \/ ReadError \/ EvalStep \/ EvalFails \/ EndBatch \/ Terminated

Spec == Init /\ [][Next]_vars

-----------------------------------------------------------------------------
(* The window of a step by definition: the samples in (mint, maxt] and, for *)
(* extended functions, the newest one within the lookback before it.       *)

Sorted(S) == [i \in 1..Cardinality(S) |->
                LET t == CHOOSE u \in S : Cardinality({w \in S : w <= u}) = i
                IN  [t |-> t, v |-> seen[t]]]
InWindow(t) == {u \in DOMAIN seen : MinT(t) < u /\ u <= MaxT(t)}
Baselines(t) == {u \in DOMAIN seen : MinT(t) - q.lookback < u /\ u <= MinT(t)}
WindowTimes(t) ==
  InWindow(t) \cup IF kind = "extended" /\ Baselines(t) # {} THEN {Max(Baselines(t))} ELSE {}
Window(t) == Sorted(WindowTimes(t))

Reference(t) ==
  LET w == Window(t)
  IN  CASE w = <<>> -> Nothing
        [] w # <<>> /\ kind = "generic"  -> w
        [] w # <<>> /\ kind = "extended" -> [samples |-> w, appeared |-> Min(DOMAIN seen)]
        [] w # <<>> /\ kind = "overtime" -> [i \in DOMAIN w |-> w[i].v]
        [] w # <<>> /\ kind = "rate"     ->
             IF Len(w) < 2 THEN Nothing ELSE extrapolatedRate(w, Len(w))

(* Every variable has its type, and the time of a prefetched sample is one *)
(* that the iterator has reached (matrixScanner, matrixSelector).          *)
TypeOK ==
  /\ q \in Queries /\ kind \in Kinds
  /\ pc \in {"idle", "step", "read", "eval", "done", "failed"}
  /\ n \in 0..StepsBatch /\ {currentStep, ts, tracked, before} \subseteq Int
  /\ it \in {Nil} \cup 0..MaxTime
  /\ DOMAIN seen \subseteq 1..MaxTime /\ \A t \in DOMAIN seen : seen[t] \in Values
  /\ lastSample.t \in {NoTime} \cup DOMAIN seen
  /\ {drained, exhausted} \subseteq BOOLEAN

(* Whatever the overlap of the windows and the batching of the steps, the  *)
(* incremental buffers give a range function what a fresh scan of the      *)
(* window would: no sample twice, none lost, none overwritten (selectPoints, *)
(* Push and Reset of the buffers). For rate this holds of windows that do  *)
(* not mix floats and histograms.                                          *)
ResultIsReference ==
  pc = "eval" /\ (kind = "rate" => ~Mixed(Window(ts))) => Result = Reference(ts)

(* A series is released only when no step to come has a result, and a      *)
(* released iterator or buffer is not used again (releaseDrained).         *)
ReleaseLosesNothing ==
  /\ exhausted => \A t \in currentStep..LastStep : Reference(t) = Nothing
  /\ pc \in {"read", "eval"} => buffer # Nil
  /\ pc = "read" => it # Nil

(* Between the calls of Next the tracker holds exactly the samples of the  *)
(* window evaluated last (batchSamplesDelta, updateSampleTracker).         *)
TrackerMatchesBuffer ==
  pc = "idle" /\ currentStep > q.start /\ ~IsInstantQuery =>
    LET w == Window(currentStep - q.step)
    IN  tracked = MapThenSumSet(LAMBDA i : valueSampleCount(w[i].v), DOMAIN w)

(* A range that mixes floats and histograms has no rate, whichever buffer  *)
(* computes it (the guard of extrapolatedRate, seen through RateBuffer).   *)
MixedRangeHasNoRate ==
  pc = "eval" /\ kind = "rate" /\ Mixed(Window(ts)) => Result = Nothing
=============================================================================
