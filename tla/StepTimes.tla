------------------------------ MODULE StepTimes ------------------------------
(* The arithmetic of steps: how many a query has, where a subquery's inner    *)
(* steps begin, and where the steps begin that a remote engine answers.       *)
(* Query options are records [start, end, step, ...] in milliseconds, and a   *)
(* step of 0 is an instant query; an engine has at least its field mint.      *)
EXTENDS Integers

NoTime == -99     \* no @ modifier, or no time at all

(* Go divides towards zero. *)
QuoZero(a, b) == IF a >= 0 THEN a \div b ELSE -((-a) \div b)

TotalSteps(o) == IF o.step = 0 THEN 1 ELSE QuoZero(o.end - o.start, o.step) + 1

(* The times a query is evaluated at. *)
Steps(o) == { o.start + k * o.step : k \in 0..(TotalSteps(o) - 1) }

(* The options a subquery's inner expression is evaluated with. *)
NestedOptionsForSubquery(o, step, range, offset) ==
  LET first == o.start - offset - range
      aligned == step * QuoZero(first, step)
  IN  [o EXCEPT !.start = IF aligned < first THEN aligned + step ELSE aligned,
                !.end = o.end - offset, !.step = step]

------------------------------------------------------------------------------
(* Remote time ranges *)

numSteps(start, end, step) == QuoZero(end - start, step) + 1

(* The start of a remote query, a whole number of steps after the query's. *)
calculateStepAlignedStart(o, engineMinTime) ==
  o.start + (numSteps(o.start, o.end, o.step) - numSteps(engineMinTime, o.end, o.step)) * o.step

LaterOf(a, b) == IF a > b THEN a ELSE b

(* Mutant: the engine's first sample is taken for its first complete step. *)
startAtFirstSample(e, o, offset, globalMinT) ==
  LET start == calculateStepAlignedStart(o, LaterOf(e.mint, o.start))
  IN  IF e.mint > o.end THEN NoTime
      ELSE IF e.mint = globalMinT THEN o.start
      ELSE IF TotalSteps(o) = 1 THEN IF e.mint < o.start - offset THEN o.start ELSE NoTime
      ELSE IF start > o.end THEN NoTime ELSE start

(* The first step an engine answers; NoTime when it has none.  offset is how *)
(* far before a step its value depends on samples.                           *)
getStartTimeForEngine(e, o, offset, globalMinT) ==
  LET required == o.start - offset
      engineMin == IF e.mint > required THEN calculateStepAlignedStart(o, e.mint + offset) ELSE e.mint
      start == calculateStepAlignedStart(o, LaterOf(engineMin, o.start))
  IN  IF e.mint > o.end THEN NoTime
      ELSE IF e.mint = globalMinT THEN o.start     \* no other engine has older samples
      ELSE IF TotalSteps(o) = 1 THEN IF e.mint < required THEN o.start ELSE NoTime
      ELSE IF start > o.end THEN NoTime ELSE start

(* What the start of a remote query promises the engine that merges it. *)
CoversItsSteps(e, o, offset, start) ==
  /\ start \in Steps(o)
  /\ e.mint <= start - offset

(* Two ways for an engine to be asked for steps it has not all samples of.     *)
(* The first step with all of them is past the end of the query: the number of *)
(* steps left is negative, and rounded up to none.                             *)
LateEngine(e, o, offset) == o.end < e.mint + offset

(* Or the query ends between two steps, and what is left of it after the last  *)
(* one makes up for what the engine lacks of its first one: the number of      *)
(* steps left is rounded down.                                                 *)
UnevenEngine(e, o, offset) ==
  /\ o.start < e.mint + offset /\ e.mint + offset <= o.end
  /\ (e.mint + offset - o.start) % o.step \in 1..((o.end - o.start) % o.step)
==============================================================================
