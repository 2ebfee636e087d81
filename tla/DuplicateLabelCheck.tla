------------------------ MODULE DuplicateLabelCheck ------------------------
(***************************************************************************)
(* The duplicate label check (execution/exchange/duplicate_label.go).      *)
(*                                                                         *)
(* Series of the child with equal label sets share an output ID. For every *)
(* output ID the operator keeps a mask of the steps, counted from the      *)
(* start of the last batch, at which it has passed on a sample. Batches    *)
(* of different series may cover the same or overlapping windows of time.  *)
(*                                                                         *)
(* A step of init is one turn of its loop, a step of Next one sample. The  *)
(* mask of an output ID is the set of its bits. Hashes are taken to be     *)
(* collision free.                                                         *)
(***************************************************************************)
EXTENDS Integers, Sequences, Functions

CONSTANTS
  Labels,     \* the label sets
  MaxSeries,  \* bound on the number of series of the child
  Step,       \* the query step
  Window,     \* bits of a mask: 64 in the code
  MaxTime     \* bound on timestamps

ASSUME StepAssumption == Step \in Nat \ {0}
ASSUME WindowAssumption == Window \in Nat \ {0}
ASSUME BoundsAssumption == MaxSeries \in Nat /\ MaxTime \in Nat

Times == 0..MaxTime
NoOrigin == -1

VARIABLES
  input,     \* label sets of the child's series
  pos,       \* series of the child that init has looked at
  canon,     \* the map outputIDs of init: label set to output ID
  outputIDs, \* the slice d.outputIDs: empty while no alias is found
  series,    \* label sets of the output IDs
  seen,      \* the mask of each output ID
  origin,    \* start of the last batch, NoOrigin before the first
  now,       \* timestamp of the step vector that is looked at
  buf,       \* samples of the current batch that passed the check
  emitted,   \* samples of the batches returned to the caller
  given,     \* <<series, timestamp>> of the samples the child has returned
  status     \* "init", "idle", "batch" or how the last call ended

initVars == <<input, pos, canon, outputIDs, series>>
vars == <<initVars, seen, origin, now, buf, emitted, given, status>>

Aliased == outputIDs # <<>>

Init ==
  /\ input \in UNION {[1..n -> Labels] : n \in 0..MaxSeries}
  /\ pos = 0 /\ canon = <<>> /\ outputIDs = <<>> /\ series = input
  /\ seen = <<>> /\ origin = NoOrigin /\ now = 0
  /\ buf = {} /\ emitted = {} /\ given = {}
  /\ status = "init"

-----------------------------------------------------------------------------
(* Mutant: remapping starts without the series before the first alias. *)
InitSeriesForgetful(out, isNew, m) ==
  /\ outputIDs' = IF Aliased THEN Append(outputIDs, out)
                  ELSE IF isNew THEN <<>> ELSE Append([j \in 1..pos |-> j], out)
  /\ series' = IF isNew /\ Aliased THEN Append(series, m) ELSE series

(* Remapping state is allocated at the first alias; earlier IDs stay. *)
InitSeries(out, isNew, m) ==
  /\ outputIDs' = IF Aliased THEN Append(outputIDs, out)
                  ELSE IF isNew THEN <<>> ELSE Append([j \in 1..pos |-> j], out)
  /\ series' = CASE isNew /\ Aliased   -> Append(series, m)
                 [] ~isNew /\ ~Aliased -> SubSeq(input, 1, pos)
                 [] OTHER              -> series

InitLoop ==
  /\ status = "init" /\ pos < Len(input)
  /\ pos' = pos + 1
  /\ LET m     == input[pos + 1]
         isNew == m \notin DOMAIN canon
         out   == IF ~isNew THEN canon[m]
                  ELSE IF Aliased THEN Len(series) + 1 ELSE pos + 1
     IN  /\ InitSeries(out, isNew, m)
         /\ canon' = [l \in DOMAIN canon \cup {m} |-> IF l = m THEN out ELSE canon[l]]
  /\ UNCHANGED <<input, seen, origin, now, buf, emitted, given, status>>

InitDone ==
  /\ status = "init" /\ pos = Len(input)
  /\ seen' = IF Aliased THEN [o \in 1..Len(series) |-> {}] ELSE <<>>
  /\ status' = "idle"
  /\ UNCHANGED <<initVars, origin, now, buf, emitted, given>>

(* Series of the child, its Next or the context check failed. *)
ChildFails ==
  /\ status = "idle" \/ (status = "init" /\ pos = 0)
  /\ status' = "failed"
  /\ UNCHANGED <<initVars, seen, origin, now, buf, emitted, given>>

-----------------------------------------------------------------------------
(* Mutants: bits are lost, are kept in place or fall below the origin. *)
ClearedMask(mask, shift) == {}
UnshiftedMask(mask, shift) == mask
UnclippedMask(mask, shift) == {b - shift : b \in mask}

(* seen[i] >>= shift *)
ShiftRight(mask, shift) == {b - shift : b \in {c \in mask : c >= shift}}

(* The child returned a batch that starts at first. *)
NextBatch(first) ==
  /\ status = "idle"
  /\ now' = first
  /\ IF ~Aliased THEN status' = "batch" /\ UNCHANGED <<seen, origin>>
     ELSE LET delta == IF origin = NoOrigin THEN 0 ELSE first - origin
          IN  IF delta < 0 \/ delta % Step # 0
              THEN status' = "failed" /\ UNCHANGED <<seen, origin>>
              ELSE /\ seen' = [o \in DOMAIN seen |-> ShiftRight(seen[o], delta \div Step)]
                   /\ origin' = first
                   /\ status' = "batch"
  /\ UNCHANGED <<initVars, buf, emitted, given>>

(* The next step vector of the batch. *)
NextVector(t) ==
  /\ status = "batch"
  /\ LET offset == t - origin
     IN  IF Aliased /\ (offset < 0 \/ offset % Step # 0 \/ offset \div Step >= Window)
         THEN status' = "failed" /\ UNCHANGED now
         ELSE now' = t /\ UNCHANGED status
  /\ UNCHANGED <<initVars, seen, origin, buf, emitted, given>>

(* One sample, float or histogram, of the step vector. The child returns   *)
(* at most one sample of a series for a timestamp.                         *)
NextSample(id) ==
  /\ status = "batch" /\ <<id, now>> \notin given
  /\ given' = given \cup {<<id, now>>}
  /\ LET out == IF Aliased THEN outputIDs[id] ELSE id
         bit == (now - origin) \div Step
     IN  IF Aliased /\ bit \in seen[out]
         THEN status' = "duplicate" /\ UNCHANGED <<seen, buf>>
         ELSE /\ seen' = IF Aliased THEN [seen EXCEPT ![out] = @ \cup {bit}] ELSE seen
              /\ buf' = buf \cup {[in |-> id, out |-> out, t |-> now]}
              /\ UNCHANGED status
  /\ UNCHANGED <<initVars, origin, now, emitted>>

NextReturns ==
  /\ status = "batch"
  /\ emitted' = emitted \cup buf
  /\ buf' = {}
  /\ status' = "idle"
  /\ UNCHANGED <<initVars, seen, origin, now, given>>

Next ==
  \/ InitLoop \/ InitDone \/ ChildFails \/ NextReturns
  \/ \E t \in Times : NextBatch(t) \/ NextVector(t)
  \/ \E id \in DOMAIN input : NextSample(id)

Spec == Init /\ [][Next]_vars

-----------------------------------------------------------------------------
(* Properties.                                                             *)

Samples == [in : 1..MaxSeries, out : Nat, t : Times]

(* Types of the fields of duplicateLabelCheckOperator; a mask has no more  *)
(* bits than its width.                                                    *)
TypeOK ==
  /\ input \in Seq(Labels) /\ Len(input) <= MaxSeries
  /\ pos \in 0..Len(input)
  /\ outputIDs \in Seq(Nat) /\ series \in Seq(Labels)
  /\ Aliased /\ status # "init" => DOMAIN seen = 1..Len(series)
  /\ \A o \in DOMAIN seen : seen[o] \subseteq 0..(Window - 1)
  /\ origin \in Times \cup {NoOrigin} /\ now \in Times
  /\ buf \subseteq Samples /\ emitted \subseteq Samples
  /\ given \subseteq (1..MaxSeries) \X Times
  /\ status \in {"init", "idle", "batch", "failed", "duplicate"}

(* Every sample the caller gets has an output ID whose labels, in Series,  *)
(* are those of the child's series, and no two output IDs have the same    *)
(* labels.                                                                 *)
RemapSound ==
  /\ \A x \in emitted \cup buf : series[x.out] = input[x.in]
  /\ status \in {"idle", "batch"} => IsInjective(series)

(* However the batches of different series overlap, the caller never gets  *)
(* two samples with the same labels and the same timestamp.                *)
NoDuplicates ==
  \A x, y \in emitted \cup buf :
    x # y => ~(input[x.in] = input[y.in] /\ x.t = y.t)

(* ErrDuplicateLabelSet is reported only when two series of the child      *)
(* really have the same labels and a sample at the same timestamp.         *)
AlarmIsTrue ==
  status = "duplicate" =>
    \E g, h \in given : g[1] # h[1] /\ g[2] = h[2] /\ input[g[1]] = input[h[1]]
=============================================================================
