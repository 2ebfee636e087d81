--------------------------- MODULE OperatorStream ---------------------------
(***************************************************************************)
(* What a model.VectorOperator that stands between a source operator and a *)
(* consumer promises (execution/model/operator.go): the batches of the     *)
(* source reach the consumer in order, none of them lost, altered or made  *)
(* up; the end of data and the failure of the source are reported, and     *)
(* only after every batch that came before them.                           *)
(*                                                                         *)
(* Once the query's context is done the promise is weaker: batches may be  *)
(* skipped, and a call may report an error or the end of data early.       *)
(***************************************************************************)
EXTENDS Integers

CONSTANT NumBatches     \* the batches the source has to offer

VARIABLES
  cancelled,  \* the context passed to Next is done
  produced,   \* number of batches the source has handed over
  source,     \* what the last call on the source returned
  pos,        \* the last batch the consumer received, 0 for none
  status      \* what the last call of the consumer returned

streamVars == <<cancelled, produced, source, pos, status>>

Sources  == {"open", "ended", "failed"}
Statuses == {"open", "eof", "err"}

Init ==
  /\ cancelled = FALSE
  /\ produced = 0
  /\ source = "open"
  /\ pos = 0
  /\ status = "open"

Cancel ==
  /\ ~cancelled
  /\ cancelled' = TRUE
  /\ UNCHANGED <<produced, source, pos, status>>

(* Next of the source returned n > 0. *)
Produce ==
  /\ source = "open"
  /\ produced < NumBatches
  /\ produced' = produced + 1
  /\ UNCHANGED <<cancelled, source, pos, status>>

(* Next of the source returned 0, nil: early only under a done context. *)
SourceEnds ==
  /\ source = "open"
  /\ produced = NumBatches \/ cancelled
  /\ source' = "ended"
  /\ UNCHANGED <<cancelled, produced, pos, status>>

(* Next of the source returned an error or panicked. *)
SourceFails ==
  /\ source = "open"
  /\ source' = "failed"
  /\ UNCHANGED <<cancelled, produced, pos, status>>

Deliver ==
  /\ status = "open"
  /\ \E p \in (pos + 1)..produced :
       /\ p = pos + 1 \/ cancelled
       /\ pos' = p
  /\ UNCHANGED <<cancelled, produced, source, status>>

End ==
  /\ status = "open"
  /\ (source = "ended" /\ pos = produced) \/ cancelled
  /\ status' = "eof"
  /\ UNCHANGED <<cancelled, produced, source, pos>>

Fail ==
  /\ status # "err"
  /\ (source = "failed" /\ pos = produced) \/ cancelled
  /\ status' = "err"
  /\ UNCHANGED <<cancelled, produced, source, pos>>

Next == Cancel \/ Produce \/ SourceEnds \/ SourceFails \/ Deliver \/ End \/ Fail

Spec == Init /\ [][Next]_streamVars
=============================================================================
