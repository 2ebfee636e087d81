----------------------------- MODULE Concurrent -----------------------------
(***************************************************************************)
(* The concurrency operator (execution/exchange/concurrent.go).            *)
(*                                                                         *)
(* A goroutine, pull, reads batches from the child operator into pooled    *)
(* buffers and sends them through the channel buffer. The goroutine of the *)
(* parent operator receives them in Next, swaps the step vectors it        *)
(* receives with those of its own buffer and puts the pooled buffer back   *)
(* into returnChan. A third goroutine, drainBufferOnCancel, empties the    *)
(* channel once the context is done, so that pull cannot block on it.      *)
(*                                                                         *)
(* A batch is one unit: the first n step vectors of a buffer are swapped   *)
(* together. The inner slices of a batch are tracked by identity, because  *)
(* swapping moves them between the pool and the caller.                    *)
(***************************************************************************)
EXTENDS Integers, Sequences, Functions

CONSTANTS
  BufferSize,  \* capacity of the channel buffer
  NumBatches   \* batches the child has before it returns 0

ASSUME BufferSizeAssumption == BufferSize \in Nat \ {0}
ASSUME NumBatchesAssumption == NumBatches \in Nat

Buffers == 1..(BufferSize + 1)  \* the pooled buffers
NoBuf   == 0                    \* a nil []model.StepVector

VARIABLES
  ctxDone,    \* the context of the first Next call is done
  childPos,   \* batches the child has produced
  childSt,    \* "open", "ended" (returned 0) or "failed" (error or panic)
  inited,     \* seriesOnce has run
  returnChan, \* the channel of free buffers
  buffer,     \* the channel: a buffer holding a batch, or NoBuf for an error
  closed,     \* the channel is closed
  pullPc, readBuf,    \* the pull goroutine
  drainPc, drainBuf,  \* the drainBufferOnCancel goroutine
  consPc, consBuf,    \* the goroutine that calls Series and Next
  slices,     \* the inner slices behind each buffer, NoBuf being the caller's
  content,    \* the batch last written into each set of inner slices
  status,     \* outcome of the last call of Next: "open" for n > 0
  received    \* the batch the last successful Next returned, 0 for none

childVars == <<childPos, childSt>>
pullVars  == <<pullPc, readBuf>>
drainVars == <<drainPc, drainBuf>>
consVars  == <<consPc, consBuf, status, received>>
dataVars  == <<slices, content>>
vars == <<ctxDone, childVars, inited, returnChan, buffer, closed,
          pullVars, drainVars, consVars, dataVars>>

Places  == Buffers \cup {NoBuf}   \* NoBuf stands for the caller's own buffer
Batches == 0..NumBatches

PullPcs  == {"off", "select", "take", "next", "send", "returnEnd",
             "returnErr", "sendErr", "close", "done"}
DrainPcs == {"off", "wait", "range", "return", "done"}
ConsPcs  == {"idle", "check", "start", "receive", "swap", "return"}

Init ==
  /\ ctxDone = FALSE
  /\ childPos = 0 /\ childSt = "open"
  /\ inited = FALSE /\ returnChan = <<>>
  /\ buffer = <<>> /\ closed = FALSE
  /\ pullPc = "off" /\ readBuf = NoBuf
  /\ drainPc = "off" /\ drainBuf = NoBuf
  /\ consPc = "idle" /\ consBuf = NoBuf
  /\ slices = [p \in Places |-> p]
  /\ content = [p \in Places |-> 0]
  /\ status = "open" /\ received = 0

(* Timeout, Cancel, or the deferred cancel of Exec when the query returns. *)
CancelContext ==
  /\ ~ctxDone
  /\ ctxDone' = TRUE
  /\ UNCHANGED <<childVars, inited, returnChan, buffer, closed, pullVars,
                 drainVars, consVars, dataVars>>

-----------------------------------------------------------------------------
(* The caller: Series and Next.                                            *)

(* Mutants: a pool larger than the channels; a pool made by each caller. *)
InitBuffersTooMany ==
  /\ inited' = TRUE
  /\ returnChan' = IF inited THEN returnChan ELSE [b \in 1..(BufferSize + 2) |-> b]
InitBuffersTwice ==
  /\ inited' = TRUE
  /\ returnChan' = returnChan \o [b \in Buffers |-> b]

(* seriesOnce.Do: whichever of Series and Next comes first makes the pool. *)
InitBuffers ==
  /\ inited' = TRUE
  /\ returnChan' = IF inited THEN returnChan ELSE [b \in Buffers |-> b]

Series ==
  /\ consPc = "idle" /\ ~inited
  /\ InitBuffers
  /\ UNCHANGED <<ctxDone, childVars, buffer, closed, pullVars, drainVars,
                 consVars, dataVars>>

(* A parent calls again after the end of data (coalesce does), not after   *)
(* an error.                                                               *)
Call ==
  /\ consPc = "idle" /\ status # "err"
  /\ consPc' = "check"
  /\ UNCHANGED <<ctxDone, childVars, inited, returnChan, buffer, closed,
                 pullVars, drainVars, consBuf, status, received, dataVars>>

CheckContext ==
  /\ consPc = "check"
  /\ consPc' = IF ctxDone THEN "idle" ELSE "start"
  /\ status' = IF ctxDone THEN "err" ELSE status
  /\ UNCHANGED <<ctxDone, childVars, inited, returnChan, buffer, closed,
                 pullVars, drainVars, consBuf, received, dataVars>>

(* seriesOnce.Do, then once.Do, which starts the two goroutines. *)
StartOnce ==
  /\ consPc = "start"
  /\ consPc' = "receive"
  /\ InitBuffers
  /\ pullPc' = IF pullPc = "off" THEN "select" ELSE pullPc
  /\ drainPc' = IF drainPc = "off" THEN "wait" ELSE drainPc
  /\ UNCHANGED <<ctxDone, childVars, buffer, closed, readBuf, drainBuf,
                 consBuf, status, received, dataVars>>

Receive ==
  /\ consPc = "receive"
  /\ \/ /\ buffer # <<>>
        /\ buffer' = Tail(buffer)
        /\ consBuf' = Head(buffer)
        /\ consPc' = IF Head(buffer) = NoBuf THEN "idle" ELSE "swap"
        /\ status' = IF Head(buffer) = NoBuf THEN "err" ELSE status
     \/ /\ buffer = <<>> /\ closed
        /\ status' = "eof"
        /\ consPc' = "idle"
        /\ UNCHANGED <<buffer, consBuf>>
  /\ UNCHANGED <<ctxDone, childVars, inited, returnChan, closed, pullVars,
                 drainVars, received, dataVars>>

(* Mutant: the caller takes the batch and the pool keeps it, too. *)
AliasSlices(b) == [slices EXCEPT ![NoBuf] = slices[b]]

(* buf[i], r.vectors[i] = r.vectors[i], buf[i] *)
SwapSlices(b) == [slices EXCEPT ![NoBuf] = slices[b], ![b] = slices[NoBuf]]

Swap ==
  /\ consPc = "swap"
  /\ consPc' = "return"
  /\ slices' = SwapSlices(consBuf)
  /\ UNCHANGED <<ctxDone, childVars, inited, returnChan, buffer, closed,
                 pullVars, drainVars, consBuf, status, received, content>>

(* Mutant: as many slots as the other channel. *)
ReturnHasRoomShort == Len(returnChan) < BufferSize

(* A send on returnChan blocks while its bufferSize + 2 slots are full. *)
ReturnHasRoom == Len(returnChan) < BufferSize + 2

(* returnChan <- r.vectors, and Next returns n. *)
ReturnSwapped ==
  /\ consPc = "return"
  /\ ReturnHasRoom
  /\ returnChan' = Append(returnChan, consBuf)
  /\ consPc' = "idle"
  /\ consBuf' = NoBuf
  /\ received' = content[slices[NoBuf]]
  /\ UNCHANGED <<ctxDone, childVars, inited, buffer, closed, pullVars,
                 drainVars, status, dataVars>>

Consumer ==
  Series \/ Call \/ CheckContext \/ StartOnce \/ Receive \/ Swap \/ ReturnSwapped

-----------------------------------------------------------------------------
(* The pull goroutine.                                                     *)

PullSelect ==
  /\ pullPc = "select"
  /\ pullPc' = IF ctxDone THEN "sendErr" ELSE "take"
  /\ UNCHANGED <<ctxDone, childVars, inited, returnChan, buffer, closed,
                 readBuf, drainVars, consVars, dataVars>>

(* The inner select picks any of its ready cases. *)
PullTake ==
  /\ pullPc = "take"
  /\ \/ /\ returnChan # <<>>
        /\ returnChan' = Tail(returnChan)
        /\ readBuf' = Head(returnChan)
        /\ pullPc' = "next"
     \/ /\ ctxDone
        /\ pullPc' = "sendErr"
        /\ UNCHANGED <<returnChan, readBuf>>
  /\ UNCHANGED <<ctxDone, childVars, inited, buffer, closed, drainVars,
                 consVars, dataVars>>

(* c.next.Next wrote a batch into readBuf. *)
PullNextData ==
  /\ pullPc = "next"
  /\ childPos < NumBatches
  /\ childPos' = childPos + 1
  /\ content' = [content EXCEPT ![slices[readBuf]] = childPos + 1]
  /\ pullPc' = "send"
  /\ UNCHANGED <<ctxDone, childSt, inited, returnChan, buffer, closed,
                 readBuf, drainVars, consVars, slices>>

(* c.next.Next returned 0; a nested operator may do so early on a done     *)
(* context.                                                                *)
PullNextEnd ==
  /\ pullPc = "next"
  /\ childPos = NumBatches \/ ctxDone
  /\ childSt' = "ended"
  /\ pullPc' = "returnEnd"
  /\ UNCHANGED <<ctxDone, childPos, inited, returnChan, buffer, closed,
                 readBuf, drainVars, consVars, dataVars>>

(* Mutant: an error of the child ends the stream. *)
PullNextErrSwallowed ==
  /\ pullPc = "next"
  /\ childSt' = "failed"
  /\ pullPc' = "returnEnd"
  /\ UNCHANGED <<ctxDone, childPos, inited, returnChan, buffer, closed,
                 readBuf, drainVars, consVars, dataVars>>

PullNextErr ==
  /\ pullPc = "next"
  /\ childSt' = "failed"
  /\ pullPc' = "returnErr"
  /\ UNCHANGED <<ctxDone, childPos, inited, returnChan, buffer, closed,
                 readBuf, drainVars, consVars, dataVars>>

(* The deferred function reports a panic; readBuf is never returned. *)
PullNextPanic ==
  /\ pullPc = "next"
  /\ childSt' = "failed"
  /\ pullPc' = "sendErr"
  /\ UNCHANGED <<ctxDone, childPos, inited, returnChan, buffer, closed,
                 readBuf, drainVars, consVars, dataVars>>

PullReturn ==
  /\ pullPc \in {"returnEnd", "returnErr"}
  /\ ReturnHasRoom
  /\ returnChan' = Append(returnChan, readBuf)
  /\ readBuf' = NoBuf
  /\ pullPc' = IF pullPc = "returnEnd" THEN "close" ELSE "sendErr"
  /\ UNCHANGED <<ctxDone, childVars, inited, buffer, closed, drainVars,
                 consVars, dataVars>>

PullSend ==
  /\ pullPc = "send"
  /\ Len(buffer) < BufferSize
  /\ buffer' = Append(buffer, readBuf)
  /\ readBuf' = NoBuf
  /\ pullPc' = "select"
  /\ UNCHANGED <<ctxDone, childVars, inited, returnChan, closed, drainVars,
                 consVars, dataVars>>

PullSendErr ==
  /\ pullPc = "sendErr"
  /\ Len(buffer) < BufferSize
  /\ buffer' = Append(buffer, NoBuf)
  /\ pullPc' = "close"
  /\ UNCHANGED <<ctxDone, childVars, inited, returnChan, closed, readBuf,
                 drainVars, consVars, dataVars>>

(* Mutant: the deferred close is missing. *)
PullCloseForgotten ==
  /\ pullPc = "close"
  /\ pullPc' = "done"
  /\ UNCHANGED <<ctxDone, childVars, inited, returnChan, buffer, closed,
                 readBuf, drainVars, consVars, dataVars>>

PullClose ==
  /\ pullPc = "close"
  /\ closed' = TRUE
  /\ pullPc' = "done"
  /\ UNCHANGED <<ctxDone, childVars, inited, returnChan, buffer, readBuf,
                 drainVars, consVars, dataVars>>

Pull ==
  PullSelect \/ PullTake \/ PullNextData \/ PullNextEnd \/ PullNextErr
    \/ PullNextPanic \/ PullReturn \/ PullSend \/ PullSendErr \/ PullClose

-----------------------------------------------------------------------------
(* The drainBufferOnCancel goroutine.                                      *)

DrainWake ==
  /\ drainPc = "wait" /\ ctxDone
  /\ drainPc' = "range"
  /\ UNCHANGED <<ctxDone, childVars, inited, returnChan, buffer, closed,
                 pullVars, drainBuf, consVars, dataVars>>

DrainRange ==
  /\ drainPc = "range"
  /\ \/ /\ buffer # <<>>
        /\ buffer' = Tail(buffer)
        /\ drainBuf' = Head(buffer)
        /\ drainPc' = IF Head(buffer) = NoBuf THEN "range" ELSE "return"
     \/ /\ buffer = <<>> /\ closed
        /\ drainPc' = "done"
        /\ UNCHANGED <<buffer, drainBuf>>
  /\ UNCHANGED <<ctxDone, childVars, inited, returnChan, closed, pullVars,
                 consVars, dataVars>>

DrainReturn ==
  /\ drainPc = "return"
  /\ ReturnHasRoom
  /\ returnChan' = Append(returnChan, drainBuf)
  /\ drainBuf' = NoBuf
  /\ drainPc' = "range"
  /\ UNCHANGED <<ctxDone, childVars, inited, buffer, closed, pullVars,
                 consVars, dataVars>>

Drain == DrainWake \/ DrainRange \/ DrainReturn

Next == CancelContext \/ Consumer \/ Pull \/ Drain

Spec == Init /\ [][Next]_vars

(* Every goroutine that can run does; the parent need not call again. The  *)
(* calls on the child return, as its own contract asks.                    *)
CallInProgress == CheckContext \/ StartOnce \/ Receive \/ Swap \/ ReturnSwapped
FairSpec ==
  /\ Spec
  /\ WF_vars(Pull) /\ WF_vars(Drain) /\ WF_vars(CallInProgress)

-----------------------------------------------------------------------------
(* Types of the channels, of the goroutines' states and of the fields of   *)
(* concurrencyOperator.                                                    *)
TypeOK ==
  /\ ctxDone \in BOOLEAN /\ inited \in BOOLEAN /\ closed \in BOOLEAN
  /\ childPos \in Batches /\ childSt \in {"open", "ended", "failed"}
  /\ returnChan \in Seq(Buffers)
  /\ buffer \in Seq(Places) /\ Len(buffer) <= BufferSize
  /\ pullPc \in PullPcs /\ readBuf \in Places
  /\ drainPc \in DrainPcs /\ drainBuf \in Places
  /\ consPc \in ConsPcs /\ consBuf \in Places
  /\ slices \in [Places -> Places]
  /\ content \in [Places -> Batches]
  /\ status \in {"open", "eof", "err"} /\ received \in Batches

Free   == Range(returnChan)
Queued == Range(buffer) \ {NoBuf}
Held   == {readBuf, consBuf, drainBuf} \ {NoBuf}

(* No buffer is twice in the channel q. *)
Distinct(q) == \A i, j \in DOMAIN q : i # j /\ q[i] # NoBuf => q[i] # q[j]

(* A pooled buffer is in exactly one place: free in returnChan, filled in  *)
(* the channel, or in the hands of one of the three goroutines. Two        *)
(* owners of one buffer would race on its step vectors; a buffer in no     *)
(* place would be lost to the pool.                                        *)
BuffersPartition ==
  /\ Free \cup Queued \cup Held = IF inited THEN Buffers ELSE {}
  /\ Free \cap (Queued \cup Held) = {}
  /\ Queued \cap Held = {}
  /\ Distinct(returnChan) /\ Distinct(buffer)
  /\ readBuf # NoBuf => readBuf \notin {consBuf, drainBuf}
  /\ consBuf # NoBuf => consBuf # drainBuf

(* Sends on returnChan never block: bufferSize + 2 slots are enough for    *)
(* the caller, pull and drainBufferOnCancel, none of which selects on the  *)
(* context when it hands a buffer back.                                    *)
ReturnNeverBlocks ==
  consPc = "return" \/ drainPc = "return" \/ pullPc \in {"returnEnd", "returnErr"}
    => ReturnHasRoom

(* The step vectors Next handed to the caller stay as they were until the  *)
(* caller's next receive: the child never writes into slices that the      *)
(* swap gave to the caller.                                                *)
CallerBatchStable ==
  consPc # "return" => content[slices[NoBuf]] = received

(* The operator keeps the order and the completeness of its child's        *)
(* stream, and its end and its failure, as long as the context is live.    *)
Stream == INSTANCE OperatorStream WITH
            cancelled <- ctxDone, produced <- childPos, source <- childSt,
            pos <- received
StreamRefinement == Stream!Spec

(* Once the context is done both goroutines of the operator exit, whatever *)
(* the caller does: nobody is left blocked on a channel.                   *)
GoroutinesExit ==
  (ctxDone /\ pullPc # "off") ~> (pullPc = "done" /\ drainPc = "done")

(* A call of Next returns, with or without cancellation: pull always finds *)
(* a buffer, closes the channel at the end and never deadlocks with the    *)
(* caller.                                                                 *)
NextReturns == consPc = "check" ~> consPc = "idle"

(* The contract of Next: 0 without an error means that there is no more    *)
(* data, so the child has ended and its last batch has been delivered.     *)
EndMeansComplete ==
  status = "eof" => childSt = "ended" /\ received = childPos
=============================================================================
