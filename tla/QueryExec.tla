------------------------------ MODULE QueryExec ------------------------------
(***************************************************************************)
(* The life of queries on one engine (engine/engine.go): Make*Query builds *)
(* a query under a slot of the active query tracker, Exec takes a slot     *)
(* again and pulls the batches of the root operator, while a timeout,      *)
(* Cancel or the context of the caller may interrupt it. Close is called   *)
(* when Exec has returned.                                                 *)
(*                                                                         *)
(* The root operator is a concurrency operator over the execution of a     *)
(* remote query (execution/remote/operator.go). Its goroutine runs ahead   *)
(* of Exec; towards Exec it behaves as module OperatorStream says, which   *)
(* the concurrency operator is shown to implement.                         *)
(***************************************************************************)
EXTENDS Integers, FiniteSets

CONSTANTS
  Queries,        \* the queries
  StringQueries,  \* those whose plan is a string literal
  MaxConcurrent,  \* slots of the active query tracker
  NumBatches,     \* bound on the batches of a remote query
  Ahead,          \* batches the goroutine may hold
  MaxSamples      \* limit of the sample tracker, none when not positive; a batch counts as one

ASSUME QueriesAssumption == StringQueries \subseteq Queries /\ MaxConcurrent \in Nat \ {0}
ASSUME BoundsAssumption == NumBatches \in Nat /\ Ahead \in Nat \ {0} /\ MaxSamples \in Int

VARIABLES
  slots,    \* the queries that hold a slot of the tracker
  pc,       \* where each query is
  caller,   \* the context of the caller is "live" or "done"
  ctx,      \* the context of Exec: "none", "live", "done" before Exec ended, or "ended" by it
  cancel,   \* q.cancel is set
  result,   \* "none", "ok", "err", or "empty": neither a value nor an error
  rows,     \* batches appended to the result
  tracked,  \* the sample tracker of the query
  querier,  \* "none", "open" or "closed"
  remote,   \* the remote query: "new", "ok" or "failed"
  closed,   \* the remote query is closed
  started,  \* the goroutine of the concurrency operator has been started
  produced, \* batches it has read
  source    \* what its last read said: "open", "ended", "failed"; "stopped" without a read

execVars == <<result, rows, tracked>>
sourceVars == <<remote, closed, started, produced, source>>
vars == <<slots, pc, caller, ctx, cancel, execVars, querier, sourceVars>>

MakePcs == {"new", "making", "rejected", "made"}
ExecPcs == {"start", "series", "loop", "next", "finish"}

Init ==
  /\ slots = {} /\ pc = [q \in Queries |-> "new"] /\ caller = [q \in Queries |-> "live"]
  /\ ctx = [q \in Queries |-> "none"] /\ cancel = [q \in Queries |-> FALSE]
  /\ result = [q \in Queries |-> "none"]
  /\ rows = [q \in Queries |-> 0] /\ tracked = [q \in Queries |-> 0]
  /\ querier = [q \in Queries |-> "none"]
  /\ remote = [q \in Queries |-> "new"] /\ closed = [q \in Queries |-> FALSE]
  /\ started = [q \in Queries |-> FALSE] /\ produced = [q \in Queries |-> 0]
  /\ source = [q \in Queries |-> "open"]

Go(q, next) == pc' = [pc EXCEPT ![q] = next]

(* Insert of the tracker waits for a slot or for the end of its context. *)
Insert(q) == Cardinality(slots) < MaxConcurrent /\ slots' = slots \cup {q}
Delete(q) == slots' = slots \ {q}

-----------------------------------------------------------------------------
(* Make*Query.                                                             *)

MakeInsert(q) ==
  /\ pc[q] = "new" /\ Insert(q) /\ Go(q, "making")
  /\ UNCHANGED <<caller, ctx, cancel, execVars, querier, sourceVars>>

(* No slot, an expression that does not parse, a bad plan, or no querier. *)
MakeFails(q) ==
  /\ (pc[q] = "new" /\ caller[q] = "done") \/ pc[q] = "making"
  /\ Delete(q) /\ Go(q, "rejected")
  /\ UNCHANGED <<caller, ctx, cancel, execVars, querier, sourceVars>>

(* execution.New fails: the querier has been opened and is left behind. *)
MakeFailsLate(q) ==
  /\ pc[q] = "making"
  /\ querier' = [querier EXCEPT ![q] = "open"]
  /\ Delete(q) /\ Go(q, "rejected")
  /\ UNCHANGED <<caller, ctx, cancel, execVars, sourceVars>>

MakeReturns(q) ==
  /\ pc[q] = "making"
  /\ querier' = [querier EXCEPT ![q] = "open"]
  /\ Delete(q) /\ Go(q, "made")
  /\ UNCHANGED <<caller, ctx, cancel, execVars, sourceVars>>

-----------------------------------------------------------------------------
(* Exec.                                                                   *)

(* The deferred calls of Exec: the slot is given back and the context ends. *)
Returns(q, res) ==
  /\ result' = [result EXCEPT ![q] = res]
  /\ Delete(q) /\ Go(q, "returned")
  /\ ctx' = [ctx EXCEPT ![q] = IF @ = "live" THEN "ended" ELSE @]

(* Mutant: Exec goes on without a slot of its own. *)
ExecInsertAnyway(q) ==
  /\ pc[q] = "made" /\ slots' = slots \cup {q} /\ Go(q, "start")
  /\ UNCHANGED <<caller, ctx, cancel, execVars, querier, sourceVars>>

ExecInsert(q) ==
  /\ pc[q] = "made" /\ Insert(q) /\ Go(q, "start")
  /\ UNCHANGED <<caller, ctx, cancel, execVars, querier, sourceVars>>

ExecInsertFails(q) ==
  /\ pc[q] = "made" /\ caller[q] = "done" /\ Returns(q, "err")
  /\ UNCHANGED <<caller, cancel, rows, tracked, querier, sourceVars>>

ExecString(q) ==
  /\ pc[q] = "start" /\ q \in StringQueries /\ Returns(q, "ok")
  /\ UNCHANGED <<caller, cancel, rows, tracked, querier, sourceVars>>

ExecStart(q) ==
  /\ pc[q] = "start" /\ q \notin StringQueries
  /\ ctx' = [ctx EXCEPT ![q] = caller[q]]
  /\ cancel' = [cancel EXCEPT ![q] = TRUE]
  /\ Go(q, "series")
  /\ UNCHANGED <<slots, caller, execVars, querier, sourceVars>>

(* Series of the root operator is back: GetSeries of the adapter has       *)
(* executed the remote query, and Series waited for its answer.            *)
ExecSeries(q) ==
  /\ pc[q] = "series"
  /\ \/ remote[q] = "ok" /\ Go(q, "loop") /\ UNCHANGED <<slots, ctx, result>>
     \/ remote[q] = "failed" /\ Returns(q, "err")
  /\ UNCHANGED <<caller, cancel, rows, tracked, querier, sourceVars>>

(* The select at the top of the loop; the first Next starts the goroutine. *)
ExecLoop(q) ==
  /\ pc[q] = "loop"
  /\ IF ctx[q] = "done" THEN Returns(q, "err") /\ UNCHANGED started
     ELSE Go(q, "next") /\ started' = [started EXCEPT ![q] = TRUE] /\ UNCHANGED <<slots, ctx, result>>
  /\ UNCHANGED <<caller, cancel, rows, tracked, querier, remote, closed, produced, source>>

(* Mutant: only a later batch notices that the limit was passed. *)
CheckLimitLate(count) == MaxSamples > 0 /\ count - 1 > MaxSamples

(* CheckLimit of the sample tracker after Add; the tracker that is made    *)
(* without a limit refuses nothing.                                        *)
CheckLimit(count) == MaxSamples > 0 /\ count > MaxSamples

(* Next returned a batch: its samples are appended and counted. *)
ExecBatch(q) ==
  /\ pc[q] = "next" /\ rows[q] < produced[q]
  /\ rows' = [rows EXCEPT ![q] = @ + 1]
  /\ tracked' = [tracked EXCEPT ![q] = @ + 1]
  /\ IF CheckLimit(tracked'[q]) THEN Returns(q, "err")
     ELSE Go(q, "loop") /\ UNCHANGED <<slots, ctx, result>>
  /\ UNCHANGED <<caller, cancel, querier, sourceVars>>

(* Mutant: the end is taken from the source although batches are queued. *)
SeesEndEarly(q) == source[q] = "ended"

(* Next returns 0 when the source has ended, and maybe when the context    *)
(* is done; it returns an error when the source has failed or the context  *)
(* is done. Both come after the batches read before (OperatorStream).      *)
SeesEnd(q) == (source[q] = "ended" /\ rows[q] = produced[q]) \/ ctx[q] = "done"
SeesError(q) == (source[q] = "failed" /\ rows[q] = produced[q]) \/ ctx[q] = "done"

ExecEnd(q) ==
  /\ pc[q] = "next" /\ SeesEnd(q) /\ Go(q, "finish")
  /\ UNCHANGED <<slots, caller, ctx, cancel, execVars, querier, sourceVars>>

ExecError(q) ==
  /\ pc[q] = "next" /\ SeesError(q) /\ Returns(q, "err")
  /\ UNCHANGED <<caller, cancel, rows, tracked, querier, sourceVars>>

(* recoverEngine: a runtime error becomes the error of the result, any     *)
(* other panic is dropped and the result is an empty vector.               *)
ExecPanics(q) ==
  /\ pc[q] \in {"series", "next", "finish"}
  /\ \E res \in {"err", "empty"} : Returns(q, res)
  /\ UNCHANGED <<caller, cancel, rows, tracked, querier, sourceVars>>

(* The result is assembled; duplicate label sets are an error. *)
ExecFinish(q) ==
  /\ pc[q] = "finish"
  /\ \E res \in {"ok", "err"} : Returns(q, res)
  /\ UNCHANGED <<caller, cancel, rows, tracked, querier, sourceVars>>

-----------------------------------------------------------------------------
(* The source. The remote query answers or fails, once: Series is the only *)
(* one to execute it.                                                      *)
RemoteAnswers(q) ==
  /\ pc[q] = "series" /\ remote[q] = "new"
  /\ \E answer \in {"ok", "failed"} : remote' = [remote EXCEPT ![q] = answer]
  /\ UNCHANGED <<slots, pc, caller, ctx, cancel, execVars, querier, closed, started, produced, source>>

(* The goroutine of the concurrency operator, in Next of the remote        *)
(* execution. A read that returns no batch closes the remote query.        *)
Reading(q) == started[q] /\ source[q] = "open" /\ remote[q] = "ok"

SourceBatch(q) ==
  /\ Reading(q) /\ produced[q] < NumBatches /\ produced[q] - rows[q] < Ahead
  /\ produced' = [produced EXCEPT ![q] = @ + 1]
  /\ UNCHANGED <<slots, pc, caller, ctx, cancel, execVars, querier, remote, closed, started, source>>

(* Mutant: the remote query is closed only by a read that fails. *)
CloseOnError(q, st) == closed' = IF st = "failed" THEN [closed EXCEPT ![q] = TRUE] ELSE closed
CloseRemote(q, st) == closed' = [closed EXCEPT ![q] = TRUE]

SourceReads0(q, st) ==
  /\ source' = [source EXCEPT ![q] = st]
  /\ CloseRemote(q, st)
  /\ UNCHANGED <<slots, pc, caller, ctx, cancel, execVars, querier, remote, started, produced>>

SourceEnds(q) == Reading(q) /\ SourceReads0(q, "ended")
SourceFails(q) == Reading(q) /\ SourceReads0(q, "failed")

(* pull sees the end of the context before it calls Next once more. *)
SourceStops(q) ==
  /\ Reading(q) /\ ctx[q] \in {"done", "ended"}
  /\ source' = [source EXCEPT ![q] = "stopped"]
  /\ UNCHANGED <<slots, pc, caller, ctx, cancel, execVars, querier, remote, closed, started, produced>>

-----------------------------------------------------------------------------
(* The others.                                                             *)

Interrupt(q) == ctx' = [ctx EXCEPT ![q] = IF @ = "live" THEN "done" ELSE @]

(* Mutant: the timeout is only set once Series has returned. *)
TimeoutAfterSeries(q) ==
  /\ ctx[q] = "live" /\ pc[q] # "series" /\ Interrupt(q)
  /\ UNCHANGED <<slots, pc, caller, cancel, execVars, querier, sourceVars>>

Timeout(q) ==
  /\ ctx[q] = "live" /\ Interrupt(q)
  /\ UNCHANGED <<slots, pc, caller, cancel, execVars, querier, sourceVars>>

(* Cancel does nothing before Exec has made its context. *)
Cancel(q) ==
  /\ cancel[q] /\ Interrupt(q)
  /\ cancel' = [cancel EXCEPT ![q] = FALSE]
  /\ UNCHANGED <<slots, pc, caller, execVars, querier, sourceVars>>

CallerDone(q) ==
  /\ caller[q] = "live"
  /\ caller' = [caller EXCEPT ![q] = "done"] /\ Interrupt(q)
  /\ UNCHANGED <<slots, pc, cancel, execVars, querier, sourceVars>>

Close(q) ==
  /\ pc[q] = "returned" /\ querier[q] = "open"
  /\ querier' = [querier EXCEPT ![q] = "closed"]
  /\ UNCHANGED <<slots, pc, caller, ctx, cancel, execVars, sourceVars>>

Make(q) == MakeInsert(q) \/ MakeFails(q) \/ MakeFailsLate(q) \/ MakeReturns(q)
(* The steps of a running Exec that are bound to be taken: a panic is not. *)
ExecGoesOn(q) ==
  \/ ExecString(q) \/ ExecStart(q) \/ ExecSeries(q) \/ ExecLoop(q)
  \/ ExecBatch(q) \/ ExecEnd(q) \/ ExecError(q) \/ ExecFinish(q)
Exec(q) == ExecInsert(q) \/ ExecInsertFails(q) \/ ExecGoesOn(q) \/ ExecPanics(q)
Source(q) == RemoteAnswers(q) \/ SourceBatch(q) \/ SourceEnds(q) \/ SourceFails(q) \/ SourceStops(q)
Next ==
  \E q \in Queries : Make(q) \/ Exec(q) \/ Source(q) \/ Timeout(q) \/ Cancel(q) \/ CallerDone(q) \/ Close(q)

Spec == Init /\ [][Next]_vars

(* A query that is made goes on. Exec takes the step it can take; while    *)
(* its storage hangs, in Series or in Next, it can take none, and nothing  *)
(* makes it panic. Its timeout fires, and then the storage lets go. A slot *)
(* is handed out fairly.                                                   *)
FairSpec ==
  /\ Spec
  /\ \A q \in Queries : /\ WF_vars(Make(q) /\ pc[q] # "new") /\ WF_vars(ExecGoesOn(q))
                        /\ SF_vars(MakeInsert(q)) /\ SF_vars(ExecInsert(q))
                        /\ WF_vars(Timeout(q)) /\ WF_vars(Source(q) /\ ctx[q] = "done")

-----------------------------------------------------------------------------
(* Types of the state of the queries and of their operators. *)
TypeOK ==
  /\ slots \subseteq Queries /\ Cardinality(slots) <= MaxConcurrent
  /\ pc \in [Queries -> MakePcs \cup ExecPcs \cup {"returned"}]
  /\ caller \in [Queries -> {"live", "done"}] /\ cancel \in [Queries -> BOOLEAN]
  /\ ctx \in [Queries -> {"none", "live", "done", "ended"}]
  /\ result \in [Queries -> {"none", "ok", "err", "empty"}]
  /\ rows \in [Queries -> 0..NumBatches] /\ tracked \in [Queries -> 0..NumBatches]
  /\ querier \in [Queries -> {"none", "open", "closed"}]
  /\ remote \in [Queries -> {"new", "ok", "failed"}]
  /\ closed \in [Queries -> BOOLEAN] /\ started \in [Queries -> BOOLEAN]
  /\ produced \in [Queries -> 0..NumBatches]
  /\ source \in [Queries -> {"open", "ended", "failed", "stopped"}]

Succeeded(q) == result[q] = "ok" /\ q \notin StringQueries

(* A query that succeeds without having been interrupted has every batch   *)
(* of its source in the result: Exec takes n == 0 for the end of the data, *)
(* and a failure of the source never looks like it.                        *)
SuccessIsComplete ==
  \A q \in Queries : Succeeded(q) /\ ctx[q] = "ended" => source[q] = "ended" /\ rows[q] = produced[q]

(* A result that is returned is within the sample limit: Exec checks the   *)
(* tracker after each batch it adds, before it can see the end.            *)
ResultWithinLimit == MaxSamples > 0 => \A q \in Queries : Succeeded(q) => rows[q] <= MaxSamples

(* A query that succeeds without interruption has closed its remote query: *)
(* the end Exec sees comes from the read that closes it.                   *)
RemoteQueriesClosed ==
  \A q \in Queries : Succeeded(q) /\ ctx[q] = "ended" => closed[q]

(* Exec returns, although its storage may hang in Series and in Next until *)
(* the context is done and however many queries wait for a slot: the       *)
(* timeout is running before Series is called, and every way out gives the *)
(* slot back.                                                              *)
ExecReturns == \A q \in Queries : pc[q] = "made" ~> pc[q] = "returned"
=============================================================================
