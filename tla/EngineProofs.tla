---------------------------- MODULE EngineProofs ----------------------------
(* Two parts of the engine: the execution of a query, of which QueryExec is   *)
(* the model, and the steps at which subqueries and remote queries begin, of  *)
(* which StepTimes has the arithmetic.                                        *)
EXTENDS QueryExec, StepTimes, FiniteSetTheorems, TLAPS

-----------------------------------------------------------------------------
(* What a successful Exec has returned, and how many queries work at a time,  *)
(* for every number of queries, slots, batches and samples.                   *)

(* The types the results of Exec rest on; slots and bounds play no part there. *)
Types ==
  /\ pc \in [Queries -> MakePcs \cup ExecPcs \cup {"returned"}]
  /\ caller \in [Queries -> {"live", "done"}]
  /\ ctx \in [Queries -> {"none", "live", "done", "ended"}]
  /\ result \in [Queries -> {"none", "ok", "err", "empty"}]
  /\ rows \in [Queries -> Nat] /\ tracked \in [Queries -> Nat] /\ produced \in [Queries -> Nat]
  /\ remote \in [Queries -> {"new", "ok", "failed"}]
  /\ closed \in [Queries -> BOOLEAN] /\ started \in [Queries -> BOOLEAN]
  /\ source \in [Queries -> {"open", "ended", "failed", "stopped"}]

(* The end of the data was seen, and not an interruption. *)
Complete(q) == source[q] = "ended" /\ rows[q] = produced[q]

(* The result is within the limit, if there is one. *)
Within(q) == MaxSamples > 0 => rows[q] <= MaxSamples

(* The three invariants speak of queries that have returned.  While a query   *)
(* runs its result is within the limit, its tracker counts its rows, and its  *)
(* context is not yet ended by Exec; it reaches "finish" with the source at   *)
(* its end or the context done, and neither changes until it returns.         *)
QInv(q) ==
  /\ tracked[q] = rows[q]
  /\ source[q] = "ended" => closed[q]
  /\ pc[q] # "returned" => Within(q) /\ result[q] = "none" /\ ctx[q] # "ended"
  /\ pc[q] = "finish" => Complete(q) \/ ctx[q] = "done"
  /\ pc[q] \in {"series", "loop", "next", "finish"} => ctx[q] \in {"live", "done"} /\ q \notin StringQueries
  /\ Succeeded(q) => Within(q) /\ (ctx[q] = "ended" => Complete(q))

IInv == Types /\ \A q \in Queries : QInv(q)

(* A query that was not made has no rows and no result. *)
LEMMA InitHolds == Init => IInv
  BY BoundsAssumption DEF Init, IInv, Types, QInv, MakePcs, ExecPcs, Complete, Within, Succeeded

(* Each step is a step of one query; it keeps the types, and the invariant of *)
(* that query and of the others.                                              *)
LEMMA NextPreserves == IInv /\ [Next]_vars => IInv'
<1>1. ASSUME IInv, UNCHANGED vars PROVE IInv'
  BY <1>1 DEF IInv, Types, QInv, Complete, Within, Succeeded, vars, execVars, sourceVars
<1>2. ASSUME IInv, NEW p \in Queries, Make(p) \/ Exec(p) \/ Source(p) \/ Timeout(p) \/ Cancel(p) \/ CallerDone(p) \/ Close(p)
      PROVE  IInv'
  <2> SUFFICES Types' /\ \A q \in Queries : QInv(q)'
    BY DEF IInv
  <2> USE <1>2 DEF IInv, execVars, sourceVars
  <2>1. CASE MakeInsert(p)
    <3>1. Types'
      BY <2>1 DEF MakeInsert, Insert, Go, Types, MakePcs, ExecPcs
    <3>2. ASSUME NEW q \in Queries PROVE QInv(q)'
      BY <2>1 DEF MakeInsert, Insert, Go, Types, QInv, Complete, Within, Succeeded
    <3> QED
      BY <3>1, <3>2
  <2>2. CASE MakeFails(p)
    <3>1. Types'
      BY <2>2 DEF MakeFails, Delete, Go, Types, MakePcs, ExecPcs
    <3>2. ASSUME NEW q \in Queries PROVE QInv(q)'
      BY <2>2 DEF MakeFails, Delete, Go, Types, QInv, Complete, Within, Succeeded
    <3> QED
      BY <3>1, <3>2
  <2>3. CASE MakeFailsLate(p)
    <3>1. Types'
      BY <2>3 DEF MakeFailsLate, Delete, Go, Types, MakePcs, ExecPcs
    <3>2. ASSUME NEW q \in Queries PROVE QInv(q)'
      BY <2>3 DEF MakeFailsLate, Delete, Go, Types, QInv, Complete, Within, Succeeded
    <3> QED
      BY <3>1, <3>2
  <2>4. CASE MakeReturns(p)
    <3>1. Types'
      BY <2>4 DEF MakeReturns, Delete, Go, Types, MakePcs, ExecPcs
    <3>2. ASSUME NEW q \in Queries PROVE QInv(q)'
      BY <2>4 DEF MakeReturns, Delete, Go, Types, QInv, Complete, Within, Succeeded
    <3> QED
      BY <3>1, <3>2
  <2>5. CASE ExecInsert(p)
    <3>1. Types'
      BY <2>5 DEF ExecInsert, Insert, Go, Types, MakePcs, ExecPcs
    <3>2. ASSUME NEW q \in Queries PROVE QInv(q)'
      BY <2>5 DEF ExecInsert, Insert, Go, Types, QInv, Complete, Within, Succeeded
    <3> QED
      BY <3>1, <3>2
  <2>6. CASE ExecInsertFails(p)
    <3>1. Types'
      BY <2>6 DEF ExecInsertFails, Returns, Delete, Go, Types, MakePcs, ExecPcs
    <3>2. ASSUME NEW q \in Queries PROVE QInv(q)'
      BY <2>6 DEF ExecInsertFails, Returns, Delete, Go, Types, QInv, Complete, Within, Succeeded
    <3> QED
      BY <3>1, <3>2
  <2>7. CASE ExecString(p)
    <3>1. Types'
      BY <2>7 DEF ExecString, Returns, Delete, Go, Types, MakePcs, ExecPcs
    <3>2. ASSUME NEW q \in Queries PROVE QInv(q)'
      BY <2>7 DEF ExecString, Returns, Delete, Go, Types, QInv, Complete, Within, Succeeded
    <3> QED
      BY <3>1, <3>2
  <2>8. CASE ExecStart(p)
    <3>1. Types'
      BY <2>8 DEF ExecStart, Go, Types, MakePcs, ExecPcs
    <3>2. ASSUME NEW q \in Queries PROVE QInv(q)'
      BY <2>8 DEF ExecStart, Go, Types, QInv, Complete, Within, Succeeded
    <3> QED
      BY <3>1, <3>2
  <2>9. CASE ExecSeries(p)
    <3>1. Types'
      BY <2>9 DEF ExecSeries, Returns, Delete, Go, Types, MakePcs, ExecPcs
    <3>2. ASSUME NEW q \in Queries PROVE QInv(q)'
      BY <2>9 DEF ExecSeries, Returns, Delete, Go, Types, QInv, Complete, Within, Succeeded
    <3> QED
      BY <3>1, <3>2
  <2>10. CASE ExecLoop(p)
    <3>1. Types'
      <4>1. CASE ctx[p] = "done"
        BY <2>10, <4>1 DEF ExecLoop, Returns, Delete, Go, Types, MakePcs, ExecPcs
      <4>2. CASE ~(ctx[p] = "done")
        <5>1. /\ Go(p, "next") /\ started' = [started EXCEPT ![p] = TRUE]
              /\ UNCHANGED <<caller, ctx, result, rows, tracked, remote, closed, produced, source>>
          BY <2>10, <4>2 DEF ExecLoop
        <5> QED
          BY <5>1 DEF Go, Types, MakePcs, ExecPcs
      <4> QED
        BY <4>1, <4>2
    <3>2. ASSUME NEW q \in Queries PROVE QInv(q)'
      <4>1. CASE ctx[p] = "done"
        <5>1. Returns(p, "err") /\ UNCHANGED <<rows, tracked, remote, closed, produced, source>> /\ pc[p] = "loop"
          BY <2>10, <4>1 DEF ExecLoop
        <5> QED
          BY <4>1, <5>1 DEF Returns, Go, Types, QInv, Complete, Within, Succeeded
      <4>2. CASE ~(ctx[p] = "done")
        BY <2>10, <4>2 DEF ExecLoop, Go, Types, QInv, Complete, Within, Succeeded
      <4> QED
        BY <4>1, <4>2
    <3> QED
      BY <3>1, <3>2
  <2>11. CASE ExecBatch(p)
    <3>1. Types'
      <4>1. CASE CheckLimit(tracked'[p])
        BY <2>11, <4>1 DEF ExecBatch, CheckLimit, Returns, Delete, Go, Types, MakePcs, ExecPcs
      <4>2. CASE ~(CheckLimit(tracked'[p]))
        BY <2>11, <4>2 DEF ExecBatch, CheckLimit, Returns, Delete, Go, Types, MakePcs, ExecPcs
      <4> QED
        BY <4>1, <4>2
    <3>2. ASSUME NEW q \in Queries PROVE QInv(q)'
      BY <2>11, BoundsAssumption DEF ExecBatch, CheckLimit, Returns, Delete, Go, Types, QInv, Complete, Within, Succeeded
    <3> QED
      BY <3>1, <3>2
  <2>12. CASE ExecEnd(p)
    <3>1. Types'
      BY <2>12 DEF ExecEnd, SeesEnd, Go, Types, MakePcs, ExecPcs
    <3>2. ASSUME NEW q \in Queries PROVE QInv(q)'
      BY <2>12 DEF ExecEnd, SeesEnd, Go, Types, QInv, Complete, Within, Succeeded
    <3> QED
      BY <3>1, <3>2
  <2>13. CASE ExecError(p)
    <3>1. Types'
      BY <2>13 DEF ExecError, Returns, Delete, Go, Types, MakePcs, ExecPcs
    <3>2. ASSUME NEW q \in Queries PROVE QInv(q)'
      BY <2>13 DEF ExecError, Returns, Delete, Go, Types, QInv, Complete, Within, Succeeded
    <3> QED
      BY <3>1, <3>2
  <2>14. CASE ExecPanics(p)
    <3>1. Types'
      BY <2>14 DEF ExecPanics, Returns, Delete, Go, Types, MakePcs, ExecPcs
    <3>2. ASSUME NEW q \in Queries PROVE QInv(q)'
      BY <2>14 DEF ExecPanics, Returns, Delete, Go, Types, QInv, Complete, Within, Succeeded
    <3> QED
      BY <3>1, <3>2
  <2>15. CASE ExecFinish(p)
    <3>1. Types'
      BY <2>15 DEF ExecFinish, Returns, Delete, Go, Types, MakePcs, ExecPcs
    <3>2. ASSUME NEW q \in Queries PROVE QInv(q)'
      BY <2>15 DEF ExecFinish, Returns, Delete, Go, Types, QInv, Complete, Within, Succeeded
    <3> QED
      BY <3>1, <3>2
  <2>16. CASE SourceBatch(p)
    <3>1. Types'
      BY <2>16 DEF SourceBatch, Reading, Types, MakePcs, ExecPcs
    <3>2. ASSUME NEW q \in Queries PROVE QInv(q)'
      BY <2>16 DEF SourceBatch, Reading, Types, QInv, Complete, Within, Succeeded
    <3> QED
      BY <3>1, <3>2
  <2>17. CASE SourceEnds(p)
    <3>1. Types'
      BY <2>17 DEF SourceEnds, Reading, SourceReads0, CloseRemote, Types, MakePcs, ExecPcs
    <3>2. ASSUME NEW q \in Queries PROVE QInv(q)'
      BY <2>17 DEF SourceEnds, Reading, SourceReads0, CloseRemote, Types, QInv, Complete, Within, Succeeded
    <3> QED
      BY <3>1, <3>2
  <2>18. CASE SourceFails(p)
    <3>1. Types'
      BY <2>18 DEF SourceFails, Reading, SourceReads0, CloseRemote, Types, MakePcs, ExecPcs
    <3>2. ASSUME NEW q \in Queries PROVE QInv(q)'
      BY <2>18 DEF SourceFails, Reading, SourceReads0, CloseRemote, Types, QInv, Complete, Within, Succeeded
    <3> QED
      BY <3>1, <3>2
  <2>19. CASE SourceStops(p)
    <3>1. Types'
      BY <2>19 DEF SourceStops, Reading, Types, MakePcs, ExecPcs
    <3>2. ASSUME NEW q \in Queries PROVE QInv(q)'
      BY <2>19 DEF SourceStops, Reading, Types, QInv, Complete, Within, Succeeded
    <3> QED
      BY <3>1, <3>2
  <2>20. CASE Timeout(p)
    <3>1. Types'
      BY <2>20 DEF Timeout, Interrupt, Types, MakePcs, ExecPcs
    <3>2. ASSUME NEW q \in Queries PROVE QInv(q)'
      BY <2>20 DEF Timeout, Interrupt, Types, QInv, Complete, Within, Succeeded
    <3> QED
      BY <3>1, <3>2
  <2>21. CASE Cancel(p)
    <3>1. Types'
      BY <2>21 DEF Cancel, Interrupt, Types, MakePcs, ExecPcs
    <3>2. ASSUME NEW q \in Queries PROVE QInv(q)'
      BY <2>21 DEF Cancel, Interrupt, Types, QInv, Complete, Within, Succeeded
    <3> QED
      BY <3>1, <3>2
  <2>22. CASE CallerDone(p)
    <3>1. Types'
      BY <2>22 DEF CallerDone, Interrupt, Types, MakePcs, ExecPcs
    <3>2. ASSUME NEW q \in Queries PROVE QInv(q)'
      BY <2>22 DEF CallerDone, Interrupt, Types, QInv, Complete, Within, Succeeded
    <3> QED
      BY <3>1, <3>2
  <2>23. CASE Close(p)
    <3>1. Types'
      BY <2>23 DEF Close, Types, MakePcs, ExecPcs
    <3>2. ASSUME NEW q \in Queries PROVE QInv(q)'
      BY <2>23 DEF Close, Types, QInv, Complete, Within, Succeeded
    <3> QED
      BY <3>1, <3>2
  <2>24. CASE RemoteAnswers(p)
    <3>1. Types'
      BY <2>24 DEF RemoteAnswers, Types, MakePcs, ExecPcs
    <3>2. ASSUME NEW q \in Queries PROVE QInv(q)'
      BY <2>24 DEF RemoteAnswers, Types, QInv, Complete, Within, Succeeded
    <3> QED
      BY <3>1, <3>2
  <2> QED
    BY <2>1, <2>2, <2>3, <2>4, <2>5, <2>6, <2>7, <2>8, <2>9, <2>10, <2>11, <2>12,
       <2>13, <2>14, <2>15, <2>16, <2>17, <2>18, <2>19, <2>20, <2>21, <2>22, <2>23, <2>24
       DEF Make, Exec, ExecGoesOn, Source
<1> QED
  BY <1>1, <1>2 DEF Next

(* The queries that are being made or executed. *)
Working == {q \in Queries : pc[q] \in {"making"} \cup ExecPcs}

(* They and no others hold a slot; a slot is taken only below the limit. *)
SlotInv ==
  /\ slots = Working
  /\ IsFiniteSet(slots) /\ Cardinality(slots) <= MaxConcurrent

(* Insert is the only way to a slot, and each way out of Make and of Exec     *)
(* gives it back.                                                             *)
LEMMA SlotStep == Types /\ SlotInv /\ [Next]_vars => SlotInv'
<1> SUFFICES ASSUME Types, SlotInv, [Next]_vars PROVE SlotInv'
  OBVIOUS
<1>1. CASE UNCHANGED <<slots, pc>>
  BY <1>1 DEF SlotInv, Working
<1>2. ASSUME NEW q \in Queries, NEW next \in {"making", "start"}, Insert(q), Go(q, next) PROVE SlotInv'
  <2>1. slots' = Working'
    BY <1>2 DEF SlotInv, Working, Insert, Go, Types, ExecPcs
  <2>2. IsFiniteSet(slots \cup {q}) /\ Cardinality(slots \cup {q}) <= MaxConcurrent
    <3>1. /\ IsFiniteSet(slots \cup {q})
          /\ Cardinality(slots \cup {q}) = IF q \in slots THEN Cardinality(slots) ELSE Cardinality(slots) + 1
      BY FS_AddElement, Zenon DEF SlotInv
    <3>2. Cardinality(slots) \in Nat /\ MaxConcurrent \in Nat /\ Cardinality(slots) < MaxConcurrent
      BY <1>2, FS_CardinalityType, QueriesAssumption DEF SlotInv, Insert
    <3> QED
      BY <3>1, <3>2
  <2> QED
    BY <1>2, <2>1, <2>2 DEF SlotInv, Insert
<1>3. ASSUME NEW q \in Queries, NEW next \in {"rejected", "made", "returned"}, Delete(q), Go(q, next)
      PROVE  SlotInv'
  <2>1. slots' = Working'
    BY <1>3 DEF SlotInv, Working, Delete, Go, Types, ExecPcs
  <2>2. IsFiniteSet(slots \ {q}) /\ Cardinality(slots \ {q}) <= MaxConcurrent
    <3>1. /\ IsFiniteSet(slots \ {q})
          /\ Cardinality(slots \ {q}) = IF q \in slots THEN Cardinality(slots) - 1 ELSE Cardinality(slots)
      BY FS_RemoveElement, Zenon DEF SlotInv
    <3>2. Cardinality(slots) \in Nat /\ MaxConcurrent \in Nat /\ Cardinality(slots) <= MaxConcurrent
      BY FS_CardinalityType, QueriesAssumption DEF SlotInv
    <3> QED
      BY <3>1, <3>2
  <2> QED
    BY <1>3, <2>1, <2>2 DEF SlotInv, Delete
<1>4. ASSUME NEW q \in Queries, NEW next \in {"series", "loop", "next", "finish"},
             pc[q] \in ExecPcs, UNCHANGED slots, Go(q, next)
      PROVE  SlotInv'
  <2>1. slots' = Working'
    BY <1>4 DEF SlotInv, Working, Go, Types, ExecPcs
  <2> QED
    BY <1>4, <2>1 DEF SlotInv
<1>5. ASSUME NEW q \in Queries, Make(q) PROVE SlotInv'
  BY <1>2, <1>3, <1>5 DEF Make, MakeInsert, MakeFails, MakeFailsLate, MakeReturns
<1>6. ASSUME NEW q \in Queries, Exec(q) PROVE SlotInv'
  <2>1. CASE ExecInsert(q)
    BY <1>2, <2>1 DEF ExecInsert
  <2>2. CASE ExecStart(q) \/ ExecEnd(q)
    BY <1>4, <2>2 DEF ExecStart, ExecEnd, ExecPcs
  <2>3. ASSUME NEW res, Returns(q, res) PROVE SlotInv'
    BY <1>3, <2>3 DEF Returns
  <2>4. CASE ExecInsertFails(q) \/ ExecString(q) \/ ExecError(q) \/ ExecPanics(q) \/ ExecFinish(q)
    BY <2>3, <2>4 DEF ExecInsertFails, ExecString, ExecError, ExecPanics, ExecFinish
  <2>5. CASE ExecSeries(q)
    BY <1>4, <2>3, <2>5 DEF ExecSeries, ExecPcs
  <2>6. CASE ExecLoop(q)
    BY <1>4, <2>3, <2>6 DEF ExecLoop, ExecPcs
  <2>7. CASE ExecBatch(q)
    BY <1>4, <2>3, <2>7 DEF ExecBatch, ExecPcs
  <2> QED
    BY <1>6, <2>1, <2>2, <2>4, <2>5, <2>6, <2>7 DEF Exec, ExecGoesOn
<1>7. ASSUME NEW q \in Queries, Source(q) \/ Timeout(q) \/ Cancel(q) \/ CallerDone(q) \/ Close(q)
      PROVE  UNCHANGED <<slots, pc>>
  BY <1>7 DEF Source, RemoteAnswers, SourceBatch, SourceEnds, SourceFails, SourceStops, SourceReads0,
     Timeout, Cancel, CallerDone, Close
<1> QED
  BY <1>1, <1>5, <1>6, <1>7 DEF Next, vars

(* Exec appends only batches that the goroutine has read. *)
BatchInv ==
  /\ cancel \in [Queries -> BOOLEAN] /\ querier \in [Queries -> {"none", "open", "closed"}]
  /\ \A q \in Queries : rows[q] <= produced[q] /\ produced[q] <= NumBatches

(* Only ExecBatch appends, and only while a batch is there; only SourceBatch  *)
(* reads one, below the bound.                                                *)
LEMMA BatchStep == Types /\ BatchInv /\ [Next]_vars => BatchInv'
<1> SUFFICES ASSUME Types, BatchInv, [Next]_vars PROVE BatchInv'
  OBVIOUS
<1> USE DEF execVars, sourceVars
<1>1. CASE UNCHANGED <<rows, produced, cancel, querier>>
  BY <1>1 DEF BatchInv
<1>2. ASSUME NEW p \in Queries, Make(p) \/ Close(p) PROVE BatchInv'
  BY <1>2 DEF BatchInv, Make, MakeInsert, MakeFails, MakeFailsLate, MakeReturns, Close
<1>3. ASSUME NEW p \in Queries, ExecBatch(p) PROVE BatchInv'
  BY <1>3 DEF BatchInv, Types, ExecBatch
<1>4. ASSUME NEW p \in Queries, ExecStart(p) \/ Cancel(p) PROVE BatchInv'
  BY <1>4, Zenon DEF BatchInv, ExecStart, Cancel
<1>5. ASSUME NEW p \in Queries, ExecInsert(p) \/ ExecInsertFails(p) \/ ExecString(p) \/ ExecSeries(p) \/ ExecLoop(p)
                                 \/ ExecEnd(p) \/ ExecError(p) \/ ExecPanics(p) \/ ExecFinish(p)
      PROVE  UNCHANGED <<rows, produced, cancel, querier>>
  BY <1>5, Zenon DEF ExecInsert, ExecInsertFails, ExecString, ExecSeries, ExecLoop, ExecEnd, ExecError, ExecPanics,
     ExecFinish
<1>6. ASSUME NEW p \in Queries, SourceBatch(p) PROVE BatchInv'
  BY <1>6, BoundsAssumption DEF BatchInv, Types, SourceBatch
<1>7. ASSUME NEW p \in Queries, RemoteAnswers(p) \/ SourceEnds(p) \/ SourceFails(p) \/ SourceStops(p) \/ Timeout(p) \/ CallerDone(p)
      PROVE  UNCHANGED <<rows, produced, cancel, querier>>
  BY <1>7 DEF RemoteAnswers, SourceEnds, SourceFails, SourceStops, SourceReads0, Timeout, CallerDone
<1> QED
  BY <1>1, <1>2, <1>3, <1>4, <1>5, <1>6, <1>7, Zenon DEF Next, Exec, ExecGoesOn, Source, vars

(* For every number of slots: no more queries hold one than there are, though *)
(* a query takes it twice; and a result has no more batches than were read.   *)
THEOREM TypeCorrect == Spec => []TypeOK
<1>1. Init => SlotInv /\ BatchInv
  <2> SUFFICES ASSUME Init PROVE SlotInv /\ BatchInv
    OBVIOUS
  <2>1. SlotInv
    BY FS_EmptySet, QueriesAssumption DEF Init, SlotInv, Working, ExecPcs
  <2>2. BatchInv
    BY BoundsAssumption DEF Init, BatchInv
  <2> QED
    BY <2>1, <2>2
<1>2. IInv /\ SlotInv /\ BatchInv => TypeOK
  <2> SUFFICES ASSUME IInv, SlotInv, BatchInv PROVE TypeOK
    OBVIOUS
  <2>1. slots \subseteq Queries /\ Cardinality(slots) <= MaxConcurrent
    BY DEF SlotInv, Working
  <2>2. \A q \in Queries : tracked[q] = rows[q]
    BY DEF IInv, QInv
  <2>3. /\ rows \in [Queries -> 0..NumBatches] /\ tracked \in [Queries -> 0..NumBatches]
        /\ produced \in [Queries -> 0..NumBatches]
    BY <2>2, BoundsAssumption DEF IInv, Types, BatchInv
  <2> QED
    BY <2>1, <2>3 DEF TypeOK, IInv, Types, BatchInv
<1>3. IInv /\ SlotInv /\ BatchInv /\ [Next]_vars => (IInv /\ SlotInv /\ BatchInv)'
  BY NextPreserves, SlotStep, BatchStep DEF IInv
<1> QED
  BY <1>1, <1>2, <1>3, InitHolds, PTL DEF Spec

(* For every limit of the tracker: no more queries than that are being made   *)
(* or executed at a time (Insert and Delete in Make*Query and in Exec).       *)
THEOREM ConcurrencyLimited == Spec => [](Cardinality(Working) <= MaxConcurrent)
<1>1. Init => SlotInv
  BY FS_EmptySet, QueriesAssumption DEF Init, SlotInv, Working, ExecPcs
<1>2. SlotInv => Cardinality(Working) <= MaxConcurrent
  BY DEF SlotInv
<1>3. IInv /\ SlotInv /\ [Next]_vars => (IInv /\ SlotInv)'
  BY NextPreserves, SlotStep DEF IInv
<1> QED
  BY <1>1, <1>2, <1>3, InitHolds, PTL DEF Spec

(* For every number of queries, slots and batches: a query that succeeds      *)
(* without an interruption has all batches of its source in the result, since *)
(* Exec leaves its loop only when the source has ended and all its batches    *)
(* were appended, or when its context is done.                                *)
THEOREM SuccessfulQueriesComplete == Spec => []SuccessIsComplete
<1>1. IInv => SuccessIsComplete
  BY DEF IInv, QInv, Complete, SuccessIsComplete
<1> QED
  BY <1>1, InitHolds, NextPreserves, PTL DEF Spec

(* For every limit: a result that is returned is within it, since the tracker *)
(* counts the rows of the result and is checked after every batch.            *)
THEOREM ResultsWithinLimit == Spec => []ResultWithinLimit
<1>1. IInv => ResultWithinLimit
  BY DEF IInv, QInv, Within, ResultWithinLimit
<1> QED
  BY <1>1, InitHolds, NextPreserves, PTL DEF Spec

(* For every number of batches the goroutine reads ahead: the remote query of *)
(* a query that succeeds without an interruption is closed.                   *)
THEOREM FinishedRemotesClosed == Spec => []RemoteQueriesClosed
<1>1. IInv => RemoteQueriesClosed
  BY DEF IInv, QInv, Complete, RemoteQueriesClosed
<1> QED
  BY <1>1, InitHolds, NextPreserves, PTL DEF Spec

-----------------------------------------------------------------------------
(* Where subqueries and remote queries begin, for every query, engine, range  *)
(* and offset.  All arguments rest on two facts about division: a quotient by *)
(* a positive step is unique, and Go's quotient is the mathematical one for   *)
(* numbers that are not negative and its mirror image for the others.         *)

Options == [start : Int, end : Int, step : Nat, lookback : Nat]

(* A query of n steps after its first one, which ends r after the last of them. *)
EndsAfterStep(o, n, r) ==
  /\ o \in Options
  /\ o.step # 0
  /\ r \in 0..(o.step - 1)
  /\ o.end = o.start + o.step * n + r

(* Quotient and remainder by a positive number. *)
LEMMA Division ==
  ASSUME NEW a \in Int, NEW b \in Nat \ {0}
  PROVE  /\ a \div b \in Int
         /\ a % b \in 0..(b - 1)
         /\ a = b * (a \div b) + (a % b)
  OBVIOUS

(* What the proofs use of products with a step. *)
LEMMA Products ==
  ASSUME NEW b \in Nat \ {0}, NEW p \in Int, NEW q \in Int
  PROVE  /\ b * p \in Int
         /\ b * p = p * b
         /\ b * (p - q) = b * p - b * q
         /\ b * (p + q) = b * p + b * q
         /\ p > q => b * p >= b * q + b
         /\ p >= q => b * p >= b * q
  OBVIOUS

(* The quotient is determined by a remainder smaller than the step. *)
LEMMA QuotientUnique ==
  ASSUME NEW b \in Nat \ {0}, NEW p \in Int, NEW r \in 0..(b - 1)
  PROVE  (b * p + r) \div b = p
  OBVIOUS

(* The quotient of a number that is not negative is the largest one whose     *)
(* product does not exceed it, the quotient of the others the smallest one    *)
(* whose product does not fall below it.                                      *)
LEMMA QuoZeroBounds ==
  ASSUME NEW a \in Int, NEW b \in Nat \ {0}
  PROVE  /\ QuoZero(a, b) \in Int
         /\ a >= 0 => /\ QuoZero(a, b) >= 0
                      /\ b * QuoZero(a, b) <= a
                      /\ a < b * QuoZero(a, b) + b
         /\ a < 0 => /\ QuoZero(a, b) <= 0
                     /\ a <= b * QuoZero(a, b)
                     /\ b * QuoZero(a, b) - b < a
<1>1. CASE a >= 0
  <2>1. QuoZero(a, b) = a \div b
    BY <1>1 DEF QuoZero
  <2> DEFINE d == a \div b
  <2>2. d \in Int /\ b * d <= a /\ a < b * d + b
    BY Division
  <2>3. d >= 0
    BY <1>1, <2>2
  <2> QED
    BY <1>1, <2>1, <2>2, <2>3
<1>2. CASE a < 0
  <2>1. QuoZero(a, b) = -((-a) \div b)
    BY <1>2 DEF QuoZero
  <2> DEFINE d == (-a) \div b
  <2>2. d \in Int /\ b * d <= -a /\ -a < b * d + b
    BY Division
  <2>3. d >= 0
    BY <1>2, <2>2
  <2>4. b * (-d) = -(b * d)
    BY <2>2
  <2> QED
    BY <1>2, <2>1, <2>2, <2>3, <2>4
<1> QED
  BY <1>1, <1>2

(* Every range that does not end before it starts has its last step. *)
LEMMA HasLastStep ==
  ASSUME NEW o \in Options, o.step # 0, o.start <= o.end
  PROVE  \E n \in Nat : EndsAfterStep(o, n, (o.end - o.start) % o.step)
<1> DEFINE d == o.end - o.start
           n == d \div o.step
<1>1. o.step \in Nat \ {0} /\ o.start \in Int /\ o.end \in Int /\ d \in Int /\ d >= 0
  BY DEF Options
<1>2. n \in Int /\ d % o.step \in 0..(o.step - 1) /\ d = o.step * n + (d % o.step)
  <2> HIDE DEF d
  <2> QED
    BY <1>1, Division
<1>3. n >= 0
  <2>1. SUFFICES ASSUME 0 > n PROVE FALSE
    BY <1>2
  <2>2. o.step * 0 >= o.step * n + o.step /\ o.step * n \in Int
    <3> HIDE DEF n
    <3> QED
      BY <1>1, <1>2, <2>1, Products
  <2> HIDE DEF n, d
  <2> QED
    BY <1>1, <1>2, <2>2
<1>4. EndsAfterStep(o, n, d % o.step)
  <2>1. o.step * n \in Int
    <3> HIDE DEF n
    <3> QED
      BY <1>1, <1>2, Products
  <2>2. o.end = o.start + d
    BY <1>1
  <2> HIDE DEF n, d
  <2> QED
    BY <1>1, <1>2, <2>1, <2>2 DEF EndsAfterStep
<1> QED
  BY <1>2, <1>3, <1>4

(* The number of steps between the start and the end of the query. *)
LEMMA StepCount ==
  ASSUME NEW n \in Nat, NEW r \in Int, NEW o, EndsAfterStep(o, n, r)
  PROVE  /\ o.step \in Nat \ {0} /\ o.start \in Int /\ o.end \in Int /\ r \in 0..(o.step - 1)
         /\ o.step * n \in Int /\ o.step * n >= 0 /\ o.end = o.start + o.step * n + r
         /\ QuoZero(o.end - o.start, o.step) = n
<1>1. o.step \in Nat \ {0} /\ o.start \in Int /\ o.end \in Int /\ o.end = o.start + o.step * n + r /\ r \in 0..(o.step - 1)
  BY DEF EndsAfterStep, Options
<1>2. o.step * n \in Int /\ o.step * n >= o.step * 0 /\ o.step * 0 = 0
  BY <1>1, Products
<1>3. o.end - o.start = o.step * n + r /\ o.step * n + r >= 0
  BY <1>1, <1>2
<1>4. (o.step * n + r) \div o.step = n
  BY <1>1, QuotientUnique
<1>5. QuoZero(o.step * n + r, o.step) = n
  BY <1>3, <1>4 DEF QuoZero
<1> QED
  BY <1>1, <1>2, <1>3, <1>5

(* The steps of a query. *)
LEMMA StepsOfQuery ==
  ASSUME NEW n \in Nat, NEW r \in Int, NEW o, EndsAfterStep(o, n, r)
  PROVE  /\ TotalSteps(o) = n + 1
         /\ \A k \in 0..n : o.start + o.step * k \in Steps(o)
<1>1. o.step \in Nat \ {0} /\ QuoZero(o.end - o.start, o.step) = n
  BY StepCount
<1>2. TotalSteps(o) = n + 1
  BY <1>1 DEF TotalSteps
<1>3. ASSUME NEW k \in 0..n
      PROVE  o.start + o.step * k \in Steps(o)
  <2>1. k \in 0..(TotalSteps(o) - 1) /\ o.step * k = k * o.step
    BY <1>1, <1>2, Products
  <2> QED
    BY <2>1 DEF Steps
<1> QED
  BY <1>2, <1>3

(* calculateStepAlignedStart counts the steps from the end of the query, not   *)
(* from its last step: a time within the range is moved to a step at most r    *)
(* before it.  A time past the end is moved back to a step, since Go rounds    *)
(* the negative number of remaining steps towards zero.                        *)
LEMMA AlignedStart ==
  ASSUME NEW n \in Nat, NEW r \in Int, NEW o, EndsAfterStep(o, n, r), NEW m \in Int, m >= o.start
  PROVE  \E k \in Nat :
           LET s == o.start + o.step * k
           IN  /\ calculateStepAlignedStart(o, m) = s
               /\ m <= o.end => m <= s + r /\ s + r < m + o.step /\ k <= n
               /\ m > o.end => s + r <= m /\ m < s + r + o.step /\ k >= n
<1> DEFINE T == o.step
           d == o.end - m
           q == QuoZero(d, T)
           k == n - q
<1>1. /\ T \in Nat \ {0} /\ o.start \in Int /\ o.end \in Int /\ r \in 0..(T - 1)
      /\ T * n \in Int /\ o.end = o.start + T * n + r
  BY StepCount
<1>2. d \in Int
  BY <1>1
<1>3. /\ q \in Int
      /\ d >= 0 => q >= 0 /\ T * q <= d /\ d < T * q + T
      /\ d < 0 => q <= 0 /\ d <= T * q /\ T * q - T < d
  <2> HIDE DEF d, T
  <2> QED
    BY <1>1, <1>2, QuoZeroBounds
<1>4. numSteps(o.start, o.end, T) = n + 1 /\ numSteps(m, o.end, T) = q + 1
  BY StepCount DEF numSteps
<1>5. k \in Int /\ T * k = T * n - T * q /\ T * q \in Int /\ T * k \in Int /\ T * k = k * T
  <2> HIDE DEF q, T
  <2> QED
    BY <1>1, <1>3, Products
<1>6. calculateStepAlignedStart(o, m) = o.start + T * k
  <2>1. (n + 1) - (q + 1) = k
    BY <1>3
  <2> QED
    BY <1>4, <1>5, <2>1 DEF calculateStepAlignedStart
<1>7. SUFFICES ASSUME TRUE
               PROVE  /\ k >= 0
                      /\ m <= o.end => m <= o.start + T * k + r /\ o.start + T * k + r < m + T /\ k <= n
                      /\ m > o.end => o.start + T * k + r <= m /\ m < o.start + T * k + r + T /\ k >= n
  <2> HIDE DEF k
  <2> QED
    BY <1>5, <1>6
<1>8. CASE m <= o.end
  <2>1. q >= 0 /\ T * q <= o.end - m /\ o.end - m < T * q + T
    BY <1>1, <1>3, <1>8
  <2>2. m <= o.start + T * k + r /\ o.start + T * k + r < m + T
    <3> HIDE DEF q, k, T
    <3> QED
      BY <1>1, <1>5, <2>1
  <2>3. k >= 0
    <3>1. SUFFICES ASSUME 0 > k PROVE FALSE
      BY <1>5
    <3>2. T * 0 >= T * k + T
      <4> HIDE DEF k, T
      <4> QED
        BY <1>1, <1>5, <3>1, Products
    <3> HIDE DEF k, T
    <3> QED
      BY <1>1, <1>5, <2>2, <3>2
  <2> QED
    BY <1>1, <1>3, <1>8, <2>1, <2>2, <2>3
<1>9. CASE m > o.end
  <2>1. q <= 0 /\ o.end - m <= T * q /\ T * q - T < o.end - m
    BY <1>1, <1>3, <1>9
  <2>2. o.start + T * k + r <= m /\ m < o.start + T * k + r + T
    <3> HIDE DEF q, k, T
    <3> QED
      BY <1>1, <1>5, <2>1
  <2> QED
    BY <1>1, <1>3, <1>9, <2>1, <2>2
<1> QED
  BY <1>1, <1>8, <1>9

(* A step of the query is left alone. *)
LEMMA AlignedStaysPut ==
  ASSUME NEW n \in Nat, NEW r \in Int, NEW o, EndsAfterStep(o, n, r), NEW k \in 0..n
  PROVE  calculateStepAlignedStart(o, o.start + o.step * k) = o.start + o.step * k
<1> DEFINE T == o.step
           m == o.start + T * k
<1>1. /\ T \in Nat \ {0} /\ o.start \in Int /\ o.end \in Int /\ r \in 0..(T - 1)
      /\ T * n \in Int /\ o.end = o.start + T * n + r
  BY StepCount
<1>2. T * k \in Int /\ T * k >= T * 0 /\ T * 0 = 0 /\ T * n >= T * k
  BY <1>1, Products
<1>3. m \in Int /\ m >= o.start /\ m <= o.end
  BY <1>1, <1>2
<1>4. PICK j \in Nat : /\ calculateStepAlignedStart(o, m) = o.start + T * j
                       /\ m <= o.start + T * j + r /\ o.start + T * j + r < m + T
  <2> HIDE DEF m
  <2> QED
    BY <1>3, AlignedStart
<1>5. T * j \in Int /\ (j > k => T * j >= T * k + T) /\ (k > j => T * k >= T * j + T)
  BY <1>1, Products
<1>6. j = k
  <2> HIDE DEF T
  <2> QED
    BY <1>1, <1>2, <1>4, <1>5
<1> QED
  BY <1>4, <1>6

------------------------------------------------------------------------------
(* Remote queries *)

(* A step at most r before a time d, and less than a step after it by as much, *)
(* is before d exactly when d is within r of the step before it.               *)
LEMMA Shortfall ==
  ASSUME NEW b \in Nat \ {0}, NEW k \in Int, NEW d \in Int, NEW r \in 0..(b - 1),
         d <= b * k + r, b * k + r < d + b
  PROVE  b * k < d <=> d % b \in 1..r
<1> DEFINE a == d \div b
           x == d % b
<1>1. a \in Int /\ x \in 0..(b - 1) /\ d = b * a + x
  BY Division
<1> HIDE DEF a, x
<1>2. /\ b * k \in Int /\ b * a \in Int
      /\ k > a => b * k >= b * a + b
      /\ a > k => b * a >= b * k + b
  BY <1>1, Products
<1>3. ~(a > k)
  BY <1>1, <1>2
<1>4. CASE k = a
  BY <1>1, <1>2, <1>4 DEF x
<1>5. CASE k > a
  BY <1>1, <1>2, <1>5 DEF x
<1> QED
  BY <1>1, <1>3, <1>4, <1>5

(* Where the query of an engine starts that is not the oldest one and whose   *)
(* samples begin after those the first step depends on.                       *)
LEMMA StartOfYoungEngine ==
  ASSUME NEW n \in Nat, NEW r \in Int, NEW o, EndsAfterStep(o, n, r),
         NEW m \in Int, m > o.start
  PROVE  LET a == calculateStepAlignedStart(o, m)
             s == calculateStepAlignedStart(o, LaterOf(a, o.start))
         IN  /\ s \in Int
             /\ s <= o.end => s \in Steps(o) /\ s < m + o.step
             /\ m <= o.end => s <= o.end /\ m <= s + r /\ (s < m <=> (m - o.start) % o.step \in 1..r)
             /\ m > o.end /\ s <= o.end => s = o.end - r
             /\ m > o.end /\ m < o.end + o.step => s = o.end - r
<1> DEFINE T == o.step
           a == calculateStepAlignedStart(o, m)
           s == calculateStepAlignedStart(o, LaterOf(a, o.start))
<1>1. /\ T \in Nat \ {0} /\ o.start \in Int /\ o.end \in Int /\ r \in 0..(T - 1)
      /\ T * n \in Int /\ o.end = o.start + T * n + r
  BY StepCount
<1>2. PICK k \in Nat : /\ a = o.start + T * k
                       /\ m <= o.end => m <= o.start + T * k + r /\ o.start + T * k + r < m + T /\ k <= n
                       /\ m > o.end => o.start + T * k + r <= m /\ m < o.start + T * k + r + T /\ k >= n
  BY <1>1, AlignedStart
<1>3. T * k \in Int /\ T * k >= 0 /\ (k > n => T * k >= T * n + T)
  BY <1>1, Products
<1>4. LaterOf(a, o.start) = o.start + T * k
  BY <1>1, <1>2, <1>3 DEF LaterOf
<1>5. k <= n => s = o.start + T * k
  BY <1>4, AlignedStaysPut
<1>6. PICK j \in Nat : s = o.start + T * j /\ (k > n => j >= n)
  <2>1. CASE k <= n
    BY <1>5, <2>1
  <2>2. CASE k > n
    <3> DEFINE t == o.start + T * k
    <3>1. t \in Int /\ t >= o.start /\ t > o.end
      BY <1>1, <1>3, <2>2
    <3>2. s = calculateStepAlignedStart(o, t)
      BY <1>4
    <3> HIDE DEF t
    <3>3. PICK j \in Nat : calculateStepAlignedStart(o, t) = o.start + T * j /\ j >= n
      BY <3>1, AlignedStart
    <3> QED
      BY <3>2, <3>3
  <2> QED
    BY <2>1, <2>2
<1>7. T * j \in Int /\ (j > n => T * j >= T * n + T)
  BY <1>1, Products
<1> HIDE DEF s, a
<1>8. s \in Int
  BY <1>1, <1>6, <1>7
<1>9. j <= n => s \in Steps(o)
  BY <1>6, StepsOfQuery
<1>10. s <= o.end => j <= n
  <2> HIDE DEF T
  <2> QED
    BY <1>1, <1>6, <1>7
<1>11. ASSUME m <= o.end
       PROVE  /\ s <= o.end /\ m <= s + r /\ s < m + T
              /\ s < m <=> (m - o.start) % T \in 1..r
  <2>1. s = o.start + T * k /\ m <= o.start + T * k + r /\ o.start + T * k + r < m + T /\ k <= n
    BY <1>2, <1>5, <1>11
  <2>2. T * n >= T * k
    BY <1>1, <2>1, Products
  <2>3. PICK d \in Int : d = m - o.start
    BY <1>1
  <2>4. d <= T * k + r /\ T * k + r < d + T
    <3> HIDE DEF T
    <3> QED
      BY <1>1, <1>3, <2>1, <2>3
  <2>5. T * k < d <=> d % T \in 1..r
    BY <1>1, <2>4, Shortfall
  <2>6. s < m <=> T * k < d
    <3> HIDE DEF T
    <3> QED
      BY <1>1, <1>3, <2>1, <2>3
  <2>7. s <= o.end /\ m <= s + r /\ s < m + T
    <3> HIDE DEF T
    <3> QED
      BY <1>1, <1>3, <2>1, <2>2
  <2> QED
    BY <2>3, <2>5, <2>6, <2>7
<1>12. ASSUME m > o.end, s <= o.end
       PROVE  s = o.end - r /\ s < m + T
  <2>1. k >= n /\ j <= n
    BY <1>2, <1>10, <1>12
  <2>2. j = n
    <3>1. CASE k = n
      <4>1. T * j = T * n
        <5> HIDE DEF T
        <5> QED
          BY <1>1, <1>5, <1>6, <1>7, <3>1
      <4>2. n > j => T * n >= T * j + T
        BY <1>1, Products
      <4> HIDE DEF T
      <4> QED
        BY <1>1, <1>7, <2>1, <4>1, <4>2
    <3>2. CASE k > n
      BY <1>6, <2>1, <3>2
    <3> QED
      BY <2>1, <3>1, <3>2
  <2> HIDE DEF T
  <2> QED
    BY <1>1, <1>6, <1>8, <1>12, <2>2
<1>13. ASSUME m > o.end, m < o.end + T
       PROVE  s = o.end - r
  <2>1. ~(k > n)
    <3> HIDE DEF T
    <3> QED
      BY <1>1, <1>2, <1>3, <1>13
  <2>2. k = n
    BY <1>2, <1>13, <2>1
  <2>3. s = o.start + T * n
    BY <1>5, <2>2
  <2> HIDE DEF T
  <2> QED
    BY <1>1, <2>3
<1>14. s <= o.end => s \in Steps(o) /\ s < m + T
  BY <1>1, <1>8, <1>9, <1>10, <1>11, <1>12
<1>15. /\ s \in Int
       /\ s <= o.end => s \in Steps(o) /\ s < m + T
       /\ m <= o.end => s <= o.end /\ m <= s + r /\ (s < m <=> (m - o.start) % T \in 1..r)
       /\ m > o.end /\ s <= o.end => s = o.end - r
       /\ m > o.end /\ m < o.end + T => s = o.end - r
  BY <1>8, <1>11, <1>12, <1>13, <1>14
<1> QED
  BY <1>15 DEF s, a, T

(* getStartTimeForEngine, for every query and every engine older ones can      *)
(* stand in for: when the engine is asked at all, it is asked from a step of   *)
(* the query on, and not a step later than needed.  It holds all the samples   *)
(* that step depends on unless it is late, or uneven with the end of the       *)
(* query, and then it never does: it is asked for the last step, or for one    *)
(* step too many.                                                              *)
THEOREM RemoteStartCovers ==
  ASSUME NEW o \in Options, o.start <= o.end, NEW e, e.mint \in Int, NEW offset \in Nat, NEW globalMinT,
         e.mint # globalMinT, getStartTimeForEngine(e, o, offset, globalMinT) # NoTime
  PROVE  LET start == getStartTimeForEngine(e, o, offset, globalMinT)
         IN  /\ start \in Steps(o)
             /\ start = o.start \/ start - o.step < e.mint + offset
             /\ CoversItsSteps(e, o, offset, start) <=> ~LateEngine(e, o, offset) /\ ~UnevenEngine(e, o, offset)
             /\ LateEngine(e, o, offset) => o.end < start + o.step
             /\ UnevenEngine(e, o, offset) => e.mint + offset < start + o.step
<1> DEFINE m == e.mint + offset
           r == (o.end - o.start) % o.step
           required == o.start - offset
           engineMin == IF e.mint > required THEN calculateStepAlignedStart(o, m) ELSE e.mint
           aligned == calculateStepAlignedStart(o, LaterOf(engineMin, o.start))
           start == getStartTimeForEngine(e, o, offset, globalMinT)
<1>1. o.start \in Int /\ o.end \in Int /\ o.step \in Nat /\ m \in Int
  BY DEF Options
<1>2. start # NoTime /\ start = IF TotalSteps(o) = 1 THEN IF e.mint < required THEN o.start ELSE NoTime
                              ELSE IF aligned > o.end THEN NoTime ELSE aligned
  BY DEF getStartTimeForEngine
<1>3. ASSUME start = o.start, e.mint <= required, o.start \in Steps(o)
      PROVE  /\ start \in Steps(o) /\ CoversItsSteps(e, o, offset, start)
             /\ ~LateEngine(e, o, offset) /\ ~UnevenEngine(e, o, offset)
  <2>1. ~(o.start < m) /\ ~(o.end < m)
    BY <1>1, <1>3
  <2> QED
    BY <1>3, <2>1 DEF CoversItsSteps, LateEngine, UnevenEngine
<1>4. CASE TotalSteps(o) = 1
  <2>1. start = o.start /\ e.mint < required
    BY <1>2, <1>4
  <2>2. o.start \in Steps(o)
    <3>1. o.start + 0 * o.step = o.start /\ 0 \in 0..(TotalSteps(o) - 1)
      BY <1>1, <1>4
    <3> QED
      BY <3>1 DEF Steps
  <2> QED
    BY <1>1, <1>3, <2>1, <2>2
<1>5. CASE TotalSteps(o) # 1
  <2>1. start = aligned /\ ~(aligned > o.end)
    BY <1>2, <1>5
  <2>2. o.step # 0
    BY <1>5 DEF TotalSteps
  <2>3. PICK n \in Nat : EndsAfterStep(o, n, r)
    BY <2>2, HasLastStep
  <2>4. r \in Int /\ r \in 0..(o.step - 1)
    BY <2>3 DEF EndsAfterStep
  <2>5. CASE e.mint > required
    <3>1. m > o.start /\ aligned = calculateStepAlignedStart(o, LaterOf(calculateStepAlignedStart(o, m), o.start))
      BY <1>1, <2>5
    <3>2. /\ aligned \in Int
          /\ aligned <= o.end => aligned \in Steps(o) /\ aligned < m + o.step
          /\ m <= o.end => m <= aligned + r /\ (aligned < m <=> (m - o.start) % o.step \in 1..r)
          /\ m > o.end /\ aligned <= o.end => aligned = o.end - r
      <4> HIDE DEF m, aligned, r
      <4> QED
        BY <1>1, <2>3, <2>4, <3>1, StartOfYoungEngine
    <3> HIDE DEF aligned, start
    <3>3. aligned <= o.end
      BY <1>1, <2>1, <3>2
    <3>4. CoversItsSteps(e, o, offset, start) <=> ~(aligned < m)
      BY <1>1, <2>1, <3>2, <3>3 DEF CoversItsSteps
    <3>5. LateEngine(e, o, offset) <=> m > o.end
      BY <1>1 DEF LateEngine
    <3>6. UnevenEngine(e, o, offset) <=> m <= o.end /\ (m - o.start) % o.step \in 1..r
      BY <1>1, <3>1 DEF UnevenEngine
    <3> HIDE DEF m, r
    <3>7. aligned < m <=> LateEngine(e, o, offset) \/ UnevenEngine(e, o, offset)
      <4>1. CASE m <= o.end
        BY <1>1, <3>2, <3>5, <3>6, <4>1
      <4>2. CASE m > o.end
        BY <1>1, <3>2, <3>3, <3>5, <4>2
      <4> QED
        BY <1>1, <4>1, <4>2
    <3>8. LateEngine(e, o, offset) => o.end < start + o.step
      BY <1>1, <2>1, <2>4, <3>2, <3>3, <3>5
    <3>9. UnevenEngine(e, o, offset) => m < start + o.step
      BY <1>1, <2>1, <2>4, <3>2, <3>6
    <3>10. start \in Steps(o) /\ start - o.step < m
      BY <1>1, <2>1, <3>2, <3>3
    <3> QED
      BY <3>4, <3>7, <3>8, <3>9, <3>10 DEF start, m
  <2>6. CASE ~(e.mint > required)
    <3>1. LaterOf(engineMin, o.start) = o.start
      BY <1>1, <2>6 DEF LaterOf
    <3>2. o.start + o.step * 0 = o.start
      BY <1>1
    <3>3. 0 \in 0..n
      OBVIOUS
    <3>4. aligned = o.start
      <4> HIDE DEF r
      <4> QED
        BY <2>3, <2>4, <3>1, <3>2, <3>3, AlignedStaysPut
    <3>5. o.start \in Steps(o)
      <4> HIDE DEF r
      <4> QED
        BY <2>3, <2>4, <3>2, <3>3, StepsOfQuery
    <3> QED
      BY <1>1, <1>3, <2>1, <2>6, <3>4, <3>5
  <2> QED
    BY <2>5, <2>6
<1> QED
  BY <1>4, <1>5

(* Late engines are asked: one whose samples begin within the range of a query *)
(* of several steps, but too late for any of its steps by less than a step, is *)
(* asked for the last one although it lacks samples that step depends on.      *)
THEOREM LateEngineIsAsked ==
  ASSUME NEW o \in Options, o.start <= o.end, TotalSteps(o) # 1, NEW e, e.mint \in Int, NEW offset \in Nat,
         NEW globalMinT, e.mint # globalMinT, e.mint <= o.end,
         LateEngine(e, o, offset), e.mint + offset < o.end + o.step
  PROVE  LET start == getStartTimeForEngine(e, o, offset, globalMinT)
         IN  /\ start = o.end - ((o.end - o.start) % o.step)
             /\ ~CoversItsSteps(e, o, offset, start)
<1> DEFINE m == e.mint + offset
           r == (o.end - o.start) % o.step
           aligned == calculateStepAlignedStart(o, LaterOf(calculateStepAlignedStart(o, m), o.start))
<1>1. o.start \in Int /\ o.end \in Int /\ o.step \in Nat /\ o.step # 0 /\ m \in Int
  BY DEF Options, TotalSteps
<1>2. PICK n \in Nat : EndsAfterStep(o, n, r)
  BY <1>1, HasLastStep
<1>3. r \in Int /\ r \in 0..(o.step - 1)
  BY <1>2 DEF EndsAfterStep
<1>4. m > o.start /\ m > o.end /\ m < o.end + o.step
  BY <1>1 DEF LateEngine
<1>5. aligned = o.end - r
  <2> HIDE DEF m, r
  <2> QED
    BY <1>1, <1>2, <1>3, <1>4, StartOfYoungEngine
<1>6. e.mint > o.start - offset
  BY <1>1, <1>4
<1>7. getStartTimeForEngine(e, o, offset, globalMinT) = IF aligned > o.end THEN NoTime ELSE aligned
  BY <1>1, <1>6 DEF getStartTimeForEngine
<1> HIDE DEF aligned, r
<1>8. getStartTimeForEngine(e, o, offset, globalMinT) = o.end - r
  BY <1>1, <1>3, <1>5, <1>7
<1>9. ~(e.mint <= (o.end - r) - offset)
  BY <1>1, <1>3, <1>4
<1> QED
  BY <1>8, <1>9, Zenon DEF CoversItsSteps, r

------------------------------------------------------------------------------
(* Subqueries *)

(* NestedOptionsForSubquery starts at the first multiple of the subquery's    *)
(* step that a window of the query reaches back to, also where times are      *)
(* negative and Go rounds the quotient up instead of down.                    *)
LEMMA NestedStart ==
  ASSUME NEW o \in Options, NEW step \in Nat \ {0}, NEW range \in Nat, NEW offset \in Int
  PROVE  LET nested == NestedOptionsForSubquery(o, step, range, offset)
             first == o.start - offset - range
         IN  /\ nested.step = step /\ nested.end = o.end - offset
             /\ \E j \in Int : nested.start = step * j
             /\ first <= nested.start /\ nested.start < first + step
<1> DEFINE nested == NestedOptionsForSubquery(o, step, range, offset)
           first == o.start - offset - range
           q == QuoZero(first, step)
<1>1. first \in Int
  BY DEF Options
<1>2. /\ q \in Int
      /\ first >= 0 => q >= 0 /\ step * q <= first /\ first < step * q + step
      /\ first < 0 => q <= 0 /\ first <= step * q /\ step * q - step < first
  <2> HIDE DEF first
  <2> QED
    BY <1>1, QuoZeroBounds
<1>3. /\ nested.step = step /\ nested.end = o.end - offset
      /\ nested.start = IF step * q < first THEN step * q + step ELSE step * q
  BY DEF NestedOptionsForSubquery, Options
<1>4. step * q \in Int /\ step * (q + 1) = step * q + step /\ q + 1 \in Int
  <2> HIDE DEF q
  <2> QED
    BY <1>2, Products
<1>5. \E j \in Int : nested.start = step * j
  <2> HIDE DEF q
  <2> QED
    BY <1>2, <1>3, <1>4
<1>6. first <= nested.start /\ nested.start < first + step
  <2> HIDE DEF q, first
  <2> QED
    BY <1>1, <1>2, <1>3, <1>4
<1> QED
  BY <1>3, <1>5, <1>6, Zenon

(* A subquery's inner expression is evaluated at every multiple of its step   *)
(* in the window of every step of the query, and at no time that lies a step  *)
(* before the first of these windows: the subquery operator, which fills its  *)
(* ring buffers from this one nested evaluation, never meets a window whose   *)
(* points were not computed.                                                  *)
THEOREM SubqueryWindowsEvaluated ==
  ASSUME NEW o \in Options, NEW step \in Nat \ {0}, NEW range \in Nat, NEW offset \in Int,
         NEW t \in Int, o.start <= t, t <= o.end,
         NEW i \in Int, t - offset - range <= step * i, step * i <= t - offset
  PROVE  step * i \in Steps(NestedOptionsForSubquery(o, step, range, offset))
<1> DEFINE nested == NestedOptionsForSubquery(o, step, range, offset)
           d == nested.end - nested.start
           q == QuoZero(d, step)
<1>1. PICK j \in Int : nested.start = step * j
  <2>1. /\ nested.step = step /\ nested.end = o.end - offset
        /\ \E j \in Int : nested.start = step * j
        /\ o.start - offset - range <= nested.start /\ nested.start < o.start - offset - range + step
    BY NestedStart, Zenon
  <2> QED
    BY Zenon, <2>1
<1>2. /\ nested.step = step /\ nested.end = o.end - offset
      /\ nested.start < o.start - offset - range + step
  BY NestedStart
<1>3. o.start \in Int /\ o.end \in Int
  BY DEF Options
<1>4. step * j \in Int /\ step * i \in Int /\ step * (i - j) = step * i - step * j
  BY Products
<1>5. i >= j
  <2>1. SUFFICES ASSUME j > i PROVE FALSE
    OBVIOUS
  <2>2. step * j >= step * i + step
    BY <2>1, Products
  <2> HIDE DEF nested
  <2> QED
    BY <1>1, <1>2, <1>3, <1>4, <2>2
<1>6. d \in Int /\ d >= step * (i - j) /\ step * (i - j) >= 0
  <2>1. step * i >= step * j
    BY <1>5, Products
  <2> HIDE DEF nested
  <2> QED
    BY <1>1, <1>2, <1>3, <1>4, <2>1
<1>7. q \in Int /\ d < step * q + step
  <2> HIDE DEF d
  <2> QED
    BY <1>4, <1>6, QuoZeroBounds
<1>8. i - j <= q
  <2>1. SUFFICES ASSUME i - j > q PROVE FALSE
    BY <1>7
  <2> HIDE DEF q, d
  <2>2. i - j \in Int
    OBVIOUS
  <2>3. step * (i - j) >= step * q + step
    BY <1>7, <2>1, <2>2, Products
  <2> QED
    BY <1>4, <1>6, <1>7, <2>3
<1>9. i - j \in 0..(TotalSteps(nested) - 1)
  <2>1. TotalSteps(nested) = q + 1
    BY <1>2 DEF TotalSteps
  <2> HIDE DEF q, nested
  <2> QED
    BY <1>5, <1>7, <1>8, <2>1
<1>10. nested.start + (i - j) * nested.step = step * i
  <2>1. (i - j) * step = step * (i - j)
    OBVIOUS
  <2> HIDE DEF nested
  <2> QED
    BY <1>1, <1>2, <1>4, <2>1
<1> HIDE DEF nested
<1>11. step * i \in Steps(nested)
  BY <1>9, <1>10 DEF Steps
<1> QED
  BY <1>11 DEF nested

=============================================================================
