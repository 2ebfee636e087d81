------------------------------ MODULE Execution ------------------------------
(* A query from the expression to its result: it is planned, the operators of *)
(* the plan are built, and the root is read batch by batch.                   *)
EXTENDS Planner, Operators

(* A query also has stepsBatch, the number of steps of a batch, and fault. *)

VARIABLES
  root,          \* the root operator with all operators below it
  returned       \* the vectors [t, samples] read from it, with their labels

vars == <<planVars, root, returned>>

Init == PlanInit /\ root = NoOperator /\ returned = <<>>

Planning == PlanNext /\ UNCHANGED <<root, returned>>

Options == Env(FALSE) @@ [stepsBatch |-> query.stepsBatch, fault |-> query.fault]

Build ==
  /\ phase = "planned"
  /\ root' = NewExecution(plan, Options, Held)
  /\ phase' = "running"
  /\ UNCHANGED <<query, plan, todo, engines, returned>>

Labelled(op, v) ==
  LET label(x) == IF op.series = <<>> THEN NoLabels ELSE op.series[x.id]
  IN  [t |-> v.t, samples |-> [j \in DOMAIN v.s |-> [l |-> label(v.s[j]), v |-> v.s[j].v]]]

(* The result r of one read of the root. *)
Collect(r) ==
  /\ root' = r.op
  /\ returned' = returned \o [i \in DOMAIN r.out |-> Labelled(r.op, r.out[i])]
  /\ phase' = IF r.err THEN "failed" ELSE IF r.out = <<>> THEN "done" ELSE "running"

Exec ==
  /\ phase = "running"
  /\ Collect(NextOf(root, query.stepsBatch))
  /\ UNCHANGED <<query, plan, todo, engines>>

Done == phase \in {"done", "failed"} /\ UNCHANGED vars

Next == Planning \/ Build \/ Exec \/ Done

Spec == Init /\ [][Next]_vars

------------------------------------------------------------------------------
(* Properties *)

Expected(t) == Value(query.ast, t, TRUE)

(* PromQL has no value at a step: an operation fails, or two series of the *)
(* result have the same labels.                                            *)
HasNoValue(t) == Expected(t).err \/ Cardinality({x.l : x \in Expected(t).vec}) # Cardinality(Expected(t).vec)

(* Every vector a query returns is what PromQL gives the expression at that  *)
(* step, with every sample once: whatever the plan became, however steps and *)
(* series are batched, and whatever the operators below carry over from one  *)
(* batch to the next (parameters, ring buffers, pending vectors, caches).    *)
StepsMatch ==
  phase \in {"running", "done"} =>
    \A i \in DOMAIN returned :
      LET s == returned[i].samples
      IN  HasNoValue(returned[i].t) \/ (Range(s) = Expected(returned[i].t).vec /\ Len(s) = Cardinality(Range(s)))

(* A query returns its steps once and in order, and one that ends without an *)
(* error has returned all of them: no operator repeats a step for every      *)
(* batch of series below it, returns steps for ever, or ends early because a *)
(* child it reads was shorter, has no series or has no samples.              *)
EveryStepOnce ==
  LET times == [i \in DOMAIN returned |-> returned[i].t]
      all == [k \in 1..TotalSteps(query.opts) |-> query.opts.start + (k - 1) * query.opts.step]
  IN  IsPrefix(times, all) /\ (phase = "done" => times = all)

RECURSIVE Below(_)
OperatorsRead(op) ==
  CASE op.k \in {"agg", "kagg", "subquery"} -> <<op.next>> \o (IF op.param = NoOperator THEN <<>> ELSE <<op.param>>)
    [] op.k \in {"stepinv", "unary", "countvalues", "scalar", "timestamp", "absent", "relabel", "check", "dedup"} -> <<op.next>>
    [] op.k = "function" -> op.args
    [] op.k = "histogram" -> <<op.vector, op.scalar>>
    [] op.k \in {"scalarbin", "vectorbin"} -> <<op.lhs, op.rhs>>
    [] op.k = "coalesce" -> op.operators
    [] OTHER -> <<>>
Below(op) == {op} \cup UNION { Below(OperatorsRead(op)[i]) : i \in DOMAIN OperatorsRead(op) }

(* The outcome of a query is justified: it fails only where PromQL has no    *)
(* value or a storage failed, and a failure of either kind is never taken    *)
(* for the end of the data by an operator on the way to the result.          *)
OutcomeJustified ==
  LET storageFailed == \E op \in Below(root) : op.k = "select" /\ op.failed
      noValue == \E t \in Steps(query.opts) : HasNoValue(t)
  IN  /\ phase = "failed" => noValue \/ storageFailed
      /\ phase = "done" => ~storageFailed /\ (noValue => "projection" \in Range(query.optimizers))

(* The step of the next vector an operator returns. *)
RECURSIVE Position(_)
Position(op) ==
  CASE op.k \in {"literal", "noarg", "select", "subquery", "stepinv"} -> op.clock.cur
    [] op.k = "agg" /\ op.lastBatch # <<>> -> op.lastBatch[1].t
    [] op.k = "countvalues" /\ op.counts # <<>> -> op.counts[1].t
    [] op.k = "coalesce" /\ op.inVectors[1] # <<>> -> op.inVectors[1][1].t
    [] OTHER -> Position(OperatorsRead(op)[1])

(* Operators that are read together stay at the same step between two reads  *)
(* of the result: aggregations and their parameter, functions and their      *)
(* arguments and the sides of a binary operation pair the i-th vectors of    *)
(* two batches without looking at the time.                                  *)
Lockstep ==
  phase \in {"running", "done"} =>
    \A op \in Below(root) :
      LET together == CASE op.k \in {"agg", "kagg", "subquery"} /\ op.param # NoOperator -> <<op, op.param>>
                        [] op.k \in {"function", "histogram", "scalarbin", "vectorbin"} -> OperatorsRead(op)
                        [] OTHER -> <<>>
      IN  \A i, j \in DOMAIN together : Position(together[i]) = Position(together[j])

=============================================================================
