-------------------------------- MODULE Plan --------------------------------
(* Logical plans.  A node is a record whose field k names its kind.  Label  *)
(* values and matcher patterns are strings, "" the empty value; a pattern is *)
(* a sequence of alternatives.  Query options are records [start, end, step, *)
(* lookback] with further fields where an evaluation needs them.             *)
EXTENDS StepTimes, Sequences, FiniteSets, SequencesExt, TLC

CONSTANTS
  LabelNames,     \* the label names besides the metric name "n"
  LabelValues     \* their values, "" included

SeriesHash == "h" \* the label a storage that projects adds to tell series apart
AllLabels == {"n", SeriesHash} \cup LabelNames

------------------------------------------------------------------------------
(* Nodes *)

NoMatching == [card |-> "none", on |-> FALSE, labels |-> {}, include |-> {}]
NoProjection == [set |-> FALSE, labels |-> {}, include |-> FALSE]

Selector(ms) ==
  [k |-> "vs", matchers |-> ms, filters |-> <<>>, originalOffset |-> 0, offset |-> 0, timestamp |-> NoTime,
   selectTimestamp |-> FALSE, batchSize |-> 0, projection |-> NoProjection, stats |-> FALSE]
Matrix(vs, r) == [k |-> "matrix", vs |-> vs, range |-> r]
Call(f, args) == [k |-> "call", fn |-> f, args |-> args]
Aggr(op, e, p, g, w) == [k |-> "agg", op |-> op, expr |-> e, param |-> p, grouping |-> g, without |-> w]
Bin(op, l, r, vm) == [k |-> "bin", op |-> op, lhs |-> l, rhs |-> r, vm |-> vm]
Neg(e) == [k |-> "unary", expr |-> e]
Paren(e) == [k |-> "parens", expr |-> e]
StepInvariant(e) == [k |-> "stepinv", expr |-> e]
Num(v) == [k |-> "num", v |-> v]
Str(s) == [k |-> "str", s |-> s]
Check(e) == [k |-> "check", expr |-> e]
SubqueryNode(e, r, s) ==
  [k |-> "subq", expr |-> e, range |-> r, step |-> s, originalOffset |-> 0, offset |-> 0, timestamp |-> NoTime]
RemoteExec(e, q, s, f) == [k |-> "remote", engine |-> e, query |-> q, start |-> s, end |-> f]
Merge(qs) == [k |-> "merge", exprs |-> qs]
NoopNode == [k |-> "noop"]
Nil == [k |-> "nil"]

Children(n) ==
  CASE n.k = "matrix" -> <<n.vs>>
    [] n.k = "call" -> n.args
    [] n.k = "agg" -> IF n.param = Nil THEN <<n.expr>> ELSE <<n.expr, n.param>>
    [] n.k = "bin" -> <<n.lhs, n.rhs>>
    [] n.k \in {"unary", "parens", "stepinv", "check", "subq"} -> <<n.expr>>
    [] n.k = "merge" -> n.exprs
    [] OTHER -> <<>>

(* The node with its children replaced: what a visitor that writes through *)
(* the child slots leaves behind.                                          *)
WithChildren(n, cs) ==
  CASE n.k = "matrix" -> [n EXCEPT !.vs = cs[1]]
    [] n.k = "call" -> [n EXCEPT !.args = cs]
    [] n.k = "agg" -> IF n.param = Nil THEN [n EXCEPT !.expr = cs[1]]
                                       ELSE [n EXCEPT !.expr = cs[1], !.param = cs[2]]
    [] n.k = "bin" -> [n EXCEPT !.lhs = cs[1], !.rhs = cs[2]]
    [] n.k \in {"unary", "parens", "stepinv", "check", "subq"} -> [n EXCEPT !.expr = cs[1]]
    [] OTHER -> n

(* Every node of a plan, parents before children and left to right: the *)
(* order in which Traverse visits them.                                 *)
RECURSIVE Traverse(_)
Traverse(n) == <<n>> \o FlattenSeq([i \in DOMAIN Children(n) |-> Traverse(Children(n)[i])])

Selectors(n) == SelectSeq(Traverse(n), LAMBDA x : x.k = "vs")

RECURSIVE ReturnType(_)
ReturnType(n) ==
  CASE n.k = "num" -> "scalar"
    [] n.k = "str" -> "string"
    [] n.k = "call" -> IF n.fn \in {"time", "scalar"} THEN "scalar" ELSE "vector"
    [] n.k = "bin" -> IF ReturnType(n.lhs) = "scalar" /\ ReturnType(n.rhs) = "scalar" THEN "scalar" ELSE "vector"
    [] n.k \in {"unary", "parens", "stepinv", "check"} -> ReturnType(n.expr)
    [] n.k = "remote" -> ReturnType(n.query)
    [] n.k = "merge" -> ReturnType(n.exprs[1])
    [] OTHER -> "vector"

RECURSIVE UnwrapString(_)
UnwrapString(n) ==
  IF n.k \in {"parens", "stepinv"} THEN UnwrapString(n.expr) ELSE n.s

RECURSIVE IsNumber(_)
IsNumber(n) == n.k = "num" \/ (n.k \in {"parens", "stepinv"} /\ IsNumber(n.expr))

RECURSIVE UnwrapFloat(_)
UnwrapFloat(n) == IF n.k \in {"parens", "stepinv"} THEN UnwrapFloat(n.expr) ELSE n.v

RECURSIVE IsConstantExpr(_)
IsConstantExpr(n) ==
  \/ n.k \in {"num", "str"}
  \/ n.k \in {"stepinv", "parens", "unary"} /\ IsConstantExpr(n.expr)
  \/ n.k = "call" /\ \A i \in DOMAIN n.args : IsConstantExpr(n.args[i])
  \/ n.k = "bin" /\ IsConstantExpr(n.lhs) /\ IsConstantExpr(n.rhs)

RECURSIVE IsConstantScalarExpr(_)
IsConstantScalarExpr(n) ==
  \/ n.k \in {"num", "str"}
  \/ n.k \in {"stepinv", "parens"} /\ IsConstantScalarExpr(n.expr)
  \/ n.k = "bin" /\ IsConstantScalarExpr(n.lhs) /\ IsConstantScalarExpr(n.rhs)

------------------------------------------------------------------------------
(* Matchers *)

M(name, type, val) == [name |-> name, type |-> type, val |-> val]

(* The label values a pattern denotes. *)
Language(p) ==
  UNION { CASE a = ".+" -> LabelValues \ {""}
            [] a = ".*" -> LabelValues
            [] OTHER -> {a} : a \in Range(p) }

Matches(m, v) ==
  CASE m.type = "=" -> v = m.val[1]
    [] m.type = "!=" -> v # m.val[1]
    [] m.type = "=~" -> v \in Language(m.val)
    [] OTHER -> v \notin Language(m.val)

MatchesAll(ms, l) == \A i \in DOMAIN ms : Matches(ms[i], l[ms[i].name])

------------------------------------------------------------------------------
(* Times *)

(* The hints a selector's storage is asked with: the samples it may read. *)
getTimeRangesForVectorSelector(n, o, evalRange) ==
  LET start == IF n.timestamp = NoTime THEN o.start ELSE n.timestamp
      end == IF n.timestamp = NoTime THEN o.end ELSE n.timestamp
      back == IF evalRange = 0 THEN o.lookback - 1 ELSE evalRange - 1
  IN  [mint |-> start - back - n.originalOffset, maxt |-> end - n.originalOffset]

=============================================================================
