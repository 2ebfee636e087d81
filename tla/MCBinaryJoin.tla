---------------------------- MODULE MCBinaryJoin ----------------------------
(* Expressions of every kind over few series. *)
EXTENDS BinaryJoin, TLC

S(name, k, i) == ("name" :> name) @@ ("k" :> k) @@ ("i" :> i)

(* Many has a series for each of two keys, Info two series of one key that *)
(* differ in the included label, Other series of two keys, one unmatched.  *)
Many == <<S(1, 1, 0), S(1, 2, 0)>>
Info == <<S(2, 1, 1), S(2, 1, 2)>>
Other == <<S(2, 1, 1), S(2, 3, 2)>>
A == <<S(1, 1, 0)>>
B == <<S(2, 1, 0)>>
Number == <<S(0, 0, 0)>>

Base == [op |-> "sub", card |-> "many_to_one", bool |-> FALSE, on |-> TRUE, names |-> {"k"},
         include |-> {}, lhs |-> Many, rhs |-> Info,
         lvals |-> {Float(<<1>>)}, rvals |-> {Float(<<2>>)}]

(* Which series match: samples come and go, their values do not matter. *)
Shapes ==
  { [Base EXCEPT !.include = {"i"}],
    [Base EXCEPT !.include = {"i"}, !.rvals = {Float(<<2>>), Hist(<<1>>)}],
    [Base EXCEPT !.card = "one_to_many", !.lhs = Info, !.rhs = Many, !.include = {"i"}],
    [Base EXCEPT !.card = "one_to_one", !.on = FALSE, !.names = {"i"}, !.rhs = Other],
    [Base EXCEPT !.card = "one_to_one", !.lhs = Info, !.rhs = Many] }
  \cup { [Base EXCEPT !.op = o, !.card = "many_to_many", !.rhs = Other] : o \in {"and", "or", "unless"} }

(* What a pair yields: one series a side, samples of every kind. *)
Kinds == {Float(<<1>>), Hist(<<1>>), Hist(<<3>>)}
Pairs ==
  { [Base EXCEPT !.op = p[1], !.card = p[2], !.bool = p[3], !.lhs = A, !.rhs = B,
                 !.lvals = Kinds, !.rvals = IF p[1] = "gtr" THEN {Float(<<0>>), Float(<<1>>)} ELSE Kinds]
    : p \in {<<"sub", "many_to_one", FALSE>>, <<"mul", "one_to_one", FALSE>>, <<"eql", "one_to_one", TRUE>>,
             <<"eql", "many_to_one", FALSE>>, <<"gtr", "one_to_one", FALSE>>, <<"trim", "one_to_one", FALSE>>} }

Scalars ==
  { [Base EXCEPT !.op = o, !.card = "scalar_left", !.lhs = Number, !.rhs = B, !.rvals = Kinds] : o \in {"mul", "gtr"} }
  \cup { [Base EXCEPT !.op = o, !.card = "scalar_right", !.lhs = A, !.rhs = Number, !.lvals = Kinds] : o \in {"div", "gtr"} }

MCQueries == Shapes \cup Pairs \cup Scalars

(* A subtraction of histograms with group_left and with group_right. *)
SideQueries ==
  { [Base EXCEPT !.card = c, !.lhs = A, !.rhs = B, !.lvals = {Hist(<<1>>)}, !.rvals = {Hist(<<2>>)}]
    : c \in {"many_to_one", "one_to_many"} }

(* A low card series that turns from a histogram to a float. *)
KeptQueries ==
  { [Base EXCEPT !.op = "mul", !.card = "one_to_one", !.lhs = A, !.rhs = B,
                 !.rvals = {Float(<<2>>), Hist(<<1>>)}] }

(* The time of a query that begins before the epoch, and joins on it. *)
BeforeEpoch == -2
EpochQueries == { [Base EXCEPT !.card = c, !.lhs = A, !.rhs = B] : c \in {"one_to_one", "many_to_one"} }

(* The match is on the metric name, which the result drops, so that series *)
(* of different signatures share label sets of the result.                 *)
NameQueries ==
  { [Base EXCEPT !.names = {"name"}, !.include = {"i"}, !.lhs = <<S(1, 1, 0), S(2, 1, 0), S(3, 1, 0)>>,
                 !.rhs = <<S(1, 1, 1), S(2, 1, 2), S(2, 1, 1), S(3, 1, 3)>>] }
=============================================================================
