----------------------- MODULE AggregatePipelineLemmas -----------------------
(* What the loops, the shards, the sums and the windows of the pipeline        *)
(* compute, its inductive invariant, and the steps of loading, which preserve  *)
(* it.                                                                         *)
EXTENDS AggregatePipeline, FiniteSetTheorems, WellFoundedInduction, TLAPS

(* A set of natural numbers has a least one. *)
LEMMA LeastNumber ==
  ASSUME NEW T, T \subseteq Nat, T # {}
  PROVE  \E x \in T : \A y \in T : x <= y
  <1> DEFINE R == OpToRel(<, Nat)
  <1>1. \A x, y \in Nat : <<y, x>> \in R <=> y < x
    BY Zenon DEF OpToRel
  <1>2. IsWellFoundedOn(R, Nat)
    BY NatLessThanWellFounded, Zenon
  <1> HIDE DEF R
  <1>3. \E x \in T : \A y \in T : ~ (<<y, x>> \in R)
    BY <1>2, WFMin, Zenon
  <1>4. PICK x \in T : \A y \in T : ~ (<<y, x>> \in R)
    BY <1>3
  <1>5. \A y \in T : ~ (y < x)
    BY <1>1, <1>4, Zenon
  <1> QED
    BY <1>5

(* What holds before a loop and is kept by each of its turns holds after it. *)
LEMMA LoopInvariant ==
  ASSUME NEW m \in Nat, NEW T, 0 \in T, \A k \in 0..(m - 1) : k \in T => k + 1 \in T
  PROVE  \A k \in 0..m : k \in T
  <1> SUFFICES ASSUME \E k \in 0..m : k \notin T
               PROVE  FALSE
    OBVIOUS
  <1> DEFINE U == {k \in 0..m : k \notin T}
  <1>1. U \subseteq Nat /\ U # {}
    OBVIOUS
  <1>2. PICK x \in U : \A y \in U : x <= y
    <2> HIDE DEF U
    <2> QED
      BY <1>1, LeastNumber, Zenon
  <1>3. x \in 0..m /\ x # 0 /\ x \notin T
    BY <1>2
  <1>4. x - 1 \in 0..(m - 1) /\ x - 1 \in 0..m
    BY <1>3
  <1>5. x - 1 \in T
    BY <1>2, <1>3, <1>4
  <1>6. (x - 1) + 1 \in T
    BY <1>4, <1>5
  <1> QED
    BY <1>3, <1>6

(* The values f of a loop of m turns that starts with a and applies F[k] in   *)
(* turn k.                                                                    *)
LoopOf(f, m, S, a, F) == f \in [0..m -> S] /\ f[0] = a /\ \A k \in 1..m : f[k] = F[k][f[k - 1]]

(* A loop of m turns that starts with a and applies F[k] in turn k has a value *)
(* after every turn.                                                           *)
LEMMA LoopExists ==
  ASSUME NEW m \in Nat, NEW S, NEW a \in S, NEW F \in [1..m -> [S -> S]]
  PROVE  \E f : LoopOf(f, m, S, a, F)
  <1> DEFINE Good(f, k) == f \in [0..k -> S] /\ f[0] = a /\ \A j \in 1..k : f[j] = F[j][f[j - 1]]
             T == {k \in 0..m : \E f : Good(f, k)}
  <1>1. 0 \in T
    <2> DEFINE g == [j \in 0..0 |-> a]
    <2>1. Good(g, 0)
      OBVIOUS
    <2> HIDE DEF g, Good
    <2> QED
      BY <2>1
  <1>2. ASSUME NEW k \in 0..(m - 1), k \in T
        PROVE  k + 1 \in T
    <2>1. PICK f : Good(f, k)
      BY <1>2
    <2> DEFINE g == [j \in 0..(k + 1) |-> IF j <= k THEN f[j] ELSE F[k + 1][f[k]]]
    <2>2. F[k + 1] \in [S -> S] /\ f[k] \in S
      BY <2>1
    <2>3. g \in [0..(k + 1) -> S]
      BY <2>1, <2>2
    <2>4. g[0] = a
      BY <2>1
    <2>5. ASSUME NEW j \in 1..(k + 1)
          PROVE  g[j] = F[j][g[j - 1]]
      <3>1. CASE j <= k
        <4>1. j \in 1..k /\ j \in 0..(k + 1) /\ j - 1 \in 0..(k + 1) /\ j - 1 <= k
          BY <3>1
        <4>2. g[j] = f[j] /\ g[j - 1] = f[j - 1]
          BY <3>1, <4>1
        <4> QED
          BY <2>1, <4>1, <4>2
      <3>2. CASE j = k + 1
        <4>1. g[j] = F[k + 1][f[k]] /\ j - 1 = k /\ g[k] = f[k]
          BY <3>2
        <4> QED
          BY <3>2, <4>1
      <3> QED
        BY <3>1, <3>2
    <2>6. Good(g, k + 1)
      BY <2>3, <2>4, <2>5, Zenon
    <2> HIDE DEF g, Good
    <2> QED
      BY <2>6
  <1>3. \A k \in 0..m : k \in T
    <2> HIDE DEF T
    <2> QED
      BY <1>1, <1>2, LoopInvariant, Zenon
  <1>4. m \in T
    BY <1>3
  <1> QED
    BY <1>4 DEF LoopOf

(* The smaller of two numbers. *)
LEMMA MinOfTwo ==
  ASSUME NEW a \in Int, NEW b \in Int
  PROVE  Min({a, b}) = IF a <= b THEN a ELSE b
  BY DEF Min

(* A set of numbers with an upper bound has a greatest one. *)
LEMMA MaxOfBounded ==
  ASSUME NEW m \in Int, NEW U, U \subseteq Int, U # {}, \A u \in U : u <= m
  PROVE  Max(U) \in U /\ \A u \in U : u <= Max(U)
  <1> DEFINE T == {k \in Nat : m - k \in U}
  <1>1. PICK j \in U : TRUE
    BY Zenon
  <1>2. T \subseteq Nat /\ m - j \in T
    OBVIOUS
  <1>3. PICK x \in T : \A y \in T : x <= y
    <2> HIDE DEF T
    <2> QED
      BY <1>2, LeastNumber, Zenon
  <1>4. \A y \in U : m - y \in T /\ y \in Int
    OBVIOUS
  <1>5. m - x \in U /\ \A y \in U : m - x >= y
    BY <1>3, <1>4
  <1> QED
    BY <1>5, Zenon DEF Max

(* The least of a set of shards. *)
LEMMA MinOfNumbers ==
  ASSUME NEW U, U \subseteq Nat, U # {}
  PROVE  Min(U) \in U /\ \A u \in U : Min(U) <= u
  <1>1. \E x \in U : \A y \in U : x <= y
    BY LeastNumber, Zenon
  <1> QED
    BY <1>1, Zenon DEF Min

-----------------------------------------------------------------------------
(* The series of the filtered selector and of its shards. *)

(* x lists the matching series up to series k, each once. *)
Lists(x, k) ==
  /\ x \in Seq(Nat)
  /\ \A j \in 1..Len(x) : x[j] \in in.match /\ x[j] <= k
  /\ \A i, j \in 1..Len(x) : x[i] = x[j] => i = j
  /\ \A s \in in.match : s <= k => \E j \in 1..Len(x) : x[j] = s

(* One turn of the loop of loadSeries of the filtered selector. *)
LEMMA FilterTurn ==
  ASSUME NEW k \in Nat, NEW x, Lists(x, k), in.match \subseteq Nat
  PROVE  Lists(IF k + 1 \in in.match THEN Append(x, k + 1) ELSE x, k + 1)
  <1>1. x \in Seq(Nat) /\ Len(x) \in Nat
    BY DEF Lists
  <1>2. CASE k + 1 \notin in.match
    <2>1. \A s \in in.match : s <= k + 1 => s <= k
      BY <1>2
    <2>2. \A j \in 1..Len(x) : x[j] \in in.match /\ x[j] <= k + 1
      BY DEF Lists
    <2> QED
      BY <1>2, <2>1, <2>2 DEF Lists
  <1>3. CASE k + 1 \in in.match
    <2> DEFINE y == Append(x, k + 1)
    <2>1. /\ y \in Seq(Nat) /\ Len(y) = Len(x) + 1 /\ y[Len(x) + 1] = k + 1
          /\ \A j \in 1..Len(x) : y[j] = x[j]
      BY <1>1
    <2> HIDE DEF y
    <2>2. \A j \in 1..Len(y) : j \in 1..Len(x) \/ j = Len(x) + 1
      BY <1>1, <2>1
    <2>3. \A j \in 1..Len(x) : y[j] \in in.match /\ y[j] <= k
      BY <2>1, Zenon DEF Lists
    <2>4. \A j \in 1..Len(y) : y[j] \in in.match /\ y[j] <= k + 1
      BY <1>3, <2>1, <2>2, <2>3
    <2>5. ASSUME NEW i \in 1..Len(y), NEW j \in 1..Len(y), y[i] = y[j]
          PROVE  i = j
      <3>1. CASE i \in 1..Len(x) /\ j \in 1..Len(x)
        BY <2>1, <2>5, <3>1 DEF Lists
      <3>2. CASE i \in 1..Len(x) /\ j = Len(x) + 1
        BY <2>1, <2>3, <2>5, <3>2
      <3>3. CASE j \in 1..Len(x) /\ i = Len(x) + 1
        BY <2>1, <2>3, <2>5, <3>3
      <3> QED
        BY <2>2, <3>1, <3>2, <3>3
    <2>6. ASSUME NEW s \in in.match, s <= k + 1
          PROVE  \E j \in 1..Len(y) : y[j] = s
      <3>1. CASE s = k + 1
        <4>1. Len(x) + 1 \in 1..Len(y)
          BY <1>1, <2>1
        <4> QED
          BY <2>1, <3>1, <4>1
      <3>2. CASE s <= k
        <4>1. PICK j \in 1..Len(x) : x[j] = s
          BY <3>2 DEF Lists
        <4>2. j \in 1..Len(y) /\ y[j] = s
          BY <1>1, <2>1, <4>1
        <4> QED
          BY <4>2
      <3>3. s \in Nat
        OBVIOUS
      <3> QED
        BY <2>6, <3>1, <3>2, <3>3
    <2>7. Lists(y, k + 1)
      BY <2>1, <2>4, <2>5, <2>6 DEF Lists
    <2> QED
      BY <1>3, <2>7 DEF y
  <1> QED
    BY <1>2, <1>3

(* The filtered selector has every series that matches exactly once. *)
LEMMA FilteredSeries ==
  ASSUME in \in Inputs
  PROVE  /\ Filtered \in Seq(Nat)
         /\ \A j \in 1..Len(Filtered) : Filtered[j] \in in.match
         /\ \A i, j \in 1..Len(Filtered) : Filtered[i] = Filtered[j] => i = j
         /\ \A s \in in.match : \E j \in 1..Len(Filtered) : Filtered[j] = s
  <1>1. PICK m \in Nat : m = Len(in.group)
    BY InputsAssumption
  <1>2. in.match \subseteq 1..m
    BY <1>1, InputsAssumption
  <1>3. in.match \subseteq Nat
    BY <1>2
  <1> DEFINE turn(s, x) == IF s \in in.match THEN Append(x, s) ELSE x
             F == [s \in 1..m |-> [x \in Seq(Nat) |-> turn(s, x)]]
  <1>4. F \in [1..m -> [Seq(Nat) -> Seq(Nat)]]
    <2>1. \A s \in 1..m : \A x \in Seq(Nat) : turn(s, x) \in Seq(Nat)
      OBVIOUS
    <2> HIDE DEF turn
    <2> QED
      BY <2>1
  <1>5. PICK f \in [0..m -> Seq(Nat)] : f[0] = <<>> /\ \A s \in 1..m : f[s] = F[s][f[s - 1]]
    <2>1. PICK S, a, G : S = Seq(Nat) /\ a = <<>> /\ G = F
      BY Zenon
    <2> HIDE DEF F
    <2>2. a \in S /\ G \in [1..m -> [S -> S]]
      BY <1>4, <2>1
    <2>3. \E f : LoopOf(f, m, S, a, G)
      BY <2>2, LoopExists
    <2> QED
      BY <2>1, <2>3, Zenon DEF LoopOf
  <1>6. \A s \in 1..m : f[s] = turn(s, f[s - 1])
    <2> SUFFICES ASSUME NEW s \in 1..m
                 PROVE  f[s] = turn(s, f[s - 1])
      OBVIOUS
    <2>1. f[s - 1] \in Seq(Nat)
      BY <1>5
    <2>2. F[s][f[s - 1]] = turn(s, f[s - 1])
      <3> HIDE DEF turn
      <3> QED
        BY <2>1
    <2> QED
      BY <1>5, <2>2
  <1>7. f = [s \in 0..Len(in.group) |->
               IF s = 0 THEN <<>> ELSE IF s \in in.match THEN Append(f[s - 1], s) ELSE f[s - 1]]
    <2> HIDE DEF turn
    <2>1. \A s \in 0..m : s = 0 \/ s \in 1..m
      OBVIOUS
    <2>2. \A s \in 0..m : f[s] = IF s = 0 THEN <<>> ELSE turn(s, f[s - 1])
      BY <1>5, <1>6, <2>1
    <2>3. f = [s \in 0..m |-> IF s = 0 THEN <<>> ELSE turn(s, f[s - 1])]
      BY <1>5, <2>2
    <2> QED
      BY <1>1, <2>3, Zenon DEF turn
  <1>8. filtered = [s \in 0..Len(in.group) |->
                      IF s = 0 THEN <<>> ELSE IF s \in in.match THEN Append(filtered[s - 1], s) ELSE filtered[s - 1]]
    BY <1>7, Zenon DEF filtered
  <1>9. filtered[0] = <<>> /\ \A s \in 1..m : filtered[s] = turn(s, filtered[s - 1])
    <2>1. filtered = [s \in 0..m |-> IF s = 0 THEN <<>> ELSE turn(s, filtered[s - 1])]
      BY <1>1, <1>8, Zenon
    <2> HIDE DEF turn
    <2>2. \A s \in 0..m : filtered[s] = IF s = 0 THEN <<>> ELSE turn(s, filtered[s - 1])
      BY <2>1
    <2>3. 0 \in 0..m /\ \A s \in 1..m : s \in 0..m /\ s # 0
      OBVIOUS
    <2> QED
      BY <2>2, <2>3
  <1> DEFINE T == {k \in 0..m : Lists(filtered[k], k)}
  <1>10. 0 \in T
    <2>1. Lists(<<>>, 0)
      BY <1>2 DEF Lists
    <2> QED
      BY <1>9, <2>1
  <1>11. ASSUME NEW k \in 0..(m - 1), k \in T
         PROVE  k + 1 \in T
    <2>1. Lists(turn(k + 1, filtered[k]), k + 1)
      BY <1>3, <1>11, FilterTurn
    <2>2. filtered[k + 1] = turn(k + 1, filtered[k])
      <3>1. k + 1 \in 1..m /\ (k + 1) - 1 = k
        OBVIOUS
      <3> HIDE DEF turn
      <3> QED
        BY <1>9, <3>1
    <2> QED
      BY <2>1, <2>2
  <1>12. m \in T
    <2> HIDE DEF T
    <2>1. \A k \in 0..m : k \in T
      BY <1>10, <1>11, LoopInvariant, Zenon
    <2> QED
      BY <2>1
  <1>13. Lists(Filtered, m)
    BY <1>1, <1>12 DEF Filtered
  <1>14. \A s \in in.match : s <= m
    BY <1>2
  <1> QED
    BY <1>13, <1>14 DEF Lists

(* The number of series of the shards before shard i. *)
Before(i) == ((i - 1) * Len(Filtered)) \div NumShards

(* Division with remainder. *)
LEMMA Division ==
  ASSUME NEW a \in Nat, NEW b \in Nat \ {0}
  PROVE  a \div b \in Nat /\ a % b \in 0..(b - 1) /\ a = b * (a \div b) + (a % b)
  OBVIOUS

(* Products grow with their factors. *)
LEMMA Products ==
  ASSUME NEW b \in Nat \ {0}, NEW p \in Nat, NEW q \in Nat, p > q
  PROVE  b * p >= b * q + b
  OBVIOUS

(* Division keeps the order. *)
LEMMA DivisionOrder ==
  ASSUME NEW a \in Nat, NEW c \in Nat, NEW b \in Nat \ {0}, a <= c
  PROVE  a \div b <= c \div b
  <1> DEFINE p == a \div b
             q == c \div b
             r == a % b
             s == c % b
  <1>1. p \in Nat /\ r \in 0..(b - 1) /\ a = b * p + r
    BY Division, Zenon
  <1>2. q \in Nat /\ s \in 0..(b - 1) /\ c = b * q + s
    BY Division, Zenon
  <1> HIDE DEF p, q, r, s
  <1>3. SUFFICES ASSUME p > q
                 PROVE  FALSE
    BY <1>1, <1>2 DEF p, q
  <1>4. b * p >= b * q + b
    BY <1>1, <1>2, <1>3, Products
  <1>5. b * p \in Nat /\ b * q \in Nat
    BY <1>1, <1>2
  <1> QED
    BY <1>1, <1>2, <1>4, <1>5

(* Division undoes multiplication. *)
LEMMA DivisionExact ==
  ASSUME NEW a \in Nat, NEW b \in Nat \ {0}
  PROVE  (b * a) \div b = a
  OBVIOUS

(* The shards start at increasing places and the last one ends at the last *)
(* series (the bounds seriesShard computes).                               *)
LEMMA ShardBounds ==
  ASSUME in \in Inputs
  PROVE  /\ Len(Filtered) \in Nat /\ Before(1) = 0 /\ Before(NumShards + 1) = Len(Filtered)
         /\ \A i \in 1..(NumShards + 1) : Before(i) \in 0..Len(Filtered)
         /\ \A i, j \in 1..(NumShards + 1) : i <= j => Before(i) <= Before(j)
  <1>1. PICK m \in Nat : m = Len(Filtered)
    BY FilteredSeries
  <1>2. NumShards \in Nat \ {0}
    BY ShardsAssumption
  <1>3. Before(1) = 0 /\ Before(NumShards + 1) = m
    <2>1. (1 - 1) * m = NumShards * 0 /\ ((NumShards + 1) - 1) * m = NumShards * m
      BY <1>2
    <2> QED
      BY <1>1, <1>2, <2>1, DivisionExact DEF Before
  <1>4. \A i \in 1..(NumShards + 1) : (i - 1) * m \in Nat
    BY <1>2
  <1>5. \A i, j \in 1..(NumShards + 1) : i <= j => (i - 1) * m <= (j - 1) * m
    BY <1>2
  <1>6. \A i \in 1..(NumShards + 1) : Before(i) \in Nat
    BY <1>1, <1>2, <1>4, Division, Zenon DEF Before
  <1>7. \A i, j \in 1..(NumShards + 1) : i <= j => Before(i) <= Before(j)
    BY <1>1, <1>2, <1>4, <1>5, DivisionOrder, Zenon DEF Before
  <1>8. \A i \in 1..(NumShards + 1) : Before(i) <= m
    BY <1>2, <1>3, <1>7
  <1> QED
    BY <1>1, <1>3, <1>6, <1>7, <1>8

(* What SubSeq returns. *)
LEMMA SubSequence ==
  ASSUME NEW S, NEW F \in Seq(S), NEW a \in Nat, NEW b \in Nat, a <= b, b <= Len(F)
  PROVE  /\ SubSeq(F, a + 1, b) \in Seq(S) /\ Len(SubSeq(F, a + 1, b)) = b - a
         /\ \A k \in 1..(b - a) : SubSeq(F, a + 1, b)[k] = F[a + k]
  <1>1. SubSeq(F, a + 1, b) \in Seq(S)
    <2>1. \A k \in (a + 1)..b : k \in 1..Len(F)
      OBVIOUS
    <2> QED
      BY <2>1
  <1>2. Len(SubSeq(F, a + 1, b)) = b - a
    OBVIOUS
  <1>3. ASSUME NEW k \in 1..(b - a)
        PROVE  SubSeq(F, a + 1, b)[k] = F[a + k]
    <2>1. SubSeq(F, a + 1, b)[k] = F[(a + 1) + k - 1]
      OBVIOUS
    <2>2. (a + 1) + k - 1 = a + k
      OBVIOUS
    <2> QED
      BY <2>1, <2>2
  <1> QED
    BY <1>1, <1>2, <1>3

(* The series of shard i are those after the series of the shards before it. *)
LEMMA ShardSeries ==
  ASSUME in \in Inputs, NEW i \in Shards
  PROVE  /\ seriesShard(Filtered, i) \in Seq(Nat)
         /\ Len(seriesShard(Filtered, i)) = Before(i + 1) - Before(i)
         /\ \A k \in 1..(Before(i + 1) - Before(i)) : seriesShard(Filtered, i)[k] = Filtered[Before(i) + k]
  <1>1. i \in 1..(NumShards + 1) /\ i + 1 \in 1..(NumShards + 1) /\ i <= i + 1 /\ (i + 1) - 1 = i
    BY ShardsAssumption DEF Shards
  <1>2. Before(i) \in Nat /\ Before(i + 1) \in Nat /\ Before(i) <= Before(i + 1) /\ Before(i + 1) <= Len(Filtered)
    BY <1>1, ShardBounds
  <1>3. Filtered \in Seq(Nat)
    BY FilteredSeries
  <1>4. seriesShard(Filtered, i) = SubSeq(Filtered, Before(i) + 1, Before(i + 1))
    BY <1>1, Zenon DEF seriesShard, Before
  <1>5. PICK F : F = Filtered
    OBVIOUS
  <1>6. PICK a \in Nat : a = Before(i)
    BY <1>2
  <1>7. PICK b \in Nat : b = Before(i + 1)
    BY <1>2
  <1>8. F \in Seq(Nat) /\ a <= b /\ b <= Len(F)
    BY <1>2, <1>3, <1>5, <1>6, <1>7
  <1>9. /\ SubSeq(F, a + 1, b) \in Seq(Nat) /\ Len(SubSeq(F, a + 1, b)) = b - a
        /\ \A k \in 1..(b - a) : SubSeq(F, a + 1, b)[k] = F[a + k]
    BY <1>8, SubSequence
  <1>10. seriesShard(Filtered, i) = SubSeq(F, a + 1, b)
    BY <1>4, <1>5, <1>6, <1>7
  <1>11. Before(i + 1) - Before(i) = b - a /\ \A k \in 1..(b - a) : Filtered[Before(i) + k] = F[a + k]
    BY <1>5, <1>6, <1>7
  <1> QED
    BY <1>9, <1>10, <1>11

(* What concatenation returns. *)
LEMMA Concatenation ==
  ASSUME NEW S, NEW x \in Seq(S), NEW y \in Seq(S)
  PROVE  /\ x \o y \in Seq(S) /\ Len(x \o y) = Len(x) + Len(y)
         /\ \A k \in 1..Len(x) : (x \o y)[k] = x[k]
         /\ \A k \in 1..Len(y) : (x \o y)[Len(x) + k] = y[k]
  <1>1. x \o y \in Seq(S)
    OBVIOUS
  <1>2. Len(x \o y) = Len(x) + Len(y)
    OBVIOUS
  <1>3. ASSUME NEW k \in 1..Len(x)
        PROVE  (x \o y)[k] = x[k]
    OBVIOUS
  <1>4. ASSUME NEW k \in 1..Len(y)
        PROVE  (x \o y)[Len(x) + k] = y[k]
    OBVIOUS
  <1> QED
    BY <1>1, <1>2, <1>3, <1>4

(* Adjacent parts of a sequence make up the part they cover. *)
LEMMA AdjacentParts ==
  ASSUME NEW S, NEW F \in Seq(S), NEW a \in Nat, NEW b \in Nat, a <= b, b <= Len(F)
  PROVE  SubSeq(F, 1, a) \o SubSeq(F, a + 1, b) = SubSeq(F, 1, b)
  <1> DEFINE x == SubSeq(F, 1, a)
             y == SubSeq(F, a + 1, b)
             z == SubSeq(F, 1, b)
  <1>1. x \in Seq(S) /\ Len(x) = a /\ \A k \in 1..a : x[k] = F[k]
    OBVIOUS
  <1>2. y \in Seq(S) /\ Len(y) = b - a /\ \A k \in 1..(b - a) : y[k] = F[a + k]
    BY SubSequence
  <1>3. z \in Seq(S) /\ Len(z) = b /\ \A k \in 1..b : z[k] = F[k]
    OBVIOUS
  <1> HIDE DEF x, y, z
  <1>4. PICK w : w = x \o y
    BY Zenon
  <1>5. /\ w \in Seq(S) /\ Len(w) = a + (b - a) /\ \A k \in 1..a : w[k] = x[k]
        /\ \A k \in 1..(b - a) : w[a + k] = y[k]
    BY <1>1, <1>2, <1>4, Concatenation
  <1>6. ASSUME NEW k \in 1..b
        PROVE  w[k] = z[k]
    <2>1. CASE k <= a
      <3>1. k \in 1..a
        BY <2>1
      <3>2. w[k] = x[k]
        BY <1>5, <3>1
      <3>3. x[k] = F[k]
        BY <1>1, <3>1
      <3>4. z[k] = F[k]
        BY <1>3
      <3> QED
        BY <3>2, <3>3, <3>4
    <2>2. CASE k > a
      <3>1. PICK j \in 1..(b - a) : a + j = k
        BY <2>2
      <3>2. w[a + j] = y[j]
        BY <1>5
      <3>3. y[j] = F[a + j]
        BY <1>2
      <3>4. z[k] = F[k]
        BY <1>3
      <3> QED
        BY <3>1, <3>2, <3>3, <3>4
    <2> QED
      BY <2>1, <2>2
  <1>7. w = z
    <2>1. Len(w) = Len(z)
      BY <1>3, <1>5
    <2> QED
      BY <1>3, <1>5, <1>6, <2>1
  <1> QED
    BY <1>4, <1>7, Zenon DEF x, y, z

(* Every shard has its part of the series. *)
Sharded == shard = [i \in Shards |-> seriesShard(Filtered, i)]

(* The series coalesce has after its first shards are the first ones of the *)
(* selector: sampleOffsets places the IDs of each shard after those of the  *)
(* shards before it, and together they are all series (coalesce.go).        *)
LEMMA AppendedSeries ==
  ASSUME in \in Inputs, Sharded
  PROVE  /\ AllSeries = Filtered
         /\ \A i \in Shards : Len(appended[i - 1]) = Before(i)
  <1>1. PICK N \in Nat : N = NumShards
    BY ShardsAssumption
  <1>2. \A i \in 1..N : i \in Shards /\ shard[i] \in Seq(Nat)
    BY <1>1, ShardSeries DEF Sharded, Shards
  <1> DEFINE F == [i \in 1..N |-> [x \in Seq(Nat) |-> x \o shard[i]]]
  <1>3. PICK f \in [0..N -> Seq(Nat)] : f[0] = <<>> /\ \A i \in 1..N : f[i] = F[i][f[i - 1]]
    <2>1. PICK S, a, G : S = Seq(Nat) /\ a = <<>> /\ G = F
      BY Zenon
    <2>2. F \in [1..N -> [Seq(Nat) -> Seq(Nat)]]
      BY <1>2
    <2> HIDE DEF F
    <2>3. a \in S /\ G \in [1..N -> [S -> S]]
      BY <2>1, <2>2
    <2>4. \E f : LoopOf(f, N, S, a, G)
      BY <2>3, LoopExists
    <2> QED
      BY <2>1, <2>4, Zenon DEF LoopOf
  <1>4. \A i \in 1..N : f[i] = f[i - 1] \o shard[i]
    <2> SUFFICES ASSUME NEW i \in 1..N
                 PROVE  f[i] = f[i - 1] \o shard[i]
      BY Zenon
    <2>1. f[i - 1] \in Seq(Nat)
      BY <1>3
    <2> QED
      BY <1>3, <2>1, Zenon
  <1>5. f = [i \in 0..NumShards |-> IF i = 0 THEN <<>> ELSE f[i - 1] \o shard[i]]
    <2>1. \A i \in 0..N : i = 0 \/ i \in 1..N
      OBVIOUS
    <2>2. \A i \in 0..N : f[i] = IF i = 0 THEN <<>> ELSE f[i - 1] \o shard[i]
      BY <1>3, <1>4, <2>1, Zenon
    <2> QED
      BY <1>1, <1>3, <2>2, Zenon
  <1>6. appended = [i \in 0..NumShards |-> IF i = 0 THEN <<>> ELSE appended[i - 1] \o shard[i]]
    BY <1>5, Zenon DEF appended
  <1>7. appended[0] = <<>> /\ \A i \in 1..N : appended[i] = appended[i - 1] \o shard[i]
    <2>1. \A i \in 0..N : appended[i] = IF i = 0 THEN <<>> ELSE appended[i - 1] \o shard[i]
      BY <1>1, <1>6, Zenon
    <2>2. 0 \in 0..N /\ \A i \in 1..N : i \in 0..N /\ i # 0
      OBVIOUS
    <2> QED
      BY <2>1, <2>2, Zenon
  <1>8. PICK Q : Q = Filtered
    OBVIOUS
  <1>9. Q \in Seq(Nat)
    BY <1>8, FilteredSeries
  <1>10. \A k \in 1..(N + 1) : Before(k) \in Nat /\ Before(k) <= Len(Q)
    BY <1>1, <1>8, ShardBounds
  <1>11. \A k \in 1..N : Before(k) <= Before(k + 1)
    BY <1>1, ShardBounds
  <1> DEFINE firstOf(k) == SubSeq(Q, 1, Before(k + 1))
             T == {k \in 0..N : appended[k] = firstOf(k)}
  <1>12. 0 \in T
    <2>1. Before(0 + 1) = 0
      BY ShardBounds
    <2>2. SubSeq(Q, 1, 0) = <<>>
      BY <1>9
    <2>3. firstOf(0) = <<>>
      BY <2>1, <2>2
    <2> HIDE DEF firstOf
    <2> QED
      BY <1>7, <2>3
  <1>13. ASSUME NEW k \in 0..(N - 1), k \in T
         PROVE  k + 1 \in T
    <2>1. k + 1 \in 1..N /\ (k + 1) - 1 = k /\ k + 1 \in 1..(N + 1) /\ (k + 1) + 1 \in 1..(N + 1)
      OBVIOUS
    <2>2. appended[k + 1] = appended[k] \o shard[k + 1]
      BY <1>7, <2>1, Zenon
    <2>3. appended[k] = SubSeq(Q, 1, Before(k + 1))
      BY <1>13
    <2>4. shard[k + 1] = SubSeq(Q, Before(k + 1) + 1, Before((k + 1) + 1))
      <3>1. shard[k + 1] = seriesShard(Filtered, k + 1)
        BY <1>2, <2>1 DEF Sharded
      <3>2. seriesShard(Filtered, k + 1) = SubSeq(Filtered, Before(k + 1) + 1, Before((k + 1) + 1))
        <4>1. ((k + 1) + 1) - 1 = k + 1
          OBVIOUS
        <4> QED
          BY <4>1, Zenon DEF seriesShard, Before
      <3> QED
        BY <1>8, <3>1, <3>2
    <2>5. PICK a \in Nat : a = Before(k + 1)
      BY <1>10, <2>1
    <2>6. PICK b \in Nat : b = Before((k + 1) + 1)
      BY <1>10, <2>1
    <2>7. a <= b /\ b <= Len(Q)
      BY <1>10, <1>11, <2>1, <2>5, <2>6
    <2>8. SubSeq(Q, 1, a) \o SubSeq(Q, a + 1, b) = SubSeq(Q, 1, b)
      BY <1>9, <2>7, AdjacentParts, Zenon
    <2>9. appended[k + 1] = firstOf(k + 1)
      BY <2>2, <2>3, <2>4, <2>5, <2>6, <2>8, Zenon
    <2>10. k + 1 \in 0..N
      OBVIOUS
    <2> HIDE DEF firstOf
    <2> QED
      BY <2>9, <2>10
  <1>14. \A k \in 0..N : k \in T
    <2> HIDE DEF T
    <2> QED
      BY <1>12, <1>13, LoopInvariant, Zenon
  <1>15. AllSeries = Filtered
    <2>1. appended[N] = SubSeq(Q, 1, Before(N + 1))
      BY <1>14
    <2>2. Before(N + 1) = Len(Q)
      BY <1>1, <1>8, ShardBounds
    <2>3. SubSeq(Q, 1, Len(Q)) = Q
      BY <1>9
    <2> QED
      BY <1>1, <1>8, <2>1, <2>2, <2>3 DEF AllSeries
  <1>16. ASSUME NEW i \in Shards
         PROVE  Len(appended[i - 1]) = Before(i)
    <2>1. i - 1 \in 0..N /\ (i - 1) + 1 = i /\ i \in 1..(N + 1)
      BY <1>1 DEF Shards
    <2>2. appended[i - 1] = SubSeq(Q, 1, Before(i))
      BY <1>14, <2>1
    <2>3. PICK a \in Nat : a = Before(i)
      BY <1>10, <2>1
    <2>4. a <= Len(Q)
      BY <1>10, <2>1, <2>3
    <2>5. Len(SubSeq(Q, 1, a)) = a
      BY <1>9, <2>4
    <2> QED
      BY <2>2, <2>3, <2>5
  <1> QED
    BY <1>15, <1>16

-----------------------------------------------------------------------------
(* What the shards and the samples of a query are, as values. *)

(* The samples of the series of the filtered selector at each step. *)
SamplesOf == [x \in 1..Len(Filtered) |-> [ts \in Int |-> LastSample(Filtered[x], ts)]]

(* The query: its series with their groups and samples, and for each shard *)
(* how many series are before it and in it.                                *)
Query ==
  [series |-> Filtered, count |-> Len(Filtered), group |-> in.group, pts |-> SamplesOf,
   start |-> [i \in Shards |-> Before(i)], size |-> [i \in Shards |-> Before(i + 1) - Before(i)]]

(* What the proofs use of a query. *)
World(q) ==
  /\ q.count \in Nat /\ q.start \in [Shards -> Nat] /\ q.size \in [Shards -> Nat]
  /\ \A i \in Shards : q.start[i] + q.size[i] <= q.count
  /\ \A i, j \in Shards : i < j => q.start[i] + q.size[i] <= q.start[j]
  /\ \A x \in 1..q.count : \E i \in Shards : x \in (q.start[i] + 1)..(q.start[i] + q.size[i])
  /\ \A x \in 1..q.count : \A ts \in Int : \A u, v \in q.pts[x][ts] : u = v

(* The input of a query does not change, so neither does what it says. *)
LEMMA SameQuery ==
  ASSUME in' = in
  PROVE  Filtered' = Filtered /\ Query' = Query
  <1>1. filtered' = filtered
    BY DEF filtered
  <1>2. Filtered' = Filtered
    BY <1>1 DEF Filtered
  <1>3. SamplesOf' = SamplesOf
    BY <1>2 DEF SamplesOf, LastSample
  <1>4. \A i : Before(i)' = Before(i)
    BY <1>2 DEF Before
  <1> QED
    BY <1>2, <1>3, <1>4 DEF Query

(* Every series is in the part of some shard. *)
LEMMA ShardsCover ==
  ASSUME in \in Inputs, NEW x \in 1..Len(Filtered)
  PROVE  \E i \in Shards : x \in (Before(i) + 1)..Before(i + 1)
  <1>1. PICK N \in Nat : N = NumShards
    BY ShardsAssumption
  <1>2. x \in Nat /\ x >= 1 /\ x <= Before(N + 1) /\ Before(1) = 0
    BY <1>1, ShardBounds
  <1>3. \A k \in 1..(N + 1) : Before(k) \in Nat
    BY <1>1, ShardBounds
  <1> DEFINE T == {k \in 0..N : x <= Before(k + 1) => \E i \in 1..N : x \in (Before(i) + 1)..Before(i + 1)}
  <1>4. 0 \in T
    <2>1. ~(x <= Before(0 + 1))
      BY <1>2
    <2> QED
      BY <2>1
  <1>5. ASSUME NEW k \in 0..(N - 1), k \in T
        PROVE  k + 1 \in T
    <2>1. k + 1 \in 1..N /\ k + 1 \in 0..N /\ k + 1 \in 1..(N + 1) /\ (k + 1) + 1 \in 1..(N + 1)
      OBVIOUS
    <2>2. ASSUME x <= Before((k + 1) + 1)
          PROVE  \E i \in 1..N : x \in (Before(i) + 1)..Before(i + 1)
      <3>1. CASE x <= Before(k + 1)
        BY <1>5, <3>1
      <3>2. CASE x > Before(k + 1)
        <4>1. x \in (Before(k + 1) + 1)..Before((k + 1) + 1)
          BY <1>2, <1>3, <2>1, <2>2, <3>2
        <4> QED
          BY <2>1, <4>1
      <3>3. Before(k + 1) \in Nat
        BY <1>3, <2>1
      <3> QED
        BY <1>2, <3>1, <3>2, <3>3
    <2> QED
      BY <2>1, <2>2
  <1>6. \A k \in 0..N : k \in T
    <2> HIDE DEF T
    <2> QED
      BY <1>4, <1>5, LoopInvariant
  <1>7. N \in T
    BY <1>6
  <1> QED
    BY <1>1, <1>2, <1>7 DEF Shards

(* A series has at most one sample at a step. *)
LEMMA OneLastSample ==
  ASSUME NEW s, NEW t, NEW u \in LastSample(s, t), NEW v \in LastSample(s, t)
  PROVE  u = v
  BY DEF LastSample

(* The query is as the proofs use it. *)
LEMMA QueryWorld ==
  ASSUME in \in Inputs
  PROVE  World(Query)
  <1>1. PICK q : q = Query
    OBVIOUS
  <1>2. /\ q.count = Len(Filtered) /\ q.pts = SamplesOf /\ q.start = [i \in Shards |-> Before(i)]
        /\ q.size = [i \in Shards |-> Before(i + 1) - Before(i)]
    BY <1>1 DEF Query
  <1>3. \A i \in Shards : i \in 1..(NumShards + 1) /\ i + 1 \in 1..(NumShards + 1)
    BY ShardsAssumption DEF Shards
  <1>4. \A i \in 1..(NumShards + 1) : Before(i) \in Nat /\ Before(i) <= Len(Filtered)
    BY ShardBounds
  <1>5. \A i \in Shards : Before(i) <= Before(i + 1)
    BY <1>3, ShardBounds, ShardsAssumption DEF Shards
  <1>6. \A i \in Shards : Before(i + 1) - Before(i) \in Nat /\ Before(i) + (Before(i + 1) - Before(i)) = Before(i + 1)
    BY <1>3, <1>4, <1>5
  <1>7. q.count \in Nat /\ q.start \in [Shards -> Nat] /\ q.size \in [Shards -> Nat]
    BY <1>2, <1>3, <1>4, <1>6, ShardBounds
  <1>8. \A i \in Shards : q.start[i] = Before(i) /\ q.start[i] + q.size[i] = Before(i + 1)
    BY <1>2, <1>6
  <1>9. \A i \in Shards : q.start[i] + q.size[i] <= q.count
    BY <1>2, <1>3, <1>4, <1>8
  <1>10. \A i, j \in Shards : i < j => q.start[i] + q.size[i] <= q.start[j]
    <2> SUFFICES ASSUME NEW i \in Shards, NEW j \in Shards, i < j
                 PROVE  Before(i + 1) <= Before(j)
      BY <1>8
    <2>1. i + 1 \in 1..(NumShards + 1) /\ j \in 1..(NumShards + 1) /\ i + 1 <= j
      BY <1>3 DEF Shards
    <2> QED
      BY <2>1, ShardBounds
  <1>11. \A x \in 1..q.count : \E i \in Shards : x \in (q.start[i] + 1)..(q.start[i] + q.size[i])
    BY <1>2, <1>8, ShardsCover
  <1>12. \A x \in 1..q.count : \A ts \in Int : q.pts[x][ts] = LastSample(Filtered[x], ts)
    BY <1>2 DEF SamplesOf
  <1>13. \A x \in 1..q.count : \A ts \in Int : \A u, v \in q.pts[x][ts] : u = v
    BY <1>12, OneLastSample
  <1> QED
    BY <1>1, <1>7, <1>9, <1>10, <1>11, <1>13 DEF World

(* The IDs of the series a + 1 to e of shard i. *)
IdsOf(q, i, a, e) == (q.start[i] + a + 1)..(q.start[i] + e)

(* The IDs between the counts f and g of the series of the shards. *)
Between(q, f, g) == UNION {IdsOf(q, i, f[i], g[i]) : i \in Shards}
None == [i \in Shards |-> 0]
Upto(q, g) == Between(q, None, g)

(* How many series of each shard have been read. *)
Counts(q) == {g \in [Shards -> 0..q.count] : \A i \in Shards : g[i] <= q.size[i]}

(* The counts of a shard are within its size. *)
LEMMA CountBounds ==
  ASSUME NEW q, World(q), NEW d \in Counts(q), NEW i \in Shards
  PROVE  /\ q.size[i] \in Nat /\ q.size[i] <= q.count /\ q.count \in Nat
         /\ d[i] \in Nat /\ d[i] \in 0..q.count /\ d[i] <= q.size[i]
  <1>1. /\ q.count \in Nat /\ q.start[i] \in Nat /\ q.size[i] \in Nat
        /\ q.start[i] + q.size[i] <= q.count
    BY DEF World
  <1>2. d[i] \in 0..q.count /\ d[i] <= q.size[i]
    BY DEF Counts
  <1> QED
    BY <1>1, <1>2

(* No series are a number of series of each shard. *)
LEMMA NoneCounts ==
  ASSUME NEW q, World(q)
  PROVE  None \in Counts(q) /\ \A i \in Shards : None[i] = 0
  <1>1. q.count \in Nat /\ \A i \in Shards : q.size[i] \in Nat
    BY DEF World
  <1>2. None \in [Shards -> 0..q.count] /\ \A i \in Shards : None[i] = 0
    BY <1>1 DEF None
  <1> QED
    BY <1>1, <1>2 DEF Counts

(* The IDs of different shards differ. *)
LEMMA ShardIdsDiffer ==
  ASSUME NEW q, World(q), NEW f \in Counts(q), NEW g \in Counts(q),
         NEW i \in Shards, NEW j \in Shards, i # j
  PROVE  IdsOf(q, i, f[i], g[i]) \cap IdsOf(q, j, f[j], g[j]) = {}
  <1>1. \A k \in Shards : q.start[k] \in Nat /\ q.size[k] \in Nat /\ f[k] \in Nat /\ g[k] \in Nat /\ g[k] <= q.size[k]
    BY DEF World, Counts
  <1>2. ASSUME NEW k \in Shards, NEW l \in Shards, k < l, NEW x \in IdsOf(q, k, f[k], g[k])
        PROVE  x \notin IdsOf(q, l, f[l], g[l])
    <2>1. q.start[k] + q.size[k] <= q.start[l]
      BY <1>2 DEF World
    <2>2. x <= q.start[k] + q.size[k]
      BY <1>1, <1>2 DEF IdsOf
    <2> QED
      BY <1>1, <1>2, <2>1, <2>2 DEF IdsOf
  <1>3. i < j \/ j < i
    BY DEF Shards
  <1> QED
    BY <1>2, <1>3

(* Series read after those that were read before are new, and with them   *)
(* make up what has been read.                                            *)
LEMMA BetweenExtends ==
  ASSUME NEW q, World(q), NEW g \in Counts(q), NEW h \in Counts(q), \A i \in Shards : g[i] <= h[i]
  PROVE  Upto(q, g) \cup Between(q, g, h) = Upto(q, h) /\ Upto(q, g) \cap Between(q, g, h) = {}
  <1>1. \A k \in Shards : q.start[k] \in Nat /\ g[k] \in Nat /\ h[k] \in Nat /\ g[k] <= h[k] /\ None[k] = 0
    BY DEF World, Counts, None
  <1>2. None \in Counts(q)
    BY DEF None, Counts, World
  <1>3. \A i \in Shards : IdsOf(q, i, 0, g[i]) \cup IdsOf(q, i, g[i], h[i]) = IdsOf(q, i, 0, h[i])
    BY <1>1 DEF IdsOf
  <1>4. \A i \in Shards : IdsOf(q, i, 0, g[i]) \cap IdsOf(q, i, g[i], h[i]) = {}
    BY <1>1 DEF IdsOf
  <1>5. Upto(q, g) \cup Between(q, g, h) = Upto(q, h)
    BY <1>1, <1>3 DEF Upto, Between
  <1>6. ASSUME NEW x \in Upto(q, g), x \in Between(q, g, h)
        PROVE  FALSE
    <2>1. PICK i \in Shards : x \in IdsOf(q, i, 0, g[i])
      BY <1>1, <1>6 DEF Upto, Between
    <2>2. PICK j \in Shards : x \in IdsOf(q, j, g[j], h[j])
      BY <1>6 DEF Between
    <2>3. i = j
      <3>1. x \in IdsOf(q, i, None[i], h[i])
        BY <1>1, <1>3, <2>1
      <3>2. x \in IdsOf(q, j, None[j], h[j])
        BY <1>1, <1>3, <2>2
      <3> QED
        BY <1>2, <3>1, <3>2, ShardIdsDiffer
    <2> QED
      BY <1>4, <2>1, <2>2, <2>3
  <1> QED
    BY <1>5, <1>6

(* When all series of all shards have been read, every ID has been. *)
LEMMA UptoAll ==
  ASSUME NEW q, World(q)
  PROVE  Upto(q, q.size) = 1..q.count /\ q.size \in Counts(q)
  <1>1. \A k \in Shards : q.start[k] \in Nat /\ q.size[k] \in Nat /\ None[k] = 0 /\ q.start[k] + q.size[k] <= q.count
    BY DEF World, None
  <1>2. q.count \in Nat
    BY DEF World
  <1>3. \A i \in Shards : IdsOf(q, i, 0, q.size[i]) = (q.start[i] + 1)..(q.start[i] + q.size[i])
    BY <1>1 DEF IdsOf
  <1>4. \A i \in Shards : IdsOf(q, i, 0, q.size[i]) \subseteq 1..q.count
    BY <1>1, <1>2, <1>3
  <1>5. \A x \in 1..q.count : \E i \in Shards : x \in IdsOf(q, i, 0, q.size[i])
    BY <1>3 DEF World
  <1>6. Upto(q, q.size) = 1..q.count
    BY <1>1, <1>4, <1>5 DEF Upto, Between
  <1>7. q.size \in Counts(q)
    BY <1>1 DEF Counts, World
  <1> QED
    BY <1>6, <1>7

(* Only IDs of series are read. *)
LEMMA BetweenIds ==
  ASSUME NEW q, World(q), NEW g \in Counts(q), NEW h \in Counts(q)
  PROVE  /\ Between(q, g, h) \subseteq 1..q.count
         /\ \A i \in Shards : IdsOf(q, i, g[i], h[i]) \subseteq 1..q.count
  <1>1. \A k \in Shards : /\ q.start[k] \in Nat /\ q.size[k] \in Nat /\ q.start[k] + q.size[k] <= q.count
                          /\ g[k] \in Nat /\ h[k] \in Nat /\ h[k] <= q.size[k]
    BY DEF World, Counts
  <1>2. q.count \in Nat
    BY DEF World
  <1>3. \A i \in Shards : IdsOf(q, i, g[i], h[i]) \subseteq 1..q.count
    BY <1>1, <1>2 DEF IdsOf
  <1> QED
    BY <1>3 DEF Between

(* Nothing is read between equal counts. *)
LEMMA BetweenSame ==
  ASSUME NEW q, World(q), NEW g \in Counts(q)
  PROVE  Between(q, g, g) = {} /\ \A i \in Shards : IdsOf(q, i, g[i], g[i]) = {}
  <1>1. \A k \in Shards : q.start[k] \in Nat /\ g[k] \in Nat
    BY DEF World, Counts
  <1>2. \A i \in Shards : IdsOf(q, i, g[i], g[i]) = {}
    BY <1>1 DEF IdsOf
  <1> QED
    BY <1>2 DEF Between

-----------------------------------------------------------------------------
(* The samples of series, and how many there are. *)

Ids(q, X, ts) == UNION {{<<x, u>> : u \in q.pts[x][ts]} : x \in X}

(* Membership in Ids. *)
LEMMA IdsMembers ==
  ASSUME NEW q, NEW X, NEW ts
  PROVE  /\ \A p \in Ids(q, X, ts) : /\ p[1] \in X /\ p[2] \in q.pts[p[1]][ts] /\ p = <<p[1], p[2]>>
         /\ \A x \in X : \A u \in q.pts[x][ts] : <<x, u>> \in Ids(q, X, ts)
  BY DEF Ids

(* A step has finitely many samples: at most one for each series. *)
LEMMA IdsFinite ==
  ASSUME NEW q, World(q), NEW X, X \subseteq 1..q.count, NEW ts \in Int
  PROVE  IsFiniteSet(Ids(q, X, ts)) /\ Cardinality(Ids(q, X, ts)) \in Nat
  <1> DEFINE S == Ids(q, X, ts)
             T == 1..q.count
             f == [p \in S |-> p[1]]
  <1>1. \A p \in S : p[1] \in T
    BY IdsMembers
  <1>2. \A p, r \in S : p[1] = r[1] => p = r
    <2> SUFFICES ASSUME NEW p \in S, NEW r \in S, p[1] = r[1]
                 PROVE  p = r
      OBVIOUS
    <2>1. p[2] \in q.pts[p[1]][ts] /\ r[2] \in q.pts[p[1]][ts] /\ p = <<p[1], p[2]>> /\ r = <<r[1], r[2]>>
      BY IdsMembers
    <2>2. p[2] = r[2]
      BY <1>1, <2>1 DEF World
    <2> QED
      BY <2>1, <2>2
  <1>3. IsFiniteSet(T)
    <2>1. PICK c \in Nat : c = q.count
      BY DEF World
    <2>2. IsFiniteSet(1..c)
      BY FS_Interval
    <2> QED
      BY <2>1, <2>2
  <1> HIDE DEF S, T
  <1>4. f \in [S -> T]
    BY <1>1
  <1>5. \A p, r \in S : f[p] = f[r] => p = r
    BY <1>2
  <1> HIDE DEF f
  <1>6. f \in Injection(S, T)
    BY <1>4, <1>5 DEF Injection, IsInjective
  <1>7. IsFiniteSet(S)
    BY <1>3, <1>6, FS_Injection
  <1>8. Cardinality(S) \in Nat
    BY <1>7, FS_CardinalityType
  <1> QED
    BY <1>7, <1>8 DEF S

(* The size of the union of two disjoint sets. *)
LEMMA DisjointUnion ==
  ASSUME NEW A, IsFiniteSet(A), NEW B, IsFiniteSet(B), A \cap B = {}
  PROVE  IsFiniteSet(A \cup B) /\ Cardinality(A \cup B) = Cardinality(A) + Cardinality(B)
  <1>1. IsFiniteSet(A \cup B) /\ Cardinality(A \cup B) = Cardinality(A) + Cardinality(B) - Cardinality(A \cap B)
    BY FS_Union
  <1>2. Cardinality(A \cap B) = 0
    BY FS_EmptySet, Zenon
  <1>3. Cardinality(A) \in Nat
    BY FS_CardinalityType
  <1>4. Cardinality(B) \in Nat
    BY FS_CardinalityType
  <1>5. PICK a \in Nat : a = Cardinality(A)
    BY <1>3
  <1>6. PICK b \in Nat : b = Cardinality(B)
    BY <1>4
  <1>7. Cardinality(A \cup B) = a + b - 0
    BY <1>1, <1>2, <1>5, <1>6, Zenon
  <1>8. a + b - 0 = a + b
    OBVIOUS
  <1>9. Cardinality(A \cup B) = a + b
    BY <1>7, <1>8, Zenon
  <1> QED
    BY <1>1, <1>5, <1>6, <1>9, Zenon

(* The samples of X and those of Y are different and together those of both. *)
Added(q, X, Y, ts) ==
  /\ Ids(q, X \cup Y, ts) = Ids(q, X, ts) \cup Ids(q, Y, ts)
  /\ Ids(q, X, ts) \cap Ids(q, Y, ts) = {}
  /\ Cardinality(Ids(q, X \cup Y, ts)) = Cardinality(Ids(q, X, ts)) + Cardinality(Ids(q, Y, ts))

(* The samples of different series are different. *)
LEMMA IdsUnion ==
  ASSUME NEW q, World(q), NEW X, X \subseteq 1..q.count, NEW Y, Y \subseteq 1..q.count,
         X \cap Y = {}, NEW ts \in Int
  PROVE  Added(q, X, Y, ts)
  <1>1. Ids(q, X \cup Y, ts) = Ids(q, X, ts) \cup Ids(q, Y, ts)
    BY DEF Ids
  <1>2. Ids(q, X, ts) \cap Ids(q, Y, ts) = {}
    BY IdsMembers
  <1>3. /\ IsFiniteSet(Ids(q, X, ts)) /\ IsFiniteSet(Ids(q, Y, ts))
        /\ Cardinality(Ids(q, X, ts)) \in Nat /\ Cardinality(Ids(q, Y, ts)) \in Nat
    BY IdsFinite, Zenon
  <1>4. PICK A : A = Ids(q, X, ts)
    OBVIOUS
  <1>5. PICK B : B = Ids(q, Y, ts)
    OBVIOUS
  <1>6. Cardinality(A \cup B) = Cardinality(A) + Cardinality(B)
    BY <1>2, <1>3, <1>4, <1>5, DisjointUnion, Zenon
  <1> QED
    BY <1>1, <1>2, <1>4, <1>5, <1>6, Zenon DEF Added

(* The union of the first m sets of A. *)
Together(A, m) == UNION {A[i] : i \in 1..m}

(* Adding up the sizes of disjoint sets gives the size of their union. *)
LEMMA SumOfParts ==
  ASSUME NEW m \in Nat, NEW A, \A i \in 1..m : IsFiniteSet(A[i]),
         \A i, j \in 1..m : i # j => A[i] \cap A[j] = {},
         NEW c, c[0] = 0, \A i \in 1..m : c[i] = c[i - 1] + Cardinality(A[i])
  PROVE  c[m] = Cardinality(Together(A, m))
  <1> DEFINE U(k) == UNION {A[i] : i \in 1..k}
             T == {k \in 0..m : IsFiniteSet(U(k)) /\ c[k] = Cardinality(U(k))}
  <1>1. 0 \in T
    <2>1. U(0) = {}
      OBVIOUS
    <2> HIDE DEF U
    <2> QED
      BY <2>1, FS_EmptySet
  <1>2. ASSUME NEW k \in 0..(m - 1), k \in T
        PROVE  k + 1 \in T
    <2>1. k + 1 \in 1..m /\ k + 1 \in 0..m /\ (k + 1) - 1 = k
      OBVIOUS
    <2>2. \A i \in 1..(k + 1) : i \in 1..k \/ i = k + 1
      OBVIOUS
    <2>3. U(k + 1) = U(k) \cup A[k + 1]
      <3>1. \A i \in 1..k : i \in 1..(k + 1)
        OBVIOUS
      <3>2. k + 1 \in 1..(k + 1)
        OBVIOUS
      <3> QED
        BY <2>2, <3>1, <3>2
    <2>4. U(k) \cap A[k + 1] = {}
      <3>1. \A i \in 1..k : i \in 1..m /\ i # k + 1
        OBVIOUS
      <3> QED
        BY <2>1, <3>1
    <2>5. IsFiniteSet(U(k)) /\ c[k] = Cardinality(U(k))
      BY <1>2
    <2> HIDE DEF U
    <2>6. IsFiniteSet(A[k + 1])
      BY <2>1
    <2>7. IsFiniteSet(U(k) \cup A[k + 1]) /\ Cardinality(U(k) \cup A[k + 1]) = Cardinality(U(k)) + Cardinality(A[k + 1])
      BY <2>4, <2>5, <2>6, DisjointUnion
    <2>8. c[k + 1] = c[k] + Cardinality(A[k + 1])
      BY <2>1
    <2>9. Cardinality(U(k + 1)) = c[k + 1] /\ IsFiniteSet(U(k + 1))
      BY <2>3, <2>5, <2>7, <2>8, Zenon
    <2> QED
      BY <2>1, <2>9
  <1>3. \A k \in 0..m : k \in T
    <2> HIDE DEF T
    <2> QED
      BY <1>1, <1>2, LoopInvariant
  <1>4. m \in T
    <2> HIDE DEF T
    <2> QED
      BY <1>3
  <1>5. c[m] = Cardinality(U(m))
    <2> HIDE DEF U
    <2> QED
      BY <1>4
  <1> QED
    BY <1>5, Zenon DEF U, Together

-----------------------------------------------------------------------------
(* The windows of the selectors. *)

(* The point a vector selector selects is the last sample of the lookback      *)
(* window, and an iterator that has ended has none for this and later steps    *)
(* (selectPoint).                                                              *)
LEMMA PointIsLastSample ==
  ASSUME in \in Inputs, NEW s \in in.match, NEW ts \in Int
  PROVE  /\ selectPoint(s, ts).ok => LastSample(s, ts) = {selectPoint(s, ts).t}
         /\ ~selectPoint(s, ts).ok => LastSample(s, ts) = {}
         /\ selectPoint(s, ts).end => \A t \in Int : t >= ts => LastSample(s, t) = {}
  <1> DEFINE ref  == ts - Offset
             all  == in.live[s] \cup in.stale[s]
             none == \A t \in all : t < ref
             prev == {t \in all : t < ref}
             pt   == IF ref \in all THEN ref ELSE IF prev = {} THEN ref - Lookback ELSE Max(prev)
             win(t) == {u \in all : t - Offset - Lookback < u /\ u <= t - Offset}
  <1>1. /\ (selectPoint(s, ts).ok <=> ref - Lookback < pt /\ pt \in in.live[s]) /\ selectPoint(s, ts).t = pt
        /\ selectPoint(s, ts).end <=> (none /\ pt <= ref - Lookback)
    <2>1. /\ selectPoint(s, ts).ok = (ref - Lookback < pt /\ pt \in in.live[s]) /\ selectPoint(s, ts).t = pt
          /\ selectPoint(s, ts).end = (none /\ pt <= ref - Lookback)
      BY Zenon DEF selectPoint
    <2> HIDE DEF none, pt
    <2> QED
      BY <2>1, Zenon
  <1>2. \A t : LastSample(s, t) = IF win(t) = {} THEN {} ELSE {Max(win(t))} \cap in.live[s]
    BY DEF LastSample
  <1>3. all \subseteq Int /\ ref \in Int /\ Lookback \in Nat /\ Lookback > 0 /\ in.live[s] \subseteq all
    BY InputsAssumption, PointsAssumption
  <1> HIDE DEF all
  <1>4. win(ts) = {u \in all : ref - Lookback < u /\ u <= ref}
    OBVIOUS
  <1>5. \A t \in Int : t - Offset - Lookback \in Int /\ (t >= ts => t - Offset - Lookback >= ref - Lookback)
    BY PointsAssumption
  <1>6. CASE ref \in all
    <2>1. pt = ref /\ ~none /\ ref - Lookback < ref
      BY <1>3, <1>6
    <2>2. ref \in win(ts) /\ \A u \in win(ts) : u <= ref
      BY <1>3, <1>4, <1>6
    <2>3. Max(win(ts)) = ref
      <3>1. win(ts) \subseteq Int /\ win(ts) # {}
        BY <1>3, <2>2, Zenon
      <3> HIDE DEF win
      <3>2. Max(win(ts)) \in win(ts) /\ \A u \in win(ts) : u <= Max(win(ts))
        BY <1>3, <2>2, <3>1, MaxOfBounded
      <3>3. Max(win(ts)) \in Int /\ Max(win(ts)) <= ref /\ ref <= Max(win(ts))
        BY <2>2, <3>1, <3>2
      <3> QED
        BY <1>3, <3>3
    <2>4. win(ts) # {}
      BY <2>2
    <2> HIDE DEF win, pt, none
    <2> QED
      BY <1>1, <1>2, <2>1, <2>3, <2>4
  <1>7. CASE ref \notin all /\ prev = {}
    <2>1. pt = ref - Lookback /\ ~(ref - Lookback < pt)
      BY <1>3, <1>7
    <2>2. win(ts) = {}
      <3>1. \A u \in all : u <= ref => u < ref
        BY <1>3, <1>7
      <3>2. \A u \in all : ~(u < ref)
        BY <1>7
      <3> QED
        BY <3>1, <3>2
    <2>3. ASSUME none, NEW t \in Int
          PROVE  win(t) = {}
      <3>1. all = {}
        BY <1>7, <2>3
      <3> QED
        BY <3>1
    <2> HIDE DEF win, pt, none
    <2> QED
      BY <1>1, <1>2, <2>1, <2>2, <2>3
  <1>8. CASE ref \notin all /\ prev # {}
    <2>1. pt = Max(prev) /\ prev \subseteq Int /\ \A u \in prev : u <= ref
      <3>1. prev \subseteq Int /\ \A u \in prev : u <= ref
        <4>1. \A u \in all : u \in Int
          BY <1>3
        <4>2. \A u \in Int : u < ref => u <= ref
          BY <1>3
        <4> QED
          BY <4>1, <4>2
      <3>2. prev # {} /\ ref \notin all
        BY <1>8
      <3> HIDE DEF prev
      <3> QED
        BY <3>1, <3>2, Zenon
    <2>2. pt \in prev /\ \A u \in prev : u <= pt
      <3> HIDE DEF prev
      <3> QED
        BY <1>3, <1>8, <2>1, MaxOfBounded, Zenon
    <2>3. pt \in all /\ pt \in Int /\ pt < ref /\ \A u \in all : u <= ref => u <= pt
      <3>1. \A u \in all : u <= ref => u \in prev
        BY <1>3, <1>8
      <3> QED
        BY <1>3, <2>2, <3>1, Zenon
    <2> HIDE DEF pt
    <2>4. CASE ref - Lookback < pt
      <3>1. pt \in win(ts) /\ \A u \in win(ts) : u <= pt
        BY <1>3, <1>4, <2>3, <2>4
      <3>2. Max(win(ts)) = pt
        <4>1. win(ts) \subseteq Int /\ win(ts) # {}
          BY <1>3, <3>1, Zenon
        <4> HIDE DEF win
        <4>2. Max(win(ts)) \in win(ts) /\ \A u \in win(ts) : u <= Max(win(ts))
          BY <2>3, <3>1, <4>1, MaxOfBounded
        <4>3. Max(win(ts)) \in Int /\ Max(win(ts)) <= pt /\ pt <= Max(win(ts))
          BY <3>1, <4>1, <4>2
        <4> QED
          BY <2>3, <4>3
      <3>3. ~(pt <= ref - Lookback) /\ win(ts) # {}
        BY <1>3, <2>3, <2>4, <3>1
      <3> HIDE DEF win, none
      <3> QED
        BY <1>1, <1>2, <2>4, <3>2, <3>3
    <2>5. CASE ~(ref - Lookback < pt)
      <3>1. win(ts) = {}
        <4>1. \A u \in all : u <= ref => ~(ref - Lookback < u)
          BY <1>3, <2>3, <2>5
        <4> QED
          BY <4>1
      <3>2. ASSUME none, NEW t \in Int, t >= ts
            PROVE  win(t) = {}
        <4>1. \A u \in all : u <= ref - Lookback
          BY <1>3, <2>3, <2>5, <3>2
        <4>2. PICK r \in Int : r = t - Offset - Lookback
          BY <1>5
        <4>3. r >= ref - Lookback
          BY <1>5, <3>2, <4>2
        <4>4. \A u \in all : ~(r < u)
          BY <1>3, <4>1, <4>3
        <4> QED
          BY <4>2, <4>4
      <3> HIDE DEF win, none
      <3> QED
        BY <1>1, <1>2, <2>5, <3>1, <3>2
    <2> QED
      BY <2>4, <2>5
  <1> QED
    BY <1>6, <1>7, <1>8

-----------------------------------------------------------------------------
(* The windows of steps the shards return. *)

(* The step a shard is at when its window starts at v: past the end of the *)
(* query it is the step after the last one.                                *)
Cut(v) == IF v <= NumSteps THEN v ELSE NumSteps + 1

(* The number of steps of the window that starts at v. *)
WLen(v) == Cut(v + StepsBatch) - v

(* The step vector of the series X at ts, and their window from step v on. *)
Vec(q, X, ts) == [t |-> ts, ids |-> Ids(q, X, ts), num |-> Cardinality(Ids(q, X, ts))]
Window(q, X, v) == [k \in 1..WLen(v) |-> Vec(q, X, v + k - 1)]

(* Shard i, with currentSeries c and currentStep s, has returned its first *)
(* e series of the window at v, and no more.                               *)
Read(q, i, c, s, v, e) ==
  \/ s = Cut(v) /\ c = e
  \/ v <= NumSteps /\ s = Cut(v + StepsBatch) /\ c = 0 /\ e = q.size[i]

(* The window w coalesce holds for shard i is that of its series d + 1 to e *)
(* at v, the last the shard has returned.                                   *)
Holds(q, i, w, c, s, v, d, e) ==
  /\ v <= NumSteps /\ e \in d..q.size[i]
  /\ w = Window(q, IdsOf(q, i, d, e), v) /\ Read(q, i, c, s, v, e)

(* Nothing of the window at v, or of a later one, has left coalesce. *)
New(q, i, w, c, s, v) ==
  \/ w = <<>> /\ s = Cut(v) /\ c = 0
  \/ \E e \in 0..q.size[i] : Holds(q, i, w, c, s, v, 0, e)

(* The first d series of shard i of the window at v have left coalesce: it  *)
(* holds nothing, the next series of the window, or, when these were all,   *)
(* the first ones of the next window.                                       *)
ShardAt(q, i, w, c, s, v, d) ==
  \/ w = <<>> /\ Read(q, i, c, s, v, d)
  \/ \E e \in 0..q.size[i] : Holds(q, i, w, c, s, v, d, e)
  \/ d = q.size[i] /\ \E e \in 0..q.size[i] : Holds(q, i, w, c, s, v + StepsBatch, 0, e)

(* The bounds of a window. *)
LEMMA WindowBounds ==
  ASSUME NEW v \in Nat, v >= 1
  PROVE  /\ Cut(v) \in Nat /\ Cut(v) <= NumSteps + 1 /\ Cut(v) <= v /\ Cut(v) >= 1
         /\ v <= NumSteps => WLen(v) \in 1..StepsBatch /\ v + WLen(v) - 1 <= NumSteps /\ v + WLen(v) = Cut(v + StepsBatch)
         /\ v + StepsBatch \in Nat /\ v + StepsBatch >= 1
  BY StepsAssumption DEF Cut, WLen

(* The number of steps of a window, and the times of its steps. *)
LEMMA StepOfWindow ==
  ASSUME NEW v \in Nat, v >= 1, v <= NumSteps
  PROVE  /\ WLen(v) \in 0..StepsBatch
         /\ \A k \in 1..WLen(v) : k \in Nat /\ k <= WLen(v) /\ v + k - 1 \in Int
  <1>1. WLen(v) \in 1..StepsBatch /\ StepsBatch \in Nat
    BY WindowBounds, StepsAssumption
  <1> QED
    BY <1>1

(* The fields of a step vector. *)
LEMMA VecFields ==
  ASSUME NEW q, NEW X, NEW ts, NEW w, w = Vec(q, X, ts)
  PROVE  w.t = ts /\ w.ids = Ids(q, X, ts) /\ w.num = Cardinality(Ids(q, X, ts))
  BY DEF Vec

(* The samples of all shards are those of the series between the counts. *)
LEMMA TogetherIds ==
  ASSUME NEW q, NEW d, NEW h, NEW ts, NEW N, N = NumShards, NEW A,
         \A i \in 1..N : A[i] = Ids(q, IdsOf(q, i, d[i], h[i]), ts)
  PROVE  Together(A, N) = Ids(q, Between(q, d, h), ts)
  BY DEF Ids, Between, Shards, Together

(* A window of the query is a sequence of its steps. *)
LEMMA WindowSteps ==
  ASSUME NEW q, NEW X, NEW v \in Nat, v >= 1, v <= NumSteps
  PROVE  /\ Window(q, X, v) # <<>> /\ Len(Window(q, X, v)) = WLen(v)
         /\ DOMAIN Window(q, X, v) = 1..WLen(v) /\ Window(q, X, v)[1].t = v
         /\ \A k \in 1..WLen(v) : Window(q, X, v)[k] = Vec(q, X, v + k - 1)
  <1>1. WLen(v) \in Nat /\ WLen(v) >= 1
    BY WindowBounds
  <1>2. PICK m \in Nat : m = WLen(v)
    BY <1>1
  <1>3. PICK S : S = {Vec(q, X, v + k - 1) : k \in 1..m}
    BY Zenon
  <1>4. PICK w : w = Window(q, X, v)
    OBVIOUS
  <1>5. w \in [1..m -> S] /\ \A k \in 1..m : w[k] = Vec(q, X, v + k - 1)
    BY <1>2, <1>3, <1>4 DEF Window
  <1>6. w \in Seq(S) /\ Len(w) = m /\ DOMAIN w = 1..m
    BY <1>5
  <1>7. 1 \in 1..m
    BY <1>1, <1>2
  <1>8. w # <<>>
    BY <1>1, <1>2, <1>6
  <1>9. v + 1 - 1 = v
    OBVIOUS
  <1>10. w[1].t = v
    BY <1>5, <1>7, <1>9 DEF Vec
  <1> QED
    BY <1>2, <1>4, <1>5, <1>6, <1>8, <1>10

(* A shard that returns its next series keeps its place (Next of the vector *)
(* selector with curSeries c and curStep s up to series e).                 *)
LEMMA ShardMoves ==
  ASSUME NEW q, World(q), NEW i \in Shards, NEW v \in Nat, v >= 1, NEW d \in 0..q.size[i],
         NEW c \in 0..q.size[i], NEW s \in Nat, s <= NumSteps, NEW e \in c..q.size[i], NEW c2, NEW s2,
         e = q.size[i] => c2 = 0 /\ s2 = s + WLen(s),
         e # q.size[i] => c2 = e /\ s2 = s
  PROVE  /\ Read(q, i, c, s, v, d) => ShardAt(q, i, Window(q, IdsOf(q, i, c, e), s), c2, s2, v, d)
         /\ New(q, i, <<>>, c, s, v) => New(q, i, Window(q, IdsOf(q, i, c, e), s), c2, s2, v)
  <1>1. /\ q.size[i] \in Nat /\ v \in Nat /\ v + StepsBatch \in Nat /\ v + StepsBatch >= 1 /\ e \in Nat
        /\ NumSteps \in Nat /\ StepsBatch \in Nat
    BY WindowBounds, StepsAssumption DEF World
  <1>2. ASSUME NEW u \in Nat, u >= 1, s = Cut(u)
        PROVE  s = u /\ u <= NumSteps /\ Holds(q, i, Window(q, IdsOf(q, i, c, e), s), c2, s2, u, c, e)
    <2>1. s = u /\ u <= NumSteps
      BY <1>1, <1>2 DEF Cut
    <2>2. e # q.size[i] => Read(q, i, c2, s2, u, e)
      BY <1>2 DEF Read
    <2>3. e = q.size[i] => Read(q, i, c2, s2, u, e)
      BY <2>1, <1>2, WindowBounds, Zenon DEF Read
    <2> QED
      BY <2>1, <2>2, <2>3, Zenon DEF Holds
  <1>3. ASSUME Read(q, i, c, s, v, d)
        PROVE  ShardAt(q, i, Window(q, IdsOf(q, i, c, e), s), c2, s2, v, d)
    <2>1. CASE s = Cut(v) /\ c = d
      <3>1. Holds(q, i, Window(q, IdsOf(q, i, c, e), s), c2, s2, v, d, e)
        BY <1>2, <2>1, Zenon
      <3>2. PICK m \in Nat : m = q.size[i]
        BY <1>1, Zenon
      <3>3. \A x \in Nat : \A y \in x..m : y \in 0..m
        OBVIOUS
      <3>4. e \in 0..q.size[i]
        BY <3>2, <3>3
      <3> QED
        BY <3>1, <3>4, Zenon DEF ShardAt
    <2>2. CASE s = Cut(v + StepsBatch) /\ c = 0 /\ d = q.size[i]
      BY <1>1, <1>2, <2>2, Zenon DEF ShardAt
    <2> QED
      BY <1>3, <2>1, <2>2, Zenon DEF Read
  <1>4. ASSUME New(q, i, <<>>, c, s, v)
        PROVE  New(q, i, Window(q, IdsOf(q, i, c, e), s), c2, s2, v)
    <2>1. s = Cut(v) /\ c = 0
      <3>1. \A u : ~Holds(q, i, <<>>, c, s, v, 0, u)
        BY WindowSteps, Zenon DEF Holds
      <3> QED
        BY <1>4, <3>1, Zenon DEF New
    <2> QED
      BY <1>1, <1>2, <2>1, Zenon DEF New
  <1> QED
    BY <1>3, <1>4, Zenon

(* The k-th step of the window at v has time v + k - 1. *)
LEMMA WindowStep ==
  ASSUME NEW q, NEW X, NEW v \in Nat, v >= 1, v <= NumSteps, NEW k \in 1..WLen(v), NEW ts, ts = v + k - 1
  PROVE  Window(q, X, v)[k] = Vec(q, X, ts)
  BY WindowSteps

(* The windows of several shards at v, merged by coalesce, are the window of *)
(* all their series: no sample is lost, and none counts twice.               *)
LEMMA MergedWindows ==
  ASSUME NEW q, World(q), NEW v \in Nat, v >= 1, v <= NumSteps, NEW at, at \subseteq Shards, at # {},
         NEW d \in Counts(q), NEW h \in Counts(q), \A i \in Shards : i \notin at => h[i] = d[i],
         \A i \in at : inVectors[i] = Window(q, IdsOf(q, i, d[i], h[i]), v), NEW k \in 1..WLen(v)
  PROVE  merged(at, k) = Vec(q, Between(q, d, h), v + k - 1)
  <1>1. PICK N \in Nat : N = NumShards
    BY ShardsAssumption, Zenon
  <1>2. PICK ts \in Int : ts = v + k - 1
    BY StepOfWindow, Zenon
  <1>3. \A i \in at : k <= Len(inVectors[i]) /\ inVectors[i][k] = Vec(q, IdsOf(q, i, d[i], h[i]), ts)
    <2> SUFFICES ASSUME NEW i \in at
                 PROVE  k <= Len(inVectors[i]) /\ inVectors[i][k] = Vec(q, IdsOf(q, i, d[i], h[i]), ts)
      OBVIOUS
    <2>1. PICK X : X = IdsOf(q, i, d[i], h[i])
      BY Zenon
    <2>2. inVectors[i] = Window(q, X, v)
      BY <2>1
    <2>3. Len(Window(q, X, v)) = WLen(v)
      BY WindowSteps, Zenon
    <2>4. Window(q, X, v)[k] = Vec(q, X, ts)
      BY <1>2, WindowStep
    <2>5. k <= WLen(v)
      BY StepOfWindow, Zenon
    <2> QED
      BY <1>2, <2>1, <2>2, <2>3, <2>4, <2>5, Zenon
  <1>4. \A i \in Shards : IdsOf(q, i, d[i], h[i]) \subseteq 1..q.count
    BY BetweenIds
  <1> DEFINE A == [i \in 1..N |-> Ids(q, IdsOf(q, i, d[i], h[i]), ts)]
  <1>5. \A i \in 1..N : i \in Shards
    BY <1>1 DEF Shards
  <1>6. \A i \in 1..N : IsFiniteSet(A[i]) /\ Cardinality(A[i]) \in Nat
    BY <1>4, <1>5, IdsFinite
  <1>7. \A i, j \in 1..N : i # j => A[i] \cap A[j] = {}
    <2> SUFFICES ASSUME NEW i \in 1..N, NEW j \in 1..N, i # j
                 PROVE  A[i] \cap A[j] = {}
      OBVIOUS
    <2>1. IdsOf(q, i, d[i], h[i]) \cap IdsOf(q, j, d[j], h[j]) = {}
      BY <1>5, ShardIdsDiffer
    <2>2. Added(q, IdsOf(q, i, d[i], h[i]), IdsOf(q, j, d[j], h[j]), ts)
      BY <1>4, <1>5, <2>1, IdsUnion
    <2> QED
      BY <2>2 DEF Added
  <1>8. \A i \in 1..N : i \notin at => A[i] = {}
    <2>1. \A i \in Shards : i \notin at => IdsOf(q, i, d[i], h[i]) = {}
      BY BetweenSame
    <2>2. Ids(q, {}, ts) = {}
      BY Zenon DEF Ids
    <2> QED
      BY <1>5, <2>1, <2>2
  <1>9. \A i \in at : i \in 1..N /\ inVectors[i][k].num = Cardinality(A[i]) /\ inVectors[i][k].ids = A[i] /\ inVectors[i][k].t = ts
    <2> SUFFICES ASSUME NEW i \in at
                 PROVE  i \in 1..N /\ inVectors[i][k].num = Cardinality(A[i]) /\ inVectors[i][k].ids = A[i] /\ inVectors[i][k].t = ts
      BY Zenon
    <2>1. i \in 1..N
      BY <1>1 DEF Shards
    <2>2. PICK Y : Y = Ids(q, IdsOf(q, i, d[i], h[i]), ts)
      BY Zenon
    <2>3. A[i] = Y
      BY <2>1, <2>2
    <2>4. inVectors[i][k].t = ts /\ inVectors[i][k].ids = Y /\ inVectors[i][k].num = Cardinality(Y)
      BY <1>3, <2>2, VecFields
    <2> HIDE DEF A
    <2>5. inVectors[i][k].ids = A[i]
      BY <2>3, <2>4, Zenon
    <2>6. inVectors[i][k].num = Cardinality(A[i])
      BY <2>3, <2>4, Zenon
    <2> QED
      BY <2>1, <2>4, <2>5, <2>6, Zenon
  <1>10. Together(A, N) = Ids(q, Between(q, d, h), ts)
    <2>1. \A i \in 1..N : A[i] = Ids(q, IdsOf(q, i, d[i], h[i]), ts)
      BY Zenon
    <2> HIDE DEF A
    <2> QED
      BY <1>1, <2>1, TogetherIds
  <1> HIDE DEF A
  <1>11. UNION {inVectors[i][k].ids : i \in at} = Together(A, N)
    <2>1. ASSUME NEW x, NEW i \in at, x \in inVectors[i][k].ids
          PROVE  i \in 1..N /\ x \in A[i]
      BY <1>9, <2>1, Zenon
    <2>2. ASSUME NEW x, NEW i \in 1..N, x \in A[i]
          PROVE  i \in at /\ x \in inVectors[i][k].ids
      BY <1>8, <1>9, <2>2, Zenon
    <2> QED
      <3>1. \A x : (\E i \in at : x \in inVectors[i][k].ids) <=> (\E i \in 1..N : x \in A[i])
        BY <2>1, <2>2, Zenon
      <3> QED
        BY <3>1, Zenon DEF Together
  <1> DEFINE has == {i \in at : k <= Len(inVectors[i])}
             add(i) == IF i \in has THEN inVectors[i][k].num ELSE 0
             num[i \in 0..NumShards] ==
               IF i = 0 THEN 0 ELSE num[i - 1] + (IF i \in has THEN inVectors[i][k].num ELSE 0)
  <1>12. has = at
    BY <1>3
  <1>13. \A i \in 1..N : add(i) = Cardinality(A[i])
    BY <1>8, <1>9, <1>12, FS_EmptySet, Zenon
  <1>14. num[0] = 0 /\ \A i \in 1..N : num[i] = num[i - 1] + Cardinality(A[i])
    <2> DEFINE F == [i \in 1..N |-> [x \in Nat |-> x + Cardinality(A[i])]]
    <2>1. PICK f \in [0..N -> Nat] : f[0] = 0 /\ \A i \in 1..N : f[i] = F[i][f[i - 1]]
      <3>1. F \in [1..N -> [Nat -> Nat]]
        BY <1>6
      <3> HIDE DEF F
      <3>2. PICK G, a : G = F /\ a = 0
        OBVIOUS
      <3>3. \E f : LoopOf(f, N, Nat, a, G)
        BY <3>1, <3>2, LoopExists, Zenon
      <3> QED
        BY <3>2, <3>3, Zenon DEF LoopOf
    <2>2. \A i \in 1..N : f[i] = f[i - 1] + Cardinality(A[i])
      <3> SUFFICES ASSUME NEW i \in 1..N
                   PROVE  f[i] = f[i - 1] + Cardinality(A[i])
        BY Zenon
      <3>1. i - 1 \in 0..N
        OBVIOUS
      <3>2. f[i - 1] \in Nat
        BY <2>1, <3>1, Zenon
      <3> QED
        BY <2>1, <3>2, Zenon
    <2> HIDE DEF F
    <2>3. f = [i \in 0..NumShards |-> IF i = 0 THEN 0 ELSE f[i - 1] + add(i)]
      <3> HIDE DEF add
      <3>1. \A i \in 0..N : i = 0 \/ i \in 1..N
        OBVIOUS
      <3>2. \A i \in 0..N : f[i] = IF i = 0 THEN 0 ELSE f[i - 1] + add(i)
        BY <1>13, <2>1, <2>2, <3>1
      <3> QED
        BY <1>1, <2>1, <3>2
    <2>4. num = [i \in 0..NumShards |-> IF i = 0 THEN 0 ELSE num[i - 1] + add(i)]
      BY <2>3, Zenon DEF num
    <2> HIDE DEF num, add
    <2>5. \A i \in 0..N : num[i] = IF i = 0 THEN 0 ELSE num[i - 1] + add(i)
      BY <1>1, <2>4
    <2>6. 0 \in 0..N /\ \A i \in 1..N : i \in 0..N /\ i # 0
      OBVIOUS
    <2> QED
      BY <1>13, <2>5, <2>6, Zenon
  <1>15. merged(at, k) = [t |-> inVectors[Min(at)][k].t, ids |-> UNION {inVectors[i][k].ids : i \in has}, num |-> num[NumShards]]
    BY Zenon DEF merged
  <1> HIDE DEF num, has, add
  <1>16. num[N] = Cardinality(Together(A, N))
    <2>1. PICK c : c = num
      OBVIOUS
    <2>2. PICK B : B = A
      OBVIOUS
    <2>3. /\ \A i \in 1..N : IsFiniteSet(B[i])
          /\ \A i, j \in 1..N : i # j => B[i] \cap B[j] = {}
          /\ c[0] = 0 /\ \A i \in 1..N : c[i] = c[i - 1] + Cardinality(B[i])
      BY <1>6, <1>7, <1>14, <2>1, <2>2, Zenon
    <2>4. c[N] = Cardinality(Together(B, N))
      BY <2>3, SumOfParts, Zenon
    <2> QED
      BY <2>1, <2>2, <2>4
  <1>17. Min(at) \in at
    <2>1. at \subseteq Nat
      BY ShardsAssumption DEF Shards
    <2> QED
      BY <2>1, MinOfNumbers, Zenon
  <1> QED
    BY <1>1, <1>2, <1>9, <1>10, <1>11, <1>12, <1>15, <1>16, <1>17, Zenon DEF Vec

-----------------------------------------------------------------------------
(* The series of the shards and the iterators that have ended. *)

(* The series of a loaded shard, by sample ID. *)
LEMMA ShardEntries ==
  ASSUME in \in Inputs, Sharded, NEW i \in Shards
  PROVE  /\ shard[i] \in Seq(Nat) /\ Len(shard[i]) = Query.size[i] /\ Len(shard[i]) \in Nat
         /\ Query.start[i] = Before(i) /\ Query.start[i] \in Nat
         /\ \A k \in 1..Len(shard[i]) : /\ Query.start[i] + k \in 1..Query.count /\ shard[i][k] = Filtered[Query.start[i] + k]
                                        /\ shard[i][k] \in in.match
                                        /\ \A t \in Int : Query.pts[Query.start[i] + k][t] = LastSample(shard[i][k], t)
  <1>1. World(Query)
    BY QueryWorld
  <1>2. PICK q : q = Query
    OBVIOUS
  <1>3. /\ q.count = Len(Filtered) /\ q.pts = SamplesOf /\ q.start[i] = Before(i)
        /\ q.size[i] = Before(i + 1) - Before(i)
    BY <1>2 DEF Query
  <1>4. q.size[i] \in Nat /\ q.start[i] \in Nat /\ q.start[i] + q.size[i] <= q.count /\ q.count \in Nat
    BY <1>1, <1>2 DEF World
  <1>5. shard[i] = seriesShard(Filtered, i)
    BY DEF Sharded
  <1>6. /\ shard[i] \in Seq(Nat) /\ Len(shard[i]) = q.size[i]
        /\ \A k \in 1..q.size[i] : shard[i][k] = Filtered[q.start[i] + k]
    BY <1>3, <1>5, ShardSeries
  <1>7. \A k \in 1..q.size[i] : q.start[i] + k \in 1..q.count
    BY <1>4
  <1>8. \A x \in 1..q.count : Filtered[x] \in in.match
    BY <1>3, FilteredSeries
  <1>9. \A x \in 1..q.count : \A t \in Int : q.pts[x][t] = LastSample(Filtered[x], t)
    BY <1>3 DEF SamplesOf
  <1>10. \A k \in 1..q.size[i] : /\ q.start[i] + k \in 1..q.count /\ shard[i][k] = Filtered[q.start[i] + k]
                                 /\ shard[i][k] \in in.match
                                 /\ \A t \in Int : q.pts[q.start[i] + k][t] = LastSample(shard[i][k], t)
    BY <1>6, <1>7, <1>8, <1>9, Zenon
  <1> QED
    BY <1>2, <1>3, <1>4, <1>6, <1>10, Zenon

(* No series is in two places of the shards. *)
LEMMA ShardEntriesDiffer ==
  ASSUME in \in Inputs, Sharded, NEW i \in Shards, NEW j \in Shards,
         NEW k \in 1..Len(shard[i]), NEW l \in 1..Len(shard[j]), shard[i][k] = shard[j][l]
  PROVE  i = j /\ k = l
  <1>1. World(Query)
    BY QueryWorld
  <1>2. PICK q : q = Query
    OBVIOUS
  <1>3. /\ q.start[i] \in Nat /\ q.start[j] \in Nat /\ k \in 1..q.size[i] /\ l \in 1..q.size[j]
        /\ q.size[i] \in Nat /\ q.size[j] \in Nat
    BY <1>2, ShardEntries, Zenon
  <1>4. q.start[i] + k = q.start[j] + l
    <2>1. q.count = Len(Filtered)
      BY <1>2, Zenon DEF Query
    <2>2. q.start[i] + k \in 1..q.count /\ shard[i][k] = Filtered[q.start[i] + k]
      BY <1>2, ShardEntries, Zenon
    <2>3. q.start[j] + l \in 1..q.count /\ shard[j][l] = Filtered[q.start[j] + l]
      BY <1>2, ShardEntries
    <2>4. PICK x \in 1..q.count : x = q.start[i] + k
      BY <2>2
    <2>5. PICK y \in 1..q.count : y = q.start[j] + l
      BY <2>3
    <2>6. Filtered[x] = Filtered[y]
      BY <2>2, <2>3, <2>4, <2>5, Zenon
    <2>7. x = y
      BY <2>1, <2>6, FilteredSeries
    <2> QED
      BY <2>4, <2>5, <2>7
  <1>5. (i < j => q.start[i] + q.size[i] <= q.start[j]) /\ (j < i => q.start[j] + q.size[j] <= q.start[i])
    BY <1>1, <1>2 DEF World
  <1>6. i = j
    <2>1. i \in Int /\ j \in Int
      BY DEF Shards
    <2>2. PICK a \in Nat : a = q.start[i]
      BY <1>3
    <2>3. PICK b \in Nat : b = q.start[j]
      BY <1>3
    <2>4. k \in Int /\ k >= 1 /\ k <= q.size[i] /\ l \in Int /\ l >= 1 /\ l <= q.size[j]
      BY <1>3
    <2>5. PICK c \in Nat : c = q.size[i]
      BY <1>3
    <2>6. PICK d \in Nat : d = q.size[j]
      BY <1>3
    <2>7. a + k = b + l /\ k >= 1 /\ l >= 1 /\ k <= c /\ l <= d
      BY <1>4, <2>2, <2>3, <2>4, <2>5, <2>6
    <2>8. (i < j => a + c <= b) /\ (j < i => b + d <= a)
      BY <1>5, <2>2, <2>3, <2>5, <2>6
    <2>9. ~(i < j) /\ ~(j < i)
      BY <2>4, <2>7, <2>8
    <2> QED
      BY <2>1, <2>9
  <1> QED
    BY <1>3, <1>4, <1>6

(* The step at which shard i reads its series k next. *)
NextRead(i, k) == IF k <= curSeries[i] THEN curStep[i] + StepsBatch ELSE curStep[i]

(* A series whose iterator has ended has no sample at the steps to come. *)
Exhausted ==
  \A i \in Shards : \A k \in 1..Len(shard[i]) :
    shard[i][k] \in exhausted => \A t \in 1..NumSteps : t >= NextRead(i, k) => LastSample(shard[i][k], t) = {}

(* The place of each shard in its window. *)
Places ==
  \A i \in Shards : curSeries[i] \in 0..Len(shard[i]) /\ curStep[i] \in 1..(NumSteps + 1)

(* The bounds of a batch of a shard. *)
LEMMA BatchBounds ==
  ASSUME in \in Inputs, Places, NEW i \in Shards, Len(shard[i]) \in Nat, curStep[i] <= NumSteps
  PROVE  /\ nextSeries(i) \in curSeries[i]..Len(shard[i])
         /\ BatchLen(i) = WLen(curStep[i]) /\ WLen(curStep[i]) \in 1..StepsBatch
         /\ curStep[i] \in Nat /\ curStep[i] >= 1 /\ curSeries[i] \in Nat
         /\ curStep[i] + WLen(curStep[i]) - 1 <= NumSteps
         /\ AllRead(i) <=> nextSeries(i) = Len(shard[i])
  <1>1. curSeries[i] \in 0..Len(shard[i]) /\ curStep[i] \in 1..(NumSteps + 1) /\ NumSteps \in Nat /\ StepsBatch \in Nat \ {0}
    BY StepsAssumption DEF Places
  <1>2. seriesBatchSize(i) \in Nat
    BY InputsAssumption DEF seriesBatchSize
  <1>3. nextSeries(i) \in curSeries[i]..Len(shard[i])
    <2>1. PICK a \in Int : a = curSeries[i] + seriesBatchSize(i)
      BY <1>1, <1>2
    <2>2. a >= curSeries[i]
      BY <1>1, <1>2, <2>1
    <2>3. nextSeries(i) = IF a <= Len(shard[i]) THEN a ELSE Len(shard[i])
      BY <2>1, MinOfTwo DEF nextSeries
    <2> QED
      BY <1>1, <2>2, <2>3
  <1>4. BatchLen(i) = WLen(curStep[i])
    <2>1. PICK a \in Int : a = NumSteps - curStep[i] + 1
      BY <1>1
    <2>2. BatchLen(i) = IF StepsBatch <= a THEN StepsBatch ELSE a
      BY <1>1, <2>1, MinOfTwo DEF BatchLen
    <2>3. PICK s \in Nat : s = curStep[i]
      BY <1>1
    <2>4. WLen(s) = IF StepsBatch <= a THEN StepsBatch ELSE a
      BY <1>1, <2>1, <2>3 DEF WLen, Cut
    <2> QED
      BY <2>2, <2>3, <2>4
  <1>5. WLen(curStep[i]) \in 1..StepsBatch /\ curStep[i] + WLen(curStep[i]) - 1 <= NumSteps
    BY <1>1, WindowBounds
  <1> QED
    BY <1>1, <1>3, <1>4, <1>5 DEF AllRead

(* A series is read at a step exactly when it has a sample there: a series    *)
(* that was taken as ended has none.                                          *)
LEMMA SampledIsLast ==
  ASSUME in \in Inputs, Sharded, Exhausted, Places, NEW i \in Shards, curStep[i] <= NumSteps,
         NEW k \in BatchSeries(i), NEW t \in Int, curStep[i] <= t, t <= NumSteps
  PROVE  /\ k \in Sampled(i, t) => LastSample(shard[i][k], t) = {selectPoint(shard[i][k], t).t}
         /\ k \notin Sampled(i, t) => LastSample(shard[i][k], t) = {}
  <1>1. Len(shard[i]) \in Nat /\ \A j \in 1..Len(shard[i]) : shard[i][j] \in in.match
    BY ShardEntries, Zenon
  <1>2. /\ nextSeries(i) \in curSeries[i]..Len(shard[i]) /\ curSeries[i] \in Nat
        /\ curStep[i] \in Nat /\ t \in 1..NumSteps
    <2>1. /\ nextSeries(i) \in curSeries[i]..Len(shard[i]) /\ curSeries[i] \in Nat
          /\ curStep[i] \in Nat /\ curStep[i] >= 1
      BY <1>1, BatchBounds, Zenon
    <2>2. PICK s \in Nat : s = curStep[i] /\ s >= 1
      BY <2>1, Zenon
    <2>3. t \in 1..NumSteps
      BY <2>2, StepsAssumption
    <2> QED
      BY <2>1, <2>3, Zenon
  <1>3. k \in 1..Len(shard[i]) /\ k > curSeries[i]
    BY <1>1, <1>2 DEF BatchSeries
  <1>4. PICK s \in in.match : s = shard[i][k]
    BY <1>1, <1>3
  <1>5. k \in Sampled(i, t) <=> s \notin exhausted /\ ~Ends(s, curStep[i]..(t - 1)) /\ selectPoint(s, t).ok
    BY <1>4, Zenon DEF Sampled
  <1>6. s \in exhausted => LastSample(s, t) = {}
    <2>1. NextRead(i, k) = curStep[i]
      BY <1>2, <1>3 DEF NextRead
    <2> QED
      BY <1>2, <1>3, <1>4, <2>1, Zenon DEF Exhausted
  <1>7. Ends(s, curStep[i]..(t - 1)) => LastSample(s, t) = {}
    <2> SUFFICES ASSUME NEW u \in curStep[i]..(t - 1), selectPoint(s, u).end
                 PROVE  LastSample(s, t) = {}
      BY DEF Ends
    <2>1. u \in Int /\ t >= u
      BY <1>2
    <2> QED
      BY <2>1, PointIsLastSample
  <1>8. /\ selectPoint(s, t).ok => LastSample(s, t) = {selectPoint(s, t).t}
        /\ ~selectPoint(s, t).ok => LastSample(s, t) = {}
    BY PointIsLastSample
  <1> QED
    BY <1>4, <1>5, <1>6, <1>7, <1>8, Zenon

(* The step vector a shard returns has the samples of the series of its batch *)
(* under the IDs of coalesce.                                                 *)
LEMMA StepVectorIs ==
  ASSUME in \in Inputs, Sharded, offsets = [i \in Shards |-> Before(i)], Exhausted, Places,
         NEW i \in Shards, curStep[i] <= NumSteps, NEW t \in Int, curStep[i] <= t, t <= NumSteps
  PROVE  StepVector(i, t) = Vec(Query, IdsOf(Query, i, curSeries[i], nextSeries(i)), t)
  <1>1. PICK q : q = Query
    OBVIOUS
  <1>2. /\ offsets[i] = q.start[i] /\ q.start[i] \in Nat
        /\ \A k \in 1..Len(shard[i]) : q.start[i] + k \in Nat /\ q.pts[q.start[i] + k][t] = LastSample(shard[i][k], t)
    <2>1. offsets[i] = q.start[i]
      BY <1>1, ShardEntries, Zenon
    <2>2. PICK a \in Nat : a = q.start[i]
      BY <1>1, ShardEntries, Zenon
    <2>3. PICK l \in Nat : l = Len(shard[i])
      BY ShardEntries, Zenon
    <2>4. \A k \in 1..l : a + k \in Nat
      OBVIOUS
    <2>5. \A k \in 1..Len(shard[i]) : q.pts[q.start[i] + k][t] = LastSample(shard[i][k], t)
      BY <1>1, ShardEntries, Zenon
    <2> QED
      BY <2>1, <2>2, <2>3, <2>4, <2>5, Zenon
  <1>3. Len(shard[i]) \in Nat
    BY ShardEntries, Zenon
  <1>4. nextSeries(i) \in curSeries[i]..Len(shard[i]) /\ curSeries[i] \in Nat /\ nextSeries(i) \in Nat
    BY <1>3, BatchBounds
  <1>5. \A k \in BatchSeries(i) : k \in 1..Len(shard[i]) /\ k \in Nat
    BY <1>3, <1>4 DEF BatchSeries
  <1>6. Sampled(i, t) \subseteq BatchSeries(i)
    BY DEF Sampled
  <1>7. PICK a \in Nat : a = q.start[i]
    BY <1>2
  <1>8. \A x : x \in IdsOf(q, i, curSeries[i], nextSeries(i)) => \E k \in BatchSeries(i) : x = a + k
    <2> SUFFICES ASSUME NEW x \in IdsOf(q, i, curSeries[i], nextSeries(i))
                 PROVE  \E k \in BatchSeries(i) : x = a + k
      BY Zenon
    <2>1. x \in (a + curSeries[i] + 1)..(a + nextSeries(i))
      BY <1>7 DEF IdsOf
    <2>2. x - a \in BatchSeries(i) /\ x = a + (x - a)
      BY <1>4, <2>1 DEF BatchSeries
    <2> QED
      BY <2>2, Zenon
  <1>9. \A k \in BatchSeries(i) : a + k \in IdsOf(q, i, curSeries[i], nextSeries(i))
    <2>1. IdsOf(q, i, curSeries[i], nextSeries(i)) = (a + curSeries[i] + 1)..(a + nextSeries(i))
      BY <1>7 DEF IdsOf
    <2>2. \A k \in (curSeries[i] + 1)..nextSeries(i) : a + k \in (a + curSeries[i] + 1)..(a + nextSeries(i))
      BY <1>4
    <2> QED
      BY <2>1, <2>2, Zenon DEF BatchSeries
  <1> DEFINE ids == {<<offsets[i] + k, selectPoint(shard[i][k], t).t>> : k \in Sampled(i, t)}
             all == Ids(q, IdsOf(q, i, curSeries[i], nextSeries(i)), t)
  <1>10. ASSUME NEW p \in ids
         PROVE  p \in all
    <2>1. PICK k \in Sampled(i, t) : p = <<a + k, selectPoint(shard[i][k], t).t>>
      BY <1>2, <1>7, Zenon
    <2>2. k \in BatchSeries(i) /\ selectPoint(shard[i][k], t).t \in LastSample(shard[i][k], t)
      <3>1. k \in BatchSeries(i)
        BY <1>6, Zenon
      <3>2. LastSample(shard[i][k], t) = {selectPoint(shard[i][k], t).t}
        BY <3>1, SampledIsLast, Zenon
      <3> QED
        BY <3>1, <3>2, Zenon
    <2>3. q.pts[a + k][t] = LastSample(shard[i][k], t)
      BY <1>2, <1>5, <1>7, <2>2, Zenon
    <2>4. PICK u : u = selectPoint(shard[i][k], t).t
      BY Zenon
    <2>5. a + k \in IdsOf(q, i, curSeries[i], nextSeries(i)) /\ u \in q.pts[a + k][t]
      BY <1>9, <2>2, <2>3, <2>4, Zenon
    <2>6. <<a + k, u>> \in all
      BY <2>5, IdsMembers, Zenon
    <2> QED
      BY <2>1, <2>4, <2>6, Zenon
  <1>11. ASSUME NEW p \in all
         PROVE  p \in ids
    <2>1. PICK x \in IdsOf(q, i, curSeries[i], nextSeries(i)) : \E u \in q.pts[x][t] : p = <<x, u>>
      BY Zenon DEF Ids
    <2>2. PICK u \in q.pts[x][t] : p = <<x, u>>
      BY <2>1, Zenon
    <2>3. PICK k \in BatchSeries(i) : x = a + k
      BY <1>8, Zenon
    <2>4. u \in LastSample(shard[i][k], t)
      BY <1>2, <1>5, <1>7, <2>3, Zenon
    <2>5. k \in Sampled(i, t) /\ u = selectPoint(shard[i][k], t).t
      <3>1. /\ k \in Sampled(i, t) => LastSample(shard[i][k], t) = {selectPoint(shard[i][k], t).t}
            /\ k \notin Sampled(i, t) => LastSample(shard[i][k], t) = {}
        BY SampledIsLast, Zenon
      <3> QED
        BY <2>4, <3>1, Zenon
    <2> QED
      BY <1>2, <1>7, <2>2, <2>3, <2>5, Zenon
  <1>12. ids = all
    <2> HIDE DEF ids, all
    <2> QED
      BY <1>10, <1>11
  <1>13. StepVector(i, t) = [t |-> t, ids |-> ids, num |-> Cardinality(ids)]
    BY Zenon DEF StepVector
  <1> HIDE DEF ids
  <1> QED
    BY <1>1, <1>12, <1>13, Zenon DEF Vec

-----------------------------------------------------------------------------
(* The inductive invariant. *)

(* The shards in the current state. *)
ShardNow(i, v, d) == ShardAt(Query, i, inVectors[i], curSeries[i], curStep[i], v, d)
NewNow(i, v) == New(Query, i, inVectors[i], curSeries[i], curStep[i], v)

(* The table of the series X at step v, and the steps of the query. *)
Table(q, v, X) ==
  [t |-> v, param |-> v, num |-> Cardinality(Ids(q, X, v)),
   groups |-> {<<q.group[q.series[p[1]]], q.series[p[1]], p[2]>> : p \in Ids(q, X, v)}]
Tables(q) == {Table(q, v, 1..q.count) : v \in 1..NumSteps}

(* The buffer has the window at v of the series between the counts f and g. *)
TempAt(v, f, g) == v <= NumSteps /\ n = WLen(v) /\ temp = Window(Query, Between(Query, f, g), v)

(* The tables have been reset for the window at v, or have its first series. *)
TablesNew(v) ==
  /\ numTables = 0
  /\ \A k \in 1..StepsBatch : /\ tables[k] = EmptyTable(tables[k].param)
                              /\ v + k - 1 <= NumSteps => tables[k].param = v + k - 1
TablesFull(v, g) ==
  /\ v <= NumSteps /\ numTables = WLen(v)
  /\ \A k \in 1..numTables : tables[k] = Table(Query, v + k - 1, Upto(Query, g))
TablesAt(v, g) == (TablesNew(v) /\ g = None) \/ TablesFull(v, g)

(* Nothing of the window at v has been aggregated; some of its series may be *)
(* in the buffer, which the last call read too far.                          *)
Lookahead(v) ==
  \/ hasLast /\ \E g \in Counts(Query) : TempAt(v, None, g) /\ \A i \in Shards : ShardNow(i, v, g[i])
  \/ ~hasLast /\ \A i \in Shards : NewNow(i, v)

(* The aggregated series are those that have left coalesce. *)
Aggregated(v) ==
  \/ TablesNew(v) /\ \A i \in Shards : NewNow(i, v)
  \/ \E g \in Counts(Query) : TablesFull(v, g) /\ \A i \in Shards : ShardNow(i, v, g[i])

(* coalesce reads the shards it holds nothing of, up to their end. *)
Pulling(v) ==
  /\ ~hasLast /\ Aggregated(v)
  /\ \A i \in Shards : i \in pending => inVectors[i] = <<>>
  /\ \A i \in Shards : i \notin pending /\ inVectors[i] = <<>> /\ ~failed => curStep[i] > NumSteps

(* coalesce has returned the end, the next series of the window, or, after   *)
(* the last ones, the first series of the next window.                       *)
Aggregating(v) ==
  /\ ~hasLast
  /\ \/ n = 0 /\ Aggregated(v) /\ \A i \in Shards : inVectors[i] = <<>> /\ curStep[i] > NumSteps
     \/ \E g, h \in Counts(Query) :
          /\ TablesAt(v, g) /\ TempAt(v, g, h)
          /\ \A i \in Shards : g[i] <= h[i] /\ ShardNow(i, v, h[i])
     \/ /\ TablesFull(v, Query.size)
        /\ \E h \in Counts(Query) : TempAt(v + StepsBatch, None, h) /\ \A i \in Shards : ShardNow(i, v + StepsBatch, h[i])

(* The tables are complete, or the query is at its end. *)
Emitting(v) ==
  /\ Lookahead(v + StepsBatch)
  /\ TablesFull(v, Query.size) \/ (TablesNew(v) /\ v > NumSteps)

(* The first step of the window of call c + 1. *)
First(c) == c * StepsBatch + 1

(* The steps before v, and only those, have been returned. *)
OutAt(v) == Len(out) = Cut(v) - 1

(* While the query runs. *)
Running ==
  /\ Sharded /\ offsets = [i \in Shards |-> Before(i)] /\ Exhausted /\ loaded = Shards
  /\ pc = "idle" => Lookahead(First(calls)) /\ OutAt(First(calls))
  /\ pc # "idle" => \E c \in 0..calls : /\ calls = c + 1 /\ OutAt(First(c))
                                        /\ pc = "pull" => Pulling(First(c))
                                        /\ pc = "agg" => Aggregating(First(c))
                                        /\ pc = "emit" => Emitting(First(c))

(* Before the series are loaded. *)
Loading ==
  /\ selector = "new" => loaded = {}
  /\ ~failed => \A i \in loaded : shard[i] = seriesShard(Filtered, i)
  /\ curSeries = [i \in Shards |-> 0] /\ curStep = [i \in Shards |-> 1] /\ exhausted = {}
  /\ inVectors = [i \in Shards |-> <<>>] /\ hasLast = FALSE /\ calls = 0 /\ out = <<>>

(* Domains, and the returned steps. *)
Shape ==
  /\ shard \in [Shards -> Seq(Nat)] /\ curSeries \in [Shards -> Nat] /\ curStep \in [Shards -> Nat]
  /\ DOMAIN inVectors = Shards /\ DOMAIN tables = 1..StepsBatch
  /\ out \in Seq(Tables(Query)) /\ \A k \in 1..Len(out) : out[k] = Table(Query, k, 1..Query.count)

(* A failure is known until it ends the query. *)
Failures ==
  /\ selector = "failed" => failed
  /\ failed => pc \in {"series", "pull", "failed"}

IInv ==
  /\ TypeOK /\ Shape /\ Failures
  /\ pc = "series" => Loading
  /\ pc \in {"idle", "pull", "agg", "emit"} => Running
  /\ pc = "done" => OutAt(NumSteps + 1)

-----------------------------------------------------------------------------
(* What steps keep. *)

(* Steps after the series are loaded leave the series where they are. *)
LEMMA SameShards ==
  ASSUME UNCHANGED load
  PROVE  /\ Sharded' <=> Sharded
         /\ (offsets = [i \in Shards |-> Before(i)])' <=> offsets = [i \in Shards |-> Before(i)]
         /\ Query' = Query /\ Filtered' = Filtered
         /\ \A s, t : LastSample(s, t)' = LastSample(s, t)
  <1>1. in' = in /\ shard' = shard /\ offsets' = offsets
    BY DEF load
  <1>2. Query' = Query /\ Filtered' = Filtered
    BY <1>1, SameQuery
  <1>3. \A i : seriesShard(Filtered, i)' = seriesShard(Filtered, i)
    BY <1>2 DEF seriesShard
  <1>4. Sharded' <=> Sharded
    BY <1>1, <1>3 DEF Sharded
  <1>5. \A i : Before(i)' = Before(i)
    BY <1>2 DEF Before
  <1>6. \A s, t : LastSample(s, t)' = LastSample(s, t)
    BY <1>1 DEF LastSample
  <1> QED
    BY <1>1, <1>2, <1>4, <1>5, <1>6

(* Steps that read no shard keep which iterators have ended. *)
LEMMA SameExhausted ==
  ASSUME UNCHANGED load, UNCHANGED shardVars
  PROVE  Exhausted' <=> Exhausted
  <1>1. shard' = shard /\ curSeries' = curSeries /\ curStep' = curStep /\ exhausted' = exhausted
    BY DEF load, shardVars
  <1>2. \A i, k : NextRead(i, k)' = NextRead(i, k)
    BY <1>1 DEF NextRead
  <1>3. \A s, t : LastSample(s, t)' = LastSample(s, t)
    BY SameShards
  <1> QED
    BY <1>1, <1>2, <1>3, Zenon DEF Exhausted

(* The invariant holds at the start. *)
LEMMA InitIInv ==
  ASSUME Init
  PROVE  IInv
  <1>1. in \in Inputs /\ NumSteps \in Nat /\ StepsBatch \in Nat \ {0}
    BY StepsAssumption DEF Init
  <1>2. TypeOK
    <2>1. \A i \in Shards : /\ Range(shard[i]) \subseteq in.match
                            /\ curSeries[i] \in 0..Len(shard[i]) /\ curStep[i] \in 1..(NumSteps + 1)
                            /\ Len(inVectors[i]) \in 0..StepsBatch
      BY <1>1 DEF Init, Range
    <2>2. {failed, hasLast} \subseteq BOOLEAN
      BY Zenon DEF Init
    <2>3. {n, numTables} \subseteq 0..StepsBatch /\ calls \in Nat
      BY <1>1 DEF Init
    <2>4. selector \in {"new", "ok", "failed"} /\ loaded \subseteq Shards /\ exhausted \subseteq in.match /\ pending \subseteq Shards
      BY DEF Init
    <2>5. pc \in {"series", "idle", "pull", "agg", "emit", "done", "failed"}
      BY DEF Init
    <2> QED
      BY <1>1, <2>1, <2>2, <2>3, <2>4, <2>5 DEF TypeOK
  <1>3. Shape
    BY <1>1 DEF Init, Shape, shardVars
  <1>4. Failures /\ Loading
    BY DEF Init, Failures, Loading
  <1> QED
    BY <1>2, <1>3, <1>4 DEF IInv, Init

(* A loaded shard has series that match. *)
LEMMA ShardRange ==
  ASSUME in \in Inputs, NEW i \in Shards
  PROVE  seriesShard(Filtered, i) \in Seq(Nat) /\ Range(seriesShard(Filtered, i)) \subseteq in.match
  <1>1. /\ seriesShard(Filtered, i) \in Seq(Nat)
        /\ Len(seriesShard(Filtered, i)) = Before(i + 1) - Before(i)
        /\ \A k \in 1..(Before(i + 1) - Before(i)) : seriesShard(Filtered, i)[k] = Filtered[Before(i) + k]
    BY ShardSeries
  <1>2. i \in 1..(NumShards + 1) /\ i + 1 \in 1..(NumShards + 1)
    BY ShardsAssumption DEF Shards
  <1>3. Before(i) \in Nat /\ Before(i + 1) \in Nat /\ Before(i + 1) <= Len(Filtered) /\ Len(Filtered) \in Nat
    BY <1>2, ShardBounds
  <1>4. \A k \in 1..(Before(i + 1) - Before(i)) : Before(i) + k \in 1..Len(Filtered)
    BY <1>3
  <1>5. \A k \in 1..Len(seriesShard(Filtered, i)) : seriesShard(Filtered, i)[k] \in in.match
    BY <1>1, <1>4, FilteredSeries, Zenon
  <1>6. DOMAIN seriesShard(Filtered, i) = 1..Len(seriesShard(Filtered, i))
    BY <1>1
  <1> QED
    BY <1>1, <1>5, <1>6 DEF Range

(* Series of one shard. *)
LEMMA LoadShardKeeps ==
  ASSUME IInv, NEW i \in Shards, LoadShard(i)
  PROVE  IInv'
  <1>1. /\ pc = "series" /\ pc' = pc /\ in' = in /\ in \in Inputs /\ Loading /\ Failures /\ TypeOK /\ Shape
        /\ UNCHANGED <<in, offsets, shardVars, pending, inVectors, failed, aggVars, pc>>
    BY Zenon DEF LoadShard, IInv, TypeOK
  <1>2. Query' = Query /\ Filtered' = Filtered
    BY <1>1, SameQuery
  <1> DEFINE new == IF selector = "failed" THEN <<>> ELSE seriesShard(Filtered, i)
  <1>3. new \in Seq(Nat) /\ Range(new) \subseteq in.match
    <2>1. <<>> \in Seq(Nat) /\ Range(<<>>) \subseteq in.match
      BY DEF Range
    <2> QED
      BY <1>1, <2>1, ShardRange, Zenon
  <1>4. shard' = [shard EXCEPT ![i] = new] /\ loaded' = loaded \cup {i} /\ selector' = IF selector = "new" THEN "ok" ELSE selector
    BY DEF LoadShard
  <1> HIDE DEF new
  <1>5. shard' \in [Shards -> Seq(Nat)] /\ shard'[i] = new /\ \A j \in Shards : j # i => shard'[j] = shard[j]
    BY <1>1, <1>3, <1>4, Zenon DEF Shape
  <1>6. TypeOK'
    <2>1. \A j \in Shards : /\ Range(shard'[j]) \subseteq in.match
                            /\ curSeries'[j] \in 0..Len(shard'[j]) /\ curStep'[j] \in 1..(NumSteps + 1)
                            /\ Len(inVectors'[j]) \in 0..StepsBatch
      <3> SUFFICES ASSUME NEW j \in Shards
                   PROVE  /\ Range(shard'[j]) \subseteq in.match
                          /\ curSeries'[j] \in 0..Len(shard'[j]) /\ curStep'[j] \in 1..(NumSteps + 1)
                          /\ Len(inVectors'[j]) \in 0..StepsBatch
        OBVIOUS
      <3>1. Range(shard'[j]) \subseteq in.match
        BY <1>1, <1>3, <1>5, Zenon DEF TypeOK
      <3>2. curSeries'[j] = 0 /\ Len(shard'[j]) \in Nat
        BY <1>1, <1>5 DEF Loading, shardVars
      <3>3. curStep'[j] \in 1..(NumSteps + 1) /\ Len(inVectors'[j]) \in 0..StepsBatch
        BY <1>1, Zenon DEF TypeOK, shardVars
      <3> QED
        BY <3>1, <3>2, <3>3
    <2> QED
      BY <1>1, <1>4, <2>1, Zenon DEF TypeOK, shardVars, aggVars
  <1>7. Shape'
    BY <1>1, <1>2, <1>5 DEF Shape, shardVars, aggVars
  <1>8. Failures'
    BY <1>1, <1>4 DEF Failures
  <1>9. Loading'
    <2>1. ASSUME ~failed, NEW j \in loaded'
          PROVE  shard'[j] = seriesShard(Filtered, j)
      <3>1. selector # "failed"
        BY <1>1, <2>1 DEF Failures
      <3>2. j # i => j \in loaded /\ j \in Shards
        BY <1>1, <1>4, Zenon DEF TypeOK
      <3> QED
        BY <1>1, <1>5, <2>1, <3>1, <3>2, Zenon DEF Loading, new
    <2>2. \A j : seriesShard(Filtered, j)' = seriesShard(Filtered, j)
      BY <1>2 DEF seriesShard
    <2>3. selector' # "new"
      BY <1>4
    <2> QED
      BY <1>1, <2>1, <2>2, <2>3, Zenon DEF Loading, shardVars, aggVars
  <1> QED
    BY <1>1, <1>6, <1>7, <1>8, <1>9 DEF IInv

(* The load of the shared selector fails for the first shard. *)
LEMMA LoadFailsKeeps ==
  ASSUME IInv, NEW i \in Shards, LoadFails(i)
  PROVE  IInv'
  <1>1. /\ pc = "series" /\ pc' = pc /\ in' = in /\ Loading /\ TypeOK /\ Shape
        /\ selector' = "failed" /\ loaded' = loaded \cup {i} /\ failed'
        /\ UNCHANGED <<in, shard, offsets, shardVars, pending, inVectors, aggVars, pc>>
    BY DEF LoadFails, Reported, IInv
  <1>2. Query' = Query
    BY <1>1, SameQuery
  <1>3. {failed', hasLast'} \subseteq BOOLEAN
    <2>1. failed' \in BOOLEAN
      BY Zenon DEF LoadFails, Reported
    <2>2. hasLast' \in BOOLEAN
      BY <1>1, Zenon DEF TypeOK, aggVars
    <2> QED
      BY <2>1, <2>2
  <1>4. TypeOK'
    BY <1>1, <1>3, Zenon DEF TypeOK, shardVars, aggVars
  <1>5. Shape'
    BY <1>1, <1>2 DEF Shape, shardVars, aggVars
  <1>6. Failures' /\ Loading'
    BY <1>1 DEF Failures, Loading, shardVars, aggVars
  <1> QED
    BY <1>1, <1>4, <1>5, <1>6 DEF IInv

(* The first window starts at the first step. *)
LEMMA FirstWindow ==
  /\ First(0) = 1 /\ Cut(1) = 1
  /\ \A c \in Nat : First(c) \in Nat /\ First(c) >= 1 /\ First(c + 1) = First(c) + StepsBatch
  <1>1. StepsBatch \in Nat /\ NumSteps \in Nat
    BY StepsAssumption
  <1>2. First(0) = 1 /\ Cut(1) = 1
    BY <1>1 DEF First, Cut
  <1>3. ASSUME NEW c \in Nat
        PROVE  First(c) \in Nat /\ First(c) >= 1 /\ First(c + 1) = First(c) + StepsBatch
    <2>1. c * StepsBatch \in Nat /\ (c + 1) * StepsBatch = c * StepsBatch + StepsBatch
      BY <1>1
    <2> QED
      BY <1>1, <2>1 DEF First
  <1> QED
    BY <1>2, <1>3

(* All shards have answered: without a failure all have their series. *)
LEMMA SeriesLoadedKeeps ==
  ASSUME IInv, SeriesLoaded
  PROVE  IInv'
  <1>1. /\ pc = "series" /\ loaded = Shards /\ in' = in /\ in \in Inputs /\ Loading /\ TypeOK /\ Shape /\ Failures
        /\ UNCHANGED <<in, selector, shard, loaded, shardVars, pending, inVectors, failed, aggVars>>
    BY Zenon DEF SeriesLoaded, IInv, TypeOK
  <1>2. Query' = Query /\ Filtered' = Filtered
    BY <1>1, SameQuery
  <1>3. pc' \in {"failed", "idle"} /\ (failed => pc' = "failed") /\ (~failed => pc' = "idle")
    BY DEF SeriesLoaded
  <1>4. TypeOK'
    BY <1>1, <1>3, Zenon DEF TypeOK, shardVars, aggVars
  <1>5. Shape'
    BY <1>1, <1>2 DEF Shape, shardVars, aggVars
  <1>6. Failures'
    BY <1>1, <1>3 DEF Failures
  <1>7. ASSUME ~failed
        PROVE  Running'
    <2>1. Sharded
      BY <1>1, <1>7 DEF Loading, Shape, Sharded
    <2>2. Sharded'
      <3>1. \A i : seriesShard(Filtered, i)' = seriesShard(Filtered, i)
        BY <1>2 DEF seriesShard
      <3> QED
        BY <1>1, <2>1, <3>1 DEF Sharded
    <2>3. (offsets = [i \in Shards |-> Before(i)])'
      <3>1. \A i \in Shards : Len(appended[i - 1]) = Before(i)
        BY <1>1, <2>1, AppendedSeries, Zenon
      <3>2. offsets' = [i \in Shards |-> Len(appended[i - 1])]
        BY <1>7 DEF SeriesLoaded
      <3>3. \A i : Before(i)' = Before(i)
        BY <1>2 DEF Before
      <3> QED
        BY <3>1, <3>2, <3>3
    <2>4. Exhausted' /\ loaded' = Shards
      BY <1>1, Zenon DEF Exhausted, Loading, shardVars
    <2>5. calls' = 0 /\ ~hasLast' /\ out' = <<>> /\ First(0) = 1 /\ Cut(1) = 1
      BY <1>1, FirstWindow, Zenon DEF Loading, aggVars
    <2>6. \A i \in Shards : inVectors'[i] = <<>> /\ curStep'[i] = Cut(1) /\ curSeries'[i] = 0
      BY <1>1, <2>5, Zenon DEF Loading, shardVars
    <2>7. \A i \in Shards : NewNow(i, 1)'
      BY <2>6, Zenon DEF NewNow, New
    <2>8. Lookahead(First(calls))'
      BY <2>5, <2>7 DEF Lookahead
    <2>9. OutAt(First(calls))'
      BY <2>5 DEF OutAt
    <2>10. pc' = "idle"
      BY <1>3, <1>7
    <2> QED
      BY <2>2, <2>3, <2>4, <2>8, <2>9, <2>10 DEF Running
  <1> QED
    BY <1>3, <1>4, <1>5, <1>6, <1>7 DEF IInv

(* Steps that leave the shards and the tables alone keep what is aggregated. *)
LEMMA SameAggregated ==
  ASSUME UNCHANGED <<load, shardVars, inVectors, tables, numTables>>, NEW v
  PROVE  Aggregated(v)' <=> Aggregated(v)
  <1>1. Query' = Query
    BY SameShards
  <1>2. \A i, d : (ShardNow(i, v, d)' <=> ShardNow(i, v, d)) /\ (NewNow(i, v)' <=> NewNow(i, v))
    BY <1>1, Zenon DEF ShardNow, NewNow, shardVars
  <1>3. (TablesNew(v)' <=> TablesNew(v)) /\ \A g : TablesFull(v, g)' <=> TablesFull(v, g)
    BY <1>1, Zenon DEF TablesNew, TablesFull
  <1> QED
    BY <1>1, <1>2, <1>3 DEF Aggregated

=============================================================================
