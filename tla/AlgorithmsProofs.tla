---------------------------- MODULE AlgorithmsProofs ---------------------------
(***************************************************************************)
(* Theorems about the pure algorithms: the statistics of scores            *)
(* (Statistics), the evaluators (Evaluators) and the validation memo       *)
(* (Compliance), for inputs of every size.                                 *)
(*                                                                         *)
(* What is computed along a sequence is reached by a least counterexample: *)
(* UpTo and Recursion stand in for induction.                              *)
(***************************************************************************)
EXTENDS Statistics, Evaluators, Compliance, Integers, SequenceTheorems, FiniteSetTheorems,
        WellFoundedInduction, TLAPS

-----------------------------------------------------------------------------
(* Verdicts of a judge.                                                    *)

\* A verdict that names the first or the second text.
Naming == [winner: {"first", "second"}, confidence: Confidence]

Margin(opinion) ==
  CASE opinion.confidence = "high" -> 40
    [] opinion.confidence = "low" -> 10
    [] OTHER -> 25

LEMMA MarginIs ==
  ASSUME NEW o \in Naming
  PROVE  Margin(o) \in {10, 25, 40}
BY DEF Naming, Confidence, Margin

\* The verdict on a pair as it counts, by which label is given to the first text.
LEMMA VerdictCounts ==
  ASSUME NEW judge, NEW x, NEW y, NEW o \in Naming, judge[<<x, y>>] = o
  PROVE  /\ Ask(judge, x, y, "A") # NoAnswer /\ Ask(judge, x, y, "B") # NoAnswer
         /\ ParseWinner(Ask(judge, x, y, "A")) =
              IF o.winner = "first" THEN 50 + Margin(o) ELSE 50 - Margin(o)
         /\ ParseWinner(Ask(judge, x, y, "B")) =
              IF o.winner = "first" THEN 50 - Margin(o) ELSE 50 + Margin(o)
<1>1. o # NoAnswer /\ o.winner \in {"first", "second"} /\ o.confidence \in Confidence
  BY DEF Naming, NoAnswer, Confidence
<1>2. /\ Ask(judge, x, y, "A") =
           [winner |-> IF o.winner = "first" THEN "A" ELSE "B", confidence |-> o.confidence]
      /\ Ask(judge, x, y, "B") =
           [winner |-> IF o.winner = "first" THEN "B" ELSE "A", confidence |-> o.confidence]
  BY <1>1 DEF Ask
<1>3. \A w : [winner |-> w, confidence |-> o.confidence] # NoAnswer
  BY <1>1 DEF NoAnswer, Confidence
<1>4. /\ ParseWinner([winner |-> "A", confidence |-> o.confidence]) = 50 + Margin(o)
      /\ ParseWinner([winner |-> "B", confidence |-> o.confidence]) = 50 - Margin(o)
  BY DEF ParseWinner, Margin
<1> QED
  BY <1>1, <1>2, <1>3, <1>4

\* Judged in both orders, two texts get the scores that they get the other way round,
\* mirrored at 50: whatever a judge prefers because of its position cancels out
\* (run_pairwise_preference with debiasing, _parse_winner).
THEOREM SwapsMirror ==
  ASSUME NEW a, NEW b, NEW judge,
         {judge[<<a, b>>], judge[<<b, a>>]} \subseteq
           {NoAnswer} \union [winner: {"first", "second", "none"}, confidence: Confidence]
  PROVE  SwapMirrors(judge, a, b)
<1> DEFINE o == judge[<<a, b>>]
           q == judge[<<b, a>>]
           ab == PairwisePreference(judge, a, b, TRUE)
           ba == PairwisePreference(judge, b, a, TRUE)
           s(p) == IF p.winner = "first" THEN 50 + Margin(p) ELSE 50 - Margin(p)
           r(p) == IF p.winner = "first" THEN 50 - Margin(p) ELSE 50 + Margin(p)
<1> SUFFICES ASSUME NoAnswer \notin {o, q}, {o.winner, q.winner} \subseteq {"first", "second"}
             PROVE  /\ 2 * 100 - 2 * ab.score - 2 * ba.score \in 0 .. 2
                    /\ o = q => ab.score = 50
                    /\ o.winner # q.winner => (ab.score > 50 <=> o.winner = "first")
  BY DEF SwapMirrors
<1>1. o \in Naming /\ q \in Naming
  BY DEF Naming
<1>2. /\ Ask(judge, a, b, "A") # NoAnswer /\ Ask(judge, a, b, "B") # NoAnswer
      /\ ParseWinner(Ask(judge, a, b, "A")) = s(o)
      /\ ParseWinner(Ask(judge, a, b, "B")) = r(o)
  BY <1>1, VerdictCounts
<1>3. /\ Ask(judge, b, a, "A") # NoAnswer /\ Ask(judge, b, a, "B") # NoAnswer
      /\ ParseWinner(Ask(judge, b, a, "A")) = s(q)
      /\ ParseWinner(Ask(judge, b, a, "B")) = r(q)
  BY <1>1, VerdictCounts
<1>4. ab = Result(TRUE, (s(o) + r(q)) \div 2) /\ ba = Result(TRUE, (s(q) + r(o)) \div 2)
  BY <1>2, <1>3 DEF PairwisePreference
<1>5. ab.score = (s(o) + r(q)) \div 2 /\ ba.score = (s(q) + r(o)) \div 2
  <2>1. \A n : Result(TRUE, n).score = n
    BY DEF Result
  <2> HIDE DEF ab, ba
  <2> QED
    BY <1>4, <2>1
<1>6. Margin(o) \in {10, 25, 40} /\ Margin(q) \in {10, 25, 40}
  BY <1>1, MarginIs
<1>7. o.winner \in {"first", "second"} /\ q.winner \in {"first", "second"}
  OBVIOUS
<1>8. o = q => Margin(o) = Margin(q)
  OBVIOUS
<1> HIDE DEF o, q, ab, ba
<1>9. CASE o.winner = "first" /\ q.winner = "first"
  <2>1. ab.score = (100 + Margin(o) - Margin(q)) \div 2
        /\ ba.score = (100 + Margin(q) - Margin(o)) \div 2
    BY <1>5, <1>6, <1>9
  <2> QED
    BY <1>6, <1>8, <1>9, <2>1
<1>10. CASE o.winner = "second" /\ q.winner = "second"
  <2>1. ab.score = (100 - Margin(o) + Margin(q)) \div 2
        /\ ba.score = (100 - Margin(q) + Margin(o)) \div 2
    BY <1>5, <1>6, <1>10
  <2> QED
    BY <1>6, <1>8, <1>10, <2>1
<1>11. CASE o.winner = "first" /\ q.winner = "second"
  <2>1. ab.score = (100 + Margin(o) + Margin(q)) \div 2
        /\ ba.score = (100 - Margin(q) - Margin(o)) \div 2
    BY <1>5, <1>6, <1>11
  <2> QED
    BY <1>6, <1>11, <2>1
<1>12. CASE o.winner = "second" /\ q.winner = "first"
  <2>1. ab.score = (100 - Margin(o) - Margin(q)) \div 2
        /\ ba.score = (100 + Margin(q) + Margin(o)) \div 2
    BY <1>5, <1>6, <1>12
  <2> QED
    BY <1>6, <1>12, <2>1
<1> QED
  BY <1>7, <1>9, <1>10, <1>11, <1>12
-----------------------------------------------------------------------------
(* Least and greatest.                                                     *)

LEMMA LeastOfNaturals ==
  ASSUME NEW R \in SUBSET Nat, R # {}
  PROVE  \E n \in R : \A y \in R : n <= y
<1> DEFINE L == OpToRel(<, Nat)
<1>1. IsWellFoundedOn(L, Nat)
  BY NatLessThanWellFounded, Zenon
<1>2. \A n, m \in Nat : m < n => <<m, n>> \in L
  BY DEF OpToRel
<1> HIDE DEF L
<1>3. \E n \in R : \A m \in R : ~ (<<m, n>> \in L)
  BY <1>1, WFMin
<1>4. PICK n \in R : \A m \in R : ~ (m < n)
  BY <1>2, <1>3
<1> QED
  BY <1>4

\* What holds of 0 and goes from each number to the next holds up to any number.
LEMMA UpTo ==
  ASSUME NEW n \in Nat, NEW S, 0 \in S, \A k \in 0 .. (n - 1) : k \in S => k + 1 \in S
  PROVE  \A k \in 0 .. n : k \in S
<1> SUFFICES ASSUME NEW k \in 0 .. n, k \notin S
             PROVE  FALSE
  OBVIOUS
<1> DEFINE R == {i \in 0 .. n : i \notin S}
<1>1. PICK m \in R : \A y \in R : m <= y
  <2>1. R \in SUBSET Nat /\ R # {}
    OBVIOUS
  <2> HIDE DEF R
  <2> QED
    BY <2>1, LeastOfNaturals
<1>2. m # 0 /\ m \in 1 .. n
  OBVIOUS
<1>3. m - 1 \in 0 .. (n - 1) /\ m - 1 \in 0 .. n /\ (m - 1) + 1 = m
  BY <1>2
<1>4. m - 1 \notin R
  BY <1>1, <1>2, <1>3
<1> QED
  BY <1>2, <1>3, <1>4

\* A finite set has an element that a total preorder, given as the relation of its
\* pairs, puts first.
LEMMA FirstOfFinite ==
  ASSUME NEW T, IsFiniteSet(T), T # {}, NEW L,
         \A x, y \in T : <<x, y>> \in L \/ <<y, x>> \in L,
         \A x, y, z \in T : <<x, y>> \in L /\ <<y, z>> \in L => <<x, z>> \in L
  PROVE  \E x \in T : \A y \in T : <<x, y>> \in L
<1> DEFINE n == Cardinality(T)
           After(x) == {y \in T : ~ (<<x, y>> \in L)}
           Sizes == {Cardinality(After(x)) : x \in T}
<1>1. \A x \in T : IsFiniteSet(After(x)) /\ Cardinality(After(x)) \in Nat
  BY FS_Subset, FS_CardinalityType
<1>2. Sizes \in SUBSET Nat /\ Sizes # {}
  <2> HIDE DEF After
  <2> QED
    BY <1>1
<1>3. PICK k \in Sizes : \A y \in Sizes : k <= y
  <2> HIDE DEF Sizes
  <2> QED
    BY <1>2, LeastOfNaturals
<1>4. PICK x \in T : k = Cardinality(After(x))
  OBVIOUS
<1>5. ASSUME NEW y \in T, ~ (<<x, y>> \in L) PROVE FALSE
  <2>1. <<y, x>> \in L
    BY <1>5
  <2>2. After(y) \subseteq After(x) /\ y \in After(x) /\ y \notin After(y)
    BY <1>5, <2>1
  <2>3. After(y) \subseteq After(x) \ {y}
    BY <2>2
  <2>4. /\ IsFiniteSet(After(x) \ {y})
        /\ Cardinality(After(x) \ {y}) = Cardinality(After(x)) - 1
    BY <1>1, <2>2, FS_RemoveElement
  <2>5. Cardinality(After(y)) <= Cardinality(After(x) \ {y})
    BY <2>3, <2>4, FS_Subset
  <2>6. Cardinality(After(x)) <= Cardinality(After(y))
    <3>1. Cardinality(After(y)) \in Sizes
      OBVIOUS
    <3> HIDE DEF After, Sizes
    <3> QED
      BY <1>3, <1>4, <3>1
  <2>7. Cardinality(After(x)) \in Nat /\ Cardinality(After(y)) \in Nat
    BY <1>1
  <2> HIDE DEF After
  <2> QED
    BY <2>4, <2>5, <2>6, <2>7
<1> QED
  BY <1>5

LEMMA FunctionIsSeq ==
  ASSUME NEW W, NEW n \in Nat, NEW c \in [1 .. n -> W]
  PROVE  c \in Seq(W) /\ Len(c) = n /\ DOMAIN c = 1 .. n
<1>1. c \in Seq(W)
  <2>1. [i \in 1 .. n |-> c[i]] \in Seq(W)
    <3>1. \A i \in 1 .. n : c[i] \in W
      OBVIOUS
    <3> QED
      BY <3>1, IsASeq
  <2>2. c = [i \in 1 .. n |-> c[i]]
    OBVIOUS
  <2> QED
    BY <2>1, <2>2
<1>2. 1 .. Len(c) = 1 .. n /\ Len(c) \in Nat
  BY <1>1, LenProperties
<1>3. Len(c) = n
  BY <1>2
<1> QED
  BY <1>1, <1>3
-----------------------------------------------------------------------------
(* Fractions.                                                              *)

Positive == Nat \ {0}
Fraction == [num: Nat, den: Positive]

LEMMA Scaling ==
  ASSUME NEW x \in Int, NEW y \in Int, NEW n \in Positive
  PROVE  /\ x <= y <=> x * n <= y * n
         /\ x < y <=> x * n < y * n
<1>1. n \in Nat /\ n > 0
  BY DEF Positive
<1>2. CASE x < y
  <2>1. x * n < y * n
    BY <1>1, <1>2, Z3T(20)
  <2>2. x * n \in Int /\ y * n \in Int
    BY <1>1
  <2> QED
    BY <1>2, <2>1, <2>2
<1>3. CASE x = y
  BY <1>1, <1>3
<1>4. CASE x > y
  <2>1. x * n > y * n
    BY <1>1, <1>4, Z3T(20)
  <2>2. x * n \in Int /\ y * n \in Int
    BY <1>1
  <2> QED
    BY <1>4, <2>1, <2>2
<1> QED
  BY <1>2, <1>3, <1>4

LEMMA OverIs ==
  ASSUME NEW n \in Nat, NEW d \in Positive
  PROVE  Over(n, d) \in Fraction /\ Over(n, d).num = n /\ Over(n, d).den = d
BY DEF Over, Fraction

LEMMA LeqTransitive ==
  ASSUME NEW f \in Fraction, NEW g \in Fraction, NEW h \in Fraction, Leq(f, g), Leq(g, h)
  PROVE  Leq(f, h)
<1> DEFINE a == f.num
           b == f.den
           c == g.num
           d == g.den
           e == h.num
           k == h.den
<1>1. a \in Nat /\ c \in Nat /\ e \in Nat /\ b \in Positive /\ d \in Positive /\ k \in Positive
  BY DEF Fraction
<1>2. a * d <= c * b /\ c * k <= e * d
  BY DEF Leq
<1> SUFFICES a * k <= e * b
  BY DEF Leq
<1> HIDE DEF a, b, c, d, e, k
<1>3. /\ a * d \in Int /\ c * b \in Int /\ c * k \in Int
      /\ e * d \in Int /\ a * k \in Int /\ e * b \in Int
  BY <1>1 DEF Positive
<1>4. (a * d) * k <= (c * b) * k
  BY <1>1, <1>2, <1>3, Scaling
<1>5. (c * k) * b <= (e * d) * b
  BY <1>1, <1>2, <1>3, Scaling
<1>6. /\ (a * d) * k = (a * k) * d /\ (c * b) * k = (c * k) * b /\ (e * d) * b = (e * b) * d
  BY <1>1 DEF Positive
<1>7. (a * k) * d <= (e * b) * d
  <2>1. (a * k) * d \in Int /\ (c * k) * b \in Int /\ (e * b) * d \in Int
    BY <1>1, <1>3 DEF Positive
  <2> QED
    BY <1>4, <1>5, <1>6, <2>1
<1> QED
  BY <1>1, <1>3, <1>7, Scaling

LEMMA LeqTotal ==
  ASSUME NEW f \in Fraction, NEW g \in Fraction
  PROVE  (Leq(f, g) \/ Leq(g, f)) /\ (Lt(f, g) <=> ~ Leq(g, f))
<1>1. f.num * g.den \in Int /\ g.num * f.den \in Int
  BY DEF Fraction, Positive
<1> QED
  BY <1>1 DEF Leq, Lt

LEMMA LeastIs ==
  ASSUME NEW F, F \subseteq Fraction, IsFiniteSet(F), F # {}
  PROVE  LeastOf(F) \in F /\ \A g \in F : Leq(LeastOf(F), g)
<1> DEFINE L == {x \in Fraction \X Fraction : Leq(x[1], x[2])}
<1>1. \A f, g \in F : <<f, g>> \in L <=> Leq(f, g)
  OBVIOUS
<1>2. \A f, g \in F : <<f, g>> \in L \/ <<g, f>> \in L
  BY <1>1, LeqTotal
<1>3. \A f, g, h \in F : <<f, g>> \in L /\ <<g, h>> \in L => <<f, h>> \in L
  BY <1>1, LeqTransitive
<1> HIDE DEF L
<1>4. \E f \in F : \A g \in F : <<f, g>> \in L
  BY <1>2, <1>3, FirstOfFinite
<1>5. \E f \in F : \A g \in F : Leq(f, g)
  BY <1>1, <1>4
<1> QED
  BY <1>5 DEF LeastOf

-----------------------------------------------------------------------------
(* The step-up procedure.                                                  *)

\* Test i comes before test j in the order of the p-values, or is j.
Before(p, i, j) == p[i] < p[j] \/ (p[i] = p[j] /\ i <= j)

LEMMA SeqOfPercents ==
  ASSUME NEW p \in Seq(0 .. 100)
  PROVE  /\ Len(p) \in Nat /\ DOMAIN p = 1 .. Len(p)
         /\ \A i \in 1 .. Len(p) : p[i] \in 0 .. 100 /\ p[i] \in Nat
<1>1. Len(p) \in Nat /\ DOMAIN p = 1 .. Len(p)
  BY LenProperties
<1>2. ASSUME NEW i \in 1 .. Len(p) PROVE p[i] \in 0 .. 100 /\ p[i] \in Nat
  <2>1. p[i] \in 0 .. 100
    BY ElementOfSeq
  <2>2. 0 .. 100 \subseteq Nat
    OBVIOUS
  <2> QED
    BY <2>1, <2>2, Zenon
<1> QED
  BY <1>1, <1>2

LEMMA BeforeIs ==
  ASSUME NEW p \in Seq(0 .. 100), NEW i \in 1 .. Len(p), NEW j \in 1 .. Len(p)
  PROVE  /\ Before(p, i, i)
         /\ \A k \in 1 .. Len(p) : Before(p, k, i) /\ Before(p, i, j) => Before(p, k, j)
         /\ ~ Before(p, i, j) => Before(p, j, i)
         /\ Before(p, i, j) /\ Before(p, j, i) => i = j
<1>1. p[i] \in Nat /\ p[j] \in Nat /\ \A k \in 1 .. Len(p) : p[k] \in Nat
  BY SeqOfPercents
<1>2. i \in Nat /\ j \in Nat /\ \A k \in 1 .. Len(p) : k \in Nat
  BY SeqOfPercents
<1>3. ASSUME NEW k \in 1 .. Len(p), Before(p, k, i), Before(p, i, j)
      PROVE  Before(p, k, j)
  <2>1. p[k] \in Nat /\ k \in Nat
    BY <1>1, <1>2
  <2> QED
    BY <1>1, <1>2, <1>3, <2>1 DEF Before
<1>4. /\ Before(p, i, i)
      /\ ~ Before(p, i, j) => Before(p, j, i)
      /\ Before(p, i, j) /\ Before(p, j, i) => i = j
  BY <1>1, <1>2 DEF Before
<1> QED
  BY <1>3, <1>4

LEMMA RankIs ==
  ASSUME NEW p \in Seq(0 .. 100), NEW i \in 1 .. Len(p)
  PROVE  /\ RankOf(p, i) \in 1 .. Len(p)
         /\ \A j \in 1 .. Len(p) : RankOf(p, i) <= RankOf(p, j) <=> Before(p, i, j)
<1> DEFINE n == Len(p)
           Set(j) == {k \in 1 .. n : Before(p, k, j)}
<1>1. n \in Nat /\ DOMAIN p = 1 .. n
  BY SeqOfPercents
<1>2. \A j \in 1 .. n : RankOf(p, j) = Cardinality(Set(j))
  BY <1>1 DEF RankOf, Before
<1>3. IsFiniteSet(1 .. n) /\ Cardinality(1 .. n) = n
  <2>1. 1 \in Int /\ n \in Int /\ (IF 1 > n THEN 0 ELSE n - 1 + 1) = n
    BY <1>1
  <2> QED
    BY <2>1, FS_Interval
<1>4. ASSUME NEW j \in 1 .. n
      PROVE  /\ j \in Set(j) /\ Set(j) \subseteq 1 .. n /\ IsFiniteSet(Set(j))
             /\ Cardinality(Set(j)) \in 1 .. n
  <2>1. j \in Set(j) /\ Set(j) \subseteq 1 .. n
    BY BeforeIs
  <2>2. /\ IsFiniteSet(Set(j)) /\ Cardinality(Set(j)) \in Nat /\ Cardinality(Set(j)) <= n
    BY <1>3, <2>1, FS_Subset, FS_CardinalityType
  <2>3. Cardinality(Set(j)) # 0
    BY <2>1, <2>2, FS_EmptySet
  <2> HIDE DEF Set
  <2> QED
    BY <1>1, <2>1, <2>2, <2>3
<1>5. ASSUME NEW j \in 1 .. n
      PROVE  Cardinality(Set(i)) <= Cardinality(Set(j)) <=> Before(p, i, j)
  <2>0. Cardinality(Set(i)) \in Nat /\ Cardinality(Set(j)) \in Nat
    <3>1. Cardinality(Set(i)) \in 1 .. n /\ Cardinality(Set(j)) \in 1 .. n
      BY <1>4
    <3> HIDE DEF Set
    <3> QED
      BY <1>1, <3>1
  <2>1. CASE Before(p, i, j)
    <3>1. Set(i) \subseteq Set(j)
      BY <2>1, BeforeIs
    <3>2. Cardinality(Set(i)) <= Cardinality(Set(j))
      BY <1>4, <3>1, FS_Subset
    <3> QED
      BY <2>1, <3>2
  <2>2. CASE ~ Before(p, i, j)
    <3>1. Set(j) \subseteq Set(i) \ {i}
      <4> SUFFICES ASSUME NEW k \in Set(j) PROVE k \in Set(i) /\ k # i
        OBVIOUS
      <4>1. k \in 1 .. n /\ Before(p, k, j) /\ Before(p, j, i)
        BY <2>2, BeforeIs
      <4> QED
        BY <2>2, <4>1, BeforeIs
    <3>2. i \in Set(i) /\ IsFiniteSet(Set(i)) /\ IsFiniteSet(Set(j))
      BY <1>4
    <3>3. /\ IsFiniteSet(Set(i) \ {i})
          /\ Cardinality(Set(i) \ {i}) = Cardinality(Set(i)) - 1
      BY <3>2, FS_RemoveElement
    <3>4. Cardinality(Set(j)) <= Cardinality(Set(i) \ {i})
      BY <3>1, <3>3, FS_Subset
    <3>5. ~ (Cardinality(Set(i)) <= Cardinality(Set(j)))
      <4> HIDE DEF Set
      <4> QED
        BY <2>0, <3>3, <3>4
    <3> QED
      BY <2>2, <3>5
  <2> QED
    BY <2>1, <2>2
<1> HIDE DEF Set
<1> QED
  BY <1>2, <1>4, <1>5
LEMMA LeqLt ==
  ASSUME NEW f \in Fraction, NEW g \in Fraction, NEW h \in Fraction
  PROVE  /\ Leq(f, g) /\ Lt(g, h) => Lt(f, h)
         /\ Lt(f, g) /\ Leq(g, h) => Lt(f, h)
         /\ Lt(f, g) => Leq(f, g)
         /\ Leq(f, f)
<1>1. /\ Lt(f, g) <=> ~ Leq(g, f)
      /\ Lt(g, h) <=> ~ Leq(h, g)
      /\ Lt(f, h) <=> ~ Leq(h, f)
      /\ Leq(f, g) \/ Leq(g, f)
      /\ Leq(f, f)
  BY LeqTotal
<1>2. Leq(h, f) /\ Leq(f, g) => Leq(h, g)
  BY LeqTransitive
<1>3. Leq(g, h) /\ Leq(h, f) => Leq(g, f)
  BY LeqTransitive
<1> QED
  BY <1>1, <1>2, <1>3

LEMMA OverCompares ==
  ASSUME NEW a \in Nat, NEW b \in Positive, NEW c \in Nat, NEW d \in Positive
  PROVE  /\ Leq(Over(a, b), Over(c, d)) <=> a * d <= c * b
         /\ Lt(Over(a, b), Over(c, d)) <=> a * d < c * b
BY OverIs DEF Leq, Lt

LEMMA TimesGrows ==
  ASSUME NEW a \in Nat, NEW b \in Nat, NEW c \in Nat, NEW d \in Nat, a <= b, c <= d
  PROVE  a * c \in Nat /\ b * d \in Nat /\ a * c <= b * d
<1>1. a * c <= b * c
  BY Z3T(20)
<1>2. b * c <= b * d
  BY Z3T(20)
<1>3. a * c \in Nat /\ b * c \in Nat /\ b * d \in Nat
  BY Z3T(20)
<1> QED
  BY <1>1, <1>2, <1>3

\* What test j gives to those of lower rank, and what test i is given.
Adjustment(p, j) == Over(p[j] * Len(p), RankOf(p, j))
NotLower(p, i) == {k \in DOMAIN p : RankOf(p, k) >= RankOf(p, i)}
Adjustments(p, i) == {Adjustment(p, j) : j \in NotLower(p, i)}
Capped(f) == IF Lt(Over(100, 1), f) THEN Over(100, 1) ELSE f

LEMMA AdjustmentIs ==
  ASSUME NEW p \in Seq(0 .. 100), NEW j \in 1 .. Len(p)
  PROVE  /\ Adjustment(p, j) \in Fraction
         /\ p[j] * Len(p) \in Nat /\ RankOf(p, j) \in Positive /\ RankOf(p, j) <= Len(p)
         /\ \A x \in Nat : Lt(Adjustment(p, j), Over(x, 1)) <=>
                             p[j] * Len(p) < x * RankOf(p, j)
<1>1. p[j] \in Nat /\ Len(p) \in Nat
  BY SeqOfPercents
<1>2. RankOf(p, j) \in 1 .. Len(p)
  BY RankIs
<1>3. p[j] * Len(p) \in Nat /\ RankOf(p, j) \in Positive /\ RankOf(p, j) <= Len(p)
  <2>1. p[j] * Len(p) \in Nat
    BY <1>1, TimesGrows
  <2> QED
    BY <1>1, <1>2, <2>1 DEF Positive
<1>4. Adjustment(p, j) \in Fraction
  BY <1>3, OverIs DEF Adjustment
<1>5. ASSUME NEW x \in Nat
      PROVE  Lt(Adjustment(p, j), Over(x, 1)) <=> p[j] * Len(p) < x * RankOf(p, j)
  <2>1. 1 \in Positive
    BY DEF Positive
  <2>2. Lt(Adjustment(p, j), Over(x, 1)) <=> (p[j] * Len(p)) * 1 < x * RankOf(p, j)
    BY <1>3, <2>1, OverCompares DEF Adjustment
  <2> QED
    BY <1>3, <2>2
<1> QED
  BY <1>3, <1>4, <1>5

LEMMA AdjustmentsAre ==
  ASSUME NEW p \in Seq(0 .. 100), NEW i \in 1 .. Len(p)
  PROVE  /\ Adjustments(p, i) \subseteq Fraction
         /\ Adjustment(p, i) \in Adjustments(p, i)
         /\ LeastOf(Adjustments(p, i)) \in Adjustments(p, i)
         /\ \A f \in Adjustments(p, i) : Leq(LeastOf(Adjustments(p, i)), f)
         /\ Adjusted(p, i) = Capped(LeastOf(Adjustments(p, i)))
<1>1. DOMAIN p = 1 .. Len(p) /\ Len(p) \in Nat
  BY SeqOfPercents
<1>2. Adjustments(p, i) \subseteq Fraction
  BY <1>1, AdjustmentIs DEF Adjustments, NotLower
<1>3. RankOf(p, i) \in Nat
  <2>1. RankOf(p, i) \in 1 .. Len(p)
    BY RankIs
  <2> QED
    BY <1>1, <2>1
<1>4. Adjustment(p, i) \in Adjustments(p, i)
  BY <1>1, <1>3 DEF Adjustments, NotLower
<1>5. IsFiniteSet(Adjustments(p, i))
  <2>1. IsFiniteSet(1 .. Len(p))
    BY <1>1, FS_Interval
  <2>2. IsFiniteSet(NotLower(p, i))
    BY <1>1, <2>1, FS_Subset DEF NotLower
  <2> DEFINE give == [k \in NotLower(p, i) |-> Adjustment(p, k)]
  <2>3. give \in Surjection(NotLower(p, i), Adjustments(p, i))
    BY DEF Surjection, Adjustments
  <2> QED
    BY <2>2, <2>3, FS_Surjection
<1>6. Adjusted(p, i) = Capped(LeastOf(Adjustments(p, i)))
  BY DEF Adjusted, Capped, Adjustments, Adjustment, NotLower
<1> QED
  BY <1>2, <1>4, <1>5, <1>6, LeastIs

LEMMA CappedIs ==
  ASSUME NEW f \in Fraction
  PROVE  /\ Capped(f) \in Fraction
         /\ Leq(Capped(f), Over(100, 1)) /\ Leq(Capped(f), f)
         /\ \A x \in 0 .. 100 : Lt(Capped(f), Over(x, 1)) <=> Lt(f, Over(x, 1))
         /\ \A g \in Fraction : /\ Leq(g, f) /\ Leq(g, Over(100, 1)) => Leq(g, Capped(f))
                                /\ Leq(g, f) => Leq(Capped(g), Capped(f))
<1> DEFINE one == Over(100, 1)
<1>0. 1 \in Positive
  BY DEF Positive
<1>1. one \in Fraction /\ \A x \in 0 .. 100 : Over(x, 1) \in Fraction /\ Leq(Over(x, 1), one)
  <2>1. one \in Fraction /\ \A x \in 0 .. 100 : Over(x, 1) \in Fraction
    BY <1>0, OverIs
  <2>2. \A x \in 0 .. 100 : Leq(Over(x, 1), one)
    BY <1>0, OverCompares
  <2> QED
    BY <2>1, <2>2
<1>2. \A g \in Fraction : Capped(g) = IF Lt(one, g) THEN one ELSE g
  BY DEF Capped
<1> HIDE DEF one
<1>3. \A g \in Fraction : (Lt(one, g) <=> ~ Leq(g, one)) /\ (Lt(one, g) => Leq(one, g)) /\ Leq(g, g)
  BY <1>1, LeqTotal, LeqLt
<1>4. ASSUME NEW x \in 0 .. 100, Lt(one, f)
      PROVE  ~ Lt(one, Over(x, 1)) /\ ~ Lt(f, Over(x, 1))
  <2>1. ~ Lt(one, Over(x, 1))
    BY <1>1, LeqTotal
  <2>2. Leq(one, f)
    BY <1>3, <1>4
  <2> QED
    BY <1>1, <2>1, <2>2, LeqLt
<1>5. ASSUME NEW g \in Fraction, Leq(g, f)
      PROVE  Leq(Capped(g), Capped(f))
  <2>1. CASE Lt(one, g)
    <3>1. Lt(one, f)
      BY <1>1, <1>5, <2>1, LeqLt
    <3> QED
      BY <1>1, <1>2, <1>3, <2>1, <3>1
  <2>2. CASE ~ Lt(one, g)
    BY <1>1, <1>2, <1>3, <1>5, <2>2
  <2> QED
    BY <2>1, <2>2
<1>6. Capped(f) \in Fraction /\ Leq(Capped(f), one) /\ Leq(Capped(f), f)
  BY <1>1, <1>2, <1>3
<1>7. \A x \in 0 .. 100 : Lt(Capped(f), Over(x, 1)) <=> Lt(f, Over(x, 1))
  BY <1>2, <1>4
<1>8. \A g \in Fraction : Leq(g, f) /\ Leq(g, one) => Leq(g, Capped(f))
  BY <1>2
<1> QED
  BY <1>5, <1>6, <1>7, <1>8 DEF one

\* A test is significant at a level after the adjustment exactly if some test of its
\* rank or a higher one is below its step of the line.
LEMMA AdjustedBelow ==
  ASSUME NEW p \in Seq(0 .. 100), NEW i \in 1 .. Len(p), NEW x \in 0 .. 100
  PROVE  Lt(Adjusted(p, i), Over(x, 1)) <=>
           \E j \in 1 .. Len(p) : /\ RankOf(p, i) <= RankOf(p, j)
                                  /\ p[j] * Len(p) < x * RankOf(p, j)
<1> DEFINE F == Adjustments(p, i)
           f == LeastOf(F)
<1>1. /\ F \subseteq Fraction /\ f \in F /\ \A g \in F : Leq(f, g)
      /\ Adjusted(p, i) = Capped(f)
  BY AdjustmentsAre
<1>2. Lt(Adjusted(p, i), Over(x, 1)) <=> Lt(f, Over(x, 1))
  BY <1>1, CappedIs
<1>3. Lt(f, Over(x, 1)) <=> \E g \in F : Lt(g, Over(x, 1))
  <2>1. Over(x, 1) \in Fraction
    <3>1. 1 \in Positive /\ x \in Nat
      BY DEF Positive
    <3> QED
      BY <3>1, OverIs
  <2> HIDE DEF f, F
  <2> QED
    BY <1>1, <2>1, LeqLt
<1>4. DOMAIN p = 1 .. Len(p) /\ Len(p) \in Nat
  BY SeqOfPercents
<1>5. \A j \in 1 .. Len(p) : RankOf(p, j) \in Nat
  BY <1>4, RankIs
<1>6. (\E g \in F : Lt(g, Over(x, 1))) <=>
         \E j \in 1 .. Len(p) : RankOf(p, i) <= RankOf(p, j) /\ Lt(Adjustment(p, j), Over(x, 1))
  BY <1>4, <1>5 DEF Adjustments, NotLower
<1>7. \A j \in 1 .. Len(p) :
         Lt(Adjustment(p, j), Over(x, 1)) <=> p[j] * Len(p) < x * RankOf(p, j)
  BY AdjustmentIs
<1> HIDE DEF f, F
<1> QED
  BY <1>2, <1>3, <1>6, <1>7

\* A smaller p-value, or an equal one, is not adjusted to a greater one: between equal
\* ones the adjustment of the highest rank is the least.
LEMMA AdjustedInOrder ==
  ASSUME NEW p \in Seq(0 .. 100), NEW i \in 1 .. Len(p), NEW j \in 1 .. Len(p), p[i] <= p[j]
  PROVE  Leq(Adjusted(p, i), Adjusted(p, j))
<1> DEFINE F(k) == Adjustments(p, k)
           f(k) == LeastOf(F(k))
<1>1. /\ DOMAIN p = 1 .. Len(p) /\ Len(p) \in Nat
      /\ \A k \in 1 .. Len(p) : RankOf(p, k) \in Nat /\ p[k] \in Nat
  BY SeqOfPercents, RankIs
<1>2. /\ F(i) \subseteq Fraction /\ F(j) \subseteq Fraction
      /\ f(i) \in F(i) /\ f(j) \in F(j) /\ \A g \in F(i) : Leq(f(i), g)
      /\ Adjusted(p, i) = Capped(f(i)) /\ Adjusted(p, j) = Capped(f(j))
  BY AdjustmentsAre
<1>3. PICK k \in 1 .. Len(p) : f(j) = Adjustment(p, k) /\ RankOf(p, j) <= RankOf(p, k)
  BY <1>1, <1>2 DEF Adjustments, NotLower
<1>4. Leq(f(i), Adjustment(p, k))
  <2>1. CASE RankOf(p, i) <= RankOf(p, k)
    <3>1. Adjustment(p, k) \in F(i)
      BY <1>1, <2>1 DEF Adjustments, NotLower
    <3> QED
      BY <1>2, <3>1
  <2>2. CASE ~ (RankOf(p, i) <= RankOf(p, k))
    <3>1. p[i] = p[k]
      <4>1. ~ Before(p, i, k) /\ Before(p, j, k)
        BY <1>3, <2>2, RankIs
      <4>2. ~ (p[i] < p[k]) /\ p[j] <= p[k]
        BY <1>1, <4>1 DEF Before
      <4> QED
        BY <1>1, <4>2
    <3>2. Leq(Adjustment(p, i), Adjustment(p, k))
      <4> DEFINE a == p[i] * Len(p)
                 b == RankOf(p, i)
                 c == RankOf(p, k)
      <4>1. a \in Nat /\ b \in Positive /\ c \in Positive
        BY AdjustmentIs
      <4>2. c <= b
        BY <1>1, <2>2
      <4>3. Adjustment(p, i) = Over(a, b) /\ Adjustment(p, k) = Over(a, c)
        BY <3>1 DEF Adjustment
      <4> HIDE DEF a, b, c
      <4>4. a * c <= a * b
        <5>1. b \in Nat /\ c \in Nat /\ a <= a
          BY <4>1 DEF Positive
        <5> QED
          BY <4>1, <4>2, <5>1, TimesGrows
      <4> QED
        BY <4>1, <4>3, <4>4, OverCompares
    <3>3. Leq(f(i), Adjustment(p, i)) /\ f(i) \in Fraction
      BY <1>2, AdjustmentsAre
    <3>4. Adjustment(p, i) \in Fraction /\ Adjustment(p, k) \in Fraction
      BY AdjustmentIs
    <3> HIDE DEF f, F
    <3> QED
      BY <3>2, <3>3, <3>4, LeqTransitive
  <2> QED
    BY <2>1, <2>2
<1>5. f(i) \in Fraction /\ f(j) \in Fraction
  BY <1>2
<1> HIDE DEF f, F
<1> QED
  BY <1>2, <1>3, <1>4, <1>5, CappedIs

\* No p-value gets smaller.
LEMMA AdjustedNotLess ==
  ASSUME NEW p \in Seq(0 .. 100), NEW i \in 1 .. Len(p)
  PROVE  Leq(Over(p[i], 1), Adjusted(p, i)) /\ Leq(Adjusted(p, i), Over(100, 1))
<1> DEFINE F == Adjustments(p, i)
           f == LeastOf(F)
<1>1. F \subseteq Fraction /\ f \in F /\ Adjusted(p, i) = Capped(f)
  BY AdjustmentsAre
<1>2. /\ DOMAIN p = 1 .. Len(p) /\ Len(p) \in Nat
      /\ \A k \in 1 .. Len(p) : RankOf(p, k) \in Nat /\ p[k] \in 0 .. 100 /\ p[k] \in Nat
  BY SeqOfPercents, RankIs
<1>3. PICK k \in 1 .. Len(p) : f = Adjustment(p, k) /\ RankOf(p, i) <= RankOf(p, k)
  BY <1>1, <1>2 DEF Adjustments, NotLower
<1>4. p[i] <= p[k]
  <2>1. Before(p, i, k)
    BY <1>3, RankIs
  <2> QED
    BY <1>2, <2>1 DEF Before
<1>5. /\ p[k] * Len(p) \in Nat /\ RankOf(p, k) \in Positive /\ RankOf(p, k) <= Len(p)
  BY AdjustmentIs
<1>6. 1 \in Positive
  BY DEF Positive
<1>7. Leq(Over(p[i], 1), f)
  <2>1. p[i] * RankOf(p, k) <= p[k] * Len(p)
    BY <1>2, <1>4, <1>5, TimesGrows
  <2>2. (p[k] * Len(p)) * 1 = p[k] * Len(p)
    BY <1>5
  <2> QED
    BY <1>2, <1>3, <1>5, <1>6, <2>1, <2>2, OverCompares DEF Adjustment
<1>8. Leq(Over(p[i], 1), Over(100, 1))
  <2>1. p[i] \in 0 .. 100
    BY <1>2
  <2>2. p[i] \in Nat /\ p[i] * 1 <= 100 * 1
    <3>1. \A x \in 0 .. 100 : x \in Nat /\ x * 1 <= 100 * 1
      OBVIOUS
    <3> QED
      BY <2>1, <3>1, Zenon
  <2> QED
    BY <1>6, <2>2, OverCompares
<1>9. Over(p[i], 1) \in Fraction /\ f \in Fraction
  BY <1>1, <1>2, <1>6, OverIs
<1> HIDE DEF f, F
<1> QED
  BY <1>1, <1>7, <1>8, <1>9, CappedIs

\* Comparing the adjusted p-values of any number of tests with a level is the step-up
\* procedure of Benjamini and Hochberg; the adjustment keeps the order and lowers none
\* (benjamini_hochberg, and the significance that analyze_batch derives from it).
THEOREM AdjustmentIsStepUp ==
  ASSUME NEW p \in Seq(0 .. 100), p # <<>>, NEW alpha \in 0 .. 100
  PROVE  StepUp(p, alpha)
<1> DEFINE q == BenjaminiHochberg(p)
<1>1. DOMAIN p = 1 .. Len(p) /\ Len(p) \in Nat
  BY SeqOfPercents
<1>2. \A i \in 1 .. Len(p) : q[i] = Adjusted(p, i)
  BY <1>1 DEF BenjaminiHochberg
<1>3. ASSUME NEW i \in 1 .. Len(p)
      PROVE  Lt(q[i], Over(alpha, 1)) <=> i \in Rejected(p, alpha)
  <2>1. \A j \in 1 .. Len(p) : RankOf(p, j) \in 1 .. Len(p)
    BY RankIs
  <2>2. i \in Rejected(p, alpha) <=>
          \E j \in 1 .. Len(p) : /\ RankOf(p, i) <= RankOf(p, j)
                                 /\ p[j] * Len(p) < alpha * RankOf(p, j)
    BY <1>1, <2>1 DEF Rejected
  <2> HIDE DEF q
  <2> QED
    BY <1>2, <2>2, AdjustedBelow
<1>4. {i \in DOMAIN p : Lt(q[i], Over(alpha, 1))} = Rejected(p, alpha)
  <2>1. Rejected(p, alpha) \subseteq DOMAIN p
    BY DEF Rejected
  <2> HIDE DEF q
  <2> QED
    BY <1>1, <1>3, <2>1
<1>5. \A i, j \in DOMAIN p : p[i] <= p[j] => Leq(q[i], q[j])
  <2> HIDE DEF q
  <2> QED
    BY <1>1, <1>2, AdjustedInOrder
<1>6. \A i \in DOMAIN p : Leq(Over(p[i], 1), q[i]) /\ Leq(q[i], Over(100, 1))
  <2> HIDE DEF q
  <2> QED
    BY <1>1, <1>2, AdjustedNotLess
<1> QED
  BY <1>4, <1>5, <1>6 DEF StepUp
-----------------------------------------------------------------------------
(* Groups of scores.                                                       *)

\* Max and Min of a finite set of integers are in it and bound it.
LEMMA Bounds ==
  ASSUME NEW S \in SUBSET Int, IsFiniteSet(S), S # {}
  PROVE  /\ Max(S) \in S /\ \A x \in S : Max(S) >= x
         /\ Min(S) \in S /\ \A x \in S : Min(S) <= x
<1> DEFINE up == {x \in Int \X Int : x[1] >= x[2]}
           down == {x \in Int \X Int : x[1] <= x[2]}
<1>1. \A x, y \in S : (<<x, y>> \in up <=> x >= y) /\ (<<x, y>> \in down <=> x <= y)
  OBVIOUS
<1>2. /\ \A x, y \in S : <<x, y>> \in up \/ <<y, x>> \in up
      /\ \A x, y, z \in S : <<x, y>> \in up /\ <<y, z>> \in up => <<x, z>> \in up
  <2> HIDE DEF up, down
  <2> QED
    BY <1>1
<1>3. /\ \A x, y \in S : <<x, y>> \in down \/ <<y, x>> \in down
      /\ \A x, y, z \in S : <<x, y>> \in down /\ <<y, z>> \in down => <<x, z>> \in down
  <2> HIDE DEF up, down
  <2> QED
    BY <1>1
<1> HIDE DEF up, down
<1>4. \E x \in S : \A y \in S : <<x, y>> \in up
  BY <1>2, FirstOfFinite
<1>5. \E x \in S : \A y \in S : <<x, y>> \in down
  BY <1>3, FirstOfFinite
<1>6. \E x \in S : \A y \in S : x >= y
  BY <1>1, <1>4
<1>7. \E x \in S : \A y \in S : x <= y
  BY <1>1, <1>5
<1> QED
  BY <1>6, <1>7 DEF Max, Min

\* The test of the greatest against the least score is the test of every group against
\* every other, for any number of groups (bias_disparity).
THEOREM DisparityOfAllPairs ==
  ASSUME NEW G, IsFiniteSet(G), NEW scores \in [G -> Int], NEW threshold \in Nat
  PROVE  DisparityIsPairwise(scores, threshold)
<1> DEFINE values == {scores[g] : g \in DOMAIN scores}
           most == Max(values)
           least == Min(values)
           r == BiasDisparity(scores, threshold)
           within == \A g, h \in DOMAIN scores : 10 * scores[g] <= threshold * scores[h]
<1> SUFFICES ASSUME ~ (Cardinality(G) < 2)
             PROVE  /\ (\A g \in G : scores[g] > 0) => (r.passes <=> within)
                    /\ (\A g \in G : scores[g] <= 0) => r.passes
                    /\ (\E g, h \in G : scores[g] > 0 /\ scores[h] <= 0) => ~ r.passes
  BY DEF DisparityIsPairwise, BiasDisparity
<1>1. DOMAIN scores = G /\ G # {}
  <2>1. G = {} => Cardinality(G) = 0
    BY FS_EmptySet
  <2> QED
    BY <2>1
<1>2. values \in SUBSET Int /\ IsFiniteSet(values) /\ values # {}
  <2>1. scores \in Surjection(G, values)
    BY <1>1 DEF Surjection
  <2> HIDE DEF values
  <2>2. IsFiniteSet(values)
    BY <2>1, FS_Surjection
  <2> USE DEF values
  <2> QED
    BY <1>1, <2>2
<1>3. /\ most \in values /\ \A x \in values : most >= x
      /\ least \in values /\ \A x \in values : least <= x
  <2> HIDE DEF values
  <2> QED
    BY <1>2, Bounds
<1>4. r.passes = IF least <= 0 THEN most <= 0 ELSE 10 * most <= threshold * least
  BY <1>1 DEF BiasDisparity
<1>5. PICK top \in G, low \in G :
        /\ most = scores[top] /\ least = scores[low]
        /\ \A g \in G : scores[g] \in Int /\ scores[g] <= most /\ least <= scores[g]
        /\ most \in Int /\ least \in Int
  <2>1. \A g \in G : scores[g] \in values /\ scores[g] \in Int
    BY <1>1
  <2>2. most \in Int /\ least \in Int
    BY <1>2, <1>3
  <2>3. (\E g \in G : most = scores[g]) /\ (\E g \in G : least = scores[g])
    BY <1>1, <1>3
  <2> HIDE DEF values, most, least
  <2> QED
    BY <1>3, <2>1, <2>2, <2>3
<1> HIDE DEF values, most, least, r
<1>6. ASSUME \A g \in G : scores[g] > 0
      PROVE  r.passes <=> within
  <2>1. ~ (least <= 0) /\ (r.passes <=> 10 * most <= threshold * least)
    <3>1. scores[low] > 0
      BY <1>6
    <3>2. ~ (least <= 0)
      BY <1>5, <3>1
    <3> QED
      BY <1>4, <3>2
  <2>2. within => 10 * most <= threshold * least
    BY <1>1, <1>5
  <2>3. ASSUME 10 * most <= threshold * least, NEW g \in G, NEW h \in G
        PROVE  10 * scores[g] <= threshold * scores[h]
    <3>1. least \in Nat /\ scores[h] \in Nat /\ scores[g] \in Int /\ scores[g] <= most
          /\ least <= scores[h] /\ threshold <= threshold
      BY <1>5, <1>6, <2>1
    <3>2. threshold * least \in Nat /\ threshold * scores[h] \in Nat
          /\ threshold * least <= threshold * scores[h]
      BY <3>1, TimesGrows
    <3> QED
      BY <1>5, <2>3, <3>1, <3>2
  <2> QED
    BY <1>1, <2>1, <2>2, <2>3
<1>7. (\A g \in G : scores[g] <= 0) => r.passes
  BY <1>4, <1>5
<1>8. (\E g, h \in G : scores[g] > 0 /\ scores[h] <= 0) => ~ r.passes
  <2> SUFFICES ASSUME NEW g \in G, NEW h \in G, scores[g] > 0, scores[h] <= 0
               PROVE  ~ r.passes
    OBVIOUS
  <2>1. least <= 0 /\ ~ (most <= 0)
    BY <1>5
  <2> QED
    BY <1>4, <2>1
<1> QED
  BY <1>6, <1>7, <1>8

-----------------------------------------------------------------------------
(* Sample sizes.                                                           *)

LEMMA DivIs ==
  ASSUME NEW a \in Nat, NEW b \in Positive
  PROVE  /\ a \div b \in Nat
         /\ \A q \in Nat : q <= a \div b <=> q * b <= a
<1>1. b \in Nat /\ b > 0
  BY DEF Positive
<1>2. a \div b \in Nat /\ b * (a \div b) <= a /\ a < b * (a \div b) + b
  BY <1>1, Z3T(20)
<1>3. ASSUME NEW q \in Nat, q <= a \div b PROVE q * b <= a
  <2>1. q * b \in Nat /\ (a \div b) * b \in Nat /\ q * b <= (a \div b) * b
    BY <1>1, <1>2, <1>3, TimesGrows
  <2>2. (a \div b) * b = b * (a \div b)
    BY <1>1, <1>2
  <2> QED
    BY <1>2, <2>1, <2>2
<1>4. ASSUME NEW q \in Nat, ~ (q <= a \div b) PROVE ~ (q * b <= a)
  <2>1. a \div b + 1 <= q /\ a \div b + 1 \in Nat
    BY <1>2, <1>4
  <2>2. (a \div b + 1) * b <= q * b /\ q * b \in Nat
    BY <1>1, <2>1, TimesGrows
  <2>3. (a \div b + 1) * b = b * (a \div b) + b
    BY <1>1, <1>2
  <2> QED
    BY <1>1, <1>2, <2>2, <2>3
<1> QED
  BY <1>2, <1>3, <1>4

\* The sample size is the least, from two on, whose detectable effect is at most the
\* one asked for (power_analysis against minimum_detectable_effect).
THEOREM SampleSizeIsLeast ==
  ASSUME NEW d \in Nat \ {0}
  PROVE  PowerInverse(d)
<1> DEFINE e == d * d
           P == PowerSquared
           m == (2 * P + e - 1) \div e
           n == PowerAnalysis(d)
<1>1. e \in Positive /\ P \in Nat /\ P # 0 /\ d # 0
  <2>1. d * d \in Nat /\ d * d # 0
    BY Z3T(20)
  <2> QED
    BY <2>1, StatisticsAssumption DEF Positive
<1>2. n = Max({2, m})
  BY <1>1 DEF PowerAnalysis
<1> HIDE DEF e, P, n
<1>3. 2 * P + e - 1 \in Nat /\ e \in Nat /\ e > 0
  BY <1>1 DEF Positive
<1>4. m \in Nat /\ \A q \in Nat : q <= m <=> q * e <= 2 * P + e - 1
  BY <1>1, <1>3, DivIs
<1>5. n = (IF m <= 2 THEN 2 ELSE m) /\ n \in Nat
  <2> HIDE DEF m
  <2>1. /\ {2, m} \in SUBSET Int /\ {2, m} # {} /\ IsFiniteSet({2, m})
    <3>1. IsFiniteSet({m} \union {2}) /\ {m} \union {2} = {2, m}
      BY FS_Singleton, FS_AddElement
    <3>2. 2 \in Int /\ m \in Int
      BY <1>4
    <3> QED
      BY <3>1, <3>2
  <2>2. n \in {2, m} /\ n >= 2 /\ n >= m
    BY <1>2, <2>1, Bounds
  <2> QED
    BY <1>4, <2>2
<1>6. ASSUME NEW k \in Nat, k # 0
      PROVE  Leq(LeastEffectSquared(k, FALSE), Over(d * d, 100)) <=> 2 * P <= e * k
  <2>1. 2 * P \in Nat /\ 100 * k \in Positive /\ 100 \in Positive /\ e \in Nat
    BY <1>1, <1>3, <1>6 DEF Positive
  <2>2. LeastEffectSquared(k, FALSE) = Over(2 * P, 100 * k)
    BY DEF LeastEffectSquared, P
  <2>3. Over(d * d, 100) = Over(e, 100)
    BY DEF e
  <2> DEFINE a == 2 * P
             b == 100 * k
             c == e * k
  <2>4. e * b = c * 100 /\ c \in Nat
    BY <2>1, Z3T(20)
  <2> HIDE DEF a, b, c
  <2>5. Leq(Over(a, b), Over(e, 100)) <=> a * 100 <= e * b
    BY <2>1, OverCompares DEF a, b
  <2>6. a * 100 <= c * 100 <=> a <= c
    BY <2>1, <2>4 DEF a
  <2>7. LeastEffectSquared(k, FALSE) = Over(a, b)
    BY <2>2 DEF a, b
  <2> QED
    BY <2>3, <2>4, <2>5, <2>6, <2>7 DEF a, c
<1>7. ASSUME NEW k \in Nat PROVE m <= k <=> 2 * P <= e * k
  <2>1. k + 1 <= m <=> (k + 1) * e <= 2 * P + e - 1
    BY <1>4
  <2>2. (k + 1) * e = e * k + e /\ e * k \in Nat
    BY <1>3, Z3T(20)
  <2> HIDE DEF m
  <2> QED
    BY <1>1, <1>3, <1>4, <2>1, <2>2
<1> HIDE DEF m
<1>8. Leq(LeastEffectSquared(n, FALSE), Over(d * d, 100))
  <2>1. n # 0 /\ m <= n
    BY <1>4, <1>5
  <2> QED
    BY <1>5, <1>6, <1>7, <2>1
<1>9. n > 2 => ~ Leq(LeastEffectSquared(n - 1, FALSE), Over(d * d, 100))
  <2> SUFFICES ASSUME n > 2 PROVE ~ Leq(LeastEffectSquared(n - 1, FALSE), Over(d * d, 100))
    OBVIOUS
  <2>1. n - 1 \in Nat /\ n - 1 # 0 /\ ~ (m <= n - 1)
    BY <1>4, <1>5
  <2> QED
    BY <1>6, <1>7, <2>1
<1> QED
  BY <1>8, <1>9 DEF PowerInverse, n
-----------------------------------------------------------------------------
(* Shares and single verdicts.                                             *)

LEMMA ShareIs ==
  ASSUME NEW x \in Nat, NEW y \in Nat
  PROVE  /\ Share(x, y) \in Nat /\ Share(y, x) \in Nat
         /\ 99 <= Share(x, y) + Share(y, x) /\ Share(x, y) + Share(y, x) <= 100
         /\ y <= x => Share(x, y) >= 50
<1>1. CASE x + y = 0
  BY <1>1 DEF Share
<1>2. CASE x + y # 0
  <2> DEFINE s == x + y
             q == (100 * x) \div s
             r == (100 * y) \div s
  <2>1. s \in Nat /\ s > 0 /\ y + x = s /\ s # 0
    BY <1>2
  <2>2. Share(x, y) = q /\ Share(y, x) = r
    BY <2>1 DEF Share
  <2>3. s \in Positive /\ 100 * x \in Nat /\ 100 * y \in Nat
    BY <2>1 DEF Positive
  <2>4. /\ q \in Nat /\ \A k \in Nat : k <= q <=> k * s <= 100 * x
        /\ r \in Nat /\ \A k \in Nat : k <= r <=> k * s <= 100 * y
    BY <2>3, DivIs
  <2>5. 100 * x + 100 * y = 100 * s
    OBVIOUS
  <2>0. y <= x => 50 * s <= 100 * x
    OBVIOUS
  <2> HIDE DEF s, q, r
  <2>6. /\ q * s <= 100 * x /\ ~ ((q + 1) * s <= 100 * x)
        /\ r * s <= 100 * y /\ ~ ((r + 1) * s <= 100 * y)
    BY <2>4
  <2>7. /\ q * s \in Nat /\ r * s \in Nat
        /\ (q + 1) * s = q * s + s /\ (r + 1) * s = r * s + s /\ (q + r) * s = q * s + r * s
    BY <2>1, <2>4, Z3T(20)
  <2>8. (q + r) * s <= 100 * s /\ 98 * s < (q + r) * s
    BY <2>1, <2>5, <2>6, <2>7
  <2>9. q + r <= 100 /\ 98 < q + r
    <3>1. q + r \in Int /\ 100 \in Int /\ 98 \in Int
      BY <2>4
    <3> QED
      BY <2>3, <2>8, <3>1, Scaling
  <2>10. y <= x => q >= 50
    BY <2>0, <2>4
  <2> QED
    BY <2>2, <2>4, <2>9, <2>10
<1> QED
  BY <1>1, <1>2

LEMMA OverlapIs ==
  ASSUME NEW W, NEW a \in Seq(W), NEW b \in Seq(W), NEW expected \in Seq(W)
  PROVE  /\ Overlap(a, expected) \in Nat
         /\ ToSet(expected) \subseteq ToSet(a) => Overlap(b, expected) <= Overlap(a, expected)
<1> DEFINE E == ToSet(expected)
<1>1. IsFiniteSet(E)
  <2>1. DOMAIN expected = 1 .. Len(expected) /\ Len(expected) \in Nat
    BY LenProperties
  <2>2. IsFiniteSet(1 .. Len(expected))
    BY <2>1, FS_Interval
  <2>3. expected \in Surjection(1 .. Len(expected), E)
    BY <2>1 DEF Surjection, ToSet
  <2> HIDE DEF E
  <2> QED
    BY <2>2, <2>3, FS_Surjection
<1> HIDE DEF E
<1>2. \A S : IsFiniteSet(S \intersect E) /\ Cardinality(S \intersect E) \in Nat
             /\ Cardinality(S \intersect E) <= Cardinality(E)
  <2> SUFFICES ASSUME NEW S
               PROVE  /\ IsFiniteSet(S \intersect E) /\ Cardinality(S \intersect E) \in Nat
                      /\ Cardinality(S \intersect E) <= Cardinality(E)
    OBVIOUS
  <2>1. S \intersect E \subseteq E
    OBVIOUS
  <2> QED
    BY <1>1, <2>1, FS_Subset, FS_CardinalityType
<1>3. Overlap(a, expected) = Cardinality(ToSet(a) \intersect E)
      /\ Overlap(b, expected) = Cardinality(ToSet(b) \intersect E)
  BY DEF Overlap, E
<1>4. ASSUME E \subseteq ToSet(a)
      PROVE  Overlap(b, expected) <= Overlap(a, expected)
  <2>1. ToSet(a) \intersect E = E
    BY <1>4
  <2> QED
    BY <1>2, <1>3, <2>1
<1> QED
  BY <1>2, <1>3, <1>4 DEF E

\* The shares of two texts of any length add up to the whole but for the rounding
\* (run_pairwise_conciseness, run_pairwise_expected_match).
THEOREM SharesAddUp ==
  ASSUME NEW W, NEW a \in Seq(W), NEW b \in Seq(W), NEW expected \in Seq(W)
  PROVE  SharesMirror(a, b, expected)
<1>1. Len(a) \in Nat /\ Len(b) \in Nat
  BY LenProperties
<1>2. \A n : Result(TRUE, n).score = n
  BY DEF Result
<1>3. Tie.score = 50
  BY DEF Tie, Result
<1>4. /\ PairwiseConciseness(a, b).score = Share(Len(b), Len(a))
      /\ PairwiseConciseness(b, a).score = Share(Len(a), Len(b))
  BY <1>2 DEF PairwiseConciseness
<1>5. /\ PairwiseExpectedMatch(a, b, expected).score =
           IF expected = <<>> THEN 50 ELSE Share(Overlap(a, expected), Overlap(b, expected))
      /\ PairwiseExpectedMatch(b, a, expected).score =
           IF expected = <<>> THEN 50 ELSE Share(Overlap(b, expected), Overlap(a, expected))
  BY <1>2, <1>3 DEF PairwiseExpectedMatch
<1>6. /\ Overlap(a, expected) \in Nat /\ Overlap(b, expected) \in Nat
      /\ ToSet(expected) \subseteq ToSet(a) => Overlap(b, expected) <= Overlap(a, expected)
  BY OverlapIs
<1>7. /\ 99 <= PairwiseConciseness(a, b).score + PairwiseConciseness(b, a).score
      /\ PairwiseConciseness(a, b).score + PairwiseConciseness(b, a).score <= 100
      /\ Len(a) <= Len(b) => PairwiseConciseness(a, b).score >= 50
  BY <1>1, <1>4, ShareIs
<1>8. /\ 99 <= PairwiseExpectedMatch(a, b, expected).score
                 + PairwiseExpectedMatch(b, a, expected).score
      /\ PairwiseExpectedMatch(a, b, expected).score
           + PairwiseExpectedMatch(b, a, expected).score <= 100
      /\ ToSet(expected) \subseteq ToSet(a) =>
           PairwiseExpectedMatch(a, b, expected).score >= 50
  <2>1. CASE expected = <<>>
    BY <1>5, <2>1
  <2>2. CASE expected # <<>>
    BY <1>5, <1>6, <2>2, ShareIs
  <2> QED
    BY <2>1, <2>2
<1> QED
  BY <1>7, <1>8 DEF SharesMirror

LEMMA ClampIs ==
  ASSUME NEW x \in Int
  PROVE  /\ Clamp(x) \in 0 .. 100
         /\ Clamp(x) = IF x < 0 THEN 0 ELSE IF x > 100 THEN 100 ELSE x
<1>1. \A y \in Int : {x, 0} \in SUBSET Int /\ {y, 100} \in SUBSET Int
  OBVIOUS
<1>2. \A y, z : IsFiniteSet({y, z}) /\ {y, z} # {}
  <2> SUFFICES ASSUME NEW y, NEW z PROVE IsFiniteSet({y, z})
    OBVIOUS
  <2>1. IsFiniteSet({z} \union {y}) /\ {z} \union {y} = {y, z}
    BY FS_Singleton, FS_AddElement
  <2> QED
    BY <2>1
<1>3. Max({x, 0}) = IF x < 0 THEN 0 ELSE x
  <2>1. Max({x, 0}) \in {x, 0} /\ \A y \in {x, 0} : Max({x, 0}) >= y
    BY <1>1, <1>2, Bounds
  <2> QED
    BY <2>1
<1> DEFINE w == IF x < 0 THEN 0 ELSE x
<1>4. w \in Nat
  OBVIOUS
<1>5. Min({w, 100}) = IF w > 100 THEN 100 ELSE w
  <2> HIDE DEF w
  <2>1. Min({w, 100}) \in {w, 100} /\ \A z \in {w, 100} : Min({w, 100}) <= z
    <3>1. {w, 100} \in SUBSET Int
      BY <1>4
    <3>2. IsFiniteSet({w, 100}) /\ {w, 100} # {}
      BY <1>2
    <3> QED
      BY <3>1, <3>2, Bounds
  <2> QED
    BY <1>4, <2>1
<1>6. Clamp(x) = Min({w, 100})
  BY <1>3 DEF Clamp
<1> QED
  BY <1>5, <1>6

LEMMA ResultIs ==
  \A passed, score : /\ Result(passed, score).passed = passed
                     /\ Result(passed, score).score = score
BY DEF Result

LEMMA FoldedIs ==
  ASSUME NEW W, NEW text \in Seq(W), NEW folded \in [W -> W], NEW sensitive \in BOOLEAN
  PROVE  Cased(text, sensitive, folded) \in Seq(W)
         /\ Len(Cased(text, sensitive, folded)) = Len(text)
         /\ \A i \in 1 .. Len(text) :
              Cased(text, sensitive, folded)[i] = IF sensitive THEN text[i] ELSE folded[text[i]]
<1>1. DOMAIN text = 1 .. Len(text) /\ Len(text) \in Nat /\ \A i \in 1 .. Len(text) : text[i] \in W
  BY LenProperties, ElementOfSeq
<1>2. CASE sensitive
  BY <1>2 DEF Cased
<1>3. CASE ~ sensitive
  <2> DEFINE c == [i \in 1 .. Len(text) |-> folded[text[i]]]
  <2>1. Cased(text, sensitive, folded) = c
    BY <1>1, <1>3 DEF Cased
  <2>2. c \in Seq(W) /\ Len(c) = Len(text)
    <3>1. c \in [1 .. Len(text) -> W]
      BY <1>1
    <3> HIDE DEF c
    <3> QED
      BY <1>1, <3>1, FunctionIsSeq
  <2>3. \A i \in 1 .. Len(text) : c[i] = folded[text[i]]
    OBVIOUS
  <2> HIDE DEF c
  <2> QED
    BY <1>3, <2>1, <2>2, <2>3
<1> QED
  BY <1>2, <1>3

\* An interval of a text, as far as ContainsPart looks for one.
LEMMA WholePart ==
  ASSUME NEW W, NEW t \in Seq(W)
  PROVE  \E i \in 1 .. Len(t) + 1 - Len(t) : SubSeq(t, i, i + Len(t) - 1) = t
<1>1. Len(t) \in Nat /\ 1 \in 1 .. Len(t) + 1 - Len(t) /\ 1 + Len(t) - 1 = Len(t)
  BY LenProperties
<1>2. SubSeq(t, 1, Len(t)) = t
  BY SubSeqFull
<1> QED
  BY <1>1, <1>2

LEMMA FoldedPart ==
  ASSUME NEW W, NEW text \in Seq(W), NEW part \in Seq(W), NEW folded \in [W -> W],
         NEW t \in Seq(W), Len(t) = Len(text),
         \A k \in 1 .. Len(text) : t[k] = folded[text[k]],
         NEW p \in Seq(W), Len(p) = Len(part),
         \A k \in 1 .. Len(part) : p[k] = folded[part[k]],
         NEW i \in 1 .. Len(text) + 1 - Len(part),
         SubSeq(text, i, i + Len(part) - 1) = part
  PROVE  SubSeq(t, i, i + Len(part) - 1) = p
<1> DEFINE n == Len(part)
           u == SubSeq(t, i, i + n - 1)
<1>1. n \in Nat /\ Len(text) \in Nat /\ i \in Nat /\ 1 <= i /\ i + n - 1 <= Len(text)
  BY LenProperties
<1>2. /\ \A k \in 1 .. Len(text) : t[k] = folded[text[k]]
      /\ Len(p) = n /\ \A k \in 1 .. n : p[k] = folded[part[k]]
  OBVIOUS
<1>3. \A k \in i .. (i + n - 1) : k \in 1 .. Len(text) /\ t[k] \in W /\ text[k] \in W
  <2> SUFFICES ASSUME NEW k \in i .. (i + n - 1)
               PROVE  k \in 1 .. Len(text) /\ t[k] \in W /\ text[k] \in W
    OBVIOUS
  <2>1. k \in 1 .. Len(text)
    BY <1>1
  <2> QED
    BY <1>2, <2>1, ElementOfSeq
<1>4. i \in Int /\ i + n - 1 \in Int /\ (i + n - 1) - i + 1 = n
      /\ (i <= i + n - 1 <=> n # 0)
  BY <1>1
<1>5. u \in Seq(W) /\ Len(u) = n /\ \A k \in 1 .. n : u[k] = t[i + k - 1]
  <2>1. /\ u \in Seq(W) /\ Len(u) = IF i <= i + n - 1 THEN (i + n - 1) - i + 1 ELSE 0
        /\ \A k \in 1 .. (i + n - 1) - i + 1 : u[k] = t[i + k - 1]
    BY <1>3, <1>4, SubSeqProperties
  <2> HIDE DEF u
  <2> QED
    BY <1>1, <1>4, <2>1
<1>6. \A k \in 1 .. n : part[k] = text[i + k - 1]
  <2>1. \A k \in 1 .. (i + n - 1) - i + 1 : SubSeq(text, i, i + n - 1)[k] = text[i + k - 1]
    BY <1>3, <1>4, SubSeqProperties
  <2> QED
    BY <1>4, <2>1
<1>7. \A k \in 1 .. n : i + k - 1 \in 1 .. Len(text)
  BY <1>1
<1> HIDE DEF u, n
<1>8. ASSUME NEW k \in 1 .. n PROVE u[k] = p[k]
  <2>1. u[k] = t[i + k - 1] /\ part[k] = text[i + k - 1] /\ p[k] = folded[part[k]]
    BY <1>2, <1>5, <1>6
  <2>2. t[i + k - 1] = folded[text[i + k - 1]]
    BY <1>2, <1>7
  <2> QED
    BY <2>1, <2>2
<1>9. u = p
  BY <1>2, <1>5, <1>8, SeqEqual
<1> QED
  BY <1>9 DEF u, n

\* The evaluators of one output agree about texts of any length, with any folding of
\* cases, as long as a single character over the limit is at least one unit of the
\* rounded score (exact_match, contains, json_schema, regex_match, max_length,
\* latency_check, the llm evaluators).
THEOREM EvaluatorsAgree ==
  ASSUME NEW W, NEW text \in Seq(W), NEW other \in Seq(W), NEW folded \in [W -> W],
         NEW length \in Nat, NEW limit \in 0 .. 100, NEW answer \in Int
  PROVE  VerdictsAgree(text, other, folded, length, limit, answer)
<1>1. \A sensitive \in BOOLEAN :
        ExactMatch(text, other, sensitive, folded).passed <=>
          Cased(text, sensitive, folded) = Cased(other, sensitive, folded)
  BY ResultIs DEF ExactMatch, Failed
<1>2. \A sensitive \in BOOLEAN :
        ContainsPart(text, other, sensitive, folded).passed <=>
          LET t == Cased(text, sensitive, folded)
              p == Cased(other, sensitive, folded)
          IN \E i \in 1 .. Len(t) + 1 - Len(p) : SubSeq(t, i, i + Len(p) - 1) = p
  BY ResultIs DEF ContainsPart, Failed
<1>3. ASSUME NEW sensitive \in BOOLEAN, ExactMatch(text, other, sensitive, folded).passed
      PROVE  ContainsPart(text, other, sensitive, folded).passed
  <2> DEFINE t == Cased(text, sensitive, folded)
  <2>1. t = Cased(other, sensitive, folded)
    BY <1>1, <1>3
  <2>2. t \in Seq(W)
    BY FoldedIs
  <2>3. \E i \in 1 .. Len(t) + 1 - Len(t) : SubSeq(t, i, i + Len(t) - 1) = t
    BY <2>2, WholePart
  <2> HIDE DEF t
  <2> QED
    BY <1>2, <2>1, <2>3 DEF t
<1>4. Cased(text, TRUE, folded) = text /\ Cased(other, TRUE, folded) = other
  BY DEF Cased
<1>5. ExactMatch(text, other, TRUE, folded).passed =>
        ExactMatch(text, other, FALSE, folded).passed
  <2>1. text = other => Cased(text, FALSE, folded) = Cased(other, FALSE, folded)
    OBVIOUS
  <2> QED
    BY <1>1, <1>4, <2>1
<1>6. ASSUME ContainsPart(text, other, TRUE, folded).passed
      PROVE  ContainsPart(text, other, FALSE, folded).passed
  <2>1. PICK i \in 1 .. Len(text) + 1 - Len(other) : SubSeq(text, i, i + Len(other) - 1) = other
    BY <1>2, <1>4, <1>6
  <2> DEFINE c == Cased(text, FALSE, folded)
             p == Cased(other, FALSE, folded)
  <2>2. /\ c \in Seq(W) /\ Len(c) = Len(text)
        /\ \A k \in 1 .. Len(text) : c[k] = IF FALSE THEN text[k] ELSE folded[text[k]]
    BY FoldedIs
  <2>3. /\ p \in Seq(W) /\ Len(p) = Len(other)
        /\ \A k \in 1 .. Len(other) : p[k] = IF FALSE THEN other[k] ELSE folded[other[k]]
    BY FoldedIs
  <2>4. (\E k \in 1 .. Len(c) + 1 - Len(p) : SubSeq(c, k, k + Len(p) - 1) = p) =>
          ContainsPart(text, other, FALSE, folded).passed
    BY <1>2
  <2> HIDE DEF c, p
  <2>5. SubSeq(c, i, i + Len(other) - 1) = p
    BY <2>1, <2>2, <2>3, FoldedPart
  <2> QED
    BY <2>2, <2>3, <2>4, <2>5
<1>7. ASSUME NEW n \in 0 .. 100, NEW passed \in BOOLEAN,
             passed => n >= 50, n = 100 => passed
      PROVE  Sound(Result(passed, n))
  <2>1. /\ Result(passed, n).score = n
        /\ passed => Result(passed, n).passed
        /\ ~ passed => ~ Result(passed, n).passed
    BY DEF Result
  <2>2. Result(passed, n).score \in 0 .. 100
    BY <2>1
  <2>3. Result(passed, n).passed => Result(passed, n).score >= 50
    BY <1>7, <2>1, Zenon
  <2>4. Result(passed, n).score = 100 => Result(passed, n).passed
    BY <1>7, <2>1, Zenon
  <2> QED
    BY <2>2, <2>3, <2>4, Zenon DEF Sound
<1>8. Sound(Failed) /\ Sound(Result(TRUE, 100)) /\ Sound(Result(TRUE, 80))
      /\ Sound(Result(FALSE, 30)) /\ Sound(Raises)
  <2>1. Sound(Raises)
    BY DEF Sound
  <2>2. /\ 0 \in 0 .. 100 /\ 30 \in 0 .. 100 /\ 80 \in 0 .. 100 /\ 100 \in 0 .. 100
        /\ 0 # 100 /\ 30 # 100 /\ 80 >= 50 /\ 100 >= 50
    OBVIOUS
  <2>3. Sound(Result(FALSE, 0)) /\ Sound(Result(FALSE, 30))
    BY <1>7, <2>2, Zenon
  <2>4. Sound(Result(TRUE, 80)) /\ Sound(Result(TRUE, 100))
    BY <1>7, <2>2, Zenon
  <2> QED
    BY <2>1, <2>3, <2>4 DEF Failed
<1>9. \A json \in BOOLEAN, check \in {"none", "valid", "mismatch", "absent"} :
        Sound(JsonSchema(json, check))
  BY <1>8 DEF JsonSchema
<1>10. \A search \in {"none", "invalid", "timeout", "found", "missing"} :
        Sound(RegexMatch(search))
  BY <1>8 DEF RegexMatch
<1>11. Sound(LatencyCheck(length, limit))
  BY <1>8 DEF LatencyCheck
<1>12. Sound(LlmEvaluate(answer))
  <2> DEFINE n == Clamp(answer)
  <2>1. n \in 0 .. 100
    BY ClampIs
  <2>2. LlmEvaluate(answer) = IF answer = -1 THEN Failed ELSE Result(n >= 50, n)
    BY DEF LlmEvaluate
  <2> HIDE DEF n
  <2>3. Sound(Result(n >= 50, n))
    <3>1. (n >= 50) \in BOOLEAN /\ ((n >= 50) => n >= 50) /\ (n = 100 => n >= 50)
      BY <2>1
    <3> QED
      BY <1>7, <2>1, <3>1
  <2> QED
    BY <1>8, <2>2, <2>3
<1>13. Sound(MaxLength(length, limit))
  <2>1. CASE length <= limit \/ limit = 0
    BY <1>8, <2>1 DEF MaxLength
  <2>2. CASE ~ (length <= limit) /\ limit # 0
    <3> DEFINE over == (100 * (length - limit)) \div limit
               n == Clamp(100 - over)
    <3>1. 100 * (length - limit) \in Nat /\ limit \in Positive /\ limit <= 100 * (length - limit)
      BY <2>2 DEF Positive
    <3>2. over \in Nat /\ 1 <= over
      <4>1. over \in Nat /\ \A q \in Nat : q <= over <=> q * limit <= 100 * (length - limit)
        BY <3>1, DivIs
      <4> HIDE DEF over
      <4>2. 1 * limit = limit
        BY <3>1 DEF Positive
      <4> QED
        BY <3>1, <4>1, <4>2
    <3>3. MaxLength(length, limit) = Result(FALSE, n)
      BY <2>2 DEF MaxLength
    <3> HIDE DEF over
    <3>4. n \in 0 .. 100 /\ n # 100
      <4>1. 100 - over \in Int /\ 100 - over < 100
        BY <3>2
      <4>2. /\ Clamp(100 - over) \in 0 .. 100
            /\ Clamp(100 - over) = IF 100 - over < 0 THEN 0
                                    ELSE IF 100 - over > 100 THEN 100 ELSE 100 - over
        BY <4>1, ClampIs
      <4> QED
        BY <4>1, <4>2
    <3> HIDE DEF n
    <3> QED
      BY <1>7, <3>3, <3>4
  <2> QED
    BY <2>1, <2>2
<1> QED
  BY <1>3, <1>5, <1>6, <1>9, <1>10, <1>11, <1>12, <1>13 DEF VerdictsAgree
-----------------------------------------------------------------------------
(* Sums.                                                                   *)

\* The values up to n of what starts with first and goes on by the steps.
Iterates(g, n, X, first, step) ==
  /\ g \in [0 .. n -> X]
  /\ g[0] = first /\ \A k \in 1 .. n : g[k] = step[k][g[k - 1]]

LEMMA Recursion ==
  ASSUME NEW n \in Nat, NEW X, NEW first \in X, NEW step \in [1 .. n -> [X -> X]]
  PROVE  \E g : Iterates(g, n, X, first, step)
<1> DEFINE Ok(g, m) == g[0] = first /\ \A k \in 1 .. m : g[k] = step[k][g[k - 1]]
           S == {m \in 0 .. n : \E g \in [0 .. m -> X] : Ok(g, m)}
<1>1. 0 \in S
  <2> DEFINE g == [k \in 0 .. 0 |-> first]
  <2>1. g \in [0 .. 0 -> X] /\ Ok(g, 0)
    OBVIOUS
  <2>2. 0 \in 0 .. n
    OBVIOUS
  <2> HIDE DEF g, Ok
  <2> QED
    BY <2>1, <2>2
<1>2. ASSUME NEW m \in 0 .. (n - 1), m \in S
      PROVE  m + 1 \in S
  <2>1. PICK g \in [0 .. m -> X] : Ok(g, m)
    BY <1>2
  <2> DEFINE x == step[m + 1][g[m]]
             h == [k \in 0 .. (m + 1) |-> IF k = m + 1 THEN x ELSE g[k]]
  <2>2. x \in X
    <3>1. m + 1 \in 1 .. n /\ g[m] \in X
      OBVIOUS
    <3> QED
      BY <3>1
  <2>3. h \in [0 .. (m + 1) -> X]
    <3> HIDE DEF x
    <3>1. \A k \in 0 .. (m + 1) : k # m + 1 => k \in 0 .. m
      OBVIOUS
    <3> QED
      BY <2>2, <3>1
  <2>4. /\ h[m + 1] = x /\ \A k \in 0 .. m : h[k] = g[k]
    <3> HIDE DEF x
    <3>1. \A k \in 0 .. m : k \in 0 .. (m + 1) /\ k # m + 1
      OBVIOUS
    <3> QED
      BY <3>1
  <2> HIDE DEF h
  <2>5. Ok(h, m + 1)
    <3>1. h[0] = first
      BY <2>1, <2>4
    <3>2. ASSUME NEW k \in 1 .. (m + 1) PROVE h[k] = step[k][h[k - 1]]
      <4>1. k - 1 \in 0 .. m /\ (k # m + 1 => k \in 1 .. m /\ k \in 0 .. m) /\ (m + 1) - 1 = m
        OBVIOUS
      <4>2. h[k - 1] = g[k - 1]
        BY <2>4, <4>1
      <4>3. CASE k = m + 1
        BY <2>4, <4>1, <4>2, <4>3
      <4>4. CASE k # m + 1
        <5>1. h[k] = g[k] /\ g[k] = step[k][g[k - 1]]
          BY <2>1, <2>4, <4>1, <4>4
        <5> QED
          BY <4>2, <5>1
      <4> QED
        BY <4>3, <4>4
    <3> QED
      BY <3>1, <3>2
  <2>6. m + 1 \in 0 .. n
    OBVIOUS
  <2> QED
    BY <2>3, <2>5, <2>6
<1>3. n \in S
  <2>1. \A k \in 0 .. n : k \in S
    <3> HIDE DEF S
    <3> QED
      BY <1>1, <1>2, UpTo
  <2> QED
    BY <2>1
<1> QED
  BY <1>3 DEF Iterates

LEMMA SumIs ==
  ASSUME NEW s \in Seq(Int)
  PROVE  /\ SumOf(s) \in Int
         /\ \E g \in [0 .. Len(s) -> Int] :
              /\ g[0] = 0 /\ SumOf(s) = g[Len(s)]
              /\ \A k \in 1 .. Len(s) : g[k] = g[k - 1] + s[k]
<1> DEFINE n == Len(s)
           F(g) == [k \in 0 .. n |-> IF k = 0 THEN 0 ELSE g[k - 1] + s[k]]
           step == [k \in 1 .. n |-> [x \in Int |-> x + s[k]]]
           sum == CHOOSE g : g = F(g)
<1>1. n \in Nat /\ \A k \in 1 .. n : s[k] \in Int
  BY LenProperties, ElementOfSeq
<1>2. SumOf(s) = sum[n]
  BY DEF SumOf
<1>3. step \in [1 .. n -> [Int -> Int]]
  BY <1>1
<1>4. \A k \in 1 .. n, x \in Int : step[k][x] = x + s[k]
  OBVIOUS
<1>5. PICK g \in [0 .. n -> Int] : g[0] = 0 /\ \A k \in 1 .. n : g[k] = step[k][g[k - 1]]
  <2>1. n \in Nat /\ 0 \in Int
    BY <1>1
  <2> HIDE DEF step, n
  <2>2. \E g : Iterates(g, n, Int, 0, step)
    BY <1>3, <2>1, Recursion
  <2> QED
    BY <2>2 DEF Iterates
<1>6. \A k \in 1 .. n : k \in 0 .. n /\ k # 0 /\ k - 1 \in 0 .. n
  BY <1>1
<1>7. g = F(g)
  <2>1. \A k \in 1 .. n : g[k] = g[k - 1] + s[k]
    <3> HIDE DEF step, n
    <3> QED
      BY <1>4, <1>5, <1>6
  <2>2. \A k \in 0 .. n : k = 0 \/ k \in 1 .. n
    BY <1>1
  <2> HIDE DEF n
  <2> QED
    BY <1>5, <2>1, <2>2
<1>8. sum = F(sum)
  <2> HIDE DEF F
  <2> QED
    BY <1>7
<1> HIDE DEF sum, step
<1>9. sum[0] = 0 /\ \A k \in 1 .. n : sum[k] = sum[k - 1] + s[k]
  <2>1. \A k \in 0 .. n : sum[k] = IF k = 0 THEN 0 ELSE sum[k - 1] + s[k]
    BY <1>8
  <2>2. 0 \in 0 .. n
    BY <1>1
  <2> HIDE DEF n, F
  <2> QED
    BY <1>6, <2>1, <2>2
<1>10. \A k \in 0 .. n : k \in {j \in 0 .. n : sum[j] \in Int}
  <2> DEFINE S == {j \in 0 .. n : sum[j] \in Int}
  <2> HIDE DEF n
  <2>1. 0 \in S
    BY <1>1, <1>9
  <2>2. ASSUME NEW k \in 0 .. (n - 1), k \in S PROVE k + 1 \in S
    <3>1. k + 1 \in 1 .. n /\ k + 1 \in 0 .. n /\ (k + 1) - 1 = k
      BY <1>1
    <3>2. sum[k + 1] = sum[k] + s[k + 1] /\ sum[k] \in Int /\ s[k + 1] \in Int
      BY <1>1, <1>9, <2>2, <3>1
    <3> QED
      BY <3>1, <3>2
  <2> HIDE DEF S
  <2>3. \A k \in 0 .. n : k \in S
    BY <1>1, <2>1, <2>2, UpTo
  <2> QED
    BY <2>3 DEF S
<1>11. DOMAIN sum = 0 .. n
  BY <1>8
<1>12. sum \in [0 .. n -> Int]
  <2>1. sum = [k \in 0 .. n |-> sum[k]]
    <3>1. sum = [k \in 0 .. n |-> IF k = 0 THEN 0 ELSE sum[k - 1] + s[k]]
      BY <1>8
    <3> HIDE DEF n, F
    <3> QED
      BY <3>1
  <2> HIDE DEF n, F
  <2> QED
    BY <1>10, <2>1
<1>13. n \in 0 .. n
  BY <1>1
<1> QED
  BY <1>2, <1>9, <1>12, <1>13

LEMMA Distributes ==
  \A x, y, z \in Int : x * (y + z) = x * y + x * z /\ x * y \in Int
OBVIOUS

\* The sum of multiples is the multiple of the sum.
LEMMA SumScales ==
  ASSUME NEW c \in Int, NEW s \in Seq(Int), NEW t \in Seq(Int), Len(s) = Len(t),
         \A k \in 1 .. Len(s) : t[k] = c * s[k]
  PROVE  SumOf(t) = c * SumOf(s)
<1> DEFINE n == Len(s)
<1>1. n \in Nat /\ \A k \in 1 .. n : s[k] \in Int
  BY LenProperties, ElementOfSeq
<1>2. PICK g \in [0 .. n -> Int] :
        g[0] = 0 /\ SumOf(s) = g[n] /\ \A k \in 1 .. n : g[k] = g[k - 1] + s[k]
  BY SumIs
<1>3. PICK h \in [0 .. n -> Int] :
        h[0] = 0 /\ SumOf(t) = h[n] /\ \A k \in 1 .. n : h[k] = h[k - 1] + t[k]
  BY SumIs
<1>4. \A k \in 1 .. n : t[k] = c * s[k]
  OBVIOUS
<1> DEFINE S == {j \in 0 .. n : h[j] = c * g[j]}
<1> HIDE DEF n
<1>5. 0 \in S
  <2>1. c * 0 = 0
    OBVIOUS
  <2> QED
    BY <1>1, <1>2, <1>3, <2>1
<1>6. ASSUME NEW k \in 0 .. (n - 1), k \in S PROVE k + 1 \in S
  <2>1. k + 1 \in 1 .. n /\ k + 1 \in 0 .. n /\ (k + 1) - 1 = k /\ k \in 0 .. n
    BY <1>1
  <2>2. g[k + 1] = g[k] + s[k + 1] /\ h[k + 1] = h[k] + t[k + 1] /\ t[k + 1] = c * s[k + 1]
    BY <1>2, <1>3, <1>4, <2>1
  <2>3. g[k] \in Int /\ h[k] = c * g[k] /\ s[k + 1] \in Int
    BY <1>1, <1>6, <2>1
  <2>4. c * (g[k] + s[k + 1]) = c * g[k] + c * s[k + 1]
    BY <2>3, Distributes
  <2>5. h[k + 1] = c * g[k + 1]
    BY <2>2, <2>3, <2>4, Zenon
  <2> QED
    BY <2>1, <2>5
<1>7. n \in S
  <2>1. \A k \in 0 .. n : k \in S
    <3> HIDE DEF S
    <3> QED
      BY <1>1, <1>5, <1>6, UpTo
  <2> QED
    BY <1>1, <2>1
<1> QED
  BY <1>2, <1>3, <1>7

\* Sums of sequences that are each other's negatives are each other's negative.
LEMMA SumNegates ==
  ASSUME NEW s \in Seq(Int), NEW t \in Seq(Int), Len(s) = Len(t),
         \A k \in 1 .. Len(s) : t[k] = - s[k]
  PROVE  SumOf(t) = - SumOf(s)
<1> DEFINE c == - 1
<1>1. \A k \in 1 .. Len(s) : s[k] \in Int
  BY ElementOfSeq
<1>2. c \in Int /\ \A x \in Int : c * x = - x
  OBVIOUS
<1> HIDE DEF c
<1>3. \A k \in 1 .. Len(s) : t[k] = c * s[k]
  BY <1>1, <1>2
<1>4. SumOf(t) = c * SumOf(s)
  BY <1>2, <1>3, SumScales
<1>5. SumOf(s) \in Int
  BY SumIs
<1> QED
  BY <1>2, <1>4, <1>5

LEMMA DifferencesAre ==
  ASSUME NEW a \in Seq(Int), NEW b \in Seq(Int), Len(a) = Len(b)
  PROVE  /\ Differences(a, b) \in Seq(Int) /\ Len(Differences(a, b)) = Len(a)
         /\ DOMAIN Differences(a, b) = 1 .. Len(a)
         /\ \A k \in 1 .. Len(a) : Differences(a, b)[k] = a[k] - b[k]
<1>1. /\ Len(a) \in Nat /\ DOMAIN a = 1 .. Len(a)
      /\ \A k \in 1 .. Len(a) : a[k] \in Int /\ b[k] \in Int
  BY LenProperties, ElementOfSeq
<1> DEFINE d == [k \in 1 .. Len(a) |-> a[k] - b[k]]
<1>2. Differences(a, b) = d
  BY <1>1 DEF Differences
<1>3. d \in [1 .. Len(a) -> Int] /\ \A k \in 1 .. Len(a) : d[k] = a[k] - b[k]
  BY <1>1
<1> HIDE DEF d
<1>4. d \in Seq(Int) /\ Len(d) = Len(a) /\ DOMAIN d = 1 .. Len(a)
  BY <1>1, <1>3, FunctionIsSeq
<1> QED
  BY <1>2, <1>3, <1>4

LEMMA SquaresAre ==
  ASSUME NEW s \in Seq(Int)
  PROVE  /\ Squares(s) \in Seq(Int) /\ Len(Squares(s)) = Len(s)
         /\ \A k \in 1 .. Len(s) : Squares(s)[k] = s[k] * s[k]
<1>1. Len(s) \in Nat /\ DOMAIN s = 1 .. Len(s) /\ \A k \in 1 .. Len(s) : s[k] \in Int
  BY LenProperties, ElementOfSeq
<1> DEFINE d == [k \in 1 .. Len(s) |-> s[k] * s[k]]
<1>2. Squares(s) = d
  BY <1>1 DEF Squares
<1>3. d \in [1 .. Len(s) -> Int] /\ \A k \in 1 .. Len(s) : d[k] = s[k] * s[k]
  <2>1. \A x \in Int : x * x \in Int
    OBVIOUS
  <2> QED
    BY <1>1, <2>1
<1> HIDE DEF d
<1>4. d \in Seq(Int) /\ Len(d) = Len(s)
  BY <1>1, <1>3, FunctionIsSeq
<1> QED
  BY <1>2, <1>3, <1>4

LEMMA SpreadIs ==
  ASSUME NEW s \in Seq(Int)
  PROVE  Spread(s) \in Int
<1>1. Len(s) \in Int /\ SumOf(s) \in Int /\ SumOf(Squares(s)) \in Int
  BY LenProperties, SquaresAre, SumIs
<1>2. \A x, y, z \in Int : x * y - z * z \in Int
  OBVIOUS
<1> QED
  BY <1>1, <1>2 DEF Spread

\* The differences the other way round: the opposite sum, the same spread.
LEMMA SwappedDifferences ==
  ASSUME NEW a \in Seq(Int), NEW b \in Seq(Int), Len(a) = Len(b)
  PROVE  /\ SumOf(Differences(a, b)) \in Int
         /\ SumOf(Differences(b, a)) = - SumOf(Differences(a, b))
         /\ Spread(Differences(b, a)) = Spread(Differences(a, b))
         /\ Spread(Differences(a, b)) \in Int
<1> DEFINE d == Differences(a, b)
           e == Differences(b, a)
           n == Len(a)
<1>1. /\ d \in Seq(Int) /\ Len(d) = n /\ \A k \in 1 .. n : d[k] = a[k] - b[k]
      /\ e \in Seq(Int) /\ Len(e) = n /\ \A k \in 1 .. n : e[k] = b[k] - a[k]
  BY DifferencesAre
<1>2. \A k \in 1 .. n : a[k] \in Int /\ b[k] \in Int
  BY ElementOfSeq
<1> HIDE DEF d, e, n
<1>3. ASSUME NEW k \in 1 .. n PROVE d[k] \in Int /\ e[k] = - d[k]
  <2>1. d[k] = a[k] - b[k] /\ e[k] = b[k] - a[k] /\ a[k] \in Int /\ b[k] \in Int
    BY <1>1, <1>2
  <2> QED
    BY <2>1
<1>4. SumOf(d) \in Int /\ SumOf(e) = - SumOf(d)
  BY <1>1, <1>3, SumIs, SumNegates
<1>5. Squares(e) = Squares(d)
  <2>1. /\ Squares(d) \in Seq(Int) /\ Len(Squares(d)) = n
        /\ Squares(e) \in Seq(Int) /\ Len(Squares(e)) = n
        /\ \A k \in 1 .. n : Squares(d)[k] = d[k] * d[k] /\ Squares(e)[k] = e[k] * e[k]
    BY <1>1, SquaresAre
  <2>2. \A x \in Int : (- x) * (- x) = x * x
    OBVIOUS
  <2>3. \A k \in 1 .. n : Squares(e)[k] = Squares(d)[k]
    BY <1>3, <2>1, <2>2
  <2> QED
    BY <2>1, <2>3, SeqEqual
<1>6. Spread(d) \in Int
  BY <1>1, SpreadIs
<1>7. SumOf(e) * SumOf(e) = SumOf(d) * SumOf(d)
  BY <1>4
<1>8. Spread(e) = Spread(d)
  BY <1>1, <1>5, <1>7 DEF Spread
<1> QED
  BY <1>4, <1>6, <1>8 DEF d, e
-----------------------------------------------------------------------------
(* Comparisons of two branches.                                            *)

LEMMA WinsAddUp ==
  ASSUME NEW a \in Seq(Int), NEW b \in Seq(Int), Len(a) = Len(b)
  PROVE  /\ WinHalves(a, b) \in Nat /\ WinHalves(b, a) \in Nat
         /\ WinHalves(a, b) + WinHalves(b, a) = 2 * Len(a)
<1> DEFINE n == Len(a)
           more == {i \in 1 .. n : a[i] > b[i]}
           less == {i \in 1 .. n : b[i] > a[i]}
           same == {i \in 1 .. n : a[i] = b[i]}
<1>1. /\ n \in Nat /\ DOMAIN a = 1 .. n /\ DOMAIN b = 1 .. n
      /\ \A i \in 1 .. n : a[i] \in Int /\ b[i] \in Int
  <2>1. n \in Nat /\ DOMAIN a = 1 .. n /\ DOMAIN b = 1 .. n
    BY LenProperties
  <2>2. \A i \in 1 .. n : a[i] \in Int /\ b[i] \in Int
    BY ElementOfSeq
  <2> QED
    BY <2>1, <2>2
<1>2. /\ WinHalves(a, b) = 2 * Cardinality(more) + Cardinality(same)
      /\ WinHalves(b, a) = 2 * Cardinality(less) + Cardinality(same)
  <2>1. {i \in 1 .. n : b[i] = a[i]} = same
    OBVIOUS
  <2> QED
    BY <1>1, <2>1 DEF WinHalves
<1>3. IsFiniteSet(1 .. n) /\ Cardinality(1 .. n) = n
  <2>1. 1 \in Int /\ n \in Int /\ (IF 1 > n THEN 0 ELSE n - 1 + 1) = n
    BY <1>1
  <2> QED
    BY <2>1, FS_Interval
<1>4. /\ more \subseteq 1 .. n /\ less \subseteq 1 .. n /\ same \subseteq 1 .. n
      /\ more \union less \union same = 1 .. n
      /\ more \intersect less = {} /\ (more \union less) \intersect same = {}
  <2>1. \A i \in 1 .. n : /\ a[i] > b[i] \/ b[i] > a[i] \/ a[i] = b[i]
                          /\ ~ (a[i] > b[i] /\ b[i] > a[i])
                          /\ ~ (a[i] > b[i] /\ a[i] = b[i]) /\ ~ (b[i] > a[i] /\ a[i] = b[i])
    BY <1>1
  <2> QED
    BY <2>1
<1> HIDE DEF more, less, same
<1>5. IsFiniteSet(more) /\ IsFiniteSet(less) /\ IsFiniteSet(same)
  BY <1>3, <1>4, FS_Subset
<1>6. /\ IsFiniteSet(more \union less)
      /\ Cardinality(more \union less) = Cardinality(more) + Cardinality(less)
  <2>1. /\ IsFiniteSet(more \union less)
        /\ Cardinality(more \union less) =
             Cardinality(more) + Cardinality(less) - Cardinality(more \intersect less)
    BY <1>5, FS_Union
  <2>2. Cardinality(more \intersect less) = 0
    BY <1>4, FS_EmptySet
  <2>3. Cardinality(more) \in Nat /\ Cardinality(less) \in Nat
    BY <1>5, FS_CardinalityType
  <2> QED
    BY <2>1, <2>2, <2>3
<1>7. n = Cardinality(more) + Cardinality(less) + Cardinality(same)
  <2>1. Cardinality((more \union less) \union same) =
          Cardinality(more \union less) + Cardinality(same)
            - Cardinality((more \union less) \intersect same)
    BY <1>5, <1>6, FS_Union
  <2>2. Cardinality((more \union less) \intersect same) = 0
    BY <1>4, FS_EmptySet
  <2>3. Cardinality(more \union less) \in Nat /\ Cardinality(same) \in Nat
    BY <1>5, <1>6, FS_CardinalityType
  <2>4. Cardinality((more \union less) \union same) = n
    BY <1>3, <1>4
  <2> QED
    BY <1>6, <2>1, <2>2, <2>3, <2>4
<1>8. Cardinality(more) \in Nat /\ Cardinality(less) \in Nat /\ Cardinality(same) \in Nat
  BY <1>5, FS_CardinalityType
<1> QED
  BY <1>2, <1>7, <1>8

\* A share of wins lies in its own interval, and the interval of the complementary share
\* is its mirror image.
LEMMA IntervalCovers ==
  ASSUME NEW n \in Positive, NEW h \in 0 .. 2 * n
  PROVE  Covers(Wilson(h, n), Over(h, 2 * n))
<1> DEFINE Z == ZSquared
           N == n + Z
           m == 2 * n - h
           d == h * (2 * N) - (h + Z) * (2 * n)
           w == (2 * n) * (2 * N)
           K == 16 * (Z * (n * (N * N)))
           X == Z * ((n - h) * (n - h))
           Y == n * (h * m + n * Z)
<1>1. Z \in Nat /\ n \in Nat /\ N \in Nat /\ h \in Nat /\ m \in Nat /\ h + m = 2 * n
  BY StatisticsAssumption DEF Positive
<1>2. Covers(Wilson(h, n), Over(h, 2 * n)) <=>
        (d * d) * (4 * n * N * N) <= (Z * (h * m + n * Z)) * (w * w)
  BY DEF Covers, Wilson, Over, Leq
<1> HIDE DEF Z
<1>3. (d * d) * (4 * n * N * N) = K * X
  <2>1. d = 2 * (Z * (h - n))
    BY <1>1, Z3T(20)
  <2>2. d * d = 4 * (Z * X)
    <3> HIDE DEF d
    <3> QED
      BY <1>1, <2>1, Z3T(20)
  <2>3. X \in Int /\ N \in Int
    BY <1>1
  <2> HIDE DEF d, X, N
  <2> QED
    BY <1>1, <2>2, <2>3, Z3T(20)
<1>4. (Z * (h * m + n * Z)) * (w * w) = K * Y
  <2>1. w * w = 16 * (n * n * (N * N))
    BY <1>1, Z3T(20)
  <2> DEFINE M == h * m + n * Z
  <2>2. M \in Int
    BY <1>1
  <2> HIDE DEF w, N, M
  <2>3. (Z * M) * (w * w) = 16 * (Z * (n * (N * N))) * (n * M)
    BY <1>1, <2>1, <2>2, Z3T(20)
  <2> QED
    BY <2>3 DEF M
<1>5. X \in Nat /\ K \in Nat /\ Y \in Nat
  <2>1. \A x, y \in Nat : x * y \in Nat /\ x + y \in Nat
    BY Z3T(20)
  <2>2. \A x \in Int : x * x \in Nat
    BY Z3T(20)
  <2>3. n - h \in Int
    BY <1>1
  <2> QED
    BY <1>1, <2>1, <2>2, <2>3
<1>6. X <= Y
  <2>1. Y - X = h * m * N
    <3>1. n - h = h - n + 2 * (n - h) /\ m = 2 * n - h
      BY <1>1
    <3> QED
      BY <1>1, Z3T(20)
  <2>2. h * m * N \in Nat
    <3>1. \A x, y \in Nat : x * y \in Nat
      BY Z3T(20)
    <3> QED
      BY <1>1, <3>1
  <2> HIDE DEF X, Y
  <2> QED
    BY <1>5, <2>1, <2>2
<1> HIDE DEF X, Y, K, d, w, N, m
<1>7. K * X <= K * Y
  <2>1. K <= K
    BY <1>5
  <2> QED
    BY <1>5, <1>6, <2>1, TimesGrows
<1> QED
  BY <1>2, <1>3, <1>4, <1>7

LEMMA IntervalMirrors ==
  ASSUME NEW n \in Positive, NEW h \in Nat, NEW k \in Nat, h + k = 2 * n
  PROVE  /\ Wilson(h, n).margin2 = Wilson(k, n).margin2
         /\ Wilson(h, n).centre.num + Wilson(k, n).centre.num = Wilson(h, n).centre.den
<1>1. ZSquared \in Nat /\ n \in Nat /\ h = 2 * n - k /\ k = 2 * n - h
  BY StatisticsAssumption DEF Positive
<1>2. ZSquared * (h * (2 * n - h) + n * ZSquared) = ZSquared * (k * (2 * n - k) + n * ZSquared)
  <2>1. h * (2 * n - h) = h * k /\ k * (2 * n - k) = k * h /\ h * k = k * h
    BY <1>1
  <2> QED
    BY <2>1
<1>3. Wilson(h, n).margin2 = Wilson(k, n).margin2
  BY <1>2 DEF Wilson
<1>4. /\ Wilson(h, n).centre.num = h + ZSquared /\ Wilson(k, n).centre.num = k + ZSquared
      /\ Wilson(h, n).centre.den = 2 * (n + ZSquared)
  BY DEF Wilson, Over
<1> QED
  BY <1>1, <1>3, <1>4

LEMMA SignIs ==
  ASSUME NEW x \in Int
  PROVE  Sign(x) \in {-1, 0, 1} /\ Sign(- x) = - Sign(x)
BY DEF Sign

LEMMA PairedMirrors ==
  ASSUME NEW a \in Seq(Int), NEW b \in Seq(Int), Len(a) = Len(b), NEW given
  PROVE  /\ PairedEffect(a, b).sign \in {-1, 0, 1}
         /\ PairedEffect(b, a).sign = - PairedEffect(a, b).sign
         /\ PairedEffect(b, a).square = PairedEffect(a, b).square
         /\ PairedP(b, a, given) = PairedP(a, b, given)
<1> DEFINE x == SumOf(Differences(a, b))
           y == SumOf(Differences(b, a))
           s == Spread(Differences(a, b))
           t == Spread(Differences(b, a))
           n == Len(a)
           E(v, u) == IF u = 0 THEN [sign |-> 0, square |-> Over(0, 1)]
                      ELSE [sign |-> Sign(v), square |-> Over(v * v * (n - 1), n * u)]
           P(v, u) == IF u # 0 THEN given ELSE IF v = 0 THEN 100 ELSE 0
<1>1. x \in Int /\ y = - x /\ s \in Int /\ t = s
  BY SwappedDifferences
<1>2. /\ PairedEffect(a, b) = E(x, s) /\ PairedEffect(b, a) = E(y, t)
      /\ PairedP(a, b, given) = P(x, s) /\ PairedP(b, a, given) = P(y, t)
  BY DEF PairedEffect, PairedP
<1> HIDE DEF x, y, s, t
<1>3. Sign(x) \in {-1, 0, 1} /\ Sign(y) = - Sign(x)
  BY <1>1, SignIs
<1>4. y * y = x * x /\ (y = 0 <=> x = 0)
  BY <1>1
<1>5. P(y, t) = P(x, s)
  BY <1>1, <1>4
<1>6. /\ E(x, s).sign = IF s = 0 THEN 0 ELSE Sign(x)
      /\ E(y, s).sign = IF s = 0 THEN 0 ELSE Sign(y)
      /\ E(y, s).square = E(x, s).square
  BY <1>4
<1> HIDE DEF E, P
<1> QED
  BY <1>1, <1>2, <1>3, <1>5, <1>6

LEMMA PooledMirrors ==
  ASSUME NEW a \in Seq(Int), NEW b \in Seq(Int), Len(a) = Len(b), NEW given
  PROVE  /\ PooledEffect(a, b).sign \in {-1, 0, 1}
         /\ PooledEffect(b, a).sign = - PooledEffect(a, b).sign
         /\ PooledEffect(b, a).square = PooledEffect(a, b).square
         /\ WelchP(b, a, given) = WelchP(a, b, given)
<1> DEFINE n == Len(a)
           x == SumOf(a) - SumOf(b)
           y == SumOf(b) - SumOf(a)
           s == Spread(a) + Spread(b)
           t == Spread(b) + Spread(a)
           E(v, u) == IF u = 0 THEN [sign |-> 0, square |-> Over(0, 1)]
                      ELSE [sign |-> Sign(v), square |-> Over(2 * (n - 1) * v * v, n * u)]
<1>1. /\ SumOf(a) \in Int /\ SumOf(b) \in Int /\ Spread(a) \in Int /\ Spread(b) \in Int
      /\ n \in Nat
  BY SumIs, SpreadIs, LenProperties
<1>2. PooledEffect(a, b) = E(x, s) /\ PooledEffect(b, a) = E(y, t)
  BY DEF PooledEffect
<1>3. x \in Int /\ y = - x /\ s = t
  BY <1>1
<1>4. WelchP(b, a, given) = WelchP(a, b, given)
  BY DEF WelchP
<1> HIDE DEF x, y, s, t, n
<1>5. Sign(x) \in {-1, 0, 1} /\ Sign(y) = - Sign(x)
  BY <1>3, SignIs
<1>6. 2 * (n - 1) * y * y = 2 * (n - 1) * x * x
  BY <1>1, <1>3
<1>7. /\ E(x, s).sign = IF s = 0 THEN 0 ELSE Sign(x)
      /\ E(y, s).sign = IF s = 0 THEN 0 ELSE Sign(y)
      /\ E(y, s).square = E(x, s).square
  BY <1>6
<1> HIDE DEF E
<1> QED
  BY <1>2, <1>3, <1>4, <1>5, <1>7

\* Swapping the branches of a comparison mirrors what is said of it, for any number of
\* scores (StatisticalAnalyzer.analyze, plain_english).
THEOREM SummariesMirror ==
  ASSUME NEW a \in Seq(Int), NEW b \in Seq(Int), Len(a) = Len(b), a # <<>>,
         NEW paired \in BOOLEAN, NEW given, NEW alpha
  PROVE  SummaryMirrors(a, b, paired, given, alpha)
<1> DEFINE ab == Analyze(a, b, paired, given, alpha)
           ba == Analyze(b, a, paired, given, alpha)
           n == Len(a)
<1>1. n \in Positive
  BY EmptySeq DEF Positive
<1>2. /\ ab.wins = WinHalves(a, b) /\ ba.wins = WinHalves(b, a)
      /\ ab.interval = Wilson(WinHalves(a, b), n) /\ ba.interval = Wilson(WinHalves(b, a), n)
      /\ ab.n = n
      /\ ab.p = (IF paired THEN PairedP(a, b, given) ELSE WelchP(a, b, given))
      /\ ba.p = (IF paired THEN PairedP(b, a, given) ELSE WelchP(b, a, given))
      /\ ab.effect = (IF paired THEN PairedEffect(a, b) ELSE PooledEffect(a, b))
      /\ ba.effect = (IF paired THEN PairedEffect(b, a) ELSE PooledEffect(b, a))
      /\ ab.significant = (ab.p < alpha) /\ ba.significant = (ba.p < alpha)
  BY DEF Analyze
<1> HIDE DEF ab, ba
<1>3. /\ ab.effect.sign \in {-1, 0, 1} /\ ba.effect.sign = - ab.effect.sign
      /\ ba.effect.square = ab.effect.square /\ ba.p = ab.p
  <2>1. CASE paired
    BY <1>2, <2>1, PairedMirrors
  <2>2. CASE ~ paired
    BY <1>2, <2>2, PooledMirrors
  <2> QED
    BY <2>1, <2>2
<1>4. /\ ab.wins \in Nat /\ ba.wins \in Nat /\ ab.wins + ba.wins = 2 * n
  BY <1>2, WinsAddUp
<1>5. Covers(ab.interval, Over(ab.wins, 2 * ab.n))
  <2>1. ab.wins \in 0 .. 2 * n
    BY <1>1, <1>4 DEF Positive
  <2> QED
    BY <1>1, <1>2, <2>1, IntervalCovers
<1>6. /\ ab.interval.margin2 = ba.interval.margin2
      /\ ab.interval.centre.num + ba.interval.centre.num = ab.interval.centre.den
  <2>1. ab.interval = Wilson(ab.wins, n) /\ ba.interval = Wilson(ba.wins, n)
    BY <1>2
  <2>2. /\ Wilson(ab.wins, n).margin2 = Wilson(ba.wins, n).margin2
        /\ Wilson(ab.wins, n).centre.num + Wilson(ba.wins, n).centre.num
             = Wilson(ab.wins, n).centre.den
    BY <1>1, <1>4, IntervalMirrors
  <2> QED
    BY <2>1, <2>2
<1>7. ab.significant = ba.significant
  BY <1>2, <1>3
<1>8. PlainEnglish(ab).magnitude = PlainEnglish(ba).magnitude
  <2>1. EffectMagnitude(ab.effect) = EffectMagnitude(ba.effect)
    BY <1>3 DEF EffectMagnitude
  <2> QED
    BY <2>1 DEF PlainEnglish
<1>9. ab.effect.sign # 0 => PlainEnglish(ab).favours # PlainEnglish(ba).favours
  <2>1. /\ PlainEnglish(ab).favours = (IF ab.effect.sign >= 0 THEN "A" ELSE "B")
        /\ PlainEnglish(ba).favours = (IF ba.effect.sign >= 0 THEN "A" ELSE "B")
    BY DEF PlainEnglish
  <2> QED
    BY <1>3, <2>1
<1>10. ab.effect.sign = - ba.effect.sign
  BY <1>3
<1> QED
  BY <1>2, <1>3, <1>4, <1>5, <1>6, <1>7, <1>8, <1>9, <1>10 DEF SummaryMirrors, Mirrored, ab, ba
-----------------------------------------------------------------------------
(* Batches of comparisons.                                                 *)

LEMMA OneIsAnalyzed ==
  ASSUME NEW pair, NEW g, NEW alpha
  PROVE  AnalyzeScores(<<pair>>, <<>>, <<g>>, alpha) =
           IF ValidPair(pair[1], pair[2])
           THEN <<Analyze(pair[1], pair[2], TRUE, g, alpha)>> ELSE <<>>
<1>1. /\ <<pair>> # <<>> /\ DOMAIN <<pair>> = {1} /\ <<pair>>[1] = pair /\ <<g>>[1] = g
  OBVIOUS
<1>2. (\E i \in DOMAIN <<pair>> : ~ ValidPair(<<pair>>[i][1], <<pair>>[i][2])) <=>
        ~ ValidPair(pair[1], pair[2])
  BY <1>1
<1> QED
  BY <1>1, <1>2 DEF AnalyzeScores, Refused

\* A batch of any length gives each comparison the result it has alone but for the
\* judgement, which is that of the step-up procedure on all of them (analyze_batch,
\* POST /api/statistics/analyze).
THEOREM BatchesInOrder ==
  ASSUME NEW pairs \in Seq(Seq(Int) \X Seq(Int)), pairs # <<>>,
         NEW given \in Seq(0 .. 100), Len(given) = Len(pairs), NEW alpha \in 0 .. 100
  PROVE  BatchInOrder(pairs, given, alpha)
<1> DEFINE n == Len(pairs)
           Valid(i) == ValidPair(pairs[i][1], pairs[i][2])
           One(i) == Analyze(pairs[i][1], pairs[i][2], TRUE, given[i], alpha)
           alone == [i \in DOMAIN pairs |->
                       AnalyzeScores(<<pairs[i]>>, <<>>, <<given[i]>>, alpha)]
           batch == AnalyzeScores(<<>>, pairs, given, alpha)
<1>1. n \in Nat /\ n # 0 /\ DOMAIN pairs = 1 .. n
  <2>1. n \in Nat /\ DOMAIN pairs = 1 .. n
    BY LenProperties
  <2>2. n # 0
    BY EmptySeq
  <2> QED
    BY <2>1, <2>2
<1>2. \A i \in 1 .. n : alone[i] = IF Valid(i) THEN <<One(i)>> ELSE <<>>
  BY <1>1, OneIsAnalyzed
<1>3. DOMAIN alone = 1 .. n
  BY <1>1
<1>4. batch = IF \E i \in 1 .. n : ~ Valid(i) THEN <<>>
              ELSE AnalyzeBatch(pairs, TRUE, given, alpha)
  BY <1>1 DEF AnalyzeScores, Refused
<1> SUFFICES InOrder(batch, alone, alpha)
  BY DEF BatchInOrder
<1> HIDE DEF alone, batch
<1>5. CASE \E i \in 1 .. n : ~ Valid(i)
  BY <1>2, <1>3, <1>4, <1>5 DEF InOrder, Refused
<1>6. CASE \A i \in 1 .. n : Valid(i)
  <2> DEFINE base == [i \in DOMAIN pairs |-> One(i)]
             p == [i \in 1 .. n |-> One(i).p]
             q == BenjaminiHochberg(p)
  <2>1. \A i \in 1 .. n : alone[i] = <<One(i)>> /\ alone[i] # <<>> /\ alone[i][1] = One(i)
    <3>1. \A i \in 1 .. n : alone[i] = <<One(i)>>
      <4> HIDE DEF One, Valid
      <4> QED
        BY <1>2, <1>6
    <3>2. \A x : <<x>> # <<>> /\ <<x>>[1] = x
      OBVIOUS
    <3> HIDE DEF One
    <3> QED
      BY <3>1, <3>2, Zenon
  <2>2. DOMAIN base = 1 .. n /\ \A i \in 1 .. n : base[i] = One(i)
    BY <1>1
  <2>3. batch = Corrected(base, BenjaminiHochberg([i \in DOMAIN base |-> base[i].p]), alpha)
    <3> HIDE DEF Valid
    <3> QED
      BY <1>4, <1>6 DEF AnalyzeBatch, CorrectedTogether
  <2>4. [i \in DOMAIN base |-> base[i].p] = p
    <3> HIDE DEF One, base
    <3> QED
      BY <2>2
  <2>5. [i \in DOMAIN alone |-> alone[i][1].p] = p
    <3> HIDE DEF One
    <3> QED
      BY <1>3, <2>1
  <2>6. \A i \in 1 .. n : batch[i] = [One(i) EXCEPT !.adjusted = q[i],
                                                   !.significant = Lt(q[i], Over(alpha, 1))]
    <3> HIDE DEF One, base, p
    <3> QED
      BY <2>2, <2>3, <2>4 DEF Corrected
  <2>7. ASSUME NEW i \in 1 .. n
        PROVE  /\ One(i).p \in 0 .. 100
               /\ One(i).significant <=> One(i).p < alpha
               /\ "significant" \in DOMAIN One(i)
    <3>1. /\ One(i).p = PairedP(pairs[i][1], pairs[i][2], given[i])
          /\ One(i).significant = (One(i).p < alpha)
          /\ "significant" \in DOMAIN One(i)
      BY DEF Analyze
    <3>2. given[i] \in 0 .. 100
      BY ElementOfSeq
    <3>3. PairedP(pairs[i][1], pairs[i][2], given[i]) \in {given[i], 100, 0}
      BY DEF PairedP
    <3> HIDE DEF One
    <3>4. 0 \in 0 .. 100 /\ 100 \in 0 .. 100
      OBVIOUS
    <3> QED
      BY <3>1, <3>2, <3>3, <3>4
  <2>8. p \in Seq(0 .. 100) /\ Len(p) = n /\ DOMAIN p = 1 .. n /\ p # <<>>
    <3>1. p \in [1 .. n -> 0 .. 100]
      <4> HIDE DEF One
      <4> QED
        BY <2>7
    <3> HIDE DEF p
    <3>2. p \in Seq(0 .. 100) /\ Len(p) = n /\ DOMAIN p = 1 .. n
      <4> HIDE DEF n
      <4> QED
        BY <1>1, <3>1, FunctionIsSeq
    <3> QED
      BY <1>1, <3>2, EmptySeq
  <2>9. \A i \in 1 .. n : p[i] = One(i).p
    OBVIOUS
  <2> HIDE DEF One, base, p
  <2>10. /\ {i \in DOMAIN p : Lt(q[i], Over(alpha, 1))} = Rejected(p, alpha)
         /\ \A i \in DOMAIN p : Leq(Over(p[i], 1), q[i]) /\ q[i] = Adjusted(p, i)
    <3>1. StepUp(p, alpha)
      BY <2>8, AdjustmentIsStepUp
    <3>2. \A i \in DOMAIN p : q[i] = Adjusted(p, i)
      BY <2>8 DEF BenjaminiHochberg
    <3> QED
      BY <3>1, <3>2 DEF StepUp
  <2>11. \A i \in 1 .. n : batch[i].significant <=> Lt(q[i], Over(alpha, 1))
    <3> HIDE DEF q
    <3> QED
      BY <2>6, <2>7
  <2>12. \A i \in 1 .. n : Unjudged(batch[i]) = Unjudged(alone[i][1])
    <3> SUFFICES ASSUME NEW i \in 1 .. n
                 PROVE  Unjudged(batch[i]) = Unjudged(alone[i][1])
      OBVIOUS
    <3> DEFINE r == One(i)
               adjusted == q[i]
               significant == Lt(q[i], Over(alpha, 1))
    <3>1. batch[i] = [r EXCEPT !.adjusted = adjusted, !.significant = significant]
      BY <2>6
    <3>2. alone[i][1] = r
      BY <2>1
    <3> HIDE DEF r, adjusted, significant
    <3> QED
      BY <3>1, <3>2 DEF Unjudged
  <2>13. {i \in DOMAIN alone : batch[i].significant} = Rejected(p, alpha)
    <3> HIDE DEF q
    <3> QED
      BY <1>3, <2>8, <2>10, <2>11
  <2>14. ASSUME NEW i \in 1 .. n, batch[i].significant
         PROVE  alone[i][1].significant
    <3>1. Lt(q[i], Over(alpha, 1)) /\ Leq(Over(p[i], 1), q[i]) /\ q[i] = Adjusted(p, i)
      BY <2>8, <2>10, <2>11, <2>14
    <3>2. q[i] \in Fraction
      <4>1. LeastOf(Adjustments(p, i)) \in Fraction
            /\ Adjusted(p, i) = Capped(LeastOf(Adjustments(p, i)))
        BY <2>8, AdjustmentsAre
      <4> QED
        BY <3>1, <4>1, CappedIs
    <3>3. p[i] \in Nat /\ alpha \in Nat /\ 1 \in Positive
      BY <2>8, SeqOfPercents DEF Positive
    <3>4. Over(p[i], 1) \in Fraction /\ Over(alpha, 1) \in Fraction
      BY <3>3, OverIs
    <3> HIDE DEF q
    <3>5. Lt(Over(p[i], 1), Over(alpha, 1))
      BY <3>1, <3>2, <3>4, LeqLt
    <3>6. p[i] * 1 < alpha * 1
      BY <3>3, <3>5, OverCompares
    <3>7. p[i] < alpha
      BY <3>3, <3>6
    <3> QED
      BY <2>1, <2>7, <2>9, <3>7
  <2>15. ASSUME NEW i \in 1 .. n, n = 1, alone[i][1].significant
         PROVE  batch[i].significant
    <3>1. i = 1 /\ Len(p) = 1 /\ 1 \in 1 .. Len(p) /\ 1 .. Len(p) = {1}
      BY <2>8, <2>15
    <3>2. p[1] < alpha
      BY <2>1, <2>7, <2>9, <2>15, <3>1
    <3>3. RankOf(p, 1) = 1
      <4>1. RankOf(p, 1) \in 1 .. Len(p)
        BY <2>8, <3>1, RankIs
      <4> QED
        BY <3>1, <4>1
    <3>4. p[1] * Len(p) < alpha * RankOf(p, 1) /\ RankOf(p, 1) <= RankOf(p, 1)
      <4>1. p[1] \in Nat /\ alpha \in Nat
        BY <2>8, <3>1, SeqOfPercents
      <4>2. p[1] * 1 < alpha * 1
        BY <3>2, <4>1
      <4> QED
        BY <3>1, <3>3, <4>2
    <3>5. Lt(Adjusted(p, 1), Over(alpha, 1))
      BY <2>8, <3>1, <3>4, AdjustedBelow
    <3> QED
      BY <2>8, <2>10, <2>11, <3>1, <3>5
  <2>16. Len(alone) = n
    <3>1. DOMAIN alone = 1 .. n /\ alone = [i \in DOMAIN alone |-> alone[i]]
      BY <1>3 DEF alone
    <3>2. alone \in [1 .. n -> {alone[i] : i \in 1 .. n}]
      BY <3>1
    <3> QED
      BY <1>1, <3>2, FunctionIsSeq
  <2>17. ~ \E i \in DOMAIN alone : alone[i] = Refused
    BY <1>3, <2>1 DEF Refused
  <2>18. \A i \in 1 .. n : Len(alone) = 1 => batch[i].significant = alone[i][1].significant
    <3> SUFFICES ASSUME NEW i \in 1 .. n, Len(alone) = 1
                 PROVE  batch[i].significant = alone[i][1].significant
      OBVIOUS
    <3>1. batch[i].significant <=> alone[i][1].significant
      BY <2>14, <2>15, <2>16
    <3>2. batch[i].significant \in BOOLEAN /\ alone[i][1].significant \in BOOLEAN
      <4>1. /\ batch[i].significant = Lt(q[i], Over(alpha, 1))
            /\ alone[i][1].significant = (One(i).p < alpha)
        <5>1. One(i).significant = (One(i).p < alpha) /\ "significant" \in DOMAIN One(i)
          BY DEF One, Analyze
        <5> HIDE DEF q
        <5> QED
          BY <2>1, <2>6, <5>1
      <4> QED
        BY <4>1 DEF Lt
    <3> QED
      BY <3>1, <3>2
  <2> QED
    BY <1>3, <2>5, <2>12, <2>13, <2>14, <2>17, <2>18, Zenon DEF InOrder
<1> QED
  BY <1>5, <1>6
-----------------------------------------------------------------------------
(* Sequences of sequences.                                                 *)

LEMMA SetOfSeq ==
  ASSUME NEW W, NEW s \in Seq(W)
  PROVE  IsFiniteSet(ToSet(s)) /\ ToSet(s) \subseteq W /\ (ToSet(s) = {} <=> s = <<>>)
<1>1. DOMAIN s = 1 .. Len(s) /\ Len(s) \in Nat
  BY LenProperties
<1>2. IsFiniteSet(1 .. Len(s))
  BY <1>1, FS_Interval
<1>3. s \in Surjection(1 .. Len(s), ToSet(s))
  <2>1. s \in [1 .. Len(s) -> W]
    BY LenProperties
  <2> QED
    BY <1>1, <2>1 DEF Surjection, ToSet
<1>4. IsFiniteSet(ToSet(s))
  BY <1>2, <1>3, FS_Surjection
<1>5. ToSet(s) \subseteq W
  BY <1>1, ElementOfSeq DEF ToSet
<1>6. s # <<>> => ToSet(s) # {}
  <2>1. s # <<>> => 1 \in DOMAIN s
    BY <1>1, EmptySeq
  <2> QED
    BY <2>1 DEF ToSet
<1>7. ToSet(<<>>) = {}
  BY DEF ToSet
<1> QED
  BY <1>4, <1>5, <1>6, <1>7

LEMMA SetOfBoth ==
  ASSUME NEW W, NEW s \in Seq(W), NEW t \in Seq(W)
  PROVE  s \o t \in Seq(W) /\ ToSet(s \o t) = ToSet(s) \union ToSet(t)
<1>1. /\ s \o t \in Seq(W) /\ Len(s \o t) = Len(s) + Len(t)
      /\ \A i \in 1 .. Len(s) + Len(t) :
           (s \o t)[i] = IF i <= Len(s) THEN s[i] ELSE t[i - Len(s)]
  BY ConcatProperties
<1>2. /\ DOMAIN s = 1 .. Len(s) /\ Len(s) \in Nat /\ DOMAIN t = 1 .. Len(t) /\ Len(t) \in Nat
      /\ DOMAIN (s \o t) = 1 .. Len(s) + Len(t)
  BY <1>1, LenProperties
<1>3. ToSet(s \o t) \subseteq ToSet(s) \union ToSet(t)
  <2> SUFFICES ASSUME NEW i \in 1 .. Len(s) + Len(t)
               PROVE  (s \o t)[i] \in ToSet(s) \union ToSet(t)
    BY <1>2 DEF ToSet
  <2>1. CASE i <= Len(s)
    <3>1. i \in DOMAIN s /\ (s \o t)[i] = s[i]
      BY <1>1, <1>2, <2>1
    <3> QED
      BY <3>1 DEF ToSet
  <2>2. CASE ~ (i <= Len(s))
    <3>1. i - Len(s) \in DOMAIN t /\ (s \o t)[i] = t[i - Len(s)]
      BY <1>1, <1>2, <2>2
    <3> QED
      BY <3>1 DEF ToSet
  <2> QED
    BY <2>1, <2>2
<1>4. ASSUME NEW i \in DOMAIN s PROVE s[i] \in ToSet(s \o t)
  <2>1. i \in 1 .. Len(s) + Len(t) /\ i <= Len(s)
    BY <1>2
  <2>2. s[i] = (s \o t)[i]
    BY <1>1, <2>1
  <2> QED
    BY <1>2, <2>1, <2>2 DEF ToSet
<1>5. ASSUME NEW i \in DOMAIN t PROVE t[i] \in ToSet(s \o t)
  <2>1. i + Len(s) \in 1 .. Len(s) + Len(t) /\ ~ (i + Len(s) <= Len(s))
        /\ (i + Len(s)) - Len(s) = i
    BY <1>2
  <2>2. t[i] = (s \o t)[i + Len(s)]
    BY <1>1, <2>1
  <2> QED
    BY <1>2, <2>1, <2>2 DEF ToSet
<1>6. ToSet(s) \union ToSet(t) \subseteq ToSet(s \o t)
  BY <1>4, <1>5 DEF ToSet
<1> QED
  BY <1>1, <1>3, <1>6

\* Flattening goes on from the empty sequence, one sequence after the other.
LEMMA FlattenIs ==
  ASSUME NEW W, NEW ss \in Seq(Seq(W))
  PROVE  \E g \in [0 .. Len(ss) -> Seq(W)] :
           /\ g[0] = <<>> /\ FlattenSeq(ss) = g[Len(ss)]
           /\ \A k \in 1 .. Len(ss) : g[k] = g[k - 1] \o ss[k]
<1> DEFINE n == Len(ss)
           F(f) == [i \in 1 .. n |-> IF i = 1 THEN ss[i] ELSE f[i - 1] \o ss[i]]
           flat == CHOOSE f : f = F(f)
           step == [k \in 1 .. n |-> [x \in Seq(W) |-> x \o ss[k]]]
<1>1. n \in Nat /\ \A k \in 1 .. n : ss[k] \in Seq(W)
  BY LenProperties, ElementOfSeq
<1>2. FlattenSeq(ss) = IF n = 0 THEN ss ELSE flat[n]
  BY DEF FlattenSeq
<1>3. step \in [1 .. n -> [Seq(W) -> Seq(W)]]
  <2> SUFFICES ASSUME NEW k \in 1 .. n, NEW x \in Seq(W) PROVE x \o ss[k] \in Seq(W)
    OBVIOUS
  <2> QED
    BY <1>1, ConcatProperties
<1>4. \A k \in 1 .. n, x \in Seq(W) : step[k][x] = x \o ss[k]
  OBVIOUS
<1>5. PICK g \in [0 .. n -> Seq(W)] : g[0] = <<>> /\ \A k \in 1 .. n : g[k] = step[k][g[k - 1]]
  <2>1. n \in Nat /\ <<>> \in Seq(W)
    BY <1>1, EmptySeq
  <2> HIDE DEF step, n
  <2>2. \E g : Iterates(g, n, Seq(W), <<>>, step)
    BY <1>3, <2>1, Recursion
  <2> QED
    BY <2>2 DEF Iterates
<1>6. \A k \in 1 .. n : k \in 0 .. n /\ k # 0 /\ k - 1 \in 0 .. n /\ (k # 1 => k - 1 \in 1 .. n)
  BY <1>1
<1>7. \A k \in 1 .. n : g[k] = g[k - 1] \o ss[k]
  <2> HIDE DEF step, n
  <2> QED
    BY <1>4, <1>5, <1>6
<1>8. n # 0 => g[1] = ss[1]
  <2>1. n # 0 => 1 \in 1 .. n /\ 1 - 1 = 0
    BY <1>1
  <2> HIDE DEF n, step
  <2> QED
    <3>1. n # 0 => g[1] = <<>> \o ss[1] /\ ss[1] \in Seq(W)
      BY <1>1, <1>5, <1>7, <2>1
    <3>2. \A x \in Seq(W) : <<>> \o x = x
      BY ConcatEmptySeq
    <3> QED
      BY <3>1, <3>2
<1> DEFINE h == [i \in 1 .. n |-> g[i]]
<1>9. h = F(h)
  <2>1. \A k \in 1 .. n : g[k] = IF k = 1 THEN ss[k] ELSE h[k - 1] \o ss[k]
    <3> SUFFICES ASSUME NEW k \in 1 .. n
                 PROVE  g[k] = IF k = 1 THEN ss[k] ELSE h[k - 1] \o ss[k]
      OBVIOUS
    <3>1. CASE k = 1
      BY <1>1, <1>8, <3>1
    <3>2. CASE k # 1
      <4>1. h[k - 1] = g[k - 1]
        BY <1>6, <3>2
      <4> QED
        BY <1>7, <3>2, <4>1
    <3> QED
      BY <3>1, <3>2
  <2>2. F(h) = [k \in 1 .. n |-> g[k]]
    <3> HIDE DEF h, n, step
    <3> QED
      BY <2>1
  <2> QED
    BY <2>2
<1>10. flat = F(flat)
  <2> HIDE DEF F
  <2> QED
    BY <1>9
<1> HIDE DEF flat, step, h
<1>11. \A k \in 1 .. n : flat[k] = IF k = 1 THEN ss[k] ELSE flat[k - 1] \o ss[k]
  <2> HIDE DEF n
  <2> QED
    BY <1>10
<1> DEFINE S == {k \in 0 .. n : k = 0 \/ flat[k] = g[k]}
<1> HIDE DEF F, n
<1>12. 0 \in S
  BY <1>1
<1>13. ASSUME NEW k \in 0 .. (n - 1), k \in S PROVE k + 1 \in S
  <2>1. k + 1 \in 1 .. n /\ k + 1 \in 0 .. n /\ (k + 1) - 1 = k /\ k \in Nat
    BY <1>1
  <2>2. CASE k = 0
    <3>1. flat[1] = ss[1] /\ g[1] = ss[1] /\ k + 1 = 1
      BY <1>1, <1>8, <1>11, <2>1, <2>2
    <3> QED
      BY <2>1, <3>1
  <2>3. CASE k # 0
    <3>1. flat[k] = g[k] /\ k + 1 # 1
      BY <1>13, <2>1, <2>3
    <3>2. flat[k + 1] = flat[k] \o ss[k + 1] /\ g[k + 1] = g[k] \o ss[k + 1]
      BY <1>7, <1>11, <2>1, <3>1
    <3> QED
      BY <2>1, <3>1, <3>2
  <2> QED
    BY <2>2, <2>3
<1>14. n \in S
  <2>1. \A k \in 0 .. n : k \in S
    <3> HIDE DEF S
    <3> QED
      BY <1>1, <1>12, <1>13, UpTo
  <2> QED
    BY <1>1, <2>1
<1>15. FlattenSeq(ss) = g[n]
  <2>1. CASE n = 0
    <3>1. ss = <<>>
      BY <2>1, EmptySeq DEF n
    <3> QED
      BY <1>2, <1>5, <2>1, <3>1
  <2>2. CASE n # 0
    BY <1>2, <1>14, <2>2
  <2> QED
    BY <2>1, <2>2
<1> QED
  BY <1>5, <1>7, <1>15 DEF n

LEMMA FlattenMembers ==
  ASSUME NEW W, NEW ss \in Seq(Seq(W))
  PROVE  /\ FlattenSeq(ss) \in Seq(W)
         /\ ToSet(FlattenSeq(ss)) = UNION {ToSet(ss[i]) : i \in 1 .. Len(ss)}
<1> DEFINE n == Len(ss)
           M(k) == UNION {ToSet(ss[i]) : i \in 1 .. k}
<1>1. n \in Nat /\ \A k \in 1 .. n : ss[k] \in Seq(W)
  BY LenProperties, ElementOfSeq
<1>2. PICK g \in [0 .. n -> Seq(W)] :
        /\ g[0] = <<>> /\ FlattenSeq(ss) = g[n]
        /\ \A k \in 1 .. n : g[k] = g[k - 1] \o ss[k]
  BY FlattenIs
<1> DEFINE S == {k \in 0 .. n : ToSet(g[k]) = M(k)}
<1> HIDE DEF n
<1>3. 0 \in S
  <2>1. ToSet(<<>>) = {} /\ M(0) = {}
    BY DEF ToSet
  <2> QED
    BY <1>1, <1>2, <2>1
<1>4. ASSUME NEW k \in 0 .. (n - 1), k \in S PROVE k + 1 \in S
  <2>1. k + 1 \in 1 .. n /\ k + 1 \in 0 .. n /\ (k + 1) - 1 = k /\ k \in 0 .. n
        /\ 1 .. (k + 1) = (1 .. k) \union {k + 1}
    BY <1>1
  <2>2. g[k + 1] = g[k] \o ss[k + 1] /\ g[k] \in Seq(W) /\ ss[k + 1] \in Seq(W)
    BY <1>1, <1>2, <2>1
  <2>3. ToSet(g[k + 1]) = ToSet(g[k]) \union ToSet(ss[k + 1])
    BY <2>2, SetOfBoth
  <2>4. M(k + 1) = M(k) \union ToSet(ss[k + 1])
    BY <2>1
  <2>5. ToSet(g[k]) = M(k)
    BY <1>4
  <2> HIDE DEF M
  <2> QED
    BY <2>1, <2>3, <2>4, <2>5
<1>5. n \in S
  <2>1. \A k \in 0 .. n : k \in S
    <3> HIDE DEF S
    <3> QED
      BY <1>1, <1>3, <1>4, UpTo
  <2> QED
    BY <1>1, <2>1
<1>6. FlattenSeq(ss) \in Seq(W)
  BY <1>1, <1>2
<1> QED
  BY <1>2, <1>5, <1>6 DEF n

LEMMA FlattenFirst ==
  ASSUME NEW W, NEW s \in Seq(W), NEW ss \in Seq(Seq(W))
  PROVE  FlattenSeq(<<s>> \o ss) = s \o FlattenSeq(ss)
<1> DEFINE n == Len(ss)
           tt == <<s>> \o ss
<1>1. n \in Nat /\ \A k \in 1 .. n : ss[k] \in Seq(W)
  BY LenProperties, ElementOfSeq
<1>2. /\ tt \in Seq(Seq(W)) /\ Len(tt) = n + 1 /\ tt[1] = s
      /\ \A k \in 1 .. n : tt[k + 1] = ss[k]
  <2>1. <<s>> \in Seq(Seq(W)) /\ Len(<<s>>) = 1 /\ <<s>>[1] = s
    OBVIOUS
  <2>2. /\ tt \in Seq(Seq(W)) /\ Len(tt) = 1 + n
        /\ \A i \in 1 .. 1 + n : tt[i] = IF i <= 1 THEN <<s>>[i] ELSE ss[i - 1]
    BY <2>1, ConcatProperties
  <2>3. 1 \in 1 .. 1 + n /\ \A k \in 1 .. n : k + 1 \in 1 .. 1 + n /\ ~ (k + 1 <= 1)
        /\ (k + 1) - 1 = k
    BY <1>1
  <2> HIDE DEF n, tt
  <2>4. tt[1] = <<s>>[1]
    BY <2>2, <2>3
  <2>5. \A k \in 1 .. n : tt[k + 1] = ss[k]
    BY <2>2, <2>3
  <2> QED
    BY <1>1, <2>1, <2>2, <2>4, <2>5
<1>3. PICK g \in [0 .. n -> Seq(W)] :
        /\ g[0] = <<>> /\ FlattenSeq(ss) = g[n]
        /\ \A k \in 1 .. n : g[k] = g[k - 1] \o ss[k]
  BY FlattenIs
<1> HIDE DEF tt
<1>4. PICK h \in [0 .. n + 1 -> Seq(W)] :
        /\ h[0] = <<>> /\ FlattenSeq(tt) = h[n + 1]
        /\ \A k \in 1 .. n + 1 : h[k] = h[k - 1] \o tt[k]
  <2> HIDE DEF n
  <2> QED
    <3>1. \E h \in [0 .. Len(tt) -> Seq(W)] :
            /\ h[0] = <<>> /\ FlattenSeq(tt) = h[Len(tt)]
            /\ \A k \in 1 .. Len(tt) : h[k] = h[k - 1] \o tt[k]
      BY <1>2, FlattenIs
    <3> QED
      BY <1>2, <3>1
<1> DEFINE S == {k \in 0 .. n : h[k + 1] = s \o g[k]}
<1> HIDE DEF n
<1>5. 0 \in S
  <2>1. 1 \in 1 .. n + 1 /\ 0 \in 0 .. n /\ 0 + 1 = 1 /\ 1 - 1 = 0
    BY <1>1
  <2>2. h[1] = <<>> \o s
    BY <1>2, <1>4, <2>1
  <2>3. <<>> \o s = s /\ s \o <<>> = s
    BY ConcatEmptySeq
  <2> QED
    BY <1>3, <2>1, <2>2, <2>3
<1>6. ASSUME NEW k \in 0 .. (n - 1), k \in S PROVE k + 1 \in S
  <2>1. /\ k + 1 \in 1 .. n /\ k + 1 \in 0 .. n /\ (k + 1) - 1 = k /\ k \in 0 .. n
        /\ (k + 1) + 1 \in 1 .. n + 1 /\ ((k + 1) + 1) - 1 = k + 1
    BY <1>1
  <2>2. h[(k + 1) + 1] = h[k + 1] \o ss[k + 1] /\ h[k + 1] = s \o g[k]
        /\ g[k + 1] = g[k] \o ss[k + 1]
    BY <1>2, <1>3, <1>4, <1>6, <2>1
  <2>3. g[k] \in Seq(W) /\ ss[k + 1] \in Seq(W)
    BY <1>1, <2>1
  <2>4. (s \o g[k]) \o ss[k + 1] = s \o (g[k] \o ss[k + 1])
    <3> DEFINE x == g[k]
               y == ss[k + 1]
    <3>1. x \in Seq(W) /\ y \in Seq(W)
      BY <2>3
    <3> HIDE DEF x, y
    <3>2. (s \o x) \o y = s \o (x \o y)
      BY <3>1, ConcatAssociative
    <3> QED
      BY <3>2 DEF x, y
  <2> QED
    BY <2>1, <2>2, <2>4
<1>7. n \in S
  <2>1. \A k \in 0 .. n : k \in S
    <3> HIDE DEF S
    <3> QED
      BY <1>1, <1>5, <1>6, UpTo
  <2> QED
    BY <1>1, <2>1
<1> QED
  BY <1>3, <1>4, <1>7 DEF tt
\* What stands at the places of a sequence, one more in front.
Mapped(h, s) == [i \in DOMAIN s |-> h[s[i]]]

LEMMA MappedFirst ==
  ASSUME NEW W, NEW X, NEW h \in [W -> X], NEW x \in W, NEW s \in Seq(W)
  PROVE  /\ Mapped(h, <<x>> \o s) = <<h[x]>> \o Mapped(h, s)
         /\ Mapped(h, s) \in Seq(X)
<1> DEFINE both == <<x>> \o s
           n == Len(s)
           mapped == [i \in 1 .. n |-> h[s[i]]]
           left == [i \in 1 .. (n + 1) |-> h[both[i]]]
           right == <<h[x]>> \o mapped
<1>1. n \in Nat /\ DOMAIN s = 1 .. n /\ \A i \in 1 .. n : s[i] \in W
  BY LenProperties, ElementOfSeq
<1>2. /\ both \in Seq(W) /\ Len(both) = 1 + n
      /\ \A i \in 1 .. 1 + n : both[i] = IF i <= 1 THEN x ELSE s[i - 1]
  <2>1. <<x>> \in Seq(W) /\ Len(<<x>>) = 1 /\ <<x>>[1] = x
    OBVIOUS
  <2>2. /\ both \in Seq(W) /\ Len(both) = 1 + n
        /\ \A i \in 1 .. 1 + n : both[i] = IF i <= 1 THEN <<x>>[i] ELSE s[i - 1]
    <3> DEFINE t == <<x>>
    <3>1. t \in Seq(W) /\ Len(t) = 1
      BY <2>1
    <3> HIDE DEF t
    <3>2. /\ t \o s \in Seq(W) /\ Len(t \o s) = Len(t) + Len(s)
          /\ \A i \in 1 .. Len(t) + Len(s) :
               (t \o s)[i] = IF i <= Len(t) THEN t[i] ELSE s[i - Len(t)]
      BY <3>1, ConcatProperties
    <3> QED
      BY <3>1, <3>2 DEF t
  <2> HIDE DEF both, n
  <2> QED
    BY <1>1, <2>1, <2>2
<1>3. mapped \in Seq(X) /\ Len(mapped) = n
  <2> HIDE DEF n
  <2>1. mapped \in [1 .. n -> X]
    BY <1>1
  <2> QED
    BY <1>1, <2>1, FunctionIsSeq
<1>4. /\ right \in Seq(X) /\ Len(right) = 1 + n
      /\ \A i \in 1 .. 1 + n : right[i] = IF i <= 1 THEN h[x] ELSE mapped[i - 1]
  <2> DEFINE t == <<h[x]>>
  <2>1. t \in Seq(X) /\ Len(t) = 1 /\ t[1] = h[x]
    OBVIOUS
  <2> HIDE DEF t, mapped, n
  <2>2. /\ t \o mapped \in Seq(X) /\ Len(t \o mapped) = Len(t) + Len(mapped)
        /\ \A i \in 1 .. Len(t) + Len(mapped) :
             (t \o mapped)[i] = IF i <= Len(t) THEN t[i] ELSE mapped[i - Len(t)]
    BY <1>3, <2>1, ConcatProperties
  <2> QED
    BY <1>1, <1>3, <2>1, <2>2 DEF t
<1>5. left \in Seq(X) /\ Len(left) = n + 1
  <2> HIDE DEF n, both
  <2>1. left \in [1 .. (n + 1) -> X]
    BY <1>1, <1>2
  <2> HIDE DEF left
  <2>2. n + 1 \in Nat
    BY <1>1
  <2> QED
    BY <2>1, <2>2, FunctionIsSeq
<1>6. ASSUME NEW i \in 1 .. (n + 1)
      PROVE  left[i] = right[i]
  <2> HIDE DEF right, both, n
  <2>1. left[i] = h[both[i]]
    OBVIOUS
  <2>2. i \in 1 .. 1 + n /\ (~ (i <= 1) => i - 1 \in 1 .. n)
    BY <1>1
  <2>3. ~ (i <= 1) => mapped[i - 1] = h[s[i - 1]]
    BY <2>2
  <2> HIDE DEF left, mapped
  <2> QED
    BY <1>2, <1>4, <2>1, <2>2, <2>3
<1>7. left = right
  <2> HIDE DEF left, right, n
  <2>1. Len(left) = Len(right)
    BY <1>1, <1>4, <1>5
  <2>2. \A i \in 1 .. Len(left) : left[i] = right[i]
    BY <1>5, <1>6
  <2> QED
    BY <1>4, <1>5, <2>1, <2>2, SeqEqual
<1>8. DOMAIN both = 1 .. (n + 1)
  <2> HIDE DEF both, n
  <2> QED
    BY <1>1, <1>2, LenProperties
<1>9. Mapped(h, both) = left /\ Mapped(h, s) = mapped
  BY <1>1, <1>8, Zenon DEF Mapped
<1> HIDE DEF left, mapped
<1> QED
  BY <1>3, <1>7, <1>9, Zenon

-----------------------------------------------------------------------------
(* Validation memos.                                                       *)

Category == {"Statistical significance", "Statistical power", "Bias & fairness",
             "Numerical fidelity", "Human oversight", "Regulatory coverage",
             "Revalidation", "Overall"}
Finding == [severity : {"HIGH", "MEDIUM", "LOW", "INFO"}, category : Category]

Stat == [significant : BOOLEAN, powered : BOOLEAN]
Evidence(D) ==
  [stats : Seq(Stat), bias : Seq(BOOLEAN), fidelity : Seq(BOOLEAN), decisions : Seq(D)]

\* The categories of a list of findings.
Named(s) == {s[i].category : i \in DOMAIN s}

LEMMA NamedAre ==
  ASSUME NEW s \in Seq(Finding)
  PROVE  /\ Named(s) = {x.category : x \in ToSet(s)}
         /\ Named(s) = {} <=> s = <<>>
<1>1. Named(s) = {x.category : x \in ToSet(s)}
  BY DEF Named, ToSet
<1>2. ToSet(s) = {} <=> s = <<>>
  BY SetOfSeq
<1> QED
  BY <1>1, <1>2

LEMMA NamedBoth ==
  ASSUME NEW s \in Seq(Finding), NEW t \in Seq(Finding)
  PROVE  s \o t \in Seq(Finding) /\ Named(s \o t) = Named(s) \union Named(t)
<1>1. s \o t \in Seq(Finding) /\ ToSet(s \o t) = ToSet(s) \union ToSet(t)
  BY SetOfBoth
<1> QED
  BY <1>1, NamedAre

LEMMA ForEachNamed ==
  ASSUME NEW n \in Nat, NEW f \in Finding
  PROVE  /\ ForEach(n, f) \in Seq(Finding)
         /\ Len(ForEach(n, f)) = n
         /\ n = 0 => Named(ForEach(n, f)) = {}
         /\ n # 0 => Named(ForEach(n, f)) = {f.category}
<1>1. ForEach(n, f) \in Seq(Finding) /\ Len(ForEach(n, f)) = n
  BY FunctionIsSeq DEF ForEach
<1>2. DOMAIN ForEach(n, f) = 1 .. n /\ \A i \in 1 .. n : ForEach(n, f)[i] = f
  BY DEF ForEach
<1>3. n = 0 => Named(ForEach(n, f)) = {}
  <2>1. n = 0 => 1 .. n = {}
    OBVIOUS
  <2> QED
    BY <1>2, <2>1 DEF Named
<1>4. n # 0 => Named(ForEach(n, f)) = {f.category}
  <2>1. n # 0 => 1 \in 1 .. n
    OBVIOUS
  <2> QED
    BY <1>2, <2>1 DEF Named
<1> QED
  BY <1>1, <1>3, <1>4

LEMMA WhenNamed ==
  ASSUME NEW c \in BOOLEAN, NEW f \in Finding
  PROVE  /\ When(c, f) \in Seq(Finding)
         /\ c => Named(When(c, f)) = {f.category}
         /\ ~c => Named(When(c, f)) = {}
<1>1. CASE c
  <2>1. When(c, f) = ForEach(1, f)
    BY <1>1, Zenon DEF When
  <2>2. 1 \in Nat /\ 1 # 0
    OBVIOUS
  <2>3. ForEach(1, f) \in Seq(Finding) /\ Named(ForEach(1, f)) = {f.category}
    BY <2>2, ForEachNamed
  <2> QED
    BY <1>1, <2>1, <2>3, Zenon
<1>2. CASE ~c
  <2>1. When(c, f) = ForEach(0, f)
    BY <1>2, Zenon DEF When
  <2>2. ForEach(0, f) \in Seq(Finding) /\ Named(ForEach(0, f)) = {}
    BY ForEachNamed
  <2> QED
    BY <1>2, <2>1, <2>2, Zenon
<1> QED
  BY <1>1, <1>2

\* How many are false, as a set of their places.
FalseAt(s) == {i \in DOMAIN s : ~ s[i]}

LEMMA FalseAtIs ==
  ASSUME NEW s \in Seq(BOOLEAN)
  PROVE  /\ IsFiniteSet(FalseAt(s)) /\ Cardinality(FalseAt(s)) \in Nat
         /\ Cardinality(FalseAt(s)) = 0 <=> FALSE \notin ToSet(s)
<1>1. DOMAIN s = 1 .. Len(s) /\ Len(s) \in Nat
  BY LenProperties
<1>2. IsFiniteSet(1 .. Len(s))
  BY <1>1, FS_Interval
<1>3. IsFiniteSet(FalseAt(s)) /\ Cardinality(FalseAt(s)) \in Nat
  BY <1>1, <1>2, FS_Subset, FS_CardinalityType DEF FalseAt
<1>4. Cardinality(FalseAt(s)) = 0 <=> FalseAt(s) = {}
  BY <1>3, FS_EmptySet
<1>5. \A i \in DOMAIN s : s[i] \in BOOLEAN
  BY <1>1, ElementOfSeq
<1>6. FalseAt(s) = {} <=> FALSE \notin ToSet(s)
  <2>1. \A i \in DOMAIN s : ~ s[i] <=> s[i] = FALSE
    BY <1>5
  <2> QED
    BY <2>1, Zenon DEF FalseAt, ToSet
<1> QED
  BY <1>3, <1>4, <1>6

\* What the statistics of a memo give: a finding for each that is not significant, and
\* one for each that lacks power.
StatFindings(stats) ==
  [i \in DOMAIN stats |->
     When(~stats[i].significant, AFinding("MEDIUM", "Statistical significance"))
       \o When(~stats[i].powered, AFinding("LOW", "Statistical power"))]

StatNames(stats) ==
  {c \in {"Statistical significance"} : \E i \in DOMAIN stats : ~stats[i].significant}
    \union {c \in {"Statistical power"} : \E i \in DOMAIN stats : ~stats[i].powered}

LEMMA StatsNamed ==
  ASSUME NEW stats \in Seq(Stat)
  PROVE  /\ FlattenSeq(StatFindings(stats)) \in Seq(Finding)
         /\ Named(FlattenSeq(StatFindings(stats))) = StatNames(stats)
<1> DEFINE f == AFinding("MEDIUM", "Statistical significance")
           g == AFinding("LOW", "Statistical power")
           ss == StatFindings(stats)
           One(i) == When(~stats[i].significant, f) \o When(~stats[i].powered, g)
           NamesOf(i) == (IF stats[i].significant THEN {} ELSE {"Statistical significance"})
                           \union (IF stats[i].powered THEN {} ELSE {"Statistical power"})
<1>1. DOMAIN stats = 1 .. Len(stats) /\ Len(stats) \in Nat
  BY LenProperties
<1>2. \A i \in DOMAIN stats : stats[i].significant \in BOOLEAN /\ stats[i].powered \in BOOLEAN
  <2>1. \A i \in DOMAIN stats : stats[i] \in Stat
    BY <1>1, ElementOfSeq
  <2> QED
    BY <2>1 DEF Stat
<1>3. /\ f \in Finding /\ f.category = "Statistical significance"
      /\ g \in Finding /\ g.category = "Statistical power"
  BY DEF AFinding, Finding, Category
<1>4. \A i \in DOMAIN stats : ss[i] = One(i)
  BY Zenon DEF StatFindings
<1> HIDE DEF f, g
<1>5. ASSUME NEW i \in DOMAIN stats
      PROVE  One(i) \in Seq(Finding) /\ Named(One(i)) = NamesOf(i)
  <2>1. ASSUME NEW c \in BOOLEAN, NEW h \in Finding
        PROVE  /\ When(~c, h) \in Seq(Finding)
               /\ Named(When(~c, h)) = IF c THEN {} ELSE {h.category}
    <3>1. (~c) \in BOOLEAN
      OBVIOUS
    <3>2. When(~c, h) \in Seq(Finding)
      BY <3>1, WhenNamed, Zenon
    <3>3. CASE c
      <4>1. Named(When(~c, h)) = {}
        BY <3>1, <3>3, WhenNamed, Zenon
      <4> QED
        BY <3>2, <3>3, <4>1, Zenon
    <3>4. CASE ~c
      <4>1. Named(When(~c, h)) = {h.category}
        BY <3>1, <3>4, WhenNamed, Zenon
      <4> QED
        BY <3>2, <3>4, <4>1, Zenon
    <3> QED
      BY <3>3, <3>4, Zenon
  <2>2. /\ When(~stats[i].significant, f) \in Seq(Finding)
        /\ Named(When(~stats[i].significant, f)) =
             IF stats[i].significant THEN {} ELSE {"Statistical significance"}
    BY <1>2, <1>3, <2>1, Zenon
  <2>3. /\ When(~stats[i].powered, g) \in Seq(Finding)
        /\ Named(When(~stats[i].powered, g)) =
             IF stats[i].powered THEN {} ELSE {"Statistical power"}
    BY <1>2, <1>3, <2>1, Zenon
  <2> QED
    BY <2>2, <2>3, NamedBoth, Zenon
<1>6. ss \in Seq(Seq(Finding)) /\ Len(ss) = Len(stats)
  <2>1. ss = [i \in 1 .. Len(stats) |-> One(i)]
    BY <1>1, Zenon DEF StatFindings, f, g
  <2>2. \A i \in 1 .. Len(stats) : One(i) \in Seq(Finding)
    BY <1>1, <1>5
  <2> HIDE DEF ss, One
  <2>3. ss \in [1 .. Len(stats) -> Seq(Finding)]
    BY <2>1, <2>2, Zenon
  <2> QED
    BY <1>1, <2>3, FunctionIsSeq
<1>7. /\ FlattenSeq(ss) \in Seq(Finding)
      /\ ToSet(FlattenSeq(ss)) = UNION {ToSet(ss[i]) : i \in 1 .. Len(ss)}
  <2> HIDE DEF ss
  <2> QED
    BY <1>6, FlattenMembers
<1>8. \A i \in DOMAIN stats : Named(ss[i]) = NamesOf(i)
  BY <1>4, <1>5, Zenon
<1>9. \A i \in DOMAIN stats : {x.category : x \in ToSet(ss[i])} = Named(ss[i])
  <2> SUFFICES ASSUME NEW i \in DOMAIN stats
               PROVE  {x.category : x \in ToSet(ss[i])} = Named(ss[i])
    OBVIOUS
  <2>1. ss[i] \in Seq(Finding)
    BY <1>4, <1>5, Zenon
  <2> HIDE DEF ss
  <2> QED
    BY <2>1, NamedAre
<1>10. Named(FlattenSeq(ss)) = UNION {NamesOf(i) : i \in DOMAIN stats}
  <2>1. Named(FlattenSeq(ss)) = {x.category : x \in ToSet(FlattenSeq(ss))}
    <3> HIDE DEF ss
    <3> QED
      BY <1>7, NamedAre
  <2>2. {x.category : x \in ToSet(FlattenSeq(ss))}
          = UNION {{x.category : x \in ToSet(ss[i])} : i \in DOMAIN stats}
    <3> HIDE DEF ss
    <3> QED
      BY <1>1, <1>6, <1>7
  <2> HIDE DEF ss, NamesOf
  <2> QED
    BY <1>8, <1>9, <2>1, <2>2
<1>11. UNION {NamesOf(i) : i \in DOMAIN stats} = StatNames(stats)
  BY <1>2 DEF StatNames
<1> QED
  BY <1>7, <1>10, <1>11, Zenon

\* The sets of a framework's artifacts are small.
LEMMA SmallSets ==
  ASSUME NEW a, NEW b, NEW c, NEW d, NEW e, NEW f, NEW g, NEW h, NEW i
  PROVE  /\ IsFiniteSet({a, b, c, d, e}) /\ IsFiniteSet({a, b, c, d, e, f})
         /\ IsFiniteSet({a, b, c, d, e, f, g}) /\ IsFiniteSet({a, b, c, d, e, f, g, h})
         /\ IsFiniteSet({a, b, c, d, e, f, g, h, i})
<1>1. \A S : \A x : IsFiniteSet(S) => IsFiniteSet(S \union {x})
  BY FS_AddElement
<1> DEFINE three == {} \union {a} \union {b} \union {c}
           five == three \union {d} \union {e}
           six == five \union {f}
           seven == six \union {g}
           eight == seven \union {h}
           nine == eight \union {i}
<1>2. /\ five = {a, b, c, d, e} /\ six = {a, b, c, d, e, f} /\ seven = {a, b, c, d, e, f, g}
      /\ eight = {a, b, c, d, e, f, g, h} /\ nine = {a, b, c, d, e, f, g, h, i}
  OBVIOUS
<1>3. IsFiniteSet(three)
  BY <1>1, FS_EmptySet, Zenon
<1> HIDE DEF three
<1>4. IsFiniteSet(five)
  BY <1>1, <1>3, Zenon
<1> HIDE DEF five
<1>5. IsFiniteSet(six)
  BY <1>1, <1>4, Zenon
<1> HIDE DEF six
<1>6. IsFiniteSet(seven)
  BY <1>1, <1>5, Zenon
<1> HIDE DEF seven
<1>7. IsFiniteSet(eight)
  BY <1>1, <1>6, Zenon
<1> HIDE DEF eight
<1>8. IsFiniteSet(nine)
  BY <1>1, <1>7, Zenon
<1> HIDE DEF nine
<1> QED
  BY <1>2, <1>4, <1>5, <1>6, <1>7, <1>8

\* Every framework asks for finitely many artifacts.
LEMMA RequirementsAre ==
  ASSUME NEW regime \in Regimes
  PROVE  /\ Requirements[regime].bias \in BOOLEAN
         /\ Requirements[regime].oversight \in BOOLEAN
         /\ IsFiniteSet(Requirements[regime].artifacts)
<1> DEFINE Binds(r) == /\ r.bias \in BOOLEAN /\ r.oversight \in BOOLEAN
                       /\ IsFiniteSet(r.artifacts)
<1>1. /\ DOMAIN LocalRequirements = {"cbuae_mms", "cbuae", "uae_enabling_tech"}
      /\ DOMAIN ForeignRequirements = {"eu_ai_act", "sr_26_2", "pra_ss1_23"}
  BY DEF LocalRequirements, ForeignRequirements
<1>2. \A r \in DOMAIN LocalRequirements : Binds(LocalRequirements[r])
  <2>1. Binds(LocalRequirements.cbuae_mms)
    BY SmallSets DEF LocalRequirements, Requires
  <2>2. Binds(LocalRequirements.cbuae)
    BY SmallSets DEF LocalRequirements, Requires
  <2>3. Binds(LocalRequirements.uae_enabling_tech)
    BY SmallSets DEF LocalRequirements, Requires
  <2> HIDE DEF Binds
  <2> QED
    BY <1>1, <2>1, <2>2, <2>3
<1>3. \A r \in DOMAIN ForeignRequirements : Binds(ForeignRequirements[r])
  <2>1. Binds(ForeignRequirements.eu_ai_act)
    BY SmallSets DEF ForeignRequirements, Requires
  <2>2. Binds(ForeignRequirements.sr_26_2)
    BY SmallSets DEF ForeignRequirements, Requires
  <2>3. Binds(ForeignRequirements.pra_ss1_23)
    BY SmallSets DEF ForeignRequirements, Requires
  <2> HIDE DEF Binds
  <2> QED
    BY <1>1, <2>1, <2>2, <2>3
<1> HIDE DEF Binds
<1>4. Binds(Requirements[regime])
  BY <1>2, <1>3, Zenon DEF Requirements, Regimes
<1> QED
  BY <1>4 DEF Binds

\* What is missing of a model is a finite set.
LEMMA MissingIs ==
  ASSUME NEW regime \in Regimes, NEW model
  PROVE  /\ Cardinality(MissingOf(model, regime)) \in Nat
         /\ Cardinality(MissingOf(model, regime)) = 0 <=> MissingOf(model, regime) = {}
<1>1. IsFiniteSet(MissingOf(model, regime))
  BY RequirementsAre, FS_Difference DEF MissingOf
<1> QED
  BY <1>1, FS_CardinalityType, FS_EmptySet

\* A category is among the findings exactly if what it is about is so, and a memo with
\* nothing to find says just that.
FindingsFit(model, regime, e) ==
  LET findings == GenerateFindings(model, regime, e)
      names == Named(findings)
  IN /\ "Overall" \in names <=> ~Problems(model, regime, e)
     /\ "Overall" \in names => Len(findings) = 1
     /\ "Regulatory coverage" \in names <=> MissingOf(model, regime) # {}
     /\ FALSE \in ToSet(e.bias) => "Bias & fairness" \in names
     /\ FALSE \in ToSet(e.fidelity) <=> "Numerical fidelity" \in names
     /\ (e.decisions = <<>> /\ Requirements[regime].oversight) <=> "Human oversight" \in names

LEMMA FindingsAre ==
  ASSUME NEW regime \in Regimes, NEW model, model.overdue \in BOOLEAN,
         NEW D, NEW e \in Evidence(D)
  PROVE  FindingsFit(model, regime, e)
<1> DEFINE r == Requirements[regime]
           stats == FlattenSeq(StatFindings(e.stats))
           untested == When(r.bias /\ e.bias = <<>>, AFinding("HIGH", "Bias & fairness"))
           biased == ForEach(Cardinality(FalseAt(e.bias)), AFinding("HIGH", "Bias & fairness"))
           unfaithful == ForEach(Cardinality(FalseAt(e.fidelity)),
                                 AFinding("HIGH", "Numerical fidelity"))
           unseen == When(r.oversight /\ e.decisions = <<>>, AFinding("MEDIUM", "Human oversight"))
           missing == ForEach(Cardinality(MissingOf(model, regime)),
                              AFinding("MEDIUM", "Regulatory coverage"))
           late == When(model.overdue, AFinding("MEDIUM", "Revalidation"))
           found == stats \o untested \o biased \o unfaithful \o unseen \o missing \o late
           findings == GenerateFindings(model, regime, e)
<1>1. /\ e.stats \in Seq(Stat) /\ e.bias \in Seq(BOOLEAN) /\ e.fidelity \in Seq(BOOLEAN)
      /\ e.decisions \in Seq(D)
  BY DEF Evidence
<1>2. /\ AFinding("HIGH", "Bias & fairness") \in Finding
      /\ AFinding("HIGH", "Numerical fidelity") \in Finding
      /\ AFinding("MEDIUM", "Human oversight") \in Finding
      /\ AFinding("MEDIUM", "Regulatory coverage") \in Finding
      /\ AFinding("MEDIUM", "Revalidation") \in Finding
      /\ AFinding("INFO", "Overall") \in Finding
  BY DEF AFinding, Finding, Category
<1>3. \A s, c : AFinding(s, c).category = c
  BY DEF AFinding
<1>4. findings = IF found = <<>> THEN <<AFinding("INFO", "Overall")>> ELSE found
  BY Zenon DEF GenerateFindings, Count, FalseAt, StatFindings
<1>5. stats \in Seq(Finding) /\ Named(stats) = StatNames(e.stats)
  BY <1>1, StatsNamed
<1>6. /\ untested \in Seq(Finding)
      /\ (r.bias /\ e.bias = <<>>) => Named(untested) = {"Bias & fairness"}
      /\ ~(r.bias /\ e.bias = <<>>) => Named(untested) = {}
  <2>1. (r.bias /\ e.bias = <<>>) \in BOOLEAN
    BY RequirementsAre
  <2> QED
    BY <1>2, <1>3, <2>1, WhenNamed, Zenon
<1>7. /\ biased \in Seq(Finding)
      /\ FALSE \in ToSet(e.bias) => Named(biased) = {"Bias & fairness"}
      /\ FALSE \notin ToSet(e.bias) => Named(biased) = {}
  <2>1. /\ Cardinality(FalseAt(e.bias)) \in Nat
        /\ Cardinality(FalseAt(e.bias)) = 0 <=> FALSE \notin ToSet(e.bias)
    BY <1>1, FalseAtIs
  <2> DEFINE n == Cardinality(FalseAt(e.bias))
             f == AFinding("HIGH", "Bias & fairness")
  <2>2. n \in Nat /\ f \in Finding /\ f.category = "Bias & fairness"
    BY <1>2, <1>3, <2>1
  <2>3. n = 0 <=> FALSE \notin ToSet(e.bias)
    BY <2>1
  <2> HIDE DEF n, f
  <2>4. /\ ForEach(n, f) \in Seq(Finding)
        /\ n = 0 => Named(ForEach(n, f)) = {}
        /\ n # 0 => Named(ForEach(n, f)) = {f.category}
    BY <2>2, ForEachNamed
  <2> QED
    BY <2>2, <2>3, <2>4, Zenon DEF n, f
<1>8. /\ unfaithful \in Seq(Finding)
      /\ FALSE \in ToSet(e.fidelity) => Named(unfaithful) = {"Numerical fidelity"}
      /\ FALSE \notin ToSet(e.fidelity) => Named(unfaithful) = {}
  <2>1. /\ Cardinality(FalseAt(e.fidelity)) \in Nat
        /\ Cardinality(FalseAt(e.fidelity)) = 0 <=> FALSE \notin ToSet(e.fidelity)
    BY <1>1, FalseAtIs
  <2> DEFINE n == Cardinality(FalseAt(e.fidelity))
             f == AFinding("HIGH", "Numerical fidelity")
  <2>2. n \in Nat /\ f \in Finding /\ f.category = "Numerical fidelity"
    BY <1>2, <1>3, <2>1
  <2>3. n = 0 <=> FALSE \notin ToSet(e.fidelity)
    BY <2>1
  <2> HIDE DEF n, f
  <2>4. /\ ForEach(n, f) \in Seq(Finding)
        /\ n = 0 => Named(ForEach(n, f)) = {}
        /\ n # 0 => Named(ForEach(n, f)) = {f.category}
    BY <2>2, ForEachNamed
  <2> QED
    BY <2>2, <2>3, <2>4, Zenon DEF n, f
<1>9. /\ unseen \in Seq(Finding)
      /\ (r.oversight /\ e.decisions = <<>>) => Named(unseen) = {"Human oversight"}
      /\ ~(r.oversight /\ e.decisions = <<>>) => Named(unseen) = {}
  <2>1. (r.oversight /\ e.decisions = <<>>) \in BOOLEAN
    BY RequirementsAre
  <2> QED
    BY <1>2, <1>3, <2>1, WhenNamed, Zenon
<1>10. /\ missing \in Seq(Finding)
       /\ MissingOf(model, regime) # {} => Named(missing) = {"Regulatory coverage"}
       /\ MissingOf(model, regime) = {} => Named(missing) = {}
  <2> DEFINE n == Cardinality(MissingOf(model, regime))
             f == AFinding("MEDIUM", "Regulatory coverage")
  <2>2. n \in Nat /\ f \in Finding /\ f.category = "Regulatory coverage"
    BY <1>2, <1>3, MissingIs
  <2>3. n = 0 <=> MissingOf(model, regime) = {}
    BY MissingIs
  <2> HIDE DEF n, f
  <2>4. /\ ForEach(n, f) \in Seq(Finding)
        /\ n = 0 => Named(ForEach(n, f)) = {}
        /\ n # 0 => Named(ForEach(n, f)) = {f.category}
    BY <2>2, ForEachNamed
  <2> QED
    BY <2>2, <2>3, <2>4, Zenon DEF n, f
<1>11. /\ late \in Seq(Finding)
       /\ model.overdue => Named(late) = {"Revalidation"}
       /\ ~ model.overdue => Named(late) = {}
  BY <1>2, <1>3, WhenNamed, Zenon
<1>12. /\ found \in Seq(Finding)
       /\ Named(found) = Named(stats) \union Named(untested) \union Named(biased)
            \union Named(unfaithful) \union Named(unseen) \union Named(missing) \union Named(late)
  <2> HIDE DEF stats, untested, biased, unfaithful, unseen, missing, late
  <2>1. /\ stats \o untested \in Seq(Finding)
        /\ Named(stats \o untested) = Named(stats) \union Named(untested)
    BY <1>5, <1>6, NamedBoth, Zenon
  <2>2. /\ stats \o untested \o biased \in Seq(Finding)
        /\ Named(stats \o untested \o biased)
             = Named(stats) \union Named(untested) \union Named(biased)
    BY <1>7, <2>1, NamedBoth, Zenon
  <2>3. /\ stats \o untested \o biased \o unfaithful \in Seq(Finding)
        /\ Named(stats \o untested \o biased \o unfaithful)
             = Named(stats) \union Named(untested) \union Named(biased) \union Named(unfaithful)
    BY <1>8, <2>2, NamedBoth, Zenon
  <2>4. /\ stats \o untested \o biased \o unfaithful \o unseen \in Seq(Finding)
        /\ Named(stats \o untested \o biased \o unfaithful \o unseen)
             = Named(stats) \union Named(untested) \union Named(biased) \union Named(unfaithful)
                 \union Named(unseen)
    BY <1>9, <2>3, NamedBoth, Zenon
  <2>5. /\ stats \o untested \o biased \o unfaithful \o unseen \o missing \in Seq(Finding)
        /\ Named(stats \o untested \o biased \o unfaithful \o unseen \o missing)
             = Named(stats) \union Named(untested) \union Named(biased) \union Named(unfaithful)
                 \union Named(unseen) \union Named(missing)
    BY <1>10, <2>4, NamedBoth, Zenon
  <2> QED
    BY <1>11, <2>5, NamedBoth, Zenon
<1>13. /\ StatNames(e.stats) \subseteq {"Statistical significance", "Statistical power"}
       /\ StatNames(e.stats) = {} <=>
            ~ \E i \in DOMAIN e.stats : ~e.stats[i].significant \/ ~e.stats[i].powered
  BY DEF StatNames
<1>14. Problems(model, regime, e) <=>
         \/ ~ (StatNames(e.stats) = {}) \/ (r.bias /\ e.bias = <<>>) \/ FALSE \in ToSet(e.bias)
         \/ FALSE \in ToSet(e.fidelity) \/ (r.oversight /\ e.decisions = <<>>)
         \/ ~ (MissingOf(model, regime) = {}) \/ model.overdue
  <2>1. ~(r.artifacts \subseteq model.present) <=> MissingOf(model, regime) # {}
    BY DEF MissingOf
  <2>2. FALSE \in ToSet(e.bias) \union ToSet(e.fidelity)
          <=> FALSE \in ToSet(e.bias) \/ FALSE \in ToSet(e.fidelity)
    OBVIOUS
  <2> QED
    BY <1>13, <2>1, <2>2, Zenon DEF Problems
<1> HIDE DEF stats, untested, biased, unfaithful, unseen, missing, late
<1>15. Named(found) = {} <=> ~Problems(model, regime, e)
  <2>1. /\ Named(stats) = {} <=> StatNames(e.stats) = {}
        /\ Named(untested) = {} <=> ~ (r.bias /\ e.bias = <<>>)
        /\ Named(biased) = {} <=> FALSE \notin ToSet(e.bias)
        /\ Named(unfaithful) = {} <=> FALSE \notin ToSet(e.fidelity)
        /\ Named(unseen) = {} <=> ~ (r.oversight /\ e.decisions = <<>>)
        /\ Named(missing) = {} <=> MissingOf(model, regime) = {}
        /\ Named(late) = {} <=> ~ model.overdue
    <3> HIDE DEF found, r
    <3>1. \A c : {c} # {}
      OBVIOUS
    <3> QED
      BY <1>5, <1>6, <1>7, <1>8, <1>9, <1>10, <1>11, <3>1, Zenon
  <2>2. Named(found) = {} <=>
          /\ Named(stats) = {} /\ Named(untested) = {} /\ Named(biased) = {}
          /\ Named(unfaithful) = {} /\ Named(unseen) = {} /\ Named(missing) = {}
          /\ Named(late) = {}
    <3> HIDE DEF found
    <3> QED
      BY <1>12
  <2> QED
    BY <1>14, <2>1, <2>2, Zenon
<1>16. /\ "Overall" \notin Named(found)
       /\ "Regulatory coverage" \in Named(found) <=> MissingOf(model, regime) # {}
       /\ FALSE \in ToSet(e.bias) => "Bias & fairness" \in Named(found)
       /\ FALSE \in ToSet(e.fidelity) <=> "Numerical fidelity" \in Named(found)
       /\ (e.decisions = <<>> /\ r.oversight) <=> "Human oversight" \in Named(found)
  <2> HIDE DEF found, r
  <2>1. /\ Named(untested) \subseteq {"Bias & fairness"}
        /\ Named(biased) \subseteq {"Bias & fairness"}
        /\ Named(unfaithful) \subseteq {"Numerical fidelity"}
        /\ Named(unseen) \subseteq {"Human oversight"}
        /\ Named(missing) \subseteq {"Regulatory coverage"}
        /\ Named(late) \subseteq {"Revalidation"}
    <3>1. \A c : {} \subseteq {c} /\ {c} \subseteq {c}
      OBVIOUS
    <3> QED
      BY <1>6, <1>7, <1>8, <1>9, <1>10, <1>11, <3>1, Zenon
  <2>2. /\ "Overall" \notin Named(found)
        /\ "Regulatory coverage" \in Named(found) <=> "Regulatory coverage" \in Named(missing)
        /\ "Numerical fidelity" \in Named(found) <=> "Numerical fidelity" \in Named(unfaithful)
        /\ "Human oversight" \in Named(found) <=> "Human oversight" \in Named(unseen)
        /\ Named(biased) \subseteq Named(found)
    <3> DEFINE A == Named(stats)
               B == Named(untested)
               C == Named(biased)
               E == Named(unfaithful)
               F == Named(unseen)
               G == Named(missing)
               H == Named(late)
               U == Named(found)
    <3>1. A \subseteq {"Statistical significance", "Statistical power"}
      BY <1>5, <1>13
    <3>2. U = A \union B \union C \union E \union F \union G \union H
      BY <1>12
    <3>3. /\ B \subseteq {"Bias & fairness"} /\ C \subseteq {"Bias & fairness"}
          /\ E \subseteq {"Numerical fidelity"} /\ F \subseteq {"Human oversight"}
          /\ G \subseteq {"Regulatory coverage"} /\ H \subseteq {"Revalidation"}
      BY <2>1
    <3> HIDE DEF A, B, C, E, F, G, H, U
    <3>4. /\ "Overall" \notin U
          /\ "Regulatory coverage" \in U <=> "Regulatory coverage" \in G
          /\ "Numerical fidelity" \in U <=> "Numerical fidelity" \in E
          /\ "Human oversight" \in U <=> "Human oversight" \in F
          /\ C \subseteq U
      BY <3>1, <3>2, <3>3
    <3> QED
      BY <3>4 DEF C, E, F, G, U
  <2>3. \A c : c \in {c} /\ c \notin {}
    OBVIOUS
  <2> QED
    BY <1>7, <1>8, <1>9, <1>10, <2>2, <2>3, Zenon
<1> HIDE DEF found
<1> HIDE DEF r
<1>17. ASSUME found = <<>>
       PROVE  /\ Named(findings) = {"Overall"} /\ Len(findings) = 1 /\ Named(found) = {}
  <2>1. Named(found) = {}
    BY <1>12, <1>17, NamedAre
  <2>2. findings = <<AFinding("INFO", "Overall")>>
    BY <1>4, <1>17
  <2>3. Len(findings) = 1 /\ Named(findings) = {"Overall"}
    BY <1>3, <2>2 DEF Named
  <2> QED
    BY <2>1, <2>3
<1>18. ASSUME found # <<>>
       PROVE  Named(findings) = Named(found) /\ Named(found) # {}
  <2>1. Named(found) # {}
    BY <1>12, <1>18, NamedAre
  <2>2. findings = found
    BY <1>4, <1>18
  <2> QED
    BY <2>1, <2>2
<1> HIDE DEF findings
<1>19. /\ "Overall" \in Named(findings) <=> ~Problems(model, regime, e)
       /\ "Overall" \in Named(findings) => Len(findings) = 1
       /\ "Regulatory coverage" \in Named(findings) <=> MissingOf(model, regime) # {}
       /\ FALSE \in ToSet(e.bias) => "Bias & fairness" \in Named(findings)
       /\ FALSE \in ToSet(e.fidelity) <=> "Numerical fidelity" \in Named(findings)
       /\ (e.decisions = <<>> /\ r.oversight) <=> "Human oversight" \in Named(findings)
  <2>1. CASE found = <<>>
    BY <1>15, <1>16, <1>17, <2>1
  <2>2. CASE found # <<>>
    BY <1>15, <1>16, <1>18, <2>2
  <2> QED
    BY <2>1, <2>2
<1> QED
  BY <1>19, Zenon DEF FindingsFit, r, findings

\* What the database holds of a model, and what a request brings.
Run(C, D) == [comparisons : Seq(C), decisions : Seq(D)]
Groups == {"none", "one", "pass", "fail"}
ModelOf(P, C, D) ==
  [present : SUBSET P, overdue : BOOLEAN, regimes : SUBSET Regimes, groups : Groups,
   runs : Seq(Run(C, D))]
Body(D) ==
  [stats : Seq(Stat), groups : Groups, checks : Seq(BOOLEAN), decisions : Seq(D)]

LEMMA BiasIs ==
  ASSUME NEW groups
  PROVE  BiasOf(groups) \in Seq(BOOLEAN)
<1>1. CASE groups = "none"
  <2>1. BiasOf(groups) = <<>>
    BY <1>1 DEF BiasOf
  <2> QED
    BY <2>1, EmptySeq
<1>2. CASE groups # "none"
  <2> DEFINE passes == groups = "pass"
  <2>1. BiasOf(groups) = <<passes>>
    BY <1>2, Zenon DEF BiasOf
  <2>2. passes \in BOOLEAN
    BY Zenon
  <2> HIDE DEF passes
  <2>3. <<passes>> \in Seq(BOOLEAN)
    BY <2>2
  <2> QED
    BY <2>1, <2>3, Zenon
<1> QED
  BY <1>1, <1>2

LEMMA FirstIs ==
  ASSUME NEW W, NEW s \in Seq(W)
  PROVE  /\ FirstOf(s) \in Seq(W)
         /\ s = <<>> => FirstOf(s) = <<>>
<1> DEFINE n == Min({Len(s), EvidenceLimit})
<1>1. EvidenceLimit \in Nat /\ EvidenceLimit # 0 /\ Len(s) \in Nat
  BY ComplianceAssumption, LenProperties
<1>2. n \in {Len(s), EvidenceLimit} /\ n <= Len(s)
  <2>1. {Len(s), EvidenceLimit} \in SUBSET Int /\ IsFiniteSet({Len(s), EvidenceLimit})
    <3>1. IsFiniteSet({Len(s)})
      BY FS_Singleton
    <3>2. IsFiniteSet({Len(s)} \union {EvidenceLimit})
      BY <3>1, FS_AddElement
    <3>3. {Len(s)} \union {EvidenceLimit} = {Len(s), EvidenceLimit}
      OBVIOUS
    <3>4. {Len(s), EvidenceLimit} \in SUBSET Int
      BY <1>1
    <3> QED
      BY <3>2, <3>3, <3>4, Zenon
  <2> QED
    BY <1>1, <2>1, Bounds
<1>3. n \in Nat /\ n \in 0 .. Len(s)
  BY <1>1, <1>2
<1>4. SubSeq(s, 1, n) \in Seq(W) /\ Len(SubSeq(s, 1, n)) = n
  <2> HIDE DEF n
  <2>1. 1 \in 1 .. (Len(s) + 1) /\ n \in (1 - 1) .. Len(s)
    BY <1>1, <1>3
  <2> QED
    BY <2>1, SubSeqProperties
<1>5. FirstOf(s) = SubSeq(s, 1, n)
  BY DEF FirstOf
<1>6. s = <<>> => FirstOf(s) = <<>>
  <2> HIDE DEF n
  <2>1. s = <<>> => n = 0
    BY <1>3
  <2> QED
    BY <1>4, <1>5, <2>1, EmptySeq
<1> QED
  BY <1>4, <1>5, <1>6

LEMMA FidelityIs ==
  ASSUME NEW C, NEW D, NEW run \in Run(C, D)
  PROVE  /\ FidelityOf(run) \in Seq(BOOLEAN)
         /\ run.comparisons = <<>> => FidelityOf(run) = <<>>
<1> DEFINE read == FirstOf(run.comparisons)
           One(i) == IF read[i] = "empty" THEN <<>> ELSE <<read[i] = "grounded">>
           ss == [i \in 1 .. Len(read) |-> One(i)]
<1>1. run.comparisons \in Seq(C)
  BY DEF Run
<1>2. read \in Seq(C) /\ (run.comparisons = <<>> => read = <<>>)
  BY <1>1, FirstIs, Zenon
<1> HIDE DEF read
<1>3. DOMAIN read = 1 .. Len(read) /\ Len(read) \in Nat
  BY <1>2, LenProperties
<1>4. ASSUME NEW i \in 1 .. Len(read)
      PROVE  One(i) \in Seq(BOOLEAN)
  <2>1. CASE read[i] = "empty"
    <3>1. One(i) = <<>>
      BY <2>1
    <3> QED
      BY <3>1, EmptySeq
  <2>2. CASE read[i] # "empty"
    <3> DEFINE grounded == read[i] = "grounded"
    <3>1. One(i) = <<grounded>>
      BY <2>2, Zenon
    <3>2. grounded \in BOOLEAN
      BY Zenon
    <3> HIDE DEF grounded, One
    <3>3. <<grounded>> \in Seq(BOOLEAN)
      BY <3>2
    <3> QED
      BY <3>1, <3>3, Zenon
  <2> QED
    BY <2>1, <2>2
<1>5. FidelityOf(run) = FlattenSeq(ss)
  BY <1>3, Zenon DEF FidelityOf, read
<1>6. ss \in Seq(Seq(BOOLEAN)) /\ Len(ss) = Len(read)
  <2> HIDE DEF One
  <2>1. ss \in [1 .. Len(read) -> Seq(BOOLEAN)]
    BY <1>4
  <2> HIDE DEF ss
  <2> QED
    BY <1>3, <2>1, FunctionIsSeq
<1> HIDE DEF ss
<1>7. FlattenSeq(ss) \in Seq(BOOLEAN)
  BY <1>6, FlattenMembers
<1>8. read = <<>> => FlattenSeq(ss) = <<>>
  <2>1. read = <<>> => Len(ss) = 0
    BY <1>6
  <2>2. Len(ss) = 0 => ToSet(FlattenSeq(ss)) = {}
    <3>1. ToSet(FlattenSeq(ss)) = UNION {ToSet(ss[i]) : i \in 1 .. Len(ss)}
      BY <1>6, FlattenMembers
    <3>2. Len(ss) = 0 => 1 .. Len(ss) = {}
      OBVIOUS
    <3> QED
      BY <3>1, <3>2
  <2> QED
    BY <1>7, <2>1, <2>2, SetOfSeq
<1> QED
  BY <1>2, <1>5, <1>7, <1>8

\* What a model's runs give.
LEMMA LinkedIs ==
  ASSUME NEW C, NEW D, NEW runs \in Seq(Run(C, D)), NEW groups
  PROVE  /\ [i \in DOMAIN runs |-> FidelityOf(runs[i])] \in Seq(Seq(BOOLEAN))
         /\ [i \in DOMAIN runs |-> FirstOf(runs[i].decisions)] \in Seq(Seq(D))
         /\ BuildFromModel(runs, groups) \in Evidence(D)
<1> DEFINE fs == [i \in DOMAIN runs |-> FidelityOf(runs[i])]
           ds == [i \in DOMAIN runs |-> FirstOf(runs[i].decisions)]
<1>1. DOMAIN runs = 1 .. Len(runs) /\ Len(runs) \in Nat
  BY LenProperties
<1>2. \A i \in 1 .. Len(runs) : runs[i] \in Run(C, D)
  BY ElementOfSeq
<1>3. fs \in Seq(Seq(BOOLEAN))
  <2>1. fs \in [1 .. Len(runs) -> Seq(BOOLEAN)]
    BY <1>1, <1>2, FidelityIs
  <2> QED
    BY <1>1, <2>1, FunctionIsSeq
<1>4. ds \in Seq(Seq(D))
  <2>1. \A i \in 1 .. Len(runs) : FirstOf(runs[i].decisions) \in Seq(D)
    <3>1. \A i \in 1 .. Len(runs) : runs[i].decisions \in Seq(D)
      BY <1>2 DEF Run
    <3> QED
      BY <3>1, FirstIs
  <2>2. ds \in [1 .. Len(runs) -> Seq(D)]
    BY <1>1, <2>1
  <2> QED
    BY <1>1, <2>2, FunctionIsSeq
<1>5. FlattenSeq(fs) \in Seq(BOOLEAN) /\ FlattenSeq(ds) \in Seq(D)
  BY <1>3, <1>4, FlattenMembers, Zenon
<1>6. NoEvidence \in Evidence(D)
  BY EmptySeq DEF NoEvidence, Evidence
<1>7. (IF groups = "one" THEN <<>> ELSE BiasOf(groups)) \in Seq(BOOLEAN)
  BY BiasIs, EmptySeq
<1>8. [stats |-> <<>>, bias |-> IF groups = "one" THEN <<>> ELSE BiasOf(groups),
       fidelity |-> FlattenSeq(fs), decisions |-> FlattenSeq(ds)] \in Evidence(D)
  <2> HIDE DEF fs, ds
  <2> QED
    BY <1>5, <1>7, EmptySeq DEF Evidence
<1>9. BuildFromModel(runs, groups) \in Evidence(D)
  BY <1>6, <1>8, Zenon DEF BuildFromModel
<1> QED
  BY <1>3, <1>4, <1>9

LEMMA EvidenceIs ==
  ASSUME NEW P, NEW C, NEW D, NEW model \in ModelOf(P, C, D), NEW body \in Body(D)
  PROVE  EvidenceFor(model, body) \in Evidence(D)
<1>1. model.runs \in Seq(Run(C, D))
  BY DEF ModelOf
<1>2. BuildFromModel(model.runs, model.groups) \in Evidence(D)
  BY <1>1, LinkedIs
<1>3. BuildEvidence(body) \in Evidence(D)
  <2>1. body.stats \in Seq(Stat) /\ body.checks \in Seq(BOOLEAN) /\ body.decisions \in Seq(D)
    BY DEF Body
  <2>2. FirstOf(body.decisions) \in Seq(D) /\ BiasOf(body.groups) \in Seq(BOOLEAN)
    BY <2>1, FirstIs, BiasIs
  <2> QED
    BY <2>1, <2>2 DEF BuildEvidence, Evidence
<1> QED
  BY <1>2, <1>3, Zenon DEF EvidenceFor

LEMMA OverallIs ==
  ASSUME NEW s \in Seq(BOOLEAN)
  PROVE  OverallPass(s) = "fail" <=> FALSE \in ToSet(s)
<1>1. DOMAIN s = 1 .. Len(s)
  BY LenProperties
<1>2. \A i \in DOMAIN s : s[i] \in BOOLEAN
  BY <1>1, ElementOfSeq
<1>3. (\A i \in DOMAIN s : s[i]) <=> FALSE \notin ToSet(s)
  <2>1. \A i \in DOMAIN s : s[i] <=> s[i] # FALSE
    BY <1>2
  <2> QED
    BY <2>1, Zenon DEF ToSet
<1>4. s = <<>> => FALSE \notin ToSet(s)
  BY SetOfSeq
<1>5. OverallPass(s) = IF s = <<>> THEN "none"
                       ELSE IF \A i \in DOMAIN s : s[i] THEN "pass" ELSE "fail"
  BY Zenon DEF OverallPass
<1>6. "none" # "fail" /\ "pass" # "fail"
  OBVIOUS
<1> QED
  BY <1>3, <1>4, <1>5, <1>6, Zenon

\* What an answered request says, whatever the framework.
LEMMA ReportIs ==
  ASSUME NEW model, NEW regime, NEW body, NEW format, body.groups # "one"
  PROVE  LET report == GenerateReport(model, TRUE, regime, body, format)
             e == EvidenceFor(model, body)
         IN /\ report.memo.findings = GenerateFindings(model, regime, e)
            /\ report.record.findings = Len(GenerateFindings(model, regime, e))
            /\ report.record.complete = (MissingOf(model, regime) = {})
            /\ report.memo.bias = OverallPass(e.bias)
            /\ report.memo.fidelity = OverallPass(e.fidelity)
            /\ report.memo.review.total = Len(e.decisions)
<1> DEFINE e == EvidenceFor(model, body)
           memo == BuildValidationMemo(model, regime, e)
<1>1. GenerateReport(model, TRUE, regime, body, format) =
        [status |-> 200, memo |-> memo,
         record |-> [regime |-> regime, findings |-> Len(memo.findings),
                     complete |-> memo.complete, format |-> format]]
  BY Zenon DEF GenerateReport
<1>2. /\ memo.findings = GenerateFindings(model, regime, e)
      /\ memo.complete = (MissingOf(model, regime) = {})
      /\ memo.bias = OverallPass(e.bias) /\ memo.fidelity = OverallPass(e.fidelity)
      /\ memo.review.total = Len(e.decisions)
  BY DEF BuildValidationMemo, SummarizeDecisions
<1> HIDE DEF memo, e
<1>3. PICK report : report = GenerateReport(model, TRUE, regime, body, format)
  BY Zenon
<1>4. report = [status |-> 200, memo |-> memo,
                record |-> [regime |-> regime, findings |-> Len(memo.findings),
                            complete |-> memo.complete, format |-> format]]
  BY <1>1, <1>3, Zenon
<1>5. /\ report.memo = memo /\ report.record.findings = Len(memo.findings)
      /\ report.record.complete = memo.complete
  BY <1>4
<1> QED
  BY <1>2, <1>3, <1>5, Zenon DEF e

\* A validation memo gives the all-clear exactly when nothing stands in its way, and
\* its history row, its sections and the coverage page say the same as its findings:
\* for every model, framework, request and linked runs, of any length
\* (core/compliance_reporter.py, backend/routes/compliance.py).
THEOREM MemosAreConsistent ==
  ASSUME NEW P, NEW C, NEW D, NEW model \in ModelOf(P, C, D), NEW regime \in Regimes,
         NEW body \in Body(D)
  PROVE  MemoIsConsistent(model, regime, body)
<1> DEFINE report == GenerateReport(model, TRUE, regime, body, "json")
           e == EvidenceFor(model, body)
           found == GenerateFindings(model, regime, e)
           names == Named(found)
<1>1. CASE body.groups = "one"
  <2>1. report.status = 400
    BY <1>1 DEF GenerateReport
  <2>2. report.status # 200
    <3> HIDE DEF report
    <3> QED
      BY <2>1
  <2> HIDE DEF report
  <2> QED
    BY <2>2, Zenon DEF MemoIsConsistent, report
<1>2. CASE body.groups # "one"
  <2>1. /\ report.memo.findings = found
        /\ report.record.findings = Len(found)
        /\ report.record.complete = (MissingOf(model, regime) = {})
        /\ report.memo.bias = OverallPass(e.bias)
        /\ report.memo.fidelity = OverallPass(e.fidelity)
        /\ report.memo.review.total = Len(e.decisions)
    BY <1>2, ReportIs, Zenon
  <2>2. e \in Evidence(D)
    BY EvidenceIs
  <2>3. e.bias \in Seq(BOOLEAN) /\ e.fidelity \in Seq(BOOLEAN) /\ e.decisions \in Seq(D)
    BY <2>2 DEF Evidence
  <2>4. model.overdue \in BOOLEAN /\ model.regimes \subseteq Regimes
    BY DEF ModelOf
  <2>5. /\ "Overall" \in names <=> ~Problems(model, regime, e)
        /\ "Overall" \in names => Len(found) = 1
        /\ "Regulatory coverage" \in names <=> MissingOf(model, regime) # {}
        /\ FALSE \in ToSet(e.bias) => "Bias & fairness" \in names
        /\ FALSE \in ToSet(e.fidelity) <=> "Numerical fidelity" \in names
        /\ (e.decisions = <<>> /\ Requirements[regime].oversight)
             <=> "Human oversight" \in names
    <3>1. FindingsFit(model, regime, e)
      <4> HIDE DEF e
      <4> QED
        BY <2>2, <2>4, FindingsAre
    <3> QED
      BY <3>1, Zenon DEF FindingsFit
  <2>6. /\ OverallPass(e.bias) = "fail" <=> FALSE \in ToSet(e.bias)
        /\ OverallPass(e.fidelity) = "fail" <=> FALSE \in ToSet(e.fidelity)
    BY <2>3, OverallIs, Zenon
  <2>7. Len(e.decisions) = 0 <=> e.decisions = <<>>
    BY <2>3, EmptySeq
  <2>8. \A f : Requirements[f].artifacts \subseteq model.present <=> MissingOf(model, f) = {}
    BY DEF MissingOf
  <2>9. regime \in model.regimes =>
          (ModelCoverage(model).regimes[regime].complete <=> MissingOf(model, regime) = {})
    <3>1. regime \in model.regimes =>
            ModelCoverage(model).regimes[regime].complete
              = (Requirements[regime].artifacts \subseteq model.present)
      BY DEF ModelCoverage
    <3> QED
      BY <2>8, <3>1, Zenon
  <2>10. ModelCoverage(model).overall <=>
           \A f \in model.regimes :
             GenerateReport(model, TRUE, f, body, "json").record.complete
    <3>1. ModelCoverage(model).overall
            = (\A f \in model.regimes : Requirements[f].artifacts \subseteq model.present)
      BY DEF ModelCoverage
    <3>2. \A f \in model.regimes :
            GenerateReport(model, TRUE, f, body, "json").record.complete
              = (MissingOf(model, f) = {})
      <4> SUFFICES ASSUME NEW f \in model.regimes
                   PROVE  GenerateReport(model, TRUE, f, body, "json").record.complete
                            = (MissingOf(model, f) = {})
        OBVIOUS
      <4> QED
        BY <1>2, ReportIs, ZenonT(60)
    <3> QED
      BY <2>8, <3>1, <3>2, Zenon
  <2>11. {report.memo.findings[i].category : i \in DOMAIN report.memo.findings} = names
    BY <2>1, Zenon DEF Named
  <2> HIDE DEF report, e, found, names
  <2> QED
    BY <2>1, <2>5, <2>6, <2>7, <2>9, <2>10, <2>11, Zenon
       DEF MemoIsConsistent, report, e
<1> QED
  BY <1>1, <1>2

LEMMA FalseAtBoth ==
  ASSUME NEW s \in Seq(BOOLEAN), NEW t \in Seq(BOOLEAN)
  PROVE  Cardinality(FalseAt(s \o t)) >= Cardinality(FalseAt(t))
<1>1. /\ s \o t \in Seq(BOOLEAN) /\ Len(s \o t) = Len(s) + Len(t)
      /\ \A i \in 1 .. Len(s) + Len(t) :
           (s \o t)[i] = IF i <= Len(s) THEN s[i] ELSE t[i - Len(s)]
  BY ConcatProperties
<1>2. /\ Len(s) \in Nat /\ Len(t) \in Nat /\ DOMAIN t = 1 .. Len(t)
      /\ DOMAIN (s \o t) = 1 .. Len(s) + Len(t)
  BY <1>1, LenProperties
<1> DEFINE f == [i \in FalseAt(t) |-> i + Len(s)]
<1>3. ASSUME NEW i \in FalseAt(t)
      PROVE  i \in Nat /\ i + Len(s) \in FalseAt(s \o t)
  <2>1. i \in 1 .. Len(t) /\ ~ t[i]
    BY <1>2 DEF FalseAt
  <2>2. /\ i + Len(s) \in 1 .. Len(s) + Len(t) /\ ~ (i + Len(s) <= Len(s))
        /\ (i + Len(s)) - Len(s) = i
    BY <1>2, <2>1
  <2>3. (s \o t)[i + Len(s)] = t[i]
    BY <1>1, <2>2
  <2> QED
    BY <1>2, <2>1, <2>2, <2>3 DEF FalseAt
<1>4. f \in Injection(FalseAt(t), FalseAt(s \o t))
  BY <1>2, <1>3 DEF Injection, IsInjective
<1>5. IsFiniteSet(FalseAt(s \o t)) /\ IsFiniteSet(FalseAt(t))
  BY <1>1, FalseAtIs
<1>6. Cardinality(FalseAt(t)) <= Cardinality(FalseAt(s \o t))
  BY <1>4, <1>5, FS_Injection
<1> QED
  BY <1>1, <1>6, FalseAtIs

\* Evidence of one more run: its own, in front of the others'.
WithLinked(run, before, after) ==
  /\ after.stats = before.stats /\ after.bias = before.bias
  /\ after.fidelity = FidelityOf(run) \o before.fidelity
  /\ after.decisions = FirstOf(run.decisions) \o before.decisions

LEMMA LinkedFirst ==
  ASSUME NEW C, NEW D, NEW runs \in Seq(Run(C, D)), runs # <<>>, NEW run \in Run(C, D),
         NEW groups
  PROVE  WithLinked(run, BuildFromModel(runs, groups), BuildFromModel(<<run>> \o runs, groups))
<1> DEFINE R == Run(C, D)
           both == <<run>> \o runs
           h == [q \in R |-> FidelityOf(q)]
           k == [q \in R |-> FirstOf(q.decisions)]
           fs == [i \in DOMAIN runs |-> FidelityOf(runs[i])]
           ds == [i \in DOMAIN runs |-> FirstOf(runs[i].decisions)]
           ffs == [i \in DOMAIN both |-> FidelityOf(both[i])]
           dds == [i \in DOMAIN both |-> FirstOf(both[i].decisions)]
<1>1. both \in Seq(R) /\ both # <<>> /\ run \in R /\ runs \in Seq(R)
  <2>1. <<run>> \in Seq(R) /\ Len(<<run>>) = 1
    OBVIOUS
  <2> DEFINE t == <<run>>
  <2> HIDE DEF t, R
  <2>2. t \in Seq(R) /\ Len(t) = 1
    BY <2>1 DEF t, R
  <2>3. t \o runs \in Seq(R) /\ Len(t \o runs) = Len(t) + Len(runs) /\ Len(runs) \in Nat
    BY <2>2, ConcatProperties, LenProperties DEF R
  <2>4. t \o runs # <<>>
    BY <2>2, <2>3, EmptySeq
  <2> QED
    BY <2>3, <2>4 DEF t, R
<1>2. h \in [R -> Seq(BOOLEAN)]
  BY FidelityIs
<1>3. k \in [R -> Seq(D)]
  <2>1. \A q \in R : q.decisions \in Seq(D)
    BY DEF Run
  <2> HIDE DEF R
  <2>2. \A q \in R : FirstOf(q.decisions) \in Seq(D)
    BY <2>1, FirstIs
  <2> QED
    BY <2>2
<1>4. \A i \in DOMAIN both : both[i] \in R
  <2> HIDE DEF both, R
  <2> QED
    BY <1>1, LenProperties, ElementOfSeq
<1>5. \A i \in DOMAIN runs : runs[i] \in R
  <2> HIDE DEF R
  <2> QED
    BY <1>1, LenProperties, ElementOfSeq
<1>6. \A q \in R : h[q] = FidelityOf(q) /\ k[q] = FirstOf(q.decisions)
  <2> HIDE DEF R
  <2> QED
    OBVIOUS
<1>7. /\ ffs = Mapped(h, both) /\ dds = Mapped(k, both)
      /\ fs = Mapped(h, runs) /\ ds = Mapped(k, runs)
  <2> HIDE DEF R, h, k, both
  <2> QED
    BY <1>4, <1>5, <1>6 DEF Mapped
<1> HIDE DEF R, h, k
<1>8. ffs = <<h[run]>> \o fs /\ fs \in Seq(Seq(BOOLEAN))
  <2>1. Mapped(h, both) = <<h[run]>> \o Mapped(h, runs) /\ Mapped(h, runs) \in Seq(Seq(BOOLEAN))
    BY <1>1, <1>2, MappedFirst
  <2> HIDE DEF ffs, fs, both
  <2> QED
    BY <1>7, <2>1 DEF both
<1>9. dds = <<k[run]>> \o ds /\ ds \in Seq(Seq(D))
  <2>1. Mapped(k, both) = <<k[run]>> \o Mapped(k, runs) /\ Mapped(k, runs) \in Seq(Seq(D))
    BY <1>1, <1>3, MappedFirst
  <2> HIDE DEF dds, ds, both
  <2> QED
    BY <1>7, <2>1 DEF both
<1> HIDE DEF fs, ds, ffs, dds, both
<1>10. h[run] \in Seq(BOOLEAN) /\ k[run] \in Seq(D)
  BY <1>1, <1>2, <1>3
<1>11. FlattenSeq(ffs) = h[run] \o FlattenSeq(fs)
  <2>1. FlattenSeq(<<h[run]>> \o fs) = h[run] \o FlattenSeq(fs)
    BY <1>8, <1>10, FlattenFirst
  <2> QED
    BY <1>8, <2>1, Zenon
<1>12. FlattenSeq(dds) = k[run] \o FlattenSeq(ds)
  <2>1. FlattenSeq(<<k[run]>> \o ds) = k[run] \o FlattenSeq(ds)
    BY <1>9, <1>10, FlattenFirst
  <2> QED
    BY <1>9, <2>1, Zenon
<1>13. h[run] = FidelityOf(run) /\ k[run] = FirstOf(run.decisions)
  BY <1>1, <1>6
<1> DEFINE bias == IF groups = "one" THEN <<>> ELSE BiasOf(groups)
<1>14. BuildFromModel(runs, groups) =
         [stats |-> <<>>, bias |-> bias, fidelity |-> FlattenSeq(fs),
          decisions |-> FlattenSeq(ds)]
  BY Zenon DEF BuildFromModel, fs, ds
<1>15. BuildFromModel(both, groups) =
         [stats |-> <<>>, bias |-> bias, fidelity |-> FlattenSeq(ffs),
          decisions |-> FlattenSeq(dds)]
  BY <1>1, Zenon DEF BuildFromModel, ffs, dds
<1> HIDE DEF bias
<1>16. PICK before : before = BuildFromModel(runs, groups)
  BY Zenon
<1>17. PICK after : after = BuildFromModel(both, groups)
  BY Zenon
<1>18. /\ before.stats = <<>> /\ before.bias = bias
       /\ before.fidelity = FlattenSeq(fs) /\ before.decisions = FlattenSeq(ds)
  BY <1>14, <1>16
<1>19. /\ after.stats = <<>> /\ after.bias = bias
       /\ after.fidelity = FlattenSeq(ffs) /\ after.decisions = FlattenSeq(dds)
  BY <1>15, <1>17
<1>20. WithLinked(run, before, after)
  BY <1>11, <1>12, <1>13, <1>18, <1>19, Zenon DEF WithLinked
<1> QED
  BY <1>16, <1>17, <1>20, Zenon DEF both

\* A report is of what is on file of a model, whether it is overdue, and the evidence.
SameReports(m, n, body) ==
  \A regime, format :
    GenerateReport(m, TRUE, regime, body, format) = GenerateReport(n, TRUE, regime, body, format)

LEMMA ReportDependsOn ==
  ASSUME NEW m, NEW n, NEW body, m.present = n.present, m.overdue = n.overdue,
         EvidenceFor(m, body) = EvidenceFor(n, body)
  PROVE  SameReports(m, n, body)
<1> SUFFICES ASSUME NEW regime, NEW format
             PROVE  GenerateReport(m, TRUE, regime, body, format)
                      = GenerateReport(n, TRUE, regime, body, format)
  BY Zenon DEF SameReports
<1>1. MissingOf(m, regime) = MissingOf(n, regime)
  BY DEF MissingOf
<1>2. \A e : GenerateFindings(m, regime, e) = GenerateFindings(n, regime, e)
  BY <1>1, Zenon DEF GenerateFindings
<1>3. \A e : BuildValidationMemo(m, regime, e) = BuildValidationMemo(n, regime, e)
  BY <1>1, <1>2, Zenon DEF BuildValidationMemo
<1> QED
  BY <1>3, Zenon DEF GenerateReport

\* Linking one more run takes no failed check and no decision away from a model's
\* evidence, and linking an empty one changes nothing in the report: for runs of any
\* number and length ("linking a newer, empty run would blank the memo",
\* backend/routes/compliance.py).
THEOREM LinkingKeepsEvidence ==
  ASSUME NEW P, NEW C, NEW D, NEW model \in ModelOf(P, C, D), NEW run \in Run(C, D),
         NEW regime, NEW body
  PROVE  LinkingKeeps(model, run, regime, body)
<1> DEFINE linked == [model EXCEPT !.runs = <<run>> \o @]
           before == BuildFromModel(model.runs, model.groups)
           after == BuildFromModel(linked.runs, linked.groups)
<1>1. /\ linked.runs = <<run>> \o model.runs /\ linked.groups = model.groups
      /\ linked.present = model.present /\ linked.overdue = model.overdue
  BY DEF ModelOf
<1>2. model.runs \in Seq(Run(C, D)) /\ <<run>> \o model.runs \in Seq(Run(C, D))
  <2> DEFINE R == Run(C, D)
             t == <<run>>
  <2>1. model.runs \in Seq(R) /\ run \in R
    BY DEF ModelOf
  <2> HIDE DEF R
  <2>2. t \in Seq(R)
    BY <2>1
  <2> HIDE DEF t
  <2>3. t \o model.runs \in Seq(R)
    BY <2>1, <2>2, ConcatProperties
  <2> QED
    BY <2>1, <2>3 DEF R, t
<1>3. before \in Evidence(D) /\ after \in Evidence(D)
  <2> HIDE DEF linked
  <2> QED
    BY <1>1, <1>2, LinkedIs
<1>4. /\ before.fidelity \in Seq(BOOLEAN) /\ before.decisions \in Seq(D)
      /\ after.fidelity \in Seq(BOOLEAN) /\ after.decisions \in Seq(D)
  <2> HIDE DEF before, after
  <2> QED
    BY <1>3 DEF Evidence
<1>5. /\ FidelityOf(run) \in Seq(BOOLEAN) /\ FirstOf(run.decisions) \in Seq(D)
      /\ run.comparisons = <<>> => FidelityOf(run) = <<>>
      /\ run.decisions = <<>> => FirstOf(run.decisions) = <<>>
  <2>1. run.decisions \in Seq(D)
    BY DEF Run
  <2> QED
    BY <2>1, FirstIs, FidelityIs
<1>6. ASSUME model.runs # <<>>
      PROVE  /\ after.stats = before.stats /\ after.bias = before.bias
             /\ after.fidelity = FidelityOf(run) \o before.fidelity
             /\ after.decisions = FirstOf(run.decisions) \o before.decisions
  <2>1. WithLinked(run, before, after)
    <3> HIDE DEF linked
    <3>1. WithLinked(run, BuildFromModel(model.runs, model.groups),
                 BuildFromModel(<<run>> \o model.runs, model.groups))
      BY <1>2, <1>6, LinkedFirst
    <3> QED
      BY <1>1, <3>1, Zenon
  <2> HIDE DEF before, after
  <2> QED
    BY <2>1 DEF WithLinked
<1> HIDE DEF linked, before, after
<1>7. /\ Cardinality(FalseAt(after.fidelity)) >= Cardinality(FalseAt(before.fidelity))
      /\ Len(after.decisions) >= Len(before.decisions)
  <2>1. CASE model.runs # <<>>
    <3>1. Cardinality(FalseAt(after.fidelity)) >= Cardinality(FalseAt(before.fidelity))
      BY <1>4, <1>5, <1>6, <2>1, FalseAtBoth
    <3>2. Len(after.decisions) = Len(FirstOf(run.decisions)) + Len(before.decisions)
      <4>1. after.decisions = FirstOf(run.decisions) \o before.decisions
        BY <1>6, <2>1
      <4> QED
        BY <1>4, <1>5, <4>1, ConcatProperties
    <3>3. Len(FirstOf(run.decisions)) \in Nat /\ Len(before.decisions) \in Nat
      BY <1>4, <1>5, LenProperties
    <3>4. Len(after.decisions) >= Len(before.decisions)
      <4> DEFINE a == Len(after.decisions)
                 b == Len(FirstOf(run.decisions))
                 c == Len(before.decisions)
      <4>1. a = b + c /\ b \in Nat /\ c \in Nat
        BY <3>2, <3>3, Zenon
      <4> HIDE DEF a, b, c
      <4>2. a >= c
        BY <4>1
      <4> QED
        BY <4>2, Zenon DEF a, c
    <3> QED
      BY <3>1, <3>4, Zenon
  <2>2. CASE model.runs = <<>>
    <3>1. before = NoEvidence
      BY <2>2, Zenon DEF before, BuildFromModel
    <3>2. before.fidelity = <<>> /\ before.decisions = <<>>
      BY <3>1 DEF NoEvidence
    <3>3. Cardinality(FalseAt(before.fidelity)) = 0
      <4>1. FALSE \notin ToSet(before.fidelity)
        BY <1>4, <3>2, SetOfSeq
      <4> QED
        BY <1>4, <4>1, FalseAtIs
    <3>4. Len(before.decisions) = 0
      BY <3>2
    <3>5. Cardinality(FalseAt(after.fidelity)) \in Nat /\ Len(after.decisions) \in Nat
      BY <1>4, FalseAtIs, LenProperties
    <3> QED
      BY <3>3, <3>4, <3>5
  <2> QED
    BY <2>1, <2>2
<1>8. ASSUME run.comparisons = <<>>, run.decisions = <<>>, model.runs # <<>>
      PROVE  GenerateReport(linked, TRUE, regime, body, "docx")
               = GenerateReport(model, TRUE, regime, body, "docx")
  <2>1. after.fidelity = before.fidelity /\ after.decisions = before.decisions
    <3>1. /\ after.fidelity = <<>> \o before.fidelity
          /\ after.decisions = <<>> \o before.decisions
      BY <1>5, <1>6, <1>8
    <3> QED
      BY <1>4, <3>1, ConcatEmptySeq
  <2>2. after = before
    <3>1. after.stats = before.stats /\ after.bias = before.bias
      BY <1>6, <1>8
    <3>2. /\ before = [stats |-> before.stats, bias |-> before.bias,
                       fidelity |-> before.fidelity, decisions |-> before.decisions]
          /\ after = [stats |-> after.stats, bias |-> after.bias,
                      fidelity |-> after.fidelity, decisions |-> after.decisions]
      BY <1>3 DEF Evidence
    <3> QED
      BY <2>1, <3>1, <3>2
  <2>3. EvidenceFor(linked, body) = EvidenceFor(model, body)
    BY <2>2, Zenon DEF EvidenceFor, after, before
  <2> QED
    <3>1. SameReports(linked, model, body)
      BY <1>1, <2>3, ReportDependsOn
    <3> QED
      BY <3>1, Zenon DEF SameReports
<1> QED
  BY <1>7, <1>8, Zenon DEF LinkingKeeps, Count, FalseAt, linked, before, after

-----------------------------------------------------------------------------
(* Lists put together from pieces.                                         *)

\* h gives each of W one of X.
Maps(h, W, X) == h \in [W -> X]

LEMMA MappedIs ==
  ASSUME NEW W, NEW X, NEW h, Maps(h, W, X), NEW s \in Seq(W)
  PROVE  /\ Mapped(h, s) \in Seq(X) /\ Len(Mapped(h, s)) = Len(s)
         /\ \A i \in 1 .. Len(s) : Mapped(h, s)[i] = h[s[i]]
<1> DEFINE m == [i \in 1 .. Len(s) |-> h[s[i]]]
<1>1. Len(s) \in Nat /\ DOMAIN s = 1 .. Len(s) /\ \A i \in 1 .. Len(s) : s[i] \in W
  BY LenProperties, ElementOfSeq
<1>2. Mapped(h, s) = m
  BY <1>1, Zenon DEF Mapped
<1>3. m \in [1 .. Len(s) -> X] /\ \A i \in 1 .. Len(s) : m[i] = h[s[i]]
  BY <1>1 DEF Maps
<1> HIDE DEF m
<1> QED
  BY <1>1, <1>2, <1>3, FunctionIsSeq

LEMMA MappedEmpty ==
  ASSUME NEW W, NEW h, NEW s \in Seq(W), Len(s) = 0
  PROVE  Mapped(h, s) = <<>>
<1>1. DOMAIN s = {}
  BY LenProperties
<1>2. Mapped(h, s) = [i \in {} |-> h[s[i]]]
  BY <1>1, Zenon DEF Mapped
<1>3. Mapped(h, s) = <<>>
  BY <1>2
<1> QED
  BY <1>3

LEMMA MappedBoth ==
  ASSUME NEW W, NEW X, NEW h, Maps(h, W, X), NEW s \in Seq(W), NEW t \in Seq(W)
  PROVE  Mapped(h, s \o t) = Mapped(h, s) \o Mapped(h, t)
<1> DEFINE a == Len(s)
           b == Len(t)
           ms == Mapped(h, s)
           mt == Mapped(h, t)
           both == Mapped(h, s \o t)
<1>1. a \in Nat /\ b \in Nat
  BY LenProperties
<1>2. /\ s \o t \in Seq(W) /\ Len(s \o t) = a + b
      /\ \A i \in 1 .. a + b : (s \o t)[i] = IF i <= a THEN s[i] ELSE t[i - a]
  BY ConcatProperties
<1>3. /\ ms \in Seq(X) /\ Len(ms) = a /\ \A i \in 1 .. a : ms[i] = h[s[i]]
      /\ mt \in Seq(X) /\ Len(mt) = b /\ \A i \in 1 .. b : mt[i] = h[t[i]]
  BY MappedIs
<1>4. both \in Seq(X) /\ Len(both) = a + b /\ \A i \in 1 .. a + b : both[i] = h[(s \o t)[i]]
  <2> DEFINE st == s \o t
  <2>1. st \in Seq(W) /\ Len(st) = a + b
    BY <1>2
  <2> HIDE DEF st, a, b
  <2>2. /\ Mapped(h, st) \in Seq(X) /\ Len(Mapped(h, st)) = Len(st)
        /\ \A i \in 1 .. Len(st) : Mapped(h, st)[i] = h[st[i]]
    BY <2>1, MappedIs
  <2> QED
    BY <2>1, <2>2 DEF st
<1> HIDE DEF a, b, ms, mt, both
<1>5. /\ ms \o mt \in Seq(X) /\ Len(ms \o mt) = a + b
      /\ \A i \in 1 .. a + b : (ms \o mt)[i] = IF i <= a THEN ms[i] ELSE mt[i - a]
  <2>1. /\ ms \o mt \in Seq(X) /\ Len(ms \o mt) = Len(ms) + Len(mt)
        /\ \A i \in 1 .. Len(ms) + Len(mt) :
             (ms \o mt)[i] = IF i <= Len(ms) THEN ms[i] ELSE mt[i - Len(ms)]
    BY <1>3, ConcatProperties
  <2>2. Len(ms) = a /\ Len(mt) = b
    BY <1>3
  <2> QED
    BY <2>1, <2>2, Zenon
<1>6. ASSUME NEW i \in 1 .. a + b
      PROVE  both[i] = (ms \o mt)[i]
  <2>1. (i <= a => i \in 1 .. a) /\ (~ (i <= a) => i - a \in 1 .. b)
    BY <1>1
  <2>2. both[i] = h[(s \o t)[i]]
    BY <1>4
  <2>3. CASE i <= a
    <3>1. (s \o t)[i] = s[i] /\ (ms \o mt)[i] = ms[i] /\ ms[i] = h[s[i]]
      BY <1>2, <1>3, <1>5, <2>1, <2>3
    <3> QED
      BY <2>2, <3>1
  <2>4. CASE ~ (i <= a)
    <3>1. /\ (s \o t)[i] = t[i - a] /\ (ms \o mt)[i] = mt[i - a]
          /\ mt[i - a] = h[t[i - a]]
      BY <1>2, <1>3, <1>5, <2>1, <2>4
    <3> QED
      BY <2>2, <3>1
  <2> QED
    BY <2>3, <2>4
<1>7. both = ms \o mt
  BY <1>4, <1>5, <1>6, SeqEqual
<1> QED
  BY <1>7 DEF both, ms, mt

\* Mapping what is put together is putting together what is mapped.
MapsEach(h, ss, tt) == Len(tt) = Len(ss) /\ \A i \in 1 .. Len(ss) : tt[i] = Mapped(h, ss[i])

LEMMA MappedFlatten ==
  ASSUME NEW W, NEW X, NEW h, Maps(h, W, X), NEW ss \in Seq(Seq(W)), NEW tt \in Seq(Seq(X)),
         MapsEach(h, ss, tt)
  PROVE  Mapped(h, FlattenSeq(ss)) = FlattenSeq(tt)
<1> USE DEF MapsEach
<1> DEFINE n == Len(ss)
<1>1. n \in Nat /\ \A k \in 1 .. n : ss[k] \in Seq(W)
  BY LenProperties, ElementOfSeq
<1>2. PICK g \in [0 .. n -> Seq(W)] :
        /\ g[0] = <<>> /\ FlattenSeq(ss) = g[n]
        /\ \A k \in 1 .. n : g[k] = g[k - 1] \o ss[k]
  BY FlattenIs
<1> HIDE DEF n
<1>3. PICK f \in [0 .. n -> Seq(X)] :
        /\ f[0] = <<>> /\ FlattenSeq(tt) = f[n]
        /\ \A k \in 1 .. n : f[k] = f[k - 1] \o tt[k]
  <2>1. \E f \in [0 .. Len(tt) -> Seq(X)] :
          /\ f[0] = <<>> /\ FlattenSeq(tt) = f[Len(tt)]
          /\ \A k \in 1 .. Len(tt) : f[k] = f[k - 1] \o tt[k]
    BY FlattenIs
  <2>2. Len(tt) = n
    BY DEF n
  <2> QED
    BY <2>1, <2>2, Zenon
<1> DEFINE S == {k \in 0 .. n : Mapped(h, g[k]) = f[k]}
<1>4. 0 \in S
  <2> DEFINE e == g[0]
  <2>1. e = <<>>
    BY <1>2
  <2>2. e \in Seq(W) /\ Len(e) = 0
    BY <2>1, EmptySeq
  <2> HIDE DEF e
  <2>4. Mapped(h, e) = <<>>
    BY <2>2, MappedEmpty
  <2> QED
    BY <1>1, <1>3, <2>4 DEF e
<1>5. ASSUME NEW k \in 0 .. (n - 1), k \in S
      PROVE  k + 1 \in S
  <2>1. k + 1 \in 1 .. n /\ k + 1 \in 0 .. n /\ k \in 0 .. n /\ (k + 1) - 1 = k
    BY <1>1
  <2>2. g[k] \in Seq(W) /\ ss[k + 1] \in Seq(W)
    BY <1>1, <2>1
  <2>3. g[k + 1] = g[k] \o ss[k + 1] /\ f[k + 1] = f[k] \o tt[k + 1]
    BY <1>2, <1>3, <2>1
  <2>4. tt[k + 1] = Mapped(h, ss[k + 1])
    BY <2>1 DEF n
  <2>5. Mapped(h, g[k] \o ss[k + 1]) = Mapped(h, g[k]) \o Mapped(h, ss[k + 1])
    <3> DEFINE u == g[k]
               v == ss[k + 1]
    <3>1. u \in Seq(W) /\ v \in Seq(W)
      BY <2>2
    <3> HIDE DEF u, v
    <3>2. Mapped(h, u \o v) = Mapped(h, u) \o Mapped(h, v)
      BY <3>1, MappedBoth
    <3> QED
      BY <3>2 DEF u, v
  <2>6. Mapped(h, g[k]) = f[k]
    BY <1>5
  <2> QED
    BY <2>1, <2>3, <2>4, <2>5, <2>6
<1>6. \A k \in 0 .. n : k \in S
  <2> HIDE DEF S
  <2> QED
    BY <1>1, <1>4, <1>5, UpTo
<1>7. n \in 0 .. n
  BY <1>1
<1>8. Mapped(h, g[n]) = f[n]
  BY <1>6, <1>7
<1> QED
  BY <1>2, <1>3, <1>8

\* Pieces of at most one element make a list that is not longer than theirs.
LEMMA FlattenShort ==
  ASSUME NEW W, NEW ss \in Seq(Seq(W)), \A i \in 1 .. Len(ss) : Len(ss[i]) <= 1
  PROVE  Len(FlattenSeq(ss)) <= Len(ss)
<1> DEFINE n == Len(ss)
<1>1. n \in Nat /\ \A k \in 1 .. n : ss[k] \in Seq(W) /\ Len(ss[k]) <= 1
  BY LenProperties, ElementOfSeq
<1>2. PICK g \in [0 .. n -> Seq(W)] :
        /\ g[0] = <<>> /\ FlattenSeq(ss) = g[n]
        /\ \A k \in 1 .. n : g[k] = g[k - 1] \o ss[k]
  BY FlattenIs
<1> DEFINE S == {k \in 0 .. n : Len(g[k]) <= k}
<1> HIDE DEF n
<1>3. 0 \in S
  <2>1. Len(g[0]) = 0
    BY <1>2, EmptySeq
  <2> QED
    BY <1>1, <2>1
<1>4. ASSUME NEW k \in 0 .. (n - 1), k \in S
      PROVE  k + 1 \in S
  <2>1. k + 1 \in 1 .. n /\ k + 1 \in 0 .. n /\ k \in 0 .. n /\ (k + 1) - 1 = k
    BY <1>1
  <2>2. g[k] \in Seq(W) /\ ss[k + 1] \in Seq(W) /\ Len(ss[k + 1]) <= 1 /\ Len(g[k]) <= k
    BY <1>1, <1>4, <2>1
  <2>3. g[k + 1] = g[k] \o ss[k + 1]
    BY <1>2, <2>1
  <2>4. Len(g[k + 1]) = Len(g[k]) + Len(ss[k + 1])
    BY <2>2, <2>3, ConcatProperties
  <2>5. Len(g[k]) \in Nat /\ Len(ss[k + 1]) \in Nat
    BY <2>2, LenProperties
  <2> HIDE DEF S
  <2>6. Len(g[k + 1]) <= k + 1
    BY <2>1, <2>2, <2>4, <2>5
  <2> QED
    BY <2>1, <2>6 DEF S
<1>5. \A k \in 0 .. n : k \in S
  <2> HIDE DEF S
  <2> QED
    BY <1>1, <1>3, <1>4, UpTo
<1>6. n \in 0 .. n
  BY <1>1
<1>7. Len(g[n]) <= n
  BY <1>5, <1>6
<1> QED
  BY <1>2, <1>7 DEF n

-----------------------------------------------------------------------------
(* Dispatch.                                                               *)

Verdict == [passed : BOOLEAN, score : 0 .. 100]
Row(N) == [name : N, result : Verdict]
NameOf(N) == [r \in Row(N) |-> r.name]

\* The names of a list that are in a set, in the list's order.
Among(names, S) ==
  FlattenSeq([i \in DOMAIN names |-> IF names[i] \in S THEN <<names[i]>> ELSE <<>>])

\* The rows answer exactly those names of a list that are in a set, in order.
Answers(rows, N, names, S) ==
  /\ rows \in Seq(Row(N))
  /\ [i \in DOMAIN rows |-> rows[i].name] = Among(names, S)

\* Each name gets one row if it is in the set, else none.
Given(answer, N, S) ==
  \A x \in N : \/ x \in S /\ \E v \in Verdict : answer[x] = <<[name |-> x, result |-> v]>>
               \/ x \notin S /\ answer[x] = <<>>

\* Answering each name of a list answers exactly those that have an answer, in order.
LEMMA AnswersAre ==
  ASSUME NEW N, NEW names \in Seq(N), NEW S, NEW answer, Maps(answer, N, Seq(Row(N))),
         Given(answer, N, S)
  PROVE  Answers(FlattenSeq(Mapped(answer, names)), N, names, S)
<1> DEFINE R == Row(N)
           nameOf == NameOf(N)
           ss == Mapped(answer, names)
           rows == FlattenSeq(ss)
           One(x) == IF x \in S THEN <<x>> ELSE <<>>
           tt == [i \in 1 .. Len(names) |-> One(names[i])]
<1>1. /\ Len(names) \in Nat /\ DOMAIN names = 1 .. Len(names)
      /\ \A i \in 1 .. Len(names) : names[i] \in N
  BY LenProperties, ElementOfSeq
<1>2. /\ ss \in Seq(Seq(R)) /\ Len(ss) = Len(names)
      /\ \A i \in 1 .. Len(names) : ss[i] = answer[names[i]]
  BY MappedIs
<1>3. rows \in Seq(R)
  <2> HIDE DEF ss, R
  <2> QED
    BY <1>2, FlattenMembers
<1>4. Maps(nameOf, R, N)
  BY DEF Maps, NameOf, Row
<1>5. [i \in DOMAIN rows |-> rows[i].name] = Mapped(nameOf, rows)
  <2> HIDE DEF rows
  <2>1. \A i \in DOMAIN rows : rows[i] \in R
    BY <1>3, LenProperties, ElementOfSeq
  <2>2. \A i \in DOMAIN rows : nameOf[rows[i]] = rows[i].name
    BY <2>1, Zenon DEF NameOf
  <2> HIDE DEF nameOf
  <2> QED
    BY <2>2 DEF Mapped
<1>6. ASSUME NEW x \in N
      PROVE  One(x) \in Seq(N) /\ Mapped(nameOf, answer[x]) = One(x)
  <2>1. CASE x \in S
    <3>1. PICK v \in Verdict : answer[x] = <<[name |-> x, result |-> v]>>
      BY <2>1 DEF Given
    <3> DEFINE r == [name |-> x, result |-> v]
    <3>2. r \in R /\ r.name = x
      BY DEF Row
    <3>3. nameOf[r] = x
      BY <3>2, Zenon DEF NameOf
    <3> HIDE DEF r, nameOf
    <3>4. Mapped(nameOf, <<r>>) = <<x>>
      <4>1. DOMAIN <<r>> = {1} /\ <<r>>[1] = r
        OBVIOUS
      <4>2. Mapped(nameOf, <<r>>) = [i \in {1} |-> nameOf[<<r>>[i]]]
        BY <4>1, Zenon DEF Mapped
      <4>3. [i \in {1} |-> nameOf[<<r>>[i]]] = [i \in {1} |-> x]
        BY <3>3, <4>1
      <4>4. [i \in {1} |-> x] = <<x>>
        OBVIOUS
      <4> QED
        BY <4>2, <4>3, <4>4, Zenon
    <3>5. One(x) = <<x>> /\ <<x>> \in Seq(N)
      BY <2>1
    <3> QED
      BY <3>1, <3>4, <3>5, Zenon DEF r
  <2>2. CASE x \notin S
    <3>1. answer[x] = <<>> /\ One(x) = <<>>
      BY <2>2 DEF Given
    <3> DEFINE e == answer[x]
    <3>2. e \in Seq(R) /\ Len(e) = 0 /\ <<>> \in Seq(N)
      BY <3>1, EmptySeq
    <3> HIDE DEF e, nameOf, R
    <3>3. Mapped(nameOf, e) = <<>>
      BY <3>2, MappedEmpty
    <3> QED
      BY <3>1, <3>2, <3>3 DEF e
  <2> QED
    BY <2>1, <2>2
<1> HIDE DEF One
<1>7. tt \in Seq(Seq(N)) /\ Len(tt) = Len(names)
  <2>1. tt \in [1 .. Len(names) -> Seq(N)]
    BY <1>1, <1>6
  <2> HIDE DEF tt
  <2> QED
    BY <1>1, <2>1, FunctionIsSeq
<1>8. \A i \in 1 .. Len(ss) : tt[i] = Mapped(nameOf, ss[i])
  <2> SUFFICES ASSUME NEW i \in 1 .. Len(ss)
               PROVE  tt[i] = Mapped(nameOf, ss[i])
    OBVIOUS
  <2>1. i \in 1 .. Len(names) /\ names[i] \in N /\ ss[i] = answer[names[i]]
    BY <1>1, <1>2, Zenon
  <2>2. tt[i] = One(names[i])
    BY <2>1, Zenon
  <2> HIDE DEF ss, tt, nameOf
  <2> QED
    BY <1>6, <2>1, <2>2, Zenon
<1>9. Mapped(nameOf, FlattenSeq(ss)) = FlattenSeq(tt)
  <2> HIDE DEF ss, tt, nameOf, R
  <2>1. MapsEach(nameOf, ss, tt)
    BY <1>2, <1>4, <1>7, <1>8 DEF MapsEach
  <2> QED
    BY <1>2, <1>4, <1>7, <2>1, MappedFlatten
<1>10. FlattenSeq(tt) = Among(names, S)
  BY <1>1, Zenon DEF Among, One
<1> HIDE DEF tt, nameOf
<1> QED
  BY <1>3, <1>5, <1>9, <1>10, Zenon DEF Answers

\* What an evaluator that is called gives to the list, in place of what it raises.
LEMMA CaughtIs ==
  ASSUME NEW outcome \in Verdict \union {Raises}, NEW instead \in Verdict
  PROVE  (IF outcome = Raises THEN instead ELSE outcome) \in Verdict
OBVIOUS

\* A configured list is run once against each output and once against the pair: every
\* name is answered, in its order, in exactly one of the two, except a pairwise name
\* nobody registered, and whatever raises takes no other's result: for any list and
\* any registries that keep pairwise names apart (core/evaluators.py,
\* run_evaluators and run_pairwise_evaluators).
THEOREM EachIsAnsweredOnce ==
  ASSUME NEW N, NEW names \in Seq(N), NEW single, NEW pairwise,
         \A x \in DOMAIN single : single[x] \in Verdict \union {Raises},
         \A x \in DOMAIN pairwise : pairwise[x] \in Verdict \union {Raises},
         \A x \in DOMAIN single : x \notin PairwiseNames
  PROVE  EachAnsweredOnce(names, single, pairwise)
<1> DEFINE Answer1(x) ==
             IF x \in DOMAIN single
             THEN <<[name |-> x, result |-> IF single[x] = Raises THEN Failed ELSE single[x]]>>
             ELSE IF x \in PairwiseNames THEN <<>> ELSE <<[name |-> x, result |-> Failed]>>
           Answer2(x) ==
             IF x \in DOMAIN pairwise
             THEN <<[name |-> x, result |-> IF pairwise[x] = Raises THEN Tie ELSE pairwise[x]]>>
             ELSE <<>>
           answer1 == [x \in N |-> Answer1(x)]
           answer2 == [x \in N |-> Answer2(x)]
           alone == RunEvaluators(names, single)
           paired == RunPairwise(names, pairwise)
           S == ToSet(names) \ PairwiseNames
           T == DOMAIN pairwise
<1>1. Failed \in Verdict /\ Tie \in Verdict
  BY DEF Failed, Tie, Result, Verdict
<1>2. DOMAIN names = 1 .. Len(names) /\ \A i \in 1 .. Len(names) : names[i] \in N
  BY LenProperties, ElementOfSeq
<1>3. ASSUME NEW x \in N
      PROVE  /\ Answer1(x) \in Seq(Row(N)) /\ Answer2(x) \in Seq(Row(N))
             /\ \/ /\ x \notin PairwiseNames
                   /\ \E v \in Verdict : Answer1(x) = <<[name |-> x, result |-> v]>>
                \/ x \in PairwiseNames /\ Answer1(x) = <<>>
             /\ \/ /\ x \in T
                   /\ \E v \in Verdict : Answer2(x) = <<[name |-> x, result |-> v]>>
                \/ x \notin T /\ Answer2(x) = <<>>
  <2>1. ASSUME NEW v \in Verdict
        PROVE  <<[name |-> x, result |-> v]>> \in Seq(Row(N))
    <3> DEFINE r == [name |-> x, result |-> v]
    <3>1. r \in Row(N)
      BY DEF Row
    <3> HIDE DEF r
    <3> QED
      BY <3>1 DEF r
  <2>2. <<>> \in Seq(Row(N))
    BY EmptySeq
  <2>3. \/ /\ x \notin PairwiseNames
           /\ \E v \in Verdict : Answer1(x) = <<[name |-> x, result |-> v]>>
        \/ x \in PairwiseNames /\ Answer1(x) = <<>>
    <3>1. CASE x \in DOMAIN single
      <4> DEFINE v == IF single[x] = Raises THEN Failed ELSE single[x]
      <4>1. v \in Verdict
        BY <1>1, <3>1, CaughtIs
      <4>2. Answer1(x) = <<[name |-> x, result |-> v]>>
        BY <3>1
      <4>3. x \notin PairwiseNames
        BY <3>1
      <4> HIDE DEF v, Answer1
      <4> QED
        BY <4>1, <4>2, <4>3
    <3>2. CASE x \notin DOMAIN single
      <4>1. x \in PairwiseNames => Answer1(x) = <<>>
        BY <3>2
      <4>2. x \notin PairwiseNames => Answer1(x) = <<[name |-> x, result |-> Failed]>>
        BY <3>2
      <4> HIDE DEF Answer1
      <4> QED
        BY <1>1, <4>1, <4>2
    <3> QED
      BY <3>1, <3>2
  <2>4. \/ /\ x \in T
           /\ \E v \in Verdict : Answer2(x) = <<[name |-> x, result |-> v]>>
        \/ x \notin T /\ Answer2(x) = <<>>
    <3>1. CASE x \in T
      <4> DEFINE v == IF pairwise[x] = Raises THEN Tie ELSE pairwise[x]
      <4>1. v \in Verdict
        BY <1>1, <3>1, CaughtIs
      <4>2. Answer2(x) = <<[name |-> x, result |-> v]>>
        BY <3>1
      <4> HIDE DEF v, Answer2
      <4> QED
        BY <3>1, <4>1, <4>2
    <3>2. CASE x \notin T
      BY <3>2
    <3> QED
      BY <3>1, <3>2
  <2> HIDE DEF Answer1, Answer2
  <2> QED
    BY <2>1, <2>2, <2>3, <2>4
<1>4. /\ alone = FlattenSeq(Mapped(answer1, names)) /\ paired = FlattenSeq(Mapped(answer2, names))
  <2>1. /\ [i \in DOMAIN names |-> Answer1(names[i])] = Mapped(answer1, names)
        /\ [i \in DOMAIN names |-> Answer2(names[i])] = Mapped(answer2, names)
    <3> HIDE DEF Answer1, Answer2
    <3> QED
      BY <1>2 DEF Mapped
  <2>2. /\ alone = FlattenSeq([i \in DOMAIN names |-> Answer1(names[i])])
        /\ paired = FlattenSeq([i \in DOMAIN names |-> Answer2(names[i])])
    BY Zenon DEF RunEvaluators, RunPairwise
  <2> HIDE DEF Answer1, Answer2, answer1, answer2, alone, paired
  <2> QED
    BY <2>1, <2>2
<1> HIDE DEF Answer1, Answer2
<1>5. /\ Maps(answer1, N, Seq(Row(N))) /\ Maps(answer2, N, Seq(Row(N)))
      /\ \A x \in N : answer1[x] = Answer1(x) /\ answer2[x] = Answer2(x)
  BY <1>3 DEF Maps
<1> HIDE DEF answer1, answer2, alone, paired
<1>6. /\ alone \in Seq(Row(N))
      /\ [i \in DOMAIN alone |-> alone[i].name] = Among(names, N \ PairwiseNames)
  <2>1. Given(answer1, N, N \ PairwiseNames)
    BY <1>3, <1>5 DEF Given
  <2>2. Answers(FlattenSeq(Mapped(answer1, names)), N, names, N \ PairwiseNames)
    BY <1>5, <2>1, AnswersAre
  <2> QED
    BY <1>4, <2>2, Zenon DEF Answers
<1>7. /\ paired \in Seq(Row(N))
      /\ [i \in DOMAIN paired |-> paired[i].name] = Among(names, T)
  <2>1. Given(answer2, N, T)
    BY <1>3, <1>5 DEF Given
  <2>2. Answers(FlattenSeq(Mapped(answer2, names)), N, names, T)
    BY <1>5, <2>1, AnswersAre
  <2> QED
    BY <1>4, <2>2, Zenon DEF Answers
<1>8. Among(names, N \ PairwiseNames) = Among(names, S)
  <2>1. \A i \in DOMAIN names : names[i] \in N \ PairwiseNames <=> names[i] \in S
    BY <1>2 DEF ToSet
  <2>2. [i \in DOMAIN names |-> IF names[i] \in N \ PairwiseNames THEN <<names[i]>> ELSE <<>>]
          = [i \in DOMAIN names |-> IF names[i] \in S THEN <<names[i]>> ELSE <<>>]
    BY <2>1, Zenon
  <2> HIDE DEF S
  <2> QED
    BY <2>2, Zenon DEF Among
<1>9. \A r \in ToSet(alone) \union ToSet(paired) : r.result.score \in 0 .. 100
  <2>1. ToSet(alone) \subseteq Row(N) /\ ToSet(paired) \subseteq Row(N)
    BY <1>6, <1>7, SetOfSeq
  <2>2. \A r \in Row(N) : r.result.score \in 0 .. 100
    BY DEF Row, Verdict
  <2> QED
    BY <2>1, <2>2
<1> QED
  BY <1>6, <1>7, <1>8, <1>9, Zenon DEF EachAnsweredOnce, Among, alone, paired

-----------------------------------------------------------------------------
(* Figures.                                                                *)

Figure(K) == [value : Int, kind : K]

\* A figure of the source is close to a value.
Close(value, x, tolerance) == 100 * Abs(value - x.value) <= tolerance * Abs(x.value)

\* More figures match more, in whatever order they stand.
LEMMA MatchesIs ==
  ASSUME NEW K, NEW value, NEW s \in Seq(Figure(K)), NEW tolerance
  PROVE  MatchesSource(value, s, tolerance) <=> \E x \in ToSet(s) : Close(value, x, tolerance)
BY Zenon DEF MatchesSource, Close, ToSet

LEMMA MatchesBoth ==
  ASSUME NEW K, NEW value, NEW s \in Seq(Figure(K)), NEW t \in Seq(Figure(K)), NEW tolerance
  PROVE  MatchesSource(value, s \o t, tolerance) <=>
           MatchesSource(value, s, tolerance) \/ MatchesSource(value, t, tolerance)
<1>1. s \o t \in Seq(Figure(K)) /\ ToSet(s \o t) = ToSet(s) \union ToSet(t)
  BY SetOfBoth
<1>2. MatchesSource(value, s \o t, tolerance)
        <=> \E x \in ToSet(s \o t) : Close(value, x, tolerance)
  BY <1>1, MatchesIs
<1>3. /\ MatchesSource(value, s, tolerance) <=> \E x \in ToSet(s) : Close(value, x, tolerance)
      /\ MatchesSource(value, t, tolerance) <=> \E x \in ToSet(t) : Close(value, x, tolerance)
  BY MatchesIs
<1> QED
  BY <1>1, <1>2, <1>3

\* What is flagged are the figures that match none, so many at most as there are.
FlagsExactly(flagged, K, source, output, tolerance) ==
  /\ flagged \in Seq(Figure(K)) /\ Len(flagged) <= Len(output)
  /\ ToSet(flagged) = {x \in ToSet(output) : ~MatchesSource(x.value, source, tolerance)}

LEMMA UnreconciledIs ==
  ASSUME NEW K, NEW source, NEW output \in Seq(Figure(K)), NEW tolerance
  PROVE  FlagsExactly(Unreconciled(source, output, tolerance), K, source, output, tolerance)
<1> DEFINE F == Figure(K)
           n == Len(output)
           Matches(x) == MatchesSource(x.value, source, tolerance)
           One(x) == IF Matches(x) THEN <<>> ELSE <<x>>
           ss == [i \in 1 .. n |-> One(output[i])]
           flagged == Unreconciled(source, output, tolerance)
<1>1. n \in Nat /\ DOMAIN output = 1 .. n /\ \A i \in 1 .. n : output[i] \in F
  BY LenProperties, ElementOfSeq
<1>2. ASSUME NEW x \in F
      PROVE  /\ One(x) \in Seq(F) /\ Len(One(x)) <= 1
             /\ ToSet(One(x)) = {y \in {x} : ~Matches(y)}
  <2> HIDE DEF Matches, F
  <2>1. CASE Matches(x)
    <3>1. One(x) = <<>>
      BY <2>1
    <3>2. <<>> \in Seq(F) /\ Len(<<>>) = 0 /\ ToSet(<<>>) = {}
      BY EmptySeq DEF ToSet
    <3> QED
      BY <2>1, <3>1, <3>2
  <2>2. CASE ~Matches(x)
    <3>1. One(x) = <<x>>
      BY <2>2
    <3>2. <<x>> \in Seq(F) /\ Len(<<x>>) = 1
      OBVIOUS
    <3>3. ToSet(<<x>>) = {x}
      BY DEF ToSet
    <3> HIDE DEF One
    <3> QED
      BY <2>2, <3>1, <3>2, <3>3
  <2> QED
    BY <2>1, <2>2
<1>3. flagged = FlattenSeq(ss)
  BY <1>1, Zenon DEF Unreconciled
<1> HIDE DEF One
<1>4. /\ ss \in Seq(Seq(F)) /\ Len(ss) = n
      /\ \A i \in 1 .. n : ss[i] = One(output[i])
  <2>1. ss \in [1 .. n -> Seq(F)]
    <3> HIDE DEF F, n
    <3> QED
      BY <1>1, <1>2
  <2>2. \A i \in 1 .. n : ss[i] = One(output[i])
    BY Zenon
  <2> HIDE DEF ss
  <2> QED
    BY <1>1, <2>1, <2>2, FunctionIsSeq
<1> HIDE DEF ss, Matches, F, n
<1>5. /\ flagged \in Seq(F)
      /\ ToSet(flagged) = UNION {ToSet(ss[i]) : i \in 1 .. n}
  BY <1>3, <1>4, FlattenMembers
<1>6. Len(flagged) <= n
  <2>1. \A i \in 1 .. Len(ss) : Len(ss[i]) <= 1
    BY <1>1, <1>2, <1>4
  <2>2. Len(FlattenSeq(ss)) <= Len(ss)
    BY <1>4, <2>1, FlattenShort
  <2> QED
    BY <1>3, <1>4, <2>2
<1>7. \A i \in 1 .. n : ToSet(ss[i]) = {y \in {output[i]} : ~Matches(y)}
  BY <1>1, <1>2, <1>4
<1>8. ToSet(output) = {output[i] : i \in 1 .. n}
  BY <1>1, Zenon DEF ToSet
<1>9. ToSet(flagged) = {x \in ToSet(output) : ~Matches(x)}
  BY <1>5, <1>7, <1>8
<1> QED
  BY <1>5, <1>6, <1>9, Zenon DEF FlagsExactly, F, n, Matches

\* The same figures match, so the same are flagged.
LEMMA SameUnreconciled ==
  ASSUME NEW s, NEW t, NEW output, NEW tolerance,
         \A i \in DOMAIN output : MatchesSource(output[i].value, s, tolerance)
                                    <=> MatchesSource(output[i].value, t, tolerance)
  PROVE  NumericalFidelity(s, output, tolerance) = NumericalFidelity(t, output, tolerance)
<1>1. Unreconciled(s, output, tolerance) = Unreconciled(t, output, tolerance)
  <2>1. [i \in DOMAIN output |->
           IF MatchesSource(output[i].value, s, tolerance) THEN <<>> ELSE <<output[i]>>]
          = [i \in DOMAIN output |->
               IF MatchesSource(output[i].value, t, tolerance) THEN <<>> ELSE <<output[i]>>]
    BY Zenon
  <2> QED
    BY <2>1, Zenon DEF Unreconciled
<1> QED
  BY <1>1, Zenon DEF NumericalFidelity

\* A figure is flagged unless the source has one close to it, whatever the tolerance; a
\* longer source never flags more, and the order of the figures in it does not matter: for
\* figures of any number and value (core/finance_evaluators.py,
\* NumericalFidelityEvaluator).
THEOREM FidelityOnlyGrows ==
  ASSUME NEW K, NEW source \in Seq(Figure(K)), NEW more \in Seq(Figure(K)),
         NEW output \in Seq(Figure(K)), NEW tolerance \in Nat
  PROVE  FidelityGrows(source, more, output, tolerance)
<1> DEFINE r == NumericalFidelity(source, output, tolerance)
           s == NumericalFidelity(more \o source, output, tolerance)
           flagged == Unreconciled(source, output, tolerance)
<1>1. ToSet(s.flagged) \subseteq ToSet(r.flagged)
  <2>1. /\ s.flagged = Unreconciled(more \o source, output, tolerance)
        /\ r.flagged = flagged
    BY DEF NumericalFidelity
  <2>2. \A x : MatchesSource(x.value, source, tolerance)
                 => MatchesSource(x.value, more \o source, tolerance)
    BY MatchesBoth
  <2> DEFINE both == more \o source
  <2>4. both \in Seq(Figure(K))
    BY SetOfBoth
  <2> HIDE DEF r, s, flagged, both
  <2>5. /\ FlagsExactly(Unreconciled(both, output, tolerance), K, both, output, tolerance)
        /\ FlagsExactly(Unreconciled(source, output, tolerance), K, source, output, tolerance)
    BY <2>4, UnreconciledIs
  <2>3. /\ ToSet(s.flagged) = {x \in ToSet(output) :
                                 ~MatchesSource(x.value, more \o source, tolerance)}
        /\ ToSet(r.flagged) = {x \in ToSet(output) : ~MatchesSource(x.value, source, tolerance)}
    BY <2>1, <2>5, Zenon DEF FlagsExactly, flagged, both
  <2> QED
    BY <2>2, <2>3
<1>2. r.faithful <=> r.score = 100
  <2> DEFINE n == Len(output)
             k == Len(flagged)
  <2>1. /\ r.faithful = (flagged = <<>>)
        /\ r.score = IF output = <<>> THEN 100 ELSE (100 * (n - k)) \div n
    BY DEF NumericalFidelity
  <2>2. /\ n \in Nat /\ k \in Nat /\ k <= n
        /\ output = <<>> <=> n = 0
        /\ flagged = <<>> <=> k = 0
    <3>1. flagged \in Seq(Figure(K)) /\ k <= n
      <4>1. FlagsExactly(flagged, K, source, output, tolerance)
        BY UnreconciledIs
      <4> HIDE DEF flagged
      <4> QED
        BY <4>1, Zenon DEF FlagsExactly
    <3> HIDE DEF flagged
    <3> QED
      BY <3>1, LenProperties, EmptySeq
  <2> HIDE DEF r, n, k, flagged
  <2>3. CASE n = 0
    <3>1. k = 0
      BY <2>2, <2>3
    <3> QED
      BY <2>1, <2>2, <2>3, <3>1, Zenon
  <2>4. CASE n # 0 /\ k = 0
    <3>1. (100 * (n - k)) \div n = 100
      <4>1. n \in Positive /\ 100 * (n - k) = 100 * n
        BY <2>2, <2>4 DEF Positive
      <4> DEFINE q == (100 * n) \div n
      <4>2. /\ q \in Nat /\ (100 <= q <=> 100 * n <= 100 * n)
            /\ (101 <= q <=> 101 * n <= 100 * n)
        <5>1. 100 * n \in Nat /\ 100 \in Nat /\ 101 \in Nat
          BY <2>2
        <5> QED
          BY <4>1, <5>1, DivIs
      <4>3. 100 * n <= 100 * n /\ ~ (101 * n <= 100 * n)
        BY <2>2, <2>4
      <4> HIDE DEF q
      <4>4. q = 100
        BY <4>2, <4>3
      <4> QED
        BY <4>1, <4>4 DEF q
    <3> QED
      BY <2>1, <2>2, <2>4, <3>1
  <2>5. CASE n # 0 /\ k # 0
    <3>1. (100 * (n - k)) \div n # 100
      <4> DEFINE a == 100 * (n - k)
                 q == a \div n
      <4>1. a \in Nat /\ n \in Positive /\ ~ (100 * n <= a)
        BY <2>2, <2>5 DEF Positive
      <4> HIDE DEF a
      <4>2. 100 <= q <=> 100 * n <= a
        BY <4>1, DivIs
      <4> HIDE DEF q
      <4>3. q # 100
        BY <4>1, <4>2
      <4> QED
        BY <4>3 DEF q, a
    <3> QED
      BY <2>1, <2>2, <2>5, <3>1
  <2> QED
    BY <2>3, <2>4, <2>5
<1>3. NumericalFidelity(source, source, tolerance).faithful
  <2> DEFINE own == Unreconciled(source, source, tolerance)
  <2>1. \A x \in ToSet(source) : MatchesSource(x.value, source, tolerance)
    <3> SUFFICES ASSUME NEW x \in ToSet(source)
                 PROVE  MatchesSource(x.value, source, tolerance)
      OBVIOUS
    <3>1. x.value \in Int
      <4>1. x \in Figure(K)
        BY SetOfSeq
      <4> QED
        BY <4>1 DEF Figure
    <3>2. Close(x.value, x, tolerance)
      <4> DEFINE v == x.value
      <4>1. Abs(v - v) = 0 /\ Abs(v) \in Nat
        BY <3>1 DEF Abs
      <4> DEFINE a == Abs(v)
      <4> HIDE DEF a
      <4>2. \A y, z \in Nat : y * z \in Nat
        OBVIOUS
      <4>3. tolerance * a \in Nat
        BY <4>1, <4>2 DEF a
      <4> HIDE DEF v
      <4>4. 100 * Abs(v - v) <= tolerance * a
        BY <4>1, <4>3
      <4> QED
        BY <4>4, Zenon DEF Close, a, v
    <3> QED
      BY <3>2, MatchesIs
  <2>2. own \in Seq(Figure(K)) /\ ToSet(own) = {}
    <3>1. /\ own \in Seq(Figure(K))
          /\ ToSet(own) = {x \in ToSet(source) : ~MatchesSource(x.value, source, tolerance)}
      <4>1. FlagsExactly(own, K, source, source, tolerance)
        BY UnreconciledIs
      <4> HIDE DEF own
      <4> QED
        BY <4>1, Zenon DEF FlagsExactly
    <3> HIDE DEF own
    <3> QED
      BY <2>1, <3>1
  <2>3. own = <<>>
    <3> HIDE DEF own
    <3> QED
      BY <2>2, SetOfSeq
  <2>4. NumericalFidelity(source, source, tolerance).faithful = (own = <<>>)
    BY DEF NumericalFidelity
  <2> QED
    BY <2>3, <2>4, Zenon
<1>4. s = NumericalFidelity(source \o more, output, tolerance)
  <2>1. \A i \in DOMAIN output :
          MatchesSource(output[i].value, more \o source, tolerance)
            <=> MatchesSource(output[i].value, source \o more, tolerance)
    BY MatchesBoth
  <2> QED
    BY <2>1, SameUnreconciled
<1> QED
  BY <1>1, <1>2, <1>3, <1>4, Zenon DEF FidelityGrows

-----------------------------------------------------------------------------
(* Consistency.                                                            *)

LEMMA SumOfEqual ==
  ASSUME NEW c \in Int, NEW s \in Seq(Int), \A k \in 1 .. Len(s) : s[k] = c
  PROVE  SumOf(s) = Len(s) * c
<1> DEFINE n == Len(s)
<1>1. n \in Nat
  BY LenProperties
<1>2. PICK g \in [0 .. n -> Int] :
        g[0] = 0 /\ SumOf(s) = g[n] /\ \A k \in 1 .. n : g[k] = g[k - 1] + s[k]
  BY SumIs
<1>3. \A k \in 1 .. n : s[k] = c
  OBVIOUS
<1> DEFINE S == {j \in 0 .. n : g[j] = j * c}
<1> HIDE DEF n
<1>4. 0 \in S
  <2>1. 0 * c = 0
    OBVIOUS
  <2> QED
    BY <1>1, <1>2, <2>1
<1>5. ASSUME NEW k \in 0 .. (n - 1), k \in S PROVE k + 1 \in S
  <2>1. k + 1 \in 1 .. n /\ k + 1 \in 0 .. n /\ (k + 1) - 1 = k /\ k \in 0 .. n
    BY <1>1
  <2>2. g[k + 1] = g[k] + c /\ g[k] = k * c
    BY <1>2, <1>3, <1>5, <2>1
  <2>3. (k + 1) * c = k * c + c
    BY Z3T(20)
  <2> QED
    BY <2>1, <2>2, <2>3
<1>6. n \in S
  <2>1. \A k \in 0 .. n : k \in S
    <3> HIDE DEF S
    <3> QED
      BY <1>1, <1>4, <1>5, UpTo
  <2> QED
    BY <1>1, <2>1
<1> QED
  BY <1>2, <1>6 DEF n

LEMMA SpreadScales ==
  ASSUME NEW c \in Int, NEW s \in Seq(Int), NEW t \in Seq(Int), Len(s) = Len(t),
         \A k \in 1 .. Len(s) : t[k] = c * s[k]
  PROVE  Spread(t) = c * c * Spread(s)
<1> DEFINE n == Len(s)
           p == SumOf(Squares(s))
           q == SumOf(s)
<1>1. n \in Int /\ p \in Int /\ q \in Int
  BY LenProperties, SquaresAre, SumIs
<1>2. SumOf(t) = c * q
  BY SumScales
<1>3. SumOf(Squares(t)) = (c * c) * p
  <2> DEFINE u == Squares(s)
             v == Squares(t)
  <2>1. /\ u \in Seq(Int) /\ Len(u) = Len(s) /\ \A k \in 1 .. Len(s) : u[k] = s[k] * s[k]
        /\ v \in Seq(Int) /\ Len(v) = Len(s) /\ \A k \in 1 .. Len(s) : v[k] = t[k] * t[k]
    BY SquaresAre
  <2>2. \A k \in 1 .. Len(s) : s[k] \in Int /\ t[k] = c * s[k]
    BY ElementOfSeq
  <2>3. \A x \in Int : (c * x) * (c * x) = (c * c) * (x * x)
    BY Z3T(20)
  <2> HIDE DEF u, v
  <2> DEFINE cc == c * c
  <2>4. \A k \in 1 .. Len(u) : v[k] = cc * u[k]
    BY <2>1, <2>2, <2>3
  <2>5. cc \in Int
    OBVIOUS
  <2> HIDE DEF cc
  <2>6. SumOf(v) = cc * SumOf(u)
    <3>1. u \in Seq(Int) /\ v \in Seq(Int) /\ Len(u) = Len(v)
      BY <2>1
    <3> QED
      BY <2>4, <2>5, <3>1, SumScales
  <2> QED
    BY <2>6 DEF u, v, cc
<1>4. /\ Spread(s) = n * p - q * q
      /\ Spread(t) = n * ((c * c) * p) - (c * q) * (c * q)
  BY <1>2, <1>3, Zenon DEF Spread
<1> HIDE DEF n, p, q
<1>5. n * ((c * c) * p) - (c * q) * (c * q) = (c * c) * (n * p - q * q)
  BY <1>1, Z3T(20)
<1> QED
  BY <1>4, <1>5, Zenon

LEMMA SpreadOfEqual ==
  ASSUME NEW c \in Int, NEW s \in Seq(Int), \A k \in 1 .. Len(s) : s[k] = c
  PROVE  Spread(s) = 0
<1> DEFINE n == Len(s)
<1>1. n \in Int
  BY LenProperties
<1>2. SumOf(s) = n * c
  BY SumOfEqual
<1>3. SumOf(Squares(s)) = n * (c * c)
  <2> DEFINE u == Squares(s)
  <2>1. /\ u \in Seq(Int) /\ Len(u) = Len(s) /\ \A k \in 1 .. Len(s) : u[k] = s[k] * s[k]
    BY SquaresAre
  <2> HIDE DEF u
  <2>2. \A k \in 1 .. Len(u) : u[k] = c * c
    BY <2>1
  <2>3. c * c \in Int
    OBVIOUS
  <2>4. SumOf(u) = Len(u) * (c * c)
    BY <2>1, <2>2, <2>3, SumOfEqual
  <2> QED
    BY <2>1, <2>4 DEF u
<1>4. Spread(s) = n * (n * (c * c)) - (n * c) * (n * c)
  BY <1>2, <1>3, Zenon DEF Spread
<1> HIDE DEF n
<1>5. n * (n * (c * c)) - (n * c) * (n * c) = 0
  BY <1>1, Z3T(20)
<1> QED
  BY <1>4, <1>5, Zenon

\* Paraphrases of any number that score alike are consistent at any threshold, and
\* no factor that all scores share changes the verdict (core/finance_evaluators.py,
\* ConsistencyEvaluator).
THEOREM ScalingKeepsConsistency ==
  ASSUME NEW scores \in Seq(Int), NEW threshold \in Nat
  PROVE  ConsistencyScales(scores, threshold)
<1> DEFINE n == Len(scores)
           sum == SumOf(scores)
           spread == Spread(scores)
           bound == threshold * threshold * (n - 1) * sum * sum
<1>1. n \in Nat /\ sum \in Int /\ spread \in Int /\ DOMAIN scores = 1 .. n
  BY LenProperties, SumIs, SpreadIs
<1>2. Consistent(scores, threshold) <=>
        IF sum = 0 THEN spread = 0 ELSE 10000 * n * spread <= bound
  BY DEF Consistent
<1>3. ASSUME Cardinality(ToSet(scores)) = 1
      PROVE  Consistent(scores, threshold)
  <2>1. PICK c : ToSet(scores) = {c}
    <3>1. IsFiniteSet(ToSet(scores))
      <4>1. scores \in Surjection(1 .. n, ToSet(scores))
        BY <1>1 DEF Surjection, ToSet
      <4>2. IsFiniteSet(1 .. n)
        BY <1>1, FS_Interval
      <4> QED
        BY <4>1, <4>2, FS_Surjection
    <3> QED
      BY <1>3, <3>1, FS_Singleton
  <2>2. c \in Int /\ (\A k \in 1 .. n : scores[k] = c) /\ n >= 1
    <3>1. \A k \in 1 .. n : scores[k] \in ToSet(scores)
      BY <1>1 DEF ToSet
    <3>2. \E k \in 1 .. n : scores[k] = c
      BY <1>1, <2>1 DEF ToSet
    <3>3. \A k \in 1 .. n : scores[k] \in Int
      BY ElementOfSeq
    <3> HIDE DEF n
    <3> QED
      BY <1>1, <2>1, <3>1, <3>2, <3>3
  <2>3. spread = 0
    BY <2>2, SpreadOfEqual
  <2>4. 10000 * n * spread = 0
    <3> HIDE DEF n, spread
    <3> QED
      BY <1>1, <2>3
  <2>5. 0 <= bound
    <3> HIDE DEF n, sum
    <3>1. \A x, y \in Nat : x * y \in Nat
      OBVIOUS
    <3>2. sum * sum \in Nat
      BY <1>1, Z3T(20)
    <3>3. threshold * threshold \in Nat /\ n - 1 \in Nat
      BY <1>1, <2>2, <3>1
    <3>4. (threshold * threshold) * (n - 1) \in Nat
      BY <3>1, <3>3
    <3> DEFINE w == (threshold * threshold) * (n - 1)
    <3>5. w * (sum * sum) \in Nat
      BY <3>1, <3>2, <3>4
    <3>6. bound = (w * sum) * sum
      OBVIOUS
    <3>7. (w * sum) * sum = w * (sum * sum)
      <4>1. w \in Int
        BY <3>4
      <4> HIDE DEF w
      <4> QED
        BY <1>1, <4>1, Z3T(20)
    <3> HIDE DEF w, bound
    <3> QED
      BY <3>5, <3>6, <3>7
  <2> HIDE DEF n, sum, spread, bound
  <2> QED
    BY <1>2, <2>3, <2>4, <2>5, SMT
<1>4. Consistent(scores, threshold) <=>
        Consistent([i \in DOMAIN scores |-> -2 * scores[i]], threshold)
  <2> DEFINE d == [i \in 1 .. n |-> -2 * scores[i]]
             c == -2
             other == threshold * threshold * (n - 1) * (c * sum) * (c * sum)
  <2>1. [i \in DOMAIN scores |-> -2 * scores[i]] = d
    BY <1>1
  <2>2. \A k \in 1 .. n : scores[k] \in Int
    BY ElementOfSeq
  <2>3. d \in Seq(Int) /\ Len(d) = n /\ \A k \in 1 .. n : d[k] = c * scores[k]
    <3>1. d \in [1 .. n -> Int] /\ \A k \in 1 .. n : d[k] = c * scores[k]
      <4> HIDE DEF n
      <4> QED
        BY <2>2
    <3> HIDE DEF d, c
    <3> QED
      BY <1>1, <3>1, FunctionIsSeq
  <2>4. c \in Int
    OBVIOUS
  <2> HIDE DEF d, c
  <2>5. SumOf(d) = c * sum /\ Spread(d) = c * c * spread
    BY <2>3, <2>4, SumScales, SpreadScales
  <2>6. Consistent(d, threshold) <=>
          IF c * sum = 0 THEN c * c * spread = 0
          ELSE 10000 * n * (c * c * spread) <= other
    <3>1. Consistent(d, threshold) <=>
            IF SumOf(d) = 0 THEN Spread(d) = 0
            ELSE 10000 * Len(d) * Spread(d)
                   <= threshold * threshold * (Len(d) - 1) * SumOf(d) * SumOf(d)
      BY DEF Consistent
    <3>2. Len(d) = n
      BY <2>3
    <3> HIDE DEF n, sum, spread
    <3> QED
      BY <2>5, <3>1, <3>2
  <2> HIDE DEF n, sum, spread
  <2>7. /\ c * sum = 0 <=> sum = 0
        /\ c * c * spread = 0 <=> spread = 0
    BY <1>1 DEF c
  <2>8. 10000 * n * (c * c * spread) = 4 * (10000 * n * spread)
    BY <1>1, Z3T(20) DEF c
  <2>9. other = 4 * bound
    <3>1. threshold \in Int /\ n - 1 \in Int
      BY <1>1
    <3> DEFINE w == threshold * threshold * (n - 1)
    <3>2. w \in Int
      <4>1. \A x, y, z \in Int : x * y * z \in Int
        OBVIOUS
      <4> QED
        BY <3>1, <4>1
    <3>3. other = w * (c * sum) * (c * sum) /\ bound = w * sum * sum
      OBVIOUS
    <3> HIDE DEF w, other, bound
    <3>4. w * (c * sum) * (c * sum) = 4 * (w * sum * sum)
      BY <1>1, <3>2, Z3T(20) DEF c
    <3> QED
      BY <3>3, <3>4
  <2>10. 10000 * n * spread \in Int /\ bound \in Int
    <3>1. \A x, y \in Int : x * y \in Int
      OBVIOUS
    <3>2. threshold \in Int /\ n - 1 \in Int /\ 10000 \in Int /\ n \in Int
      BY <1>1
    <3>3. threshold * threshold \in Int
      BY <3>1, <3>2
    <3>4. threshold * threshold * (n - 1) \in Int
      BY <3>1, <3>2, <3>3
    <3>5. threshold * threshold * (n - 1) * sum \in Int
      BY <1>1, <3>1, <3>4
    <3>6. bound \in Int
      BY <1>1, <3>1, <3>5
    <3>7. 10000 * n \in Int
      BY <3>1, <3>2
    <3> QED
      BY <1>1, <3>1, <3>6, <3>7
  <2> DEFINE a == 10000 * n * spread
  <2>11. 4 * a <= 4 * bound <=> a <= bound
    <3>1. a \in Int /\ bound \in Int
      BY <2>10
    <3> HIDE DEF a, bound
    <3> QED
      BY <3>1
  <2>12. 10000 * n * (c * c * spread) <= other <=> a <= bound
    <3> DEFINE x == 10000 * n * (c * c * spread)
    <3>1. x = 4 * a
      BY <2>8
    <3> HIDE DEF x, a, other, bound
    <3> QED
      BY <2>9, <2>11, <3>1 DEF x
  <2>13. Consistent([i \in DOMAIN scores |-> -2 * scores[i]], threshold)
           <=> Consistent(d, threshold)
    BY <2>1
  <2>14. CASE sum = 0
    <3>1. c * sum = 0
      BY <2>7, <2>14
    <3> HIDE DEF other, bound
    <3> QED
      BY <1>2, <2>6, <2>7, <2>13, <2>14, <3>1
  <2>15. CASE ~ (sum = 0)
    <3>1. ~ (c * sum = 0)
      BY <2>7, <2>15
    <3>2. Consistent(scores, threshold) <=> a <= bound
      BY <1>2, <2>15
    <3>3. Consistent(d, threshold) <=> 10000 * n * (c * c * spread) <= other
      BY <2>6, <3>1
    <3>4. Consistent(d, threshold) <=> a <= bound
      BY <2>12, <3>3
    <3> HIDE DEF a, other, bound
    <3> QED
      BY <2>13, <3>2, <3>4
  <2> QED
    BY <2>14, <2>15
<1> QED
  BY <1>3, <1>4, Zenon DEF ConsistencyScales
================================================================================
