----------------------------- MODULE ReportsProofs -----------------------------
(***************************************************************************)
(* Theorems about the counts of the pages (Dashboards), the comparison of  *)
(* agents' runs (Trajectories) and the scanners of SQL (SqlDialect), for   *)
(* rows, sequences, traces and texts of every size, and from them and      *)
(* AlgorithmsProofs the invariants of the run of MCAlgorithms.             *)
(*                                                                         *)
(* Sums over sets are reached by the sets that satisfy them (OfFinite), a  *)
(* walk by the depth of its events (Levels), a text segment by segment     *)
(* (Reads, Carries).                                                       *)
(***************************************************************************)
EXTENDS AlgorithmsProofs, MCAlgorithms

-----------------------------------------------------------------------------
(* Sums over finite sets.                                                  *)

\* What holds of the empty set and is kept when an element comes in holds of a finite
\* set.
LEMMA OfFinite ==
  ASSUME NEW S, IsFiniteSet(S), NEW Q, {} \in Q,
         \A T \in SUBSET S, x \in S : T \in Q /\ x \notin T => T \union {x} \in Q
  PROVE  S \in Q
<1> DEFINE n == Cardinality(S)
           H == {k \in Nat : \A T \in SUBSET S : Cardinality(T) = k => T \in Q}
<1>1. n \in Nat /\ \A T \in SUBSET S : IsFiniteSet(T) /\ Cardinality(T) \in Nat
  BY FS_CardinalityType, FS_Subset
<1>2. 0 \in H
  <2> SUFFICES ASSUME NEW T \in SUBSET S, Cardinality(T) = 0
               PROVE  T \in Q
    OBVIOUS
  <2>1. T = {}
    BY <1>1, FS_EmptySet
  <2> QED
    BY <2>1
<1>3. ASSUME NEW k \in 0 .. (n - 1), k \in H
      PROVE  k + 1 \in H
  <2> SUFFICES ASSUME NEW T \in SUBSET S, Cardinality(T) = k + 1
               PROVE  T \in Q
    BY <1>3
  <2>1. PICK x : x \in T
    <3>1. k + 1 # 0
      BY <1>1
    <3>2. T # {}
      BY <3>1, FS_EmptySet
    <3> QED
      BY <3>2
  <2>2. IsFiniteSet(T \ {x}) /\ Cardinality(T \ {x}) = k
    <3>1. Cardinality(T \ {x}) = (k + 1) - 1 /\ IsFiniteSet(T \ {x})
      BY <1>1, <2>1, FS_RemoveElement
    <3> QED
      BY <1>1, <3>1
  <2>3. T \ {x} \in Q
    BY <1>3, <2>2
  <2>4. (T \ {x}) \union {x} \in Q
    BY <2>1, <2>3
  <2>5. (T \ {x}) \union {x} = T
    BY <2>1
  <2> QED
    BY <2>4, <2>5
<1> HIDE DEF H
<1>4. n \in H
  BY <1>1, <1>2, <1>3, UpTo
<1> QED
  BY <1>4 DEF H

\* The first element of a set to be added, whichever it is, and the sums that follow.
Chosen(s) == CHOOSE x \in s : TRUE
Adds(f, S, g) ==
  /\ DOMAIN g = SUBSET S
  /\ \A s \in SUBSET S : g[s] = IF s = {} THEN 0 ELSE f[Chosen(s)] + g[s \ {Chosen(s)}]

LEMMA ChosenIs ==
  ASSUME NEW s, s # {}
  PROVE  Chosen(s) \in s
BY DEF Chosen

LEMMA SumsExist ==
  ASSUME NEW S, IsFiniteSet(S), NEW f \in [S -> Int]
  PROVE  \E g \in [SUBSET S -> Int] : Adds(f, S, g)
<1> DEFINE n == Cardinality(S)
           Fits(k, g) == \A s \in SUBSET S : Cardinality(s) <= k =>
                           g[s] = IF s = {} THEN 0 ELSE f[Chosen(s)] + g[s \ {Chosen(s)}]
           H == {k \in Nat : \E g \in [SUBSET S -> Int] : Fits(k, g)}
<1>1. n \in Nat /\ \A T \in SUBSET S : /\ IsFiniteSet(T) /\ Cardinality(T) \in Nat
                                       /\ Cardinality(T) <= n
  BY FS_CardinalityType, FS_Subset
<1>2. 0 \in H
  <2> DEFINE g == [s \in SUBSET S |-> 0]
  <2>1. g \in [SUBSET S -> Int]
    OBVIOUS
  <2>2. ASSUME NEW s \in SUBSET S, Cardinality(s) <= 0 PROVE s = {}
    BY <1>1, <2>2, FS_EmptySet
  <2>3. Fits(0, g)
    BY <2>2
  <2> QED
    BY <2>1, <2>3
<1>3. ASSUME NEW k \in 0 .. (n - 1), k \in H
      PROVE  k + 1 \in H
  <2>1. PICK g \in [SUBSET S -> Int] : Fits(k, g)
    BY <1>3
  <2> DEFINE h == [s \in SUBSET S |->
                     IF Cardinality(s) <= k THEN g[s]
                     ELSE f[Chosen(s)] + g[s \ {Chosen(s)}]]
  <2>2. \A s \in SUBSET S : s # {} => /\ Chosen(s) \in S
                                      /\ s \ {Chosen(s)} \in SUBSET S
                                      /\ Cardinality(s \ {Chosen(s)}) = Cardinality(s) - 1
    BY <1>1, ChosenIs, FS_RemoveElement
  <2>3. \A s \in SUBSET S : s = {} => Cardinality(s) <= k
    BY FS_EmptySet
  <2>4. h \in [SUBSET S -> Int]
    <3>1. ASSUME NEW s \in SUBSET S
          PROVE  (IF Cardinality(s) <= k THEN g[s]
                  ELSE f[Chosen(s)] + g[s \ {Chosen(s)}]) \in Int
      BY <2>2, <2>3
    <3> QED
      BY <3>1
  <2>5. ASSUME NEW s \in SUBSET S, Cardinality(s) <= k + 1
        PROVE  h[s] = IF s = {} THEN 0 ELSE f[Chosen(s)] + h[s \ {Chosen(s)}]
    <3>1. CASE s = {}
      BY <2>1, <2>3, <3>1
    <3>2. CASE s # {}
      <4> DEFINE r == s \ {Chosen(s)}
      <4>1. r \in SUBSET S /\ Cardinality(r) <= k
        BY <1>1, <2>2, <2>5, <3>2
      <4>2. h[r] = g[r]
        BY <4>1
      <4>3. CASE Cardinality(s) <= k
        <5>1. h[s] = g[s] /\ g[s] = f[Chosen(s)] + g[r]
          BY <2>1, <3>2, <4>3
        <5> QED
          BY <3>2, <4>2, <5>1
      <4>4. CASE ~ (Cardinality(s) <= k)
        <5>1. h[s] = f[Chosen(s)] + g[r]
          BY <4>4
        <5> QED
          BY <3>2, <4>2, <5>1
      <4> QED
        BY <4>3, <4>4
    <3> QED
      BY <3>1, <3>2
  <2>6. Fits(k + 1, h)
    BY <2>5
  <2> HIDE DEF h, Fits
  <2> QED
    BY <2>4, <2>6
<1> HIDE DEF H
<1>4. n \in H
  BY <1>1, <1>2, <1>3, UpTo
<1>5. PICK g \in [SUBSET S -> Int] : Fits(n, g)
  BY <1>4 DEF H
<1> QED
  BY <1>1, <1>5 DEF Adds

\* Two ways to add, over a set and over one that contains it, come to the same.
LEMMA SumsAgree ==
  ASSUME NEW S, NEW T, IsFiniteSet(T), T \subseteq S, NEW f, NEW g, NEW u, NEW v,
         Adds(f, S, u), Adds(g, T, v), \A x \in T : f[x] = g[x]
  PROVE  u[T] = v[T]
<1> DEFINE n == Cardinality(T)
           H == {k \in Nat : \A s \in SUBSET T : Cardinality(s) = k => u[s] = v[s]}
<1>1. n \in Nat /\ \A s \in SUBSET T : IsFiniteSet(s) /\ Cardinality(s) \in Nat
  BY FS_CardinalityType, FS_Subset
<1>2. 0 \in H
  <2> SUFFICES ASSUME NEW s \in SUBSET T, Cardinality(s) = 0
               PROVE  u[s] = v[s]
    OBVIOUS
  <2>1. s = {} /\ s \in SUBSET S
    BY <1>1, FS_EmptySet
  <2> QED
    BY <2>1 DEF Adds
<1>3. ASSUME NEW k \in 0 .. (n - 1), k \in H
      PROVE  k + 1 \in H
  <2> SUFFICES ASSUME NEW s \in SUBSET T, Cardinality(s) = k + 1
               PROVE  u[s] = v[s]
    BY <1>3
  <2>1. s # {}
    BY FS_EmptySet
  <2>2. Chosen(s) \in s
    BY <2>1, ChosenIs
  <2>3. Cardinality(s \ {Chosen(s)}) = k
    BY <1>1, <2>2, FS_RemoveElement
  <2>4. u[s \ {Chosen(s)}] = v[s \ {Chosen(s)}]
    BY <1>3, <2>3
  <2>5. /\ u[s] = f[Chosen(s)] + u[s \ {Chosen(s)}]
        /\ v[s] = g[Chosen(s)] + v[s \ {Chosen(s)}]
    BY <2>1 DEF Adds
  <2> QED
    BY <2>2, <2>4, <2>5
<1> HIDE DEF H
<1>4. n \in H
  BY <1>1, <1>2, <1>3, UpTo
<1> QED
  BY <1>4 DEF H

LEMMA SumAdds ==
  ASSUME NEW S, IsFiniteSet(S), NEW f \in [S -> Int]
  PROVE  \E g \in [SUBSET S -> Int] : Adds(f, S, g) /\ SumOver(f) = g[S]
<1> DEFINE E(g) == g = [s \in SUBSET (DOMAIN f) |->
                          IF s = {} THEN 0 ELSE f[Chosen(s)] + g[s \ {Chosen(s)}]]
           c == CHOOSE g : E(g)
<1>1. PICK g \in [SUBSET S -> Int] : Adds(f, S, g)
  BY SumsExist
<1>2. E(g)
  <2>1. DOMAIN f = S
    OBVIOUS
  <2> QED
    BY <1>1, <2>1 DEF Adds
<1>3. E(c)
  BY <1>2, Zenon
<1>4. Adds(f, S, c)
  <2>1. DOMAIN f = S
    OBVIOUS
  <2> HIDE DEF c
  <2> QED
    BY <1>3, <2>1 DEF Adds
<1>5. SumOver(f) = c[DOMAIN f]
  BY Zenon DEF SumOver, FoldFunction, FoldFunctionOnSet, MapThenFoldSet, Chosen
<1>6. SumOver(f) = c[S]
  BY <1>5
<1> HIDE DEF c
<1>7. c[S] = g[S]
  BY <1>1, <1>4, SumsAgree
<1> QED
  BY <1>1, <1>6, <1>7

LEMMA SumIsInt ==
  ASSUME NEW S, IsFiniteSet(S), NEW f \in [S -> Int]
  PROVE  SumOver(f) \in Int
<1>1. PICK g \in [SUBSET S -> Int] : Adds(f, S, g) /\ SumOver(f) = g[S]
  BY SumAdds
<1> QED
  BY <1>1

LEMMA SumOfNone ==
  ASSUME NEW f \in [{} -> Int]
  PROVE  SumOver(f) = 0
<1>1. PICK g \in [SUBSET {} -> Int] : Adds(f, {}, g) /\ SumOver(f) = g[{}]
  BY FS_EmptySet, SumAdds
<1> QED
  BY <1>1 DEF Adds

\* Any element can be the one that is added first.
AnyFirst(f, S, g) == \A s \in SUBSET S : \A x \in s : g[s] = f[x] + g[s \ {x}]

LEMMA AddsAny ==
  ASSUME NEW S, IsFiniteSet(S), NEW f \in [S -> Int], NEW g \in [SUBSET S -> Int], Adds(f, S, g)
  PROVE  AnyFirst(f, S, g)
<1> DEFINE n == Cardinality(S)
           H == {k \in Nat : \A s \in SUBSET S : Cardinality(s) = k =>
                               \A x \in s : g[s] = f[x] + g[s \ {x}]}
<1>1. n \in Nat /\ \A s \in SUBSET S : /\ IsFiniteSet(s) /\ Cardinality(s) \in Nat
                                       /\ Cardinality(s) <= n
  BY FS_CardinalityType, FS_Subset
<1>2. 0 \in H
  <2> SUFFICES ASSUME NEW s \in SUBSET S, Cardinality(s) = 0, NEW x \in s
               PROVE  FALSE
    OBVIOUS
  <2>1. s = {}
    BY <1>1, FS_EmptySet
  <2> QED
    BY <2>1
<1>3. ASSUME NEW k \in 0 .. (n - 1), k \in H
      PROVE  k + 1 \in H
  <2> SUFFICES ASSUME NEW s \in SUBSET S, Cardinality(s) = k + 1, NEW x \in s
               PROVE  g[s] = f[x] + g[s \ {x}]
    BY <1>1, <1>3
  <2> DEFINE y == Chosen(s)
             sx == s \ {x}
             sy == s \ {y}
             sxy == s \ {x, y}
  <2>1. s # {} /\ y \in s
    BY ChosenIs
  <2>2. /\ sx \in SUBSET S /\ sy \in SUBSET S /\ sxy \in SUBSET S
        /\ Cardinality(sx) = k /\ Cardinality(sy) = k
    <3>1. Cardinality(s \ {x}) = (k + 1) - 1 /\ Cardinality(s \ {y}) = (k + 1) - 1
      BY <1>1, <2>1, FS_RemoveElement
    <3> QED
      BY <1>1, <3>1
  <2>3. g[s] = f[y] + g[sy]
    BY <2>1 DEF Adds
  <2>4. CASE x = y
    BY <2>3, <2>4
  <2>5. CASE x # y
    <3>1. x \in sy /\ y \in sx /\ sy \ {x} = sxy /\ sx \ {y} = sxy
      BY <2>1, <2>5
    <3>2. \A r \in SUBSET S : Cardinality(r) = k => \A z \in r : g[r] = f[z] + g[r \ {z}]
      BY <1>3
    <3>3. g[sy] = f[x] + g[sxy] /\ g[sx] = f[y] + g[sxy]
      <4> HIDE DEF sx, sy, sxy, y
      <4>1. g[sy] = f[x] + g[sy \ {x}] /\ g[sx] = f[y] + g[sx \ {y}]
        BY <2>2, <3>1, <3>2
      <4> QED
        BY <3>1, <4>1
    <3>4. f[x] \in Int /\ f[y] \in Int /\ g[sxy] \in Int
      BY <2>1, <2>2
    <3> HIDE DEF sx, sy, sxy, y
    <3>5. g[s] = f[x] + g[sx]
      BY <2>3, <3>3, <3>4
    <3> QED
      BY <3>5 DEF sx
  <2> QED
    BY <2>4, <2>5
<1> HIDE DEF H
<1>4. \A k \in 0 .. n : k \in H
  BY <1>1, <1>2, <1>3, UpTo
<1> SUFFICES ASSUME NEW s \in SUBSET S, NEW x \in s
             PROVE  g[s] = f[x] + g[s \ {x}]
  BY DEF AnyFirst
<1>5. Cardinality(s) \in H
  BY <1>1, <1>4
<1> QED
  BY <1>5 DEF H

\* Part of a function: what it is on a subset.
On(f, T) == [x \in T |-> f[x]]

LEMMA SumTakesOff ==
  ASSUME NEW S, IsFiniteSet(S), NEW f \in [S -> Int], NEW x \in S
  PROVE  SumOver(f) = f[x] + SumOver(On(f, S \ {x}))
<1> DEFINE T == S \ {x}
<1>1. IsFiniteSet(T) /\ T \subseteq S
  BY FS_Subset
<1>2. On(f, T) \in [T -> Int] /\ \A y \in T : On(f, T)[y] = f[y]
  BY DEF On
<1>3. PICK u \in [SUBSET S -> Int] : Adds(f, S, u) /\ SumOver(f) = u[S]
  BY SumAdds
<1>4. PICK v \in [SUBSET T -> Int] : Adds(On(f, T), T, v) /\ SumOver(On(f, T)) = v[T]
  <2> HIDE DEF T
  <2> QED
    BY <1>1, <1>2, SumAdds
<1>5. u[S] = f[x] + u[T]
  <2>1. AnyFirst(f, S, u)
    BY <1>3, AddsAny
  <2> QED
    BY <2>1 DEF AnyFirst
<1>6. u[T] = v[T]
  <2> HIDE DEF T
  <2> QED
    BY <1>1, <1>2, <1>3, <1>4, SumsAgree
<1> QED
  BY <1>3, <1>4, <1>5, <1>6

\* A sum grows by what comes in.
LEMMA SumGrows ==
  ASSUME NEW S, IsFiniteSet(S), NEW f \in [S -> Int], NEW T \in SUBSET S, NEW x \in S, x \notin T
  PROVE  /\ SumOver(On(f, T)) \in Int
         /\ SumOver(On(f, T \union {x})) = f[x] + SumOver(On(f, T))
<1> DEFINE U == T \union {x}
<1>1. IsFiniteSet(U) /\ IsFiniteSet(T) /\ U \subseteq S /\ x \in U /\ U \ {x} = T
  BY FS_Subset
<1>2. On(f, U) \in [U -> Int] /\ On(f, T) \in [T -> Int]
  BY <1>1 DEF On
<1>3. On(f, U)[x] = f[x] /\ On(On(f, U), T) = On(f, T)
  BY <1>1 DEF On
<1>4. SumOver(On(f, T)) \in Int
  BY <1>1, <1>2, SumIsInt
<1>5. SumOver(On(f, U)) = On(f, U)[x] + SumOver(On(On(f, U), U \ {x}))
  <2> HIDE DEF U
  <2> QED
    BY <1>1, <1>2, SumTakesOff
<1> QED
  BY <1>1, <1>3, <1>4, <1>5

LEMMA SumOnAll ==
  ASSUME NEW S, NEW f \in [S -> Int]
  PROVE  On(f, S) = f
BY DEF On

LEMMA SumOnNone ==
  ASSUME NEW f
  PROVE  SumOver(On(f, {})) = 0
<1>1. On(f, {}) \in [{} -> Int]
  BY DEF On
<1> QED
  BY <1>1, SumOfNone

LEMMA SumOfBoth ==
  ASSUME NEW S, IsFiniteSet(S), NEW f \in [S -> Int], NEW g \in [S -> Int]
  PROVE  SumOver([x \in S |-> f[x] + g[x]]) = SumOver(f) + SumOver(g)
<1> DEFINE h == [x \in S |-> f[x] + g[x]]
           Q == {T \in SUBSET S : SumOver(On(h, T)) = SumOver(On(f, T)) + SumOver(On(g, T))}
<1>1. h \in [S -> Int] /\ \A x \in S : h[x] = f[x] + g[x] /\ f[x] \in Int /\ g[x] \in Int
  OBVIOUS
<1> HIDE DEF h
<1>2. {} \in Q
  BY SumOnNone
<1>3. ASSUME NEW T \in SUBSET S, NEW x \in S, T \in Q, x \notin T
      PROVE  T \union {x} \in Q
  <2>1. /\ SumOver(On(f, T)) \in Int /\ SumOver(On(f, T \union {x})) = f[x] + SumOver(On(f, T))
        /\ SumOver(On(g, T)) \in Int /\ SumOver(On(g, T \union {x})) = g[x] + SumOver(On(g, T))
        /\ SumOver(On(h, T)) \in Int /\ SumOver(On(h, T \union {x})) = h[x] + SumOver(On(h, T))
    BY <1>1, <1>3, SumGrows
  <2>2. SumOver(On(h, T)) = SumOver(On(f, T)) + SumOver(On(g, T))
    BY <1>3
  <2> QED
    BY <1>1, <2>1, <2>2
<1> HIDE DEF Q
<1>4. S \in Q
  BY <1>2, <1>3, OfFinite
<1>5. SumOver(On(h, S)) = SumOver(On(f, S)) + SumOver(On(g, S))
  BY <1>4 DEF Q
<1>6. On(h, S) = h /\ On(f, S) = f /\ On(g, S) = g
  BY <1>1, SumOnAll
<1> QED
  BY <1>5, <1>6 DEF h

\* What is zero outside a set adds up to its sum on the set.
Within(f, A) == [x \in DOMAIN f |-> IF x \in A THEN f[x] ELSE 0]

LEMMA SumWithin ==
  ASSUME NEW S, IsFiniteSet(S), NEW f \in [S -> Int], NEW A
  PROVE  SumOver(Within(f, A)) = SumOver(On(f, S \intersect A))
<1> DEFINE h == Within(f, A)
           Q == {T \in SUBSET S : SumOver(On(h, T)) = SumOver(On(f, T \intersect A))}
<1>1. h \in [S -> Int] /\ \A x \in S : h[x] = IF x \in A THEN f[x] ELSE 0
  BY DEF Within
<1> HIDE DEF h
<1>2. {} \in Q
  <2>1. {} \intersect A = {}
    OBVIOUS
  <2> QED
    BY <2>1, SumOnNone
<1>3. ASSUME NEW T \in SUBSET S, NEW x \in S, T \in Q, x \notin T
      PROVE  T \union {x} \in Q
  <2>1. SumOver(On(h, T)) \in Int /\ SumOver(On(h, T \union {x})) = h[x] + SumOver(On(h, T))
    BY <1>1, <1>3, SumGrows
  <2>2. SumOver(On(h, T)) = SumOver(On(f, T \intersect A))
    BY <1>3
  <2>3. CASE x \in A
    <3> DEFINE I == T \intersect A
    <3>1. I \in SUBSET S /\ x \notin I /\ (T \union {x}) \intersect A = I \union {x}
      BY <1>3, <2>3
    <3> HIDE DEF I
    <3>2. SumOver(On(f, I \union {x})) = f[x] + SumOver(On(f, I))
      BY <3>1, SumGrows
    <3>3. SumOver(On(h, T \union {x})) = SumOver(On(f, I \union {x}))
      BY <1>1, <2>1, <2>2, <2>3, <3>2 DEF I
    <3> QED
      BY <3>1, <3>3
  <2>4. CASE x \notin A
    <3>1. (T \union {x}) \intersect A = T \intersect A /\ h[x] = 0
      BY <1>1, <2>4
    <3> QED
      BY <2>1, <2>2, <3>1
  <2> QED
    BY <2>3, <2>4
<1> HIDE DEF Q
<1>4. S \in Q
  BY <1>2, <1>3, OfFinite
<1>5. SumOver(On(h, S)) = SumOver(On(f, S \intersect A))
  BY <1>4 DEF Q
<1>6. On(h, S) = h
  BY <1>1, SumOnAll
<1> QED
  BY <1>5, <1>6 DEF h

LEMMA SumOfParts ==
  ASSUME NEW S, IsFiniteSet(S), NEW f \in [S -> Int], NEW A, NEW B,
         S = A \union B, A \intersect B = {}
  PROVE  SumOver(f) = SumOver(On(f, A)) + SumOver(On(f, B))
<1> DEFINE u == Within(f, A)
           v == Within(f, B)
<1>1. /\ u \in [S -> Int] /\ v \in [S -> Int]
      /\ \A x \in S : u[x] = (IF x \in A THEN f[x] ELSE 0) /\ v[x] = (IF x \in B THEN f[x] ELSE 0)
  BY DEF Within
<1>2. SumOver(u) = SumOver(On(f, A)) /\ SumOver(v) = SumOver(On(f, B))
  <2>1. S \intersect A = A /\ S \intersect B = B
    OBVIOUS
  <2> QED
    BY <2>1, SumWithin
<1> HIDE DEF u, v
<1>3. f = [x \in S |-> u[x] + v[x]]
  <2>1. \A x \in S : f[x] = u[x] + v[x]
    <3> SUFFICES ASSUME NEW x \in S PROVE f[x] = u[x] + v[x]
      OBVIOUS
    <3>1. f[x] \in Int
      OBVIOUS
    <3>2. CASE x \in A
      <4>1. x \notin B
        BY <3>2
      <4> QED
        BY <1>1, <3>1, <3>2, <4>1
    <3>3. CASE x \notin A
      <4>1. x \in B
        BY <3>3
      <4> QED
        BY <1>1, <3>1, <3>3, <4>1
    <3> QED
      BY <3>2, <3>3
  <2> QED
    BY <2>1
<1>4. SumOver(f) = SumOver(u) + SumOver(v)
  <2> DEFINE h == [x \in S |-> u[x] + v[x]]
  <2>1. SumOver(h) = SumOver(u) + SumOver(v)
    BY <1>1, SumOfBoth
  <2> QED
    BY <1>3, <2>1
<1> QED
  BY <1>2, <1>4

\* A function that is zero except at one element.
Spike(G, g, n) == [x \in G |-> IF x = g THEN n ELSE 0]

LEMMA SumOfSpike ==
  ASSUME NEW G, IsFiniteSet(G), NEW g \in G, NEW n \in Int
  PROVE  SumOver(Spike(G, g, n)) = n
<1> DEFINE f == Spike(G, g, n)
<1>1. f \in [G -> Int] /\ f[g] = n /\ \A x \in G : x # g => f[x] = 0
  BY DEF Spike
<1>2. Within(f, {g}) = f
  BY <1>1 DEF Within
<1> HIDE DEF f
<1>3. SumOver(f) = SumOver(On(f, G \intersect {g}))
  BY <1>1, <1>2, SumWithin
<1>4. SumOver(On(f, {} \union {g})) = f[g] + SumOver(On(f, {}))
  BY <1>1, SumGrows
<1>5. G \intersect {g} = {} \union {g}
  OBVIOUS
<1>6. SumOver(On(f, {})) = 0
  BY SumOnNone
<1> QED
  BY <1>1, <1>3, <1>4, <1>5, <1>6 DEF f

\* Sums by group add up to the whole sum.
Grouped(f, G, h) == [g \in G |-> SumOver(On(f, {x \in DOMAIN f : h[x] = g}))]

LEMMA SumByGroup ==
  ASSUME NEW S, IsFiniteSet(S), NEW f \in [S -> Int], NEW G, IsFiniteSet(G), NEW h \in [S -> G]
  PROVE  /\ Grouped(f, G, h) \in [G -> Int]
         /\ SumOver(Grouped(f, G, h)) = SumOver(f)
<1> DEFINE Mine(T, g) == {x \in T : h[x] = g}
           D(T) == [g \in G |-> SumOver(On(f, Mine(T, g)))]
           Q == {T \in SUBSET S : SumOver(D(T)) = SumOver(On(f, T))}
<1>1. ASSUME NEW T \in SUBSET S
      PROVE  D(T) \in [G -> Int]
  <2> SUFFICES ASSUME NEW g \in G
               PROVE  SumOver(On(f, Mine(T, g))) \in Int
    OBVIOUS
  <2> DEFINE M == Mine(T, g)
  <2>1. M \subseteq S
    OBVIOUS
  <2> HIDE DEF M
  <2>2. IsFiniteSet(M) /\ On(f, M) \in [M -> Int]
    BY <2>1, FS_Subset DEF On
  <2> QED
    BY <2>2, SumIsInt DEF M
<1>2. {} \in Q
  <2>1. \A g : Mine({}, g) = {}
    OBVIOUS
  <2>2. D({}) = Within(D({}), {})
    BY <2>1, SumOnNone DEF Within
  <2>3. D({}) \in [G -> Int]
    BY <1>1
  <2>4. SumOver(D({})) = SumOver(On(D({}), G \intersect {}))
    <3> DEFINE d == D({})
    <3> HIDE DEF D
    <3> HIDE DEF d
    <3>1. d \in [G -> Int] /\ Within(d, {}) = d
      BY <2>2, <2>3 DEF d
    <3>2. SumOver(d) = SumOver(On(d, G \intersect {}))
      BY <3>1, SumWithin
    <3> QED
      BY <3>2 DEF d
  <2>5. G \intersect {} = {}
    OBVIOUS
  <2>6. SumOver(D({})) = 0
    <3> HIDE DEF D
    <3> QED
      BY <2>4, <2>5, SumOnNone
  <2> HIDE DEF D
  <2> QED
    BY <2>6, SumOnNone
<1>3. ASSUME NEW T \in SUBSET S, NEW x \in S, T \in Q, x \notin T
      PROVE  T \union {x} \in Q
  <2> DEFINE U == T \union {x}
             d == D(T)
             e == D(U)
             k == Spike(G, h[x], f[x])
  <2>1. U \in SUBSET S /\ h[x] \in G /\ f[x] \in Int
    OBVIOUS
  <2>2. d \in [G -> Int] /\ e \in [G -> Int]
    BY <1>1, <2>1
  <2>3. k \in [G -> Int] /\ SumOver(k) = f[x]
    <3> HIDE DEF D
    <3> QED
      BY <2>1, SumOfSpike DEF Spike
  <2>4. ASSUME NEW g \in G
        PROVE  e[g] = d[g] + k[g]
    <3> DEFINE M == Mine(T, g)
    <3>1. M \in SUBSET S /\ x \notin M
      BY <1>3
    <3>2. d[g] = SumOver(On(f, M)) /\ d[g] \in Int
      BY <2>2
    <3>3. CASE h[x] = g
      <4>1. Mine(U, g) = M \union {x}
        BY <3>3
      <4>2. e[g] = SumOver(On(f, M \union {x}))
        BY <4>1
      <4>3. k[g] = f[x]
        BY <3>3 DEF Spike
      <4>4. SumOver(On(f, M \union {x})) = f[x] + SumOver(On(f, M))
        <5> HIDE DEF M
        <5> QED
          BY <3>1, SumGrows
      <4> HIDE DEF M, d, e, k
      <4> QED
        BY <2>1, <3>2, <4>2, <4>3, <4>4
    <3>4. CASE h[x] # g
      <4>1. Mine(U, g) = M
        BY <3>4
      <4>2. e[g] = SumOver(On(f, M))
        BY <4>1
      <4>3. k[g] = 0
        BY <3>4 DEF Spike
      <4> HIDE DEF M, d, e, k
      <4> QED
        BY <3>2, <4>2, <4>3
    <3> QED
      BY <3>3, <3>4
  <2>5. SumOver(d) = SumOver(On(f, T))
    BY <1>3
  <2>6. SumOver(On(f, T)) \in Int /\ SumOver(On(f, U)) = f[x] + SumOver(On(f, T))
    BY <1>3, SumGrows
  <2> HIDE DEF d, e, k, U
  <2>7. e = [g \in G |-> d[g] + k[g]]
    BY <2>2, <2>4
  <2>8. SumOver(e) = SumOver(d) + SumOver(k)
    BY <2>2, <2>3, <2>7, SumOfBoth
  <2>9. SumOver(e) = SumOver(On(f, U))
    BY <2>1, <2>3, <2>5, <2>6, <2>8
  <2> QED
    BY <2>1, <2>9 DEF e, U
<1>4. D(S) \in [G -> Int]
  BY <1>1
<1>5. D(S) = Grouped(f, G, h)
  BY DEF Grouped
<1> HIDE DEF Q, D
<1>6. S \in Q
  BY <1>2, <1>3, OfFinite
<1>7. SumOver(D(S)) = SumOver(On(f, S)) /\ On(f, S) = f
  BY <1>6, SumOnAll DEF Q
<1> QED
  BY <1>4, <1>5, <1>7

\* A cardinality is a sum of ones.
Ones(S) == [x \in S |-> 1]

LEMMA SumOfOnes ==
  ASSUME NEW S, IsFiniteSet(S)
  PROVE  SumOver(Ones(S)) = Cardinality(S)
<1> DEFINE f == Ones(S)
           Q == {T \in SUBSET S : SumOver(On(f, T)) = Cardinality(T)}
<1>1. f \in [S -> Int] /\ \A x \in S : f[x] = 1
  BY DEF Ones
<1> HIDE DEF f
<1>2. {} \in Q
  BY SumOnNone, FS_EmptySet
<1>3. ASSUME NEW T \in SUBSET S, NEW x \in S, T \in Q, x \notin T
      PROVE  T \union {x} \in Q
  <2>1. IsFiniteSet(T)
    BY FS_Subset
  <2>2. Cardinality(T \union {x}) = Cardinality(T) + 1 /\ Cardinality(T) \in Nat
    BY <1>3, <2>1, FS_AddElement, FS_CardinalityType
  <2>3. SumOver(On(f, T \union {x})) = f[x] + SumOver(On(f, T))
    BY <1>1, <1>3, SumGrows
  <2> QED
    BY <1>1, <1>3, <2>2, <2>3
<1> HIDE DEF Q
<1>4. S \in Q
  BY <1>2, <1>3, OfFinite
<1>5. SumOver(On(f, S)) = Cardinality(S) /\ On(f, S) = f
  BY <1>1, <1>4, SumOnAll DEF Q
<1> QED
  BY <1>5 DEF f

\* A sum does not depend on the names of what is added.
Renames(b, R, S) ==
  /\ b \in [R -> S]
  /\ \A x, y \in R : b[x] = b[y] => x = y
  /\ \A y \in S : \E x \in R : b[x] = y

Renamed(f, b, R) == [x \in R |-> f[b[x]]]

LEMMA SumRenamed ==
  ASSUME NEW S, IsFiniteSet(S), NEW f \in [S -> Int], NEW R, IsFiniteSet(R),
         NEW b, Renames(b, R, S)
  PROVE  SumOver(Renamed(f, b, R)) = SumOver(f)
<1> USE DEF Renames, Renamed
<1> DEFINE h == Renamed(f, b, R)
           Im(T) == {b[x] : x \in T}
           Q == {T \in SUBSET R : SumOver(On(h, T)) = SumOver(On(f, Im(T)))}
<1>1. h \in [R -> Int] /\ \A x \in R : h[x] = f[b[x]] /\ b[x] \in S
  OBVIOUS
<1> HIDE DEF h, Renamed
<1>2. {} \in Q
  <2>1. Im({}) = {}
    OBVIOUS
  <2> QED
    BY <2>1, SumOnNone
<1>3. ASSUME NEW T \in SUBSET R, NEW x \in R, T \in Q, x \notin T
      PROVE  T \union {x} \in Q
  <2>1. Im(T) \in SUBSET S /\ b[x] \in S /\ b[x] \notin Im(T)
    BY <1>1, <1>3
  <2>2. Im(T \union {x}) = Im(T) \union {b[x]}
    OBVIOUS
  <2>3. SumOver(On(h, T \union {x})) = h[x] + SumOver(On(h, T))
    BY <1>1, <1>3, SumGrows
  <2>4. SumOver(On(f, Im(T) \union {b[x]})) = f[b[x]] + SumOver(On(f, Im(T)))
    <3> HIDE DEF Im
    <3> QED
      BY <2>1, SumGrows
  <2>5. SumOver(On(h, T)) = SumOver(On(f, Im(T)))
    BY <1>3
  <2> HIDE DEF Im
  <2>6. SumOver(On(h, T \union {x})) = SumOver(On(f, Im(T \union {x})))
    BY <1>1, <2>2, <2>3, <2>4, <2>5
  <2> QED
    BY <2>6
<1>4. Im(R) = S
  BY <1>1
<1> HIDE DEF Q, Im
<1>5. R \in Q
  BY <1>2, <1>3, OfFinite
<1>6. SumOver(On(h, R)) = SumOver(On(f, S)) /\ On(h, R) = h /\ On(f, S) = f
  BY <1>1, <1>4, <1>5, SumOnAll DEF Q
<1> QED
  BY <1>6 DEF h

LEMMA SumOfFlags ==
  ASSUME NEW S, IsFiniteSet(S), NEW A \in SUBSET S
  PROVE  SumOver(Within(Ones(S), A)) = Cardinality(A)
<1>1. Ones(S) \in [S -> Int] /\ S \intersect A = A
  BY DEF Ones
<1>2. SumOver(Within(Ones(S), A)) = SumOver(On(Ones(S), A))
  BY <1>1, SumWithin
<1>3. On(Ones(S), A) = Ones(A)
  BY DEF On, Ones
<1>4. IsFiniteSet(A)
  BY FS_Subset
<1> QED
  BY <1>2, <1>3, <1>4, SumOfOnes

\* The counts of the groups of a set.
Counts(S, G, h) == [g \in G |-> Cardinality({x \in S : h[x] = g})]

LEMMA CountByGroup ==
  ASSUME NEW S, IsFiniteSet(S), NEW G, IsFiniteSet(G), NEW h \in [S -> G]
  PROVE  SumOver(Counts(S, G, h)) = Cardinality(S)
<1>1. Ones(S) \in [S -> Int] /\ DOMAIN Ones(S) = S
  BY DEF Ones
<1>2. SumOver(Grouped(Ones(S), G, h)) = SumOver(Ones(S))
  BY <1>1, SumByGroup
<1>3. ASSUME NEW g \in G
      PROVE  SumOver(On(Ones(S), {x \in S : h[x] = g})) = Cardinality({x \in S : h[x] = g})
  <2> DEFINE T == {x \in S : h[x] = g}
  <2>1. T \in SUBSET S /\ On(Ones(S), T) = Ones(T)
    BY DEF On, Ones
  <2> HIDE DEF T
  <2>2. IsFiniteSet(T)
    BY <2>1, FS_Subset
  <2>3. SumOver(On(Ones(S), T)) = Cardinality(T)
    BY <2>1, <2>2, SumOfOnes
  <2> QED
    BY <2>3 DEF T
<1>4. Grouped(Ones(S), G, h) = Counts(S, G, h)
  BY <1>1, <1>3 DEF Grouped, Counts
<1> QED
  BY <1>2, <1>4, SumOfOnes

-----------------------------------------------------------------------------
(* The boards of eval runs.                                                *)

Reviewing == {"pending", "assigned", "reviewed", "skipped"}
Compared(E, B) ==
  [evalRun : E, decided : BOOLEAN, score : {NULL} \union (0 .. 100),
   choice : DecisionChoices \union {"none"}, review : Reviewing, a : B, b : B]

LEMMA RowsAre ==
  ASSUME NEW W, NEW comps \in Seq(W), NEW e
  PROVE  /\ RowsOf(comps, e) \subseteq DOMAIN comps /\ DOMAIN comps \subseteq Nat
         /\ IsFiniteSet(DOMAIN comps) /\ IsFiniteSet(RowsOf(comps, e))
         /\ \A i \in DOMAIN comps : comps[i] \in W
<1>1. Len(comps) \in Nat /\ DOMAIN comps = 1 .. Len(comps)
  BY LenProperties
<1>2. IsFiniteSet(DOMAIN comps)
  BY <1>1, FS_Interval
<1>3. RowsOf(comps, e) \subseteq DOMAIN comps
  BY DEF RowsOf
<1>4. IsFiniteSet(RowsOf(comps, e))
  BY <1>2, <1>3, FS_Subset
<1> QED
  BY <1>1, <1>2, <1>3, <1>4, ElementOfSeq

LEMMA BucketIs ==
  ASSUME NEW n \in 0 .. 100
  PROVE  Bucket(n) \in 0 .. 4
<1> DEFINE q == (5 * n) \div 100
           S == {q, 4}
<1>1. q \in 0 .. 5
  OBVIOUS
<1>2. S \in SUBSET Int /\ S # {} /\ IsFiniteSet(S)
  <2>1. IsFiniteSet({q}) /\ {q} \union {4} = S
    BY FS_Singleton
  <2> QED
    BY <1>1, <2>1, FS_AddElement
<1>3. Min(S) \in S /\ Min(S) <= 4
  <2>1. 4 \in S
    OBVIOUS
  <2> HIDE DEF S
  <2> QED
    BY <1>2, <2>1, Bounds
<1>4. Bucket(n) = Min(S)
  BY DEF Bucket
<1> QED
  BY <1>1, <1>3, <1>4

\* Comparisons in three states of review are three parts of all comparisons.
LEMMA ThreeParts ==
  ASSUME NEW S, IsFiniteSet(S), NEW A \in SUBSET S, NEW B \in SUBSET S, NEW C \in SUBSET S,
         A \intersect B = {}, A \intersect C = {}, B \intersect C = {}
  PROVE  /\ Cardinality(A) + Cardinality(B) + Cardinality(C) <= Cardinality(S)
         /\ Cardinality(A) \in Nat /\ Cardinality(B) \in Nat /\ Cardinality(C) \in Nat
         /\ Cardinality(S) \in Nat
<1> DEFINE AB == A \union B
           ABC == AB \union C
<1>1. IsFiniteSet(A) /\ IsFiniteSet(B) /\ IsFiniteSet(C)
  BY FS_Subset
<1>2. /\ Cardinality(A) \in Nat /\ Cardinality(B) \in Nat /\ Cardinality(C) \in Nat
      /\ Cardinality(S) \in Nat
  BY <1>1, FS_CardinalityType
<1>3. IsFiniteSet(AB) /\ Cardinality(AB) = Cardinality(A) + Cardinality(B)
  <2>1. Cardinality(A \intersect B) = 0
    BY FS_EmptySet
  <2>2. /\ IsFiniteSet(A \union B)
        /\ Cardinality(A \union B) = Cardinality(A) + Cardinality(B) - Cardinality(A \intersect B)
    BY <1>1, FS_Union
  <2> QED
    BY <1>2, <2>1, <2>2
<1>4. AB \intersect C = {} /\ ABC \in SUBSET S
  OBVIOUS
<1> HIDE DEF AB
<1>5. Cardinality(ABC) = Cardinality(AB) + Cardinality(C)
  <2>1. Cardinality(AB \intersect C) = 0
    BY <1>4, FS_EmptySet
  <2>2. Cardinality(AB \union C) = Cardinality(AB) + Cardinality(C) - Cardinality(AB \intersect C)
    BY <1>1, <1>3, FS_Union
  <2> QED
    BY <1>2, <1>3, <2>1, <2>2
<1>6. Cardinality(ABC) <= Cardinality(S)
  BY <1>4, FS_Subset
<1> QED
  BY <1>2, <1>3, <1>5, <1>6

LEMMA ScoresAre ==
  ASSUME NEW E, NEW B, NEW comps \in Seq(Compared(E, B)), NEW e
  PROVE  /\ IsFiniteSet(DOMAIN ScoresOf(comps, RowsOf(comps, e)))
         /\ \A i \in DOMAIN ScoresOf(comps, RowsOf(comps, e)) :
              ScoresOf(comps, RowsOf(comps, e))[i] \in 0 .. 100
<1> DEFINE rows == RowsOf(comps, e)
           D == {j \in rows : comps[j].score # NULL}
<1>1. /\ rows \subseteq DOMAIN comps /\ IsFiniteSet(rows)
      /\ \A i \in DOMAIN comps : comps[i] \in Compared(E, B)
  BY RowsAre
<1>2. DOMAIN ScoresOf(comps, rows) = D
  BY DEF ScoresOf
<1>3. IsFiniteSet(D)
  <2>1. D \in SUBSET rows
    OBVIOUS
  <2> QED
    BY <1>1, <2>1, FS_Subset
<1>4. ASSUME NEW i \in D
      PROVE  ScoresOf(comps, rows)[i] \in 0 .. 100
  <2>1. comps[i] \in Compared(E, B) /\ comps[i].score # NULL
    BY <1>1
  <2>2. comps[i].score \in 0 .. 100
    BY <2>1 DEF Compared
  <2> QED
    BY <2>2 DEF ScoresOf
<1> QED
  BY <1>2, <1>3, <1>4

\* The row of an eval run in the list, as the page of that eval run has it.
LEMMA ListedIs ==
  ASSUME NEW E, NEW B, NEW comps \in Seq(Compared(E, B)), NEW asked, NEW e \in asked
  PROVE  BatchEvalRunStats(comps, asked)[e] =
           [total |-> Cardinality(RowsOf(comps, e)),
            decided |-> Cardinality({i \in RowsOf(comps, e) : comps[i].decided}),
            pending |-> Cardinality(RowsOf(comps, e))
                          - Cardinality({i \in RowsOf(comps, e) : comps[i].decided}),
            average |-> Average(ScoresOf(comps, RowsOf(comps, e)))]
<1> DEFINE rows == RowsOf(comps, e)
           A == {i \in rows : comps[i].decided}
           grouped == {comps[i].evalRun : i \in DOMAIN comps} \intersect asked
           counted == [d \in grouped |->
                         SumOver([i \in RowsOf(comps, d) |-> IF comps[i].decided THEN 1 ELSE 0])]
           Shown(n, d, x) == [total |-> n, decided |-> d, pending |-> n - d, average |-> x]
<1>1. rows \subseteq DOMAIN comps /\ IsFiniteSet(rows)
  BY RowsAre
<1>2. BatchEvalRunStats(comps, asked)[e] =
        IF e \in grouped
        THEN Shown(Cardinality(rows), counted[e], Average(ScoresOf(comps, rows)))
        ELSE [total |-> 0, decided |-> 0, pending |-> 0, average |-> Average(<<>>)]
  BY Zenon DEF BatchEvalRunStats
<1>3. CASE e \in grouped
  <2>1. counted[e] = SumOver([i \in rows |-> IF comps[i].decided THEN 1 ELSE 0])
    BY <1>3
  <2>2. [i \in rows |-> IF comps[i].decided THEN 1 ELSE 0] = Within(Ones(rows), A)
    BY DEF Within, Ones
  <2>3. SumOver(Within(Ones(rows), A)) = Cardinality(A)
    <3>1. A \in SUBSET rows
      OBVIOUS
    <3> HIDE DEF A, rows
    <3> QED
      BY <1>1, <3>1, SumOfFlags
  <2>4. counted[e] = Cardinality(A)
    BY <2>1, <2>2, <2>3
  <2> HIDE DEF counted, grouped
  <2> QED
    BY <1>2, <1>3, <2>4
<1>4. CASE ~ (e \in grouped)
  <2>1. rows = {} /\ A = {}
    BY <1>4 DEF RowsOf
  <2>2. Cardinality(rows) = 0 /\ Cardinality(A) = 0
    BY <2>1, FS_EmptySet
  <2>3. ScoresOf(comps, rows) = <<>>
    <3>1. ScoresOf(comps, rows) = [i \in {} |-> comps[i].score]
      BY <2>1 DEF ScoresOf
    <3>2. [i \in {} |-> comps[i].score] = <<>>
      OBVIOUS
    <3> QED
      BY <3>1, <3>2
  <2>4. Shown(Cardinality(rows), Cardinality(A), Average(ScoresOf(comps, rows))) =
          [total |-> 0, decided |-> 0, pending |-> 0, average |-> Average(<<>>)]
    BY <2>2, <2>3
  <2> HIDE DEF counted, grouped
  <2> QED
    BY <1>2, <1>4, <2>4
<1> QED
  BY <1>3, <1>4

LEMMA ReviewedAre ==
  ASSUME NEW E, NEW B, NEW comps \in Seq(Compared(E, B)), NEW e, NEW review,
         review = ReviewStats(comps, e)
  PROVE  /\ review.total = Cardinality(RowsOf(comps, e))
         /\ review.reviewed + review.assigned + review.pending <= review.total
<1> DEFINE rows == RowsOf(comps, e)
           In(status) == {i \in rows : comps[i].review = status}
           X == In("reviewed")
           Y == In("assigned")
           Z == In("pending")
<1>1. IsFiniteSet(rows)
  BY RowsAre
<1>2. /\ review.total = Cardinality(rows)
      /\ review.reviewed = Cardinality(X)
      /\ review.assigned = Cardinality(Y)
      /\ review.pending = Cardinality(Z)
  BY DEF ReviewStats
<1>3. /\ X \in SUBSET rows /\ Y \in SUBSET rows /\ Z \in SUBSET rows
      /\ X \intersect Y = {} /\ X \intersect Z = {} /\ Y \intersect Z = {}
  OBVIOUS
<1>4. /\ Cardinality(X) + Cardinality(Y) + Cardinality(Z) <= Cardinality(rows)
  <2> HIDE DEF X, Y, Z, rows
  <2> QED
    BY <1>1, <1>3, ThreeParts
<1> HIDE DEF X, Y, Z, rows
<1> QED
  BY <1>2, <1>4 DEF rows

LEMMA BucketsAddUp ==
  ASSUME NEW E, NEW B, NEW comps \in Seq(Compared(E, B)), NEW e, NEW scores,
         scores = ScoresOf(comps, RowsOf(comps, e))
  PROVE  SumOver([b \in 0 .. 4 |-> Cardinality({i \in DOMAIN scores : Bucket(scores[i]) = b})])
           = Average(scores).n
<1> DEFINE S == DOMAIN scores
           h == [i \in S |-> Bucket(scores[i])]
<1>1. IsFiniteSet(S) /\ \A i \in S : scores[i] \in 0 .. 100
  BY ScoresAre
<1>2. h \in [S -> 0 .. 4]
  <2>1. \A i \in S : Bucket(scores[i]) \in 0 .. 4
    BY <1>1, BucketIs
  <2> QED
    BY <2>1
<1>3. IsFiniteSet(0 .. 4)
  <2>1. 0 \in Int /\ 4 \in Int
    OBVIOUS
  <2> HIDE DEF h, S
  <2> QED
    BY <2>1, FS_Interval
<1>4. [b \in 0 .. 4 |-> Cardinality({i \in S : Bucket(scores[i]) = b})] = Counts(S, 0 .. 4, h)
  <2>1. \A b \in 0 .. 4 : {i \in S : Bucket(scores[i]) = b} = {i \in S : h[i] = b}
    OBVIOUS
  <2> QED
    BY <2>1 DEF Counts
<1>5. SumOver(Counts(S, 0 .. 4, h)) = Cardinality(S)
  <2> HIDE DEF h, S
  <2> QED
    BY <1>1, <1>2, <1>3, CountByGroup
<1>6. Average(scores).n = Cardinality(S)
  BY DEF Average
<1> QED
  BY <1>4, <1>5, <1>6

LEMMA ChoicesAddUp ==
  ASSUME NEW E, NEW B, NEW comps \in Seq(Compared(E, B)), NEW e, NEW rows,
         rows = RowsOf(comps, e),
         \A i \in rows : comps[i].decided <=> ~ (comps[i].choice = "none")
  PROVE  SumOver([c \in DecisionChoices |-> Cardinality({i \in rows : comps[i].choice = c})])
           = Cardinality({i \in rows : comps[i].decided})
<1> DEFINE S == {i \in rows : comps[i].decided}
           h == [i \in S |-> comps[i].choice]
           G == DecisionChoices
<1>1. /\ rows \subseteq DOMAIN comps /\ IsFiniteSet(rows)
      /\ \A i \in DOMAIN comps : comps[i] \in Compared(E, B)
  BY RowsAre
<1>2. ASSUME NEW i \in rows
      PROVE  /\ comps[i].choice \in G \/ comps[i].choice = "none"
             /\ comps[i].decided <=> comps[i].choice \in G
  <2>1. comps[i] \in Compared(E, B)
    BY <1>1
  <2>2. comps[i].choice \in G \union {"none"}
    BY <2>1 DEF Compared
  <2>3. "none" \notin G
    BY DEF DecisionChoices
  <2> QED
    BY <2>2, <2>3
<1>3. h \in [S -> G]
  BY <1>2
<1>4. IsFiniteSet(S)
  <2>1. S \in SUBSET rows
    OBVIOUS
  <2> QED
    BY <1>1, <2>1, FS_Subset
<1>5. IsFiniteSet(G)
  <2>1. IsFiniteSet({"A"}) /\ G = (({"A"} \union {"B"}) \union {"neither"}) \union {"both"}
    BY FS_Singleton DEF DecisionChoices
  <2>2. IsFiniteSet({"A"} \union {"B"})
    BY <2>1, FS_AddElement
  <2>3. IsFiniteSet(({"A"} \union {"B"}) \union {"neither"})
    BY <2>2, FS_AddElement
  <2> QED
    BY <2>1, <2>3, FS_AddElement
<1>6. [c \in G |-> Cardinality({i \in rows : comps[i].choice = c})] = Counts(S, G, h)
  <2>1. ASSUME NEW c \in G
        PROVE  {i \in rows : comps[i].choice = c} = {i \in S : h[i] = c}
    BY <1>2
  <2> QED
    BY <2>1 DEF Counts
<1>7. SumOver(Counts(S, G, h)) = Cardinality(S)
  <2> HIDE DEF h, S, G
  <2> QED
    BY <1>3, <1>4, <1>5, CountByGroup
<1> QED
  BY <1>6, <1>7

\* However many comparisons there are, the page of an eval run, its row in the list and
\* its review count the same ones: each score falls in one bucket, each decision has one
\* choice, and no comparison is in two states of review (eval_run_stats,
\* batch_eval_run_stats, review_stats).
THEOREM PagesCountTheSame ==
  ASSUME NEW E, NEW B, NEW comps \in Seq(Compared(E, B)), NEW steps,
         NEW asked, NEW e \in asked
  PROVE  BoardsAgree(EvalRunStats(comps, steps, e), BatchEvalRunStats(comps, asked)[e],
                     ReviewStats(comps, e), {comps[i] : i \in RowsOf(comps, e)})
<1> DEFINE rows == RowsOf(comps, e)
           scores == ScoresOf(comps, rows)
           n == Cardinality(rows)
           d == Cardinality({i \in rows : comps[i].decided})
           buckets == [b \in 0 .. 4 |-> Cardinality({i \in DOMAIN scores : Bucket(scores[i]) = b})]
           choices == [c \in DecisionChoices |-> Cardinality({i \in rows : comps[i].choice = c})]
           one == EvalRunStats(comps, steps, e)
           listed == BatchEvalRunStats(comps, asked)[e]
           review == ReviewStats(comps, e)
           these == {comps[i] : i \in rows}
<1>1. /\ one.total = n /\ one.decided = d /\ one.pending = n - d
      /\ one.average = Average(scores) /\ one.buckets = buckets /\ one.choices = choices
  BY Zenon DEF EvalRunStats
<1>2. listed = [total |-> n, decided |-> d, pending |-> n - d, average |-> Average(scores)]
  BY ListedIs
<1>3. review.total = n /\ review.reviewed + review.assigned + review.pending <= review.total
  BY ReviewedAre
<1>4. SumOver(buckets) = Average(scores).n
  BY BucketsAddUp
<1>5. (\A c \in these : c.decided <=> c.choice # "none") => SumOver(choices) = d
  <2> SUFFICES ASSUME \A c \in these : c.decided <=> c.choice # "none"
               PROVE  SumOver(choices) = d
    OBVIOUS
  <2>1. \A i \in rows : comps[i].decided <=> ~ (comps[i].choice = "none")
    OBVIOUS
  <2> QED
    BY <2>1, ChoicesAddUp
<1> HIDE DEF rows, scores, n, d, buckets, choices, one, listed, review, these
<1>6. \A f \in DOMAIN listed : one[f] = listed[f]
  <2>1. DOMAIN listed = {"total", "decided", "pending", "average"}
    BY <1>2
  <2>2. /\ listed.total = n /\ listed.decided = d /\ listed.pending = n - d
        /\ listed.average = Average(scores)
    BY <1>2
  <2> QED
    BY <1>1, <2>1, <2>2
<1>7. BoardsAgree(one, listed, review, these)
  BY <1>1, <1>3, <1>4, <1>5, <1>6 DEF BoardsAgree
<1> QED
  BY <1>7 DEF one, listed, review, these, rows

-----------------------------------------------------------------------------
(* Costs.                                                                  *)

\* What is divided in groups, each element being in one, adds up group by group.
Divides(P, S, G) ==
  /\ P \in [G -> SUBSET S]
  /\ \A x \in S : \E g \in G : x \in P[g]
  /\ \A x \in S : \A g, k \in G : x \in P[g] /\ x \in P[k] => g = k

GroupSums(f, G, P) == [g \in G |-> SumOver(On(f, P[g]))]

LEMMA SumOfGroups ==
  ASSUME NEW U, NEW f \in [U -> Int], NEW S \in SUBSET U, IsFiniteSet(S),
         NEW G, IsFiniteSet(G), NEW P, Divides(P, S, G)
  PROVE  /\ SumOver(On(f, S)) = SumOver(GroupSums(f, G, P))
         /\ GroupSums(f, G, P) \in [G -> Int]
<1> DEFINE h == [x \in S |-> CHOOSE g \in G : x \in P[g]]
           F == On(f, S)
<1> USE DEF Divides
<1>1. h \in [S -> G] /\ \A x \in S : x \in P[h[x]]
  OBVIOUS
<1>2. F \in [S -> Int] /\ DOMAIN F = S
  BY DEF On
<1>3. ASSUME NEW g \in G
      PROVE  On(F, {x \in DOMAIN F : h[x] = g}) = On(f, P[g])
  <2>1. {x \in S : h[x] = g} = P[g]
    <3> HIDE DEF h
    <3>1. P[g] \in SUBSET S
      OBVIOUS
    <3>2. ASSUME NEW x \in S PROVE h[x] = g <=> x \in P[g]
      BY <1>1
    <3> QED
      BY <3>1, <3>2
  <2>2. P[g] \in SUBSET S
    OBVIOUS
  <2>3. On(F, P[g]) = On(f, P[g])
    BY <2>2 DEF On
  <2> HIDE DEF F, h
  <2> QED
    BY <1>2, <2>1, <2>3
<1>4. Grouped(F, G, h) = GroupSums(f, G, P)
  <2> HIDE DEF F, h
  <2> QED
    BY <1>3 DEF Grouped, GroupSums
<1>5. Grouped(F, G, h) \in [G -> Int] /\ SumOver(Grouped(F, G, h)) = SumOver(F)
  <2> HIDE DEF F, h
  <2> QED
    BY <1>1, <1>2, SumByGroup
<1> QED
  BY <1>4, <1>5

LEMMA ImageIsFinite ==
  ASSUME NEW S, IsFiniteSet(S), NEW G, NEW h \in [S -> G], \A g \in G : \E x \in S : h[x] = g
  PROVE  IsFiniteSet(G)
<1>1. h \in Surjection(S, G)
  BY DEF Surjection
<1> QED
  BY <1>1, FS_Surjection

StepRow(R, B, M) == [run : R, branch : B, model : M, tokens : Nat, cost : {NULL} \union Nat]

Costs(steps) == [k \in DOMAIN steps |-> IF steps[k].cost = NULL THEN 0 ELSE steps[k].cost]
Tokens(steps) == [k \in DOMAIN steps |-> steps[k].tokens]

LEMMA StepsAre ==
  ASSUME NEW R, NEW B, NEW M, NEW steps \in Seq(StepRow(R, B, M))
  PROVE  /\ IsFiniteSet(DOMAIN steps) /\ \A k \in DOMAIN steps : steps[k] \in StepRow(R, B, M)
         /\ \A rows \in SUBSET (DOMAIN steps) : IsFiniteSet(rows)
         /\ Costs(steps) \in [DOMAIN steps -> Int] /\ Tokens(steps) \in [DOMAIN steps -> Int]
<1>1. Len(steps) \in Nat /\ DOMAIN steps = 1 .. Len(steps)
  BY LenProperties
<1>2. IsFiniteSet(DOMAIN steps)
  BY <1>1, FS_Interval
<1>3. ASSUME NEW k \in DOMAIN steps
      PROVE  /\ steps[k] \in StepRow(R, B, M) /\ steps[k].tokens \in Int
             /\ (IF steps[k].cost = NULL THEN 0 ELSE steps[k].cost) \in Int
  <2>1. steps[k] \in StepRow(R, B, M)
    BY <1>1, ElementOfSeq
  <2>2. steps[k].tokens \in Nat /\ steps[k].cost \in {NULL} \union Nat
    BY <2>1 DEF StepRow
  <2> QED
    BY <2>1, <2>2
<1>4. \A rows \in SUBSET (DOMAIN steps) : IsFiniteSet(rows)
  BY <1>2, FS_Subset
<1> QED
  BY <1>2, <1>3, <1>4 DEF Costs, Tokens

LEMMA StepGroups ==
  ASSUME NEW R, NEW B, NEW M, NEW steps \in Seq(StepRow(R, B, M)),
         NEW S \in SUBSET (DOMAIN steps), NEW G, IsFiniteSet(G), NEW P, Divides(P, S, G)
  PROVE  /\ SumOver(On(Costs(steps), S)) = SumOver(GroupSums(Costs(steps), G, P))
         /\ SumOver(On(Tokens(steps), S)) = SumOver(GroupSums(Tokens(steps), G, P))
<1> DEFINE U == DOMAIN steps
           c == Costs(steps)
           t == Tokens(steps)
<1>1. c \in [U -> Int] /\ t \in [U -> Int] /\ IsFiniteSet(S) /\ S \in SUBSET U
  BY StepsAre
<1> HIDE DEF U, c, t
<1>2. SumOver(On(c, S)) = SumOver(GroupSums(c, G, P))
  BY <1>1, SumOfGroups
<1>3. SumOver(On(t, S)) = SumOver(GroupSums(t, G, P))
  BY <1>1, SumOfGroups
<1> QED
  BY <1>2, <1>3 DEF c, t

\* However the costs of steps are grouped by branch and model, they add up.
LEMMA BreakdownIs ==
  ASSUME NEW R, NEW B, NEW M, NEW steps \in Seq(StepRow(R, B, M)),
         NEW rows \in SUBSET (DOMAIN steps)
  PROVE  /\ CostBreakdown(steps, rows).cost = SumOver(On(Costs(steps), rows))
         /\ CostBreakdown(steps, rows).tokens = SumOver(On(Tokens(steps), rows))
<1> DEFINE Of(k) == <<steps[k].branch, steps[k].model>>
           G == {Of(k) : k \in rows}
           Mine(g) == {k \in rows : g = Of(k)}
           P == [g \in G |-> Mine(g)]
           branches == [g \in G |->
             [cost |-> CostOf(steps, Mine(g)), steps |-> Cardinality(Mine(g)),
              tokens |-> SumOver([k \in Mine(g) |-> steps[k].tokens])]]
           whole == CostBreakdown(steps, rows)
<1>1. IsFiniteSet(rows)
  BY StepsAre
<1>2. IsFiniteSet(G)
  <2> DEFINE h == [k \in rows |-> Of(k)]
  <2>1. h \in [rows -> G] /\ \A g \in G : \E k \in rows : h[k] = g
    OBVIOUS
  <2> HIDE DEF h, G
  <2> QED
    BY <1>1, <2>1, ImageIsFinite
<1>3. Divides(P, rows, G)
  <2>1. P \in [G -> SUBSET rows]
    OBVIOUS
  <2>2. ASSUME NEW k \in rows PROVE Of(k) \in G /\ \A g \in G : k \in P[g] <=> g = Of(k)
    OBVIOUS
  <2> HIDE DEF P, G
  <2> QED
    BY <2>1, <2>2 DEF Divides
<1>4. /\ whole.cost = SumOver([g \in G |-> branches[g].cost])
      /\ whole.tokens = SumOver([g \in G |-> branches[g].tokens])
  BY Zenon DEF CostBreakdown
<1>5. ASSUME NEW g \in G
      PROVE  /\ branches[g].cost = SumOver(On(Costs(steps), P[g]))
             /\ branches[g].tokens = SumOver(On(Tokens(steps), P[g]))
  <2>1. P[g] = Mine(g) /\ P[g] \subseteq DOMAIN steps
    OBVIOUS
  <2>2. branches[g].cost = CostOf(steps, P[g])
        /\ branches[g].tokens = SumOver([k \in P[g] |-> steps[k].tokens])
    BY <2>1
  <2> HIDE DEF P, branches
  <2>3. On(Costs(steps), P[g]) =
          [k \in P[g] |-> IF steps[k].cost = NULL THEN 0 ELSE steps[k].cost]
    BY <2>1 DEF On, Costs
  <2>4. On(Tokens(steps), P[g]) = [k \in P[g] |-> steps[k].tokens]
    BY <2>1 DEF On, Tokens
  <2> QED
    BY <2>2, <2>3, <2>4 DEF CostOf
<1>6. /\ [g \in G |-> branches[g].cost] = GroupSums(Costs(steps), G, P)
      /\ [g \in G |-> branches[g].tokens] = GroupSums(Tokens(steps), G, P)
  <2> HIDE DEF P, branches, G
  <2> QED
    BY <1>5 DEF GroupSums
<1> HIDE DEF P, branches, whole, G
<1>7. /\ SumOver(On(Costs(steps), rows)) = SumOver(GroupSums(Costs(steps), G, P))
      /\ SumOver(On(Tokens(steps), rows)) = SumOver(GroupSums(Tokens(steps), G, P))
  BY <1>2, <1>3, StepGroups
<1> QED
  BY <1>4, <1>6, <1>7 DEF whole

\* The tokens on the page of an eval run, comparison by comparison.
OfSide(steps, comp, side) == {k \in DOMAIN steps : comp[side] = steps[k].branch}
SideSums(steps, comps, rows, side) ==
  [i \in rows |-> SumOver(On(Tokens(steps), OfSide(steps, comps[i], side)))]

LEMMA TokensAre ==
  ASSUME NEW R, NEW B, NEW M, NEW steps \in Seq(StepRow(R, B, M)),
         NEW comps, NEW rows, IsFiniteSet(rows), NEW side
  PROVE  /\ TokensOf(comps, rows, steps, side) = SumOver(SideSums(steps, comps, rows, side))
         /\ SideSums(steps, comps, rows, side) \in [rows -> Int]
<1> DEFINE J == {ik \in rows \X DOMAIN steps : comps[ik[1]][side] = steps[ik[2]].branch}
           t == [ik \in J |-> steps[ik[2]].tokens]
           P == [i \in rows |-> {ik \in J : ik[1] = i}]
           K(i) == OfSide(steps, comps[i], side)
<1>1. /\ Tokens(steps) \in [DOMAIN steps -> Int] /\ IsFiniteSet(DOMAIN steps)
      /\ \A k \in DOMAIN steps : Tokens(steps)[k] = steps[k].tokens
      /\ \A S \in SUBSET (DOMAIN steps) : IsFiniteSet(S)
  BY StepsAre DEF Tokens
<1>2. t \in [J -> Int] /\ \A ik \in J : t[ik] = Tokens(steps)[ik[2]]
  <2>1. \A ik \in J : ik[2] \in DOMAIN steps
    OBVIOUS
  <2> QED
    BY <1>1, <2>1
<1>3. IsFiniteSet(J)
  <2>1. IsFiniteSet(rows \X DOMAIN steps)
    BY <1>1, FS_Product
  <2> QED
    BY <2>1, FS_Subset
<1>4. Divides(P, J, rows)
  BY DEF Divides
<1>5. /\ SumOver(On(t, J)) = SumOver(GroupSums(t, rows, P))
      /\ GroupSums(t, rows, P) \in [rows -> Int]
  <2>1. J \in SUBSET J
    OBVIOUS
  <2> HIDE DEF J, t, P
  <2> QED
    BY <1>2, <1>3, <1>4, <2>1, SumOfGroups
<1>6. ASSUME NEW i \in rows
      PROVE  SumOver(On(t, P[i])) = SumOver(On(Tokens(steps), K(i)))
  <2> DEFINE k == K(i)
             f == On(Tokens(steps), k)
             b == [ik \in P[i] |-> ik[2]]
             p == P[i]
  <2>1. k \in SUBSET (DOMAIN steps) /\ IsFiniteSet(k) /\ f \in [k -> Int]
        /\ \A x \in k : f[x] = Tokens(steps)[x]
    <3>1. k \in SUBSET (DOMAIN steps)
      BY DEF OfSide
    <3> HIDE DEF k
    <3> QED
      BY <1>1, <3>1 DEF On
  <2>2. p \in SUBSET J /\ IsFiniteSet(p)
    <3>1. p \in SUBSET J
      OBVIOUS
    <3> HIDE DEF p, J
    <3> QED
      BY <1>3, <3>1, FS_Subset
  <2>3. Renames(b, p, k)
    <3>1. ASSUME NEW x \in p
          PROVE  x = <<i, x[2]>> /\ x[2] \in k /\ b[x] = x[2]
      BY DEF OfSide
    <3>2. ASSUME NEW x \in k
          PROVE  <<i, x>> \in p /\ b[<<i, x>>] = x
      BY DEF OfSide
    <3> HIDE DEF p, k
    <3>3. b \in [p -> k]
      BY <3>1 DEF p
    <3>4. ASSUME NEW x \in k PROVE \E y \in p : b[y] = x
      BY <3>2
    <3> HIDE DEF b
    <3>5. \A x, y \in p : b[x] = b[y] => x = y
      BY <3>1
    <3> QED
      BY <3>3, <3>4, <3>5 DEF Renames
  <2>4. On(t, p) = Renamed(f, b, p)
    <3>1. \A x \in p : b[x] = x[2] /\ x \in J
      OBVIOUS
    <3>2. \A x \in p : b[x] \in k
      BY <2>3 DEF Renames
    <3> HIDE DEF p, k, b, f, t, J
    <3>3. \A x \in p : t[x] = f[b[x]]
      BY <1>2, <2>1, <3>1, <3>2
    <3> QED
      BY <3>3 DEF On, Renamed
  <2> HIDE DEF p, k, b, f, t
  <2>5. SumOver(Renamed(f, b, p)) = SumOver(f)
    BY <2>1, <2>2, <2>3, SumRenamed
  <2> QED
    BY <2>4, <2>5 DEF p, f, k
<1>7. GroupSums(t, rows, P) = SideSums(steps, comps, rows, side)
  <2> HIDE DEF t, P, K
  <2> QED
    BY <1>6 DEF GroupSums, SideSums, K
<1>8. TokensOf(comps, rows, steps, side) = SumOver(t)
  BY Zenon DEF TokensOf
<1>9. On(t, J) = t
  <2> HIDE DEF t, J
  <2> QED
    BY <1>2, SumOnAll
<1> HIDE DEF t, P, J
<1> QED
  BY <1>5, <1>7, <1>8, <1>9

\* The steps of both branches of a comparison are those of one and those of the other.
LEMMA SidesAre ==
  ASSUME NEW R, NEW B, NEW M, NEW steps \in Seq(StepRow(R, B, M)), NEW comp,
         ~ (comp.a = comp.b)
  PROVE  SumOver(On(Tokens(steps), ComparisonSteps(steps, comp))) =
           SumOver(On(Tokens(steps), OfSide(steps, comp, "a")))
             + SumOver(On(Tokens(steps), OfSide(steps, comp, "b")))
<1> DEFINE C == ComparisonSteps(steps, comp)
           X == OfSide(steps, comp, "a")
           Y == OfSide(steps, comp, "b")
           f == On(Tokens(steps), C)
<1>1. X = {k \in DOMAIN steps : comp.a = steps[k].branch}
      /\ Y = {k \in DOMAIN steps : comp.b = steps[k].branch}
  BY DEF OfSide
<1>2. C = X \union Y /\ X \intersect Y = {} /\ C \in SUBSET (DOMAIN steps)
  BY <1>1 DEF ComparisonSteps
<1>3. /\ IsFiniteSet(C) /\ f \in [C -> Int]
      /\ On(f, X) = On(Tokens(steps), X) /\ On(f, Y) = On(Tokens(steps), Y)
  <2>1. /\ Tokens(steps) \in [DOMAIN steps -> Int]
        /\ \A S \in SUBSET (DOMAIN steps) : IsFiniteSet(S)
    BY StepsAre
  <2> HIDE DEF C, X, Y
  <2> QED
    BY <1>2, <2>1 DEF On
<1> HIDE DEF C, X, Y, f
<1>4. SumOver(f) = SumOver(On(f, X)) + SumOver(On(f, Y))
  BY <1>2, <1>3, SumOfParts
<1> QED
  BY <1>3, <1>4 DEF f, C, X, Y

LEMMA TokensOfBoth ==
  ASSUME NEW R, NEW B, NEW M, NEW steps \in Seq(StepRow(R, B, M)),
         NEW comps, NEW rows, IsFiniteSet(rows), \A i \in rows : ~ (comps[i].a = comps[i].b)
  PROVE  TokensOf(comps, rows, steps, "a") + TokensOf(comps, rows, steps, "b") =
           SumOver([i \in rows |-> SumOver(On(Tokens(steps), ComparisonSteps(steps, comps[i])))])
<1> DEFINE x == SideSums(steps, comps, rows, "a")
           y == SideSums(steps, comps, rows, "b")
           both == [i \in rows |-> SumOver(On(Tokens(steps), ComparisonSteps(steps, comps[i])))]
<1>1. /\ x \in [rows -> Int] /\ TokensOf(comps, rows, steps, "a") = SumOver(x)
      /\ y \in [rows -> Int] /\ TokensOf(comps, rows, steps, "b") = SumOver(y)
  BY TokensAre
<1>2. \A i \in rows : both[i] = x[i] + y[i]
  BY SidesAre DEF SideSums
<1>3. both = [i \in rows |-> both[i]]
  OBVIOUS
<1> HIDE DEF x, y, both
<1>4. both = [i \in rows |-> x[i] + y[i]]
  BY <1>2, <1>3
<1>5. SumOver(both) = SumOver(x) + SumOver(y)
  BY <1>1, <1>4, SumOfBoth
<1> QED
  BY <1>1, <1>5 DEF both

\* Whatever the steps of an eval run are, what it costs is what its runs cost, however
\* each cost is divided among branches and models; and the tokens on its page are those
\* of its comparisons, each of which has two different branches (cost_breakdown,
\* eval_run_stats).
THEOREM CostsAddUp ==
  ASSUME NEW R, NEW B, NEW M, NEW V, NEW E, IsFiniteSet(R),
         NEW steps \in Seq(StepRow(R, B, M)), NEW comps \in Seq(Compared(E, B)),
         NEW evalOf \in [R -> V], NEW e
  PROVE  CostsAgree(steps, comps, evalOf, e)
<1> DEFINE S == EvalRunSteps(steps, evalOf, e)
           G == {x \in DOMAIN evalOf : evalOf[x] = e}
           P == [r \in G |-> RunSteps(steps, r)]
           rows == RowsOf(comps, e)
           whole == CostBreakdown(steps, S)
           runs == [r \in G |-> CostBreakdown(steps, RunSteps(steps, r))]
           compared == [i \in rows |-> CostBreakdown(steps, ComparisonSteps(steps, comps[i]))]
           tokens == EvalRunStats(comps, steps, e).tokens
<1>1. /\ IsFiniteSet(DOMAIN steps) /\ \A k \in DOMAIN steps : steps[k] \in StepRow(R, B, M)
      /\ \A T \in SUBSET (DOMAIN steps) : IsFiniteSet(T)
      /\ Costs(steps) \in [DOMAIN steps -> Int] /\ Tokens(steps) \in [DOMAIN steps -> Int]
  BY StepsAre
<1>2. IsFiniteSet(G) /\ G \subseteq R
  <2>1. G \in SUBSET R
    OBVIOUS
  <2> QED
    BY <2>1, FS_Subset
<1>3. S \in SUBSET (DOMAIN steps) /\ IsFiniteSet(S)
  <2>1. S \in SUBSET (DOMAIN steps)
    BY DEF EvalRunSteps
  <2> QED
    BY <1>1, <2>1
<1>4. ASSUME NEW r \in G
      PROVE  RunSteps(steps, r) \in SUBSET S /\ RunSteps(steps, r) \in SUBSET (DOMAIN steps)
  BY DEF RunSteps, EvalRunSteps
<1>5. Divides(P, S, G)
  <2>1. P \in [G -> SUBSET S]
    BY <1>4
  <2>2. ASSUME NEW k \in S
        PROVE  steps[k].run \in G /\ \A r \in G : k \in P[r] <=> r = steps[k].run
    <3>1. k \in DOMAIN steps /\ evalOf[steps[k].run] = e
      BY DEF EvalRunSteps
    <3>2. steps[k].run \in R
      BY <1>1, <3>1 DEF StepRow
    <3>3. \A r \in G : k \in P[r] <=> r = steps[k].run
      BY <3>1 DEF RunSteps
    <3> QED
      BY <3>1, <3>2, <3>3
  <2> HIDE DEF P, G, S
  <2> QED
    BY <2>1, <2>2 DEF Divides
<1>6. /\ whole.cost = SumOver(On(Costs(steps), S))
      /\ whole.tokens = SumOver(On(Tokens(steps), S))
  BY <1>3, BreakdownIs
<1>7. ASSUME NEW r \in G
      PROVE  /\ runs[r].cost = SumOver(On(Costs(steps), P[r]))
             /\ runs[r].tokens = SumOver(On(Tokens(steps), P[r]))
  <2>1. runs[r] = CostBreakdown(steps, RunSteps(steps, r)) /\ P[r] = RunSteps(steps, r)
    OBVIOUS
  <2> HIDE DEF runs, P, G
  <2> QED
    BY <1>4, <2>1, BreakdownIs
<1>8. DOMAIN runs = G /\ DOMAIN compared = rows
  OBVIOUS
<1>9. /\ [r \in G |-> runs[r].cost] = GroupSums(Costs(steps), G, P)
      /\ [r \in G |-> runs[r].tokens] = GroupSums(Tokens(steps), G, P)
  <2> HIDE DEF runs, P, G
  <2> QED
    BY <1>7 DEF GroupSums
<1>10. /\ SumOver(On(Costs(steps), S)) = SumOver(GroupSums(Costs(steps), G, P))
       /\ SumOver(On(Tokens(steps), S)) = SumOver(GroupSums(Tokens(steps), G, P))
  <2> HIDE DEF runs, P, G, S
  <2> QED
    BY <1>2, <1>3, <1>5, StepGroups
<1>11. tokens.a = TokensOf(comps, rows, steps, "a") /\ tokens.b = TokensOf(comps, rows, steps, "b")
  <2>1. tokens = [s \in {"a", "b"} |-> TokensOf(comps, rows, steps, s)]
    BY DEF EvalRunStats
  <2> HIDE DEF tokens
  <2> QED
    BY <2>1
<1>12. ASSUME \A i \in DOMAIN comps : comps[i].a # comps[i].b
       PROVE  tokens.a + tokens.b = SumOver([i \in rows |-> compared[i].tokens])
  <2>1. rows \subseteq DOMAIN comps /\ IsFiniteSet(rows)
    BY RowsAre
  <2>2. \A i \in rows : ~ (comps[i].a = comps[i].b)
    BY <1>12, <2>1
  <2>3. ASSUME NEW i \in rows
        PROVE  compared[i].tokens = SumOver(On(Tokens(steps), ComparisonSteps(steps, comps[i])))
    <3>1. ComparisonSteps(steps, comps[i]) \in SUBSET (DOMAIN steps)
      BY DEF ComparisonSteps
    <3>2. compared[i] = CostBreakdown(steps, ComparisonSteps(steps, comps[i]))
      OBVIOUS
    <3> HIDE DEF compared, rows
    <3> QED
      BY <3>1, <3>2, BreakdownIs
  <2> HIDE DEF rows, compared, tokens
  <2>4. [i \in rows |-> compared[i].tokens] =
          [i \in rows |-> SumOver(On(Tokens(steps), ComparisonSteps(steps, comps[i])))]
    BY <2>3
  <2>5. TokensOf(comps, rows, steps, "a") + TokensOf(comps, rows, steps, "b") =
          SumOver([i \in rows |-> SumOver(On(Tokens(steps), ComparisonSteps(steps, comps[i])))])
    BY <2>1, <2>2, TokensOfBoth
  <2> QED
    BY <1>11, <2>4, <2>5
<1>13. CostsAgree(steps, comps, evalOf, e) <=>
         /\ whole.cost = SumOver([r \in DOMAIN runs |-> runs[r].cost])
         /\ whole.tokens = SumOver([r \in DOMAIN runs |-> runs[r].tokens])
         /\ (\A i \in DOMAIN comps : comps[i].a # comps[i].b) =>
              tokens.a + tokens.b = SumOver([i \in DOMAIN compared |-> compared[i].tokens])
  BY Zenon DEF CostsAgree
<1> HIDE DEF whole, runs, compared, tokens, G, P, S, rows
<1> QED
  BY <1>6, <1>8, <1>9, <1>10, <1>12, <1>13

-----------------------------------------------------------------------------
(* The corpus of test cases.                                               *)

LEMMA FlattenBoth ==
  ASSUME NEW W, NEW ss \in Seq(Seq(W)), NEW tt \in Seq(Seq(W))
  PROVE  FlattenSeq(ss \o tt) = FlattenSeq(ss) \o FlattenSeq(tt)
<1>0. \A x, y, z \in Seq(W) : (x \o y) \o z = x \o (y \o z)
  BY ConcatAssociative
<1> DEFINE a == Len(ss)
           b == Len(tt)
           uu == ss \o tt
<1>1. a \in Nat /\ b \in Nat
  BY LenProperties
<1>2. /\ uu \in Seq(Seq(W)) /\ Len(uu) = a + b
      /\ \A k \in 1 .. a : uu[k] = ss[k]
      /\ \A k \in 1 .. b : uu[a + k] = tt[k]
  <2>1. /\ uu \in Seq(Seq(W)) /\ Len(uu) = a + b
        /\ \A k \in 1 .. a + b : uu[k] = IF k <= a THEN ss[k] ELSE tt[k - a]
    BY ConcatProperties
  <2> HIDE DEF uu, a, b
  <2>2. \A k \in 1 .. a : k \in 1 .. a + b /\ k <= a
    BY <1>1
  <2>3. \A k \in 1 .. b : a + k \in 1 .. a + b /\ ~ (a + k <= a) /\ (a + k) - a = k
    BY <1>1
  <2> QED
    BY <2>1, <2>2, <2>3
<1>3. PICK f \in [0 .. a -> Seq(W)] :
        /\ f[0] = <<>> /\ FlattenSeq(ss) = f[a]
        /\ \A k \in 1 .. a : f[k] = f[k - 1] \o ss[k]
  BY FlattenIs
<1>4. PICK g \in [0 .. b -> Seq(W)] :
        /\ g[0] = <<>> /\ FlattenSeq(tt) = g[b]
        /\ \A k \in 1 .. b : g[k] = g[k - 1] \o tt[k]
  BY FlattenIs
<1> HIDE DEF uu, a, b
<1>5. PICK h \in [0 .. a + b -> Seq(W)] :
        /\ h[0] = <<>> /\ FlattenSeq(uu) = h[a + b]
        /\ \A k \in 1 .. a + b : h[k] = h[k - 1] \o uu[k]
  <2>1. \E h \in [0 .. Len(uu) -> Seq(W)] :
          /\ h[0] = <<>> /\ FlattenSeq(uu) = h[Len(uu)]
          /\ \A k \in 1 .. Len(uu) : h[k] = h[k - 1] \o uu[k]
    <3>1. uu \in Seq(Seq(W))
      BY <1>2
    <3> QED
      BY <3>1, FlattenIs, Zenon
  <2>2. Len(uu) = a + b
    BY <1>2
  <2> QED
    BY <2>1, <2>2, Zenon
<1> DEFINE S == {k \in 0 .. a : h[k] = f[k]}
           T == {k \in 0 .. b : h[a + k] = f[a] \o g[k]}
<1>6. 0 \in S
  BY <1>1, <1>3, <1>5
<1>7. ASSUME NEW k \in 0 .. (a - 1), k \in S
      PROVE  k + 1 \in S
  <2>1. k + 1 \in 1 .. a /\ k + 1 \in 0 .. a /\ k + 1 \in 1 .. a + b /\ (k + 1) - 1 = k
    BY <1>1
  <2>2. h[k + 1] = h[k] \o uu[k + 1] /\ f[k + 1] = f[k] \o ss[k + 1] /\ uu[k + 1] = ss[k + 1]
    BY <1>2, <1>3, <1>5, <2>1
  <2> QED
    BY <1>7, <2>1, <2>2
<1>8. \A k \in 0 .. a : k \in S
  <2> HIDE DEF S
  <2> QED
    BY <1>1, <1>6, <1>7, UpTo
<1>9. h[a] = f[a] /\ f[a] \in Seq(W)
  BY <1>1, <1>3, <1>8
<1>10. 0 \in T
  <2>1. a + 0 = a /\ 0 \in 0 .. b
    BY <1>1
  <2>2. f[a] \o <<>> = f[a]
    BY <1>9, ConcatEmptySeq
  <2> QED
    BY <1>4, <1>9, <2>1, <2>2
<1>11. ASSUME NEW k \in 0 .. (b - 1), k \in T
       PROVE  k + 1 \in T
  <2>1. /\ k + 1 \in 1 .. b /\ k + 1 \in 0 .. b /\ (k + 1) - 1 = k /\ k \in 0 .. b
        /\ a + (k + 1) \in 1 .. a + b /\ (a + (k + 1)) - 1 = a + k
    BY <1>1
  <2>2. /\ h[a + (k + 1)] = h[a + k] \o uu[a + (k + 1)] /\ g[k + 1] = g[k] \o tt[k + 1]
        /\ uu[a + (k + 1)] = tt[k + 1]
    BY <1>2, <1>4, <1>5, <2>1
  <2>3. g[k] \in Seq(W) /\ tt[k + 1] \in Seq(W)
    <3>1. Len(tt) = b
      BY DEF b
    <3> QED
      BY <2>1, <3>1, ElementOfSeq
  <2>4. (f[a] \o g[k]) \o tt[k + 1] = f[a] \o (g[k] \o tt[k + 1])
    <3> DEFINE x == f[a]
               y == g[k]
               z == tt[k + 1]
    <3>1. x \in Seq(W) /\ y \in Seq(W) /\ z \in Seq(W)
      BY <1>9, <2>3
    <3> HIDE DEF x, y, z
    <3>2. (x \o y) \o z = x \o (y \o z)
      BY <1>0, <3>1, Zenon
    <3> QED
      BY <3>2 DEF x, y, z
  <2> QED
    BY <1>11, <2>1, <2>2, <2>4
<1>12. \A k \in 0 .. b : k \in T
  <2> HIDE DEF T
  <2> QED
    BY <1>1, <1>10, <1>11, UpTo
<1>13. h[a + b] = f[a] \o g[b]
  BY <1>1, <1>12
<1> QED
  BY <1>3, <1>4, <1>5, <1>13 DEF uu

\* Each element as it is kept.
Piece(W, A) == [x \in W |-> IF x \in A THEN <<x>> ELSE <<>>]

LEMMA PieceIs ==
  ASSUME NEW W, NEW A
  PROVE  Maps(Piece(W, A), W, Seq(W))
<1>1. ASSUME NEW x \in W PROVE (IF x \in A THEN <<x>> ELSE <<>>) \in Seq(W)
  <2>1. <<x>> \in Seq(W) /\ <<>> \in Seq(W)
    OBVIOUS
  <2> QED
    BY <2>1
<1> QED
  BY <1>1 DEF Piece, Maps

LEMMA KeptIs ==
  ASSUME NEW W, NEW s \in Seq(W), NEW A
  PROVE  /\ Kept(s, A) = FlattenSeq(Mapped(Piece(W, A), s))
         /\ Mapped(Piece(W, A), s) \in Seq(Seq(W))
         /\ Kept(s, A) \in Seq(W) /\ ToSet(Kept(s, A)) = ToSet(s) \intersect A
<1> DEFINE p == Piece(W, A)
           m == Mapped(p, s)
           n == Len(s)
<1>1. n \in Nat /\ DOMAIN s = 1 .. n /\ \A i \in 1 .. n : s[i] \in W
  BY LenProperties, ElementOfSeq
<1>2. \A i \in 1 .. n : p[s[i]] = IF s[i] \in A THEN <<s[i]>> ELSE <<>>
  BY <1>1 DEF Piece
<1>3. [i \in DOMAIN s |-> IF s[i] \in A THEN <<s[i]>> ELSE <<>>] = m
  BY <1>1, <1>2, Zenon DEF Mapped
<1>4. Kept(s, A) = FlattenSeq(m)
  BY <1>3, Zenon DEF Kept
<1>5. m \in Seq(Seq(W)) /\ Len(m) = n /\ \A i \in 1 .. n : m[i] = p[s[i]]
  <2>1. Maps(p, W, Seq(W))
    BY PieceIs
  <2> HIDE DEF p
  <2> QED
    BY <2>1, MappedIs
<1>6. FlattenSeq(m) \in Seq(W)
      /\ ToSet(FlattenSeq(m)) = UNION {ToSet(m[i]) : i \in 1 .. Len(m)}
  <2> HIDE DEF m
  <2> QED
    BY <1>5, FlattenMembers
<1>7. ASSUME NEW i \in 1 .. n
      PROVE  ToSet(m[i]) = {s[i]} \intersect A
  <2>1. m[i] = IF s[i] \in A THEN <<s[i]>> ELSE <<>>
    BY <1>2, <1>5
  <2>2. ToSet(<<s[i]>>) = {s[i]} /\ ToSet(<<>>) = {}
    BY DEF ToSet
  <2> HIDE DEF m, p, n
  <2> QED
    BY <2>1, <2>2
<1>8. ToSet(s) = {s[i] : i \in 1 .. n}
  BY <1>1 DEF ToSet
<1> HIDE DEF m, p, n
<1>9. UNION {ToSet(m[i]) : i \in 1 .. n} = ToSet(s) \intersect A
  BY <1>7, <1>8
<1> QED
  BY <1>4, <1>5, <1>6, <1>9 DEF m, p

LEMMA KeptNone ==
  ASSUME NEW A
  PROVE  Kept(<<>>, A) = <<>>
<1>1. [n \in DOMAIN <<>> |-> IF <<>>[n] \in A THEN <<<<>>[n]>> ELSE <<>>] = <<>>
  OBVIOUS
<1>2. FlattenSeq(<<>>) = <<>>
  BY DEF FlattenSeq
<1> QED
  BY <1>1, <1>2, Zenon DEF Kept

LEMMA KeptOne ==
  ASSUME NEW W, NEW x \in W, NEW A
  PROVE  Kept(<<x>>, A) = IF x \in A THEN <<x>> ELSE <<>>
<1> DEFINE y == IF x \in A THEN <<x>> ELSE <<>>
<1>1. y \in Seq(W)
  <2>1. <<x>> \in Seq(W) /\ <<>> \in Seq(W)
    OBVIOUS
  <2> QED
    BY <2>1
<1>2. [n \in DOMAIN <<x>> |-> IF <<x>>[n] \in A THEN <<<<x>>[n]>> ELSE <<>>] = <<y>>
  <2>1. DOMAIN <<x>> = {1} /\ <<x>>[1] = x
    OBVIOUS
  <2> HIDE DEF y
  <2>2. ASSUME NEW n \in {1} PROVE (IF <<x>>[n] \in A THEN <<<<x>>[n]>> ELSE <<>>) = y
    BY <2>1 DEF y
  <2>3. <<y>> = [n \in {1} |-> y]
    OBVIOUS
  <2> QED
    BY <2>1, <2>2, <2>3
<1>3. Kept(<<x>>, A) = FlattenSeq(<<y>>)
  BY <1>2, Zenon DEF Kept
<1> HIDE DEF y
<1>4. FlattenSeq(<<y>> \o <<>>) = y \o FlattenSeq(<<>>)
  <2>1. <<>> \in Seq(Seq(W))
    OBVIOUS
  <2> QED
    BY <1>1, <2>1, FlattenFirst
<1>5. FlattenSeq(<<>>) = <<>>
  BY DEF FlattenSeq
<1>6. <<y>> \o <<>> = <<y>> /\ y \o <<>> = y
  <2>1. <<y>> \in Seq(Seq(W))
    BY <1>1
  <2> QED
    BY <1>1, <2>1, ConcatEmptySeq
<1> QED
  BY <1>3, <1>4, <1>5, <1>6 DEF y

LEMMA KeptBoth ==
  ASSUME NEW W, NEW s \in Seq(W), NEW t \in Seq(W), NEW A
  PROVE  Kept(s \o t, A) = Kept(s, A) \o Kept(t, A)
<1> DEFINE p == Piece(W, A)
           u == s \o t
<1>1. u \in Seq(W)
  BY SetOfBoth
<1>2. Maps(p, W, Seq(W))
  BY PieceIs
<1> HIDE DEF p
<1>3. Mapped(p, u) = Mapped(p, s) \o Mapped(p, t)
  BY <1>2, MappedBoth
<1> HIDE DEF u
<1>4. /\ Kept(u, A) = FlattenSeq(Mapped(p, u))
      /\ Kept(s, A) = FlattenSeq(Mapped(p, s)) /\ Mapped(p, s) \in Seq(Seq(W))
      /\ Kept(t, A) = FlattenSeq(Mapped(p, t)) /\ Mapped(p, t) \in Seq(Seq(W))
  BY <1>1, KeptIs DEF p
<1>5. FlattenSeq(Mapped(p, s) \o Mapped(p, t)) =
        FlattenSeq(Mapped(p, s)) \o FlattenSeq(Mapped(p, t))
  <2> DEFINE x == Mapped(p, s)
             y == Mapped(p, t)
  <2>1. x \in Seq(Seq(W)) /\ y \in Seq(Seq(W))
    BY <1>4
  <2> HIDE DEF x, y
  <2>2. FlattenSeq(x \o y) = FlattenSeq(x) \o FlattenSeq(y)
    BY <2>1, FlattenBoth
  <2> QED
    BY <2>2 DEF x, y
<1> QED
  BY <1>3, <1>4, <1>5 DEF u

\* Keeping of what is put together is putting together what is kept.
LEMMA KeptFlatten ==
  ASSUME NEW W, NEW A, NEW ss \in Seq(Seq(W)), NEW tt \in Seq(Seq(W)),
         Len(tt) = Len(ss), \A i \in 1 .. Len(ss) : tt[i] = Kept(ss[i], A)
  PROVE  Kept(FlattenSeq(ss), A) = FlattenSeq(tt)
<1> DEFINE n == Len(ss)
<1>1. n \in Nat /\ \A k \in 1 .. n : ss[k] \in Seq(W)
  BY LenProperties, ElementOfSeq
<1>2. PICK g \in [0 .. n -> Seq(W)] :
        /\ g[0] = <<>> /\ FlattenSeq(ss) = g[n]
        /\ \A k \in 1 .. n : g[k] = g[k - 1] \o ss[k]
  BY FlattenIs
<1> HIDE DEF n
<1>3. PICK f \in [0 .. n -> Seq(W)] :
        /\ f[0] = <<>> /\ FlattenSeq(tt) = f[n]
        /\ \A k \in 1 .. n : f[k] = f[k - 1] \o tt[k]
  <2>1. \E f \in [0 .. Len(tt) -> Seq(W)] :
          /\ f[0] = <<>> /\ FlattenSeq(tt) = f[Len(tt)]
          /\ \A k \in 1 .. Len(tt) : f[k] = f[k - 1] \o tt[k]
    BY FlattenIs
  <2>2. Len(tt) = n
    BY DEF n
  <2> QED
    BY <2>1, <2>2, Zenon
<1> DEFINE S == {k \in 0 .. n : Kept(g[k], A) = f[k]}
<1>4. 0 \in S
  BY <1>1, <1>2, <1>3, KeptNone
<1>5. ASSUME NEW k \in 0 .. (n - 1), k \in S
      PROVE  k + 1 \in S
  <2>1. k + 1 \in 1 .. n /\ k + 1 \in 0 .. n /\ k \in 0 .. n /\ (k + 1) - 1 = k
    BY <1>1
  <2>2. g[k] \in Seq(W) /\ ss[k + 1] \in Seq(W)
    BY <1>1, <2>1
  <2>3. g[k + 1] = g[k] \o ss[k + 1] /\ f[k + 1] = f[k] \o tt[k + 1]
    BY <1>2, <1>3, <2>1
  <2>4. tt[k + 1] = Kept(ss[k + 1], A)
    BY <2>1 DEF n
  <2>5. Kept(g[k] \o ss[k + 1], A) = Kept(g[k], A) \o Kept(ss[k + 1], A)
    <3> DEFINE u == g[k]
               v == ss[k + 1]
    <3>1. u \in Seq(W) /\ v \in Seq(W)
      BY <2>2
    <3> HIDE DEF u, v
    <3>2. Kept(u \o v, A) = Kept(u, A) \o Kept(v, A)
      BY <3>1, KeptBoth
    <3> QED
      BY <3>2 DEF u, v
  <2>6. Kept(g[k], A) = f[k]
    BY <1>5
  <2> QED
    BY <2>1, <2>3, <2>4, <2>5, <2>6
<1>6. \A k \in 0 .. n : k \in S
  <2> HIDE DEF S
  <2> QED
    BY <1>1, <1>4, <1>5, UpTo
<1>7. n \in 0 .. n
  BY <1>1
<1>8. Kept(g[n], A) = f[n]
  BY <1>6, <1>7
<1> QED
  BY <1>2, <1>3, <1>8

\* Keeping twice is keeping what is in both sets.
LEMMA KeptTwice ==
  ASSUME NEW W, NEW s \in Seq(W), NEW A, NEW B
  PROVE  Kept(Kept(s, A), B) = Kept(s, A \intersect B)
<1> DEFINE p == Piece(W, A)
           q == Piece(W, A \intersect B)
           ss == Mapped(p, s)
           tt == Mapped(q, s)
           n == Len(s)
<1>1. n \in Nat /\ \A i \in 1 .. n : s[i] \in W
  BY LenProperties, ElementOfSeq
<1>2. /\ ss \in Seq(Seq(W)) /\ Kept(s, A) = FlattenSeq(ss)
      /\ tt \in Seq(Seq(W)) /\ Kept(s, A \intersect B) = FlattenSeq(tt)
  BY KeptIs
<1>3. /\ Len(ss) = n /\ \A i \in 1 .. n : ss[i] = p[s[i]]
      /\ Len(tt) = n /\ \A i \in 1 .. n : tt[i] = q[s[i]]
  <2>1. Maps(p, W, Seq(W)) /\ Maps(q, W, Seq(W))
    BY PieceIs
  <2> HIDE DEF p, q
  <2> QED
    BY <2>1, MappedIs
<1>4. ASSUME NEW i \in 1 .. n
      PROVE  tt[i] = Kept(ss[i], B)
  <2> DEFINE x == s[i]
  <2>1. x \in W
    BY <1>1
  <2>2. /\ ss[i] = IF x \in A THEN <<x>> ELSE <<>>
        /\ tt[i] = IF x \in A \intersect B THEN <<x>> ELSE <<>>
    BY <1>3, <2>1 DEF Piece
  <2> HIDE DEF x, ss, tt
  <2>3. Kept(<<x>>, B) = IF x \in B THEN <<x>> ELSE <<>>
    BY <2>1, KeptOne
  <2>4. Kept(<<>>, B) = <<>>
    BY KeptNone
  <2> QED
    BY <2>2, <2>3, <2>4
<1> HIDE DEF p, q, ss, tt, n
<1>5. Kept(FlattenSeq(ss), B) = FlattenSeq(tt)
  <2>1. Len(tt) = Len(ss) /\ \A i \in 1 .. Len(ss) : tt[i] = Kept(ss[i], B)
    BY <1>3, <1>4
  <2>2. ss \in Seq(Seq(W)) /\ tt \in Seq(Seq(W))
    BY <1>2
  <2> QED
    BY <2>1, <2>2, KeptFlatten
<1> QED
  BY <1>2, <1>5

\* What is kept depends on the elements of the sequence only.
LEMMA KeptSame ==
  ASSUME NEW W, NEW s \in Seq(W), NEW A, NEW B, ToSet(s) \intersect A = ToSet(s) \intersect B
  PROVE  Kept(s, A) = Kept(s, B)
<1>1. \A n \in DOMAIN s : s[n] \in A <=> s[n] \in B
  BY DEF ToSet
<1>2. [n \in DOMAIN s |-> IF s[n] \in A THEN <<s[n]>> ELSE <<>>] =
        [n \in DOMAIN s |-> IF s[n] \in B THEN <<s[n]>> ELSE <<>>]
  BY <1>1
<1> QED
  BY <1>2, Zenon DEF Kept

LEMMA MappedOne ==
  ASSUME NEW W, NEW X, NEW h \in [W -> X], NEW x \in W
  PROVE  Mapped(h, <<x>>) = <<h[x]>>
<1>1. DOMAIN <<x>> = {1} /\ <<x>>[1] = x
  OBVIOUS
<1>2. Mapped(h, <<x>>) = [i \in {1} |-> h[x]]
  BY <1>1 DEF Mapped
<1>3. [i \in {1} |-> h[x]] = <<h[x]>>
  OBVIOUS
<1> QED
  BY <1>2, <1>3

\* h takes what is in A to what is in B, and nothing else.
Takes(h, W, A, B) == \A x \in W : x \in A <=> h[x] \in B

\* Keeping the images of what is in A is mapping what is kept.
LEMMA KeptMapped ==
  ASSUME NEW W, NEW X, NEW h, Maps(h, W, X), NEW s \in Seq(W), NEW A, NEW B, Takes(h, W, A, B)
  PROVE  Kept(Mapped(h, s), B) = Mapped(h, Kept(s, A))
<1> DEFINE p == Piece(W, A)
           q == Piece(X, B)
           m == Mapped(h, s)
           ss == Mapped(p, s)
           tt == Mapped(q, m)
           n == Len(s)
<1>1. n \in Nat /\ \A i \in 1 .. n : s[i] \in W
  BY LenProperties, ElementOfSeq
<1>2. m \in Seq(X) /\ Len(m) = n /\ \A i \in 1 .. n : m[i] = h[s[i]]
  BY MappedIs
<1>3. /\ ss \in Seq(Seq(W)) /\ Kept(s, A) = FlattenSeq(ss)
  BY KeptIs
<1>4. /\ tt \in Seq(Seq(X)) /\ Kept(m, B) = FlattenSeq(tt)
  <2> HIDE DEF m
  <2> QED
    BY <1>2, KeptIs
<1>5. /\ Len(ss) = n /\ \A i \in 1 .. n : ss[i] = p[s[i]]
      /\ Len(tt) = n /\ \A i \in 1 .. n : tt[i] = q[m[i]]
  <2>1. Maps(p, W, Seq(W)) /\ Maps(q, X, Seq(X))
    BY PieceIs
  <2> HIDE DEF p, q, m
  <2>2. Len(ss) = Len(s) /\ \A i \in 1 .. Len(s) : ss[i] = p[s[i]]
    BY <2>1, MappedIs
  <2>3. Len(tt) = Len(m) /\ \A i \in 1 .. Len(m) : tt[i] = q[m[i]]
    BY <1>2, <2>1, MappedIs
  <2> QED
    BY <1>2, <2>2, <2>3
<1>6. ASSUME NEW i \in 1 .. n
      PROVE  tt[i] = Mapped(h, ss[i])
  <2> DEFINE x == s[i]
             y == h[x]
  <2>1. x \in W /\ y \in X /\ m[i] = y
    BY <1>1, <1>2 DEF Maps
  <2>2. /\ ss[i] = IF x \in A THEN <<x>> ELSE <<>>
        /\ tt[i] = IF y \in B THEN <<y>> ELSE <<>>
    <3>1. ss[i] = p[x] /\ tt[i] = q[y]
      BY <1>5, <2>1
    <3> HIDE DEF x, y, ss, tt
    <3> QED
      BY <2>1, <3>1 DEF Piece
  <2>3. Mapped(h, <<x>>) = <<y>> /\ Mapped(h, <<>>) = <<>>
    <3>1. <<>> \in Seq(W) /\ Len(<<>>) = 0
      OBVIOUS
    <3>2. Mapped(h, <<>>) = <<>>
      BY <3>1, MappedEmpty
    <3>3. h \in [W -> X]
      BY DEF Maps
    <3> HIDE DEF x
    <3>4. Mapped(h, <<x>>) = <<h[x]>>
      BY <2>1, <3>3, MappedOne
    <3> QED
      BY <3>2, <3>4
  <2>4. x \in A <=> y \in B
    BY <2>1 DEF Takes
  <2> HIDE DEF x, y, ss, tt
  <2> QED
    BY <2>2, <2>3, <2>4
<1> HIDE DEF p, q, ss, tt, n, m
<1>7. Mapped(h, FlattenSeq(ss)) = FlattenSeq(tt)
  <2>1. Len(tt) = Len(ss)
    BY <1>5
  <2>2. \A i \in 1 .. Len(ss) : tt[i] = Mapped(h, ss[i])
    BY <1>5, <1>6
  <2>3. ss \in Seq(Seq(W))
    BY <1>3
  <2>4. tt \in Seq(Seq(X))
    BY <1>4
  <2>5. MapsEach(h, ss, tt)
    BY <2>1, <2>2 DEF MapsEach
  <2> QED
    BY <2>3, <2>4, <2>5, MappedFlatten
<1> QED
  BY <1>3, <1>4, <1>7 DEF m

Case(L, F) == [label : L, workflow : F]
Often(cases, rows, m) ==
  {i \in DOMAIN cases : PerformanceStats(rows, cases[i].label, AnyWorkflow).runs >= m}
LinesAsked(cases, rows, w, m) ==
  {i \in DOMAIN cases : w \in {AnyWorkflow, cases[i].workflow} /\ i \in Often(cases, rows, m)}
Places(s) == [i \in DOMAIN s |-> i]

\* The record of a line, if the lines are those of S.
LineOf(cases, rows, S) ==
  [i \in DOMAIN cases |->
     [case |-> i,
      performance |->
        PerformanceStats(rows, cases[i].label,
                         cases[Min({j \in S : cases[j].label = cases[i].label})].workflow)]]

LEMMA PlacesAre ==
  ASSUME NEW W, NEW s \in Seq(W)
  PROVE  /\ Places(s) \in Seq(DOMAIN s) /\ ToSet(Places(s)) = DOMAIN s
         /\ DOMAIN s \subseteq Int /\ IsFiniteSet(DOMAIN s)
<1>1. Len(s) \in Nat /\ DOMAIN s = 1 .. Len(s)
  BY LenProperties
<1>2. Places(s) \in [1 .. Len(s) -> DOMAIN s]
  BY <1>1 DEF Places
<1>3. Places(s) \in Seq(DOMAIN s)
  BY <1>1, <1>2, FunctionIsSeq
<1>4. ToSet(Places(s)) = DOMAIN s
  BY DEF ToSet, Places
<1>5. IsFiniteSet(DOMAIN s)
  BY <1>1, FS_Interval
<1> QED
  BY <1>1, <1>3, <1>4, <1>5

LEMMA ExportIs ==
  ASSUME NEW L, NEW F, NEW cases \in Seq(Case(L, F)), NEW rows, NEW w, NEW m, NEW S, NEW lines,
         S = LinesAsked(cases, rows, w, m), lines = Kept(Places(cases), S)
  PROVE  /\ lines \in Seq(DOMAIN cases) /\ ToSet(lines) = S
         /\ ExportTestCaseCorpus(cases, rows, w, m) = Mapped(LineOf(cases, rows, S), lines)
<1> DEFINE D == DOMAIN cases
           h == LineOf(cases, rows, S)
<1>1. /\ Places(cases) \in Seq(D) /\ ToSet(Places(cases)) = D
  BY PlacesAre
<1>2. lines \in Seq(D) /\ ToSet(lines) = D \intersect S
  <2> HIDE DEF D
  <2> QED
    BY <1>1, KeptIs
<1>3. D \intersect S = S
  BY DEF LinesAsked
<1>4. S = {i \in D : w \in {AnyWorkflow, cases[i].workflow}
                     /\ PerformanceStats(rows, cases[i].label, AnyWorkflow).runs >= m}
  BY DEF LinesAsked, Often
<1>5. ExportTestCaseCorpus(cases, rows, w, m) =
        [n \in DOMAIN lines |->
           [case |-> lines[n],
            performance |->
              PerformanceStats(
                rows, cases[lines[n]].label,
                cases[Min({j \in ToSet(lines) :
                             cases[j].label = cases[lines[n]].label})].workflow)]]
  BY <1>4, Zenon DEF ExportTestCaseCorpus, Places
<1>6. ToSet(lines) = S /\ \A n \in DOMAIN lines : lines[n] \in D
  BY <1>2, <1>3 DEF ToSet
<1>7. ASSUME NEW n \in DOMAIN lines
      PROVE  [case |-> lines[n],
              performance |->
                PerformanceStats(
                  rows, cases[lines[n]].label,
                  cases[Min({j \in ToSet(lines) :
                               cases[j].label = cases[lines[n]].label})].workflow)]
             = h[lines[n]]
  <2> DEFINE i == lines[n]
  <2>1. i \in D
    BY <1>6
  <2>2. h[i] = [case |-> i,
                performance |->
                  PerformanceStats(rows, cases[i].label,
                    cases[Min({j \in S : cases[j].label = cases[i].label})].workflow)]
    BY <2>1, Zenon DEF LineOf
  <2> QED
    BY <1>6, <2>2, Zenon
<1>8. ExportTestCaseCorpus(cases, rows, w, m) = Mapped(h, lines)
  BY <1>5, <1>7, Zenon DEF Mapped
<1> QED
  BY <1>2, <1>3, <1>8

\* The case whose record stands for a line's is one of the lines, with the same label.
LEMMA FirstLineIs ==
  ASSUME NEW L, NEW F, NEW cases \in Seq(Case(L, F)), NEW S \in SUBSET (DOMAIN cases), NEW i \in S
  PROVE  /\ Min({j \in S : cases[j].label = cases[i].label}) \in S
         /\ cases[Min({j \in S : cases[j].label = cases[i].label})].label = cases[i].label
<1> DEFINE T == {j \in S : cases[j].label = cases[i].label}
<1>1. DOMAIN cases \subseteq Int /\ IsFiniteSet(DOMAIN cases)
  BY PlacesAre
<1>2. T \in SUBSET Int /\ T # {} /\ IsFiniteSet(T)
  <2>1. T \in SUBSET (DOMAIN cases)
    OBVIOUS
  <2> QED
    BY <1>1, <2>1, FS_Subset
<1>3. Min(T) \in T
  <2> HIDE DEF T
  <2> QED
    BY <1>2, Bounds
<1> QED
  BY <1>3

\* Whatever cases and whatever record of runs there are, a line of a workflow's corpus has
\* the record of its case in that workflow, although a label is looked up once only; and
\* as long as no two workflows share a label the corpus of everything has the same lines
\* (export_test_case_corpus_jsonl).
THEOREM CorpusKeepsRecords ==
  ASSUME NEW L, NEW F, AnyWorkflow \notin F, NEW cases \in Seq(Case(L, F)), NEW rows, NEW m
  PROVE  CorpusIsOwn(cases, rows, m)
<1> DEFINE D == DOMAIN cases
           all == ExportTestCaseCorpus(cases, rows, AnyWorkflow, m)
           distinct == \A i, j \in D : cases[i].label = cases[j].label =>
                         cases[i].workflow = cases[j].workflow
           Own(line) == line.performance =
             PerformanceStats(rows, cases[line.case].label, cases[line.case].workflow)
           Of(w) == ExportTestCaseCorpus(cases, rows, w, m)
           these(w) == {line \in ToSet(all) : cases[line.case].workflow = w}
<1>1. \A i \in D : cases[i].workflow \in F
  <2>1. \A i \in D : cases[i] \in Case(L, F)
    BY LenProperties, ElementOfSeq
  <2> QED
    BY <2>1 DEF Case
<1> SUFFICES ASSUME NEW w \in {cases[i].workflow : i \in D}
             PROVE  /\ \A line \in ToSet(Of(w)) : Own(line)
                    /\ distinct => Of(w) = Kept(all, these(w))
  BY Zenon DEF CorpusIsOwn
<1> DEFINE S == LinesAsked(cases, rows, w, m)
           U == LinesAsked(cases, rows, AnyWorkflow, m)
           A == {i \in D : cases[i].workflow = w}
           h == LineOf(cases, rows, S)
           k == LineOf(cases, rows, U)
           lines == Kept(Places(cases), S)
           every == Kept(Places(cases), U)
<1>2. w \in F /\ w # AnyWorkflow
  BY <1>1
<1>3. /\ S \in SUBSET D /\ U \in SUBSET D /\ S = U \intersect A
      /\ \A i \in S : cases[i].workflow = w
  BY <1>2 DEF LinesAsked
<1>4. /\ lines \in Seq(D) /\ ToSet(lines) = S /\ Of(w) = Mapped(h, lines)
  BY ExportIs
<1>5. /\ every \in Seq(D) /\ ToSet(every) = U /\ all = Mapped(k, every)
  BY ExportIs
<1> DEFINE first(T, i) == Min({j \in T : cases[j].label = cases[i].label})
<1>6. /\ \A i \in D : h[i] = [case |-> i, performance |->
                PerformanceStats(rows, cases[i].label, cases[first(S, i)].workflow)]
      /\ \A i \in D : k[i] = [case |-> i, performance |->
                PerformanceStats(rows, cases[i].label, cases[first(U, i)].workflow)]
  BY Zenon DEF LineOf
<1>7. ASSUME NEW i \in S
      PROVE  h[i] = [case |-> i,
                     performance |-> PerformanceStats(rows, cases[i].label, w)]
  <2>1. first(S, i) \in S
    <3> HIDE DEF S
    <3> QED
      BY <1>3, FirstLineIs
  <2>2. cases[first(S, i)].workflow = w /\ i \in D
    BY <1>3, <2>1
  <2> HIDE DEF h, S, first
  <2> QED
    BY <1>6, <2>2
<1>8. ASSUME NEW i \in S, distinct
      PROVE  k[i] = h[i]
  <2>1. i \in U /\ i \in D /\ cases[i].workflow = w
    BY <1>3
  <2>2. first(U, i) \in U /\ cases[first(U, i)].label = cases[i].label
    <3> HIDE DEF U
    <3> QED
      BY <1>3, <2>1, FirstLineIs
  <2>3. first(U, i) \in D
    BY <1>3, <2>2
  <2>4. cases[first(U, i)].workflow = w
    BY <1>8, <2>1, <2>2, <2>3
  <2> HIDE DEF h, k, S, U, first
  <2>5. k[i] = [case |-> i, performance |-> PerformanceStats(rows, cases[i].label, w)]
    BY <1>6, <2>1, <2>4
  <2> QED
    BY <1>7, <2>5
<1>9. ASSUME NEW line \in ToSet(Of(w))
      PROVE  Own(line)
  <2>1. PICK n \in DOMAIN lines : line = h[lines[n]]
    <3>1. ToSet(Mapped(h, lines)) = {Mapped(h, lines)[n] : n \in DOMAIN Mapped(h, lines)}
      BY DEF ToSet
    <3>2. DOMAIN Mapped(h, lines) = DOMAIN lines
          /\ \A n \in DOMAIN lines : Mapped(h, lines)[n] = h[lines[n]]
      <4> HIDE DEF h, lines
      <4> QED
        BY DEF Mapped
    <3> HIDE DEF h, lines
    <3> QED
      BY <1>4, <1>9, <3>1, <3>2
  <2> DEFINE i == lines[n]
  <2>2. i \in S
    <3> HIDE DEF lines, S
    <3> QED
      BY <1>4 DEF ToSet
  <2>3. line = [case |-> i, performance |-> PerformanceStats(rows, cases[i].label, w)]
    <3> HIDE DEF h, S, lines
    <3> QED
      BY <1>7, <2>1, <2>2
  <2>4. cases[i].workflow = w
    BY <1>3, <2>2
  <2> HIDE DEF i
  <2>5. line.case = i /\ line.performance = PerformanceStats(rows, cases[i].label, w)
    BY <2>3
  <2> QED
    BY <2>4, <2>5
<1>10. ASSUME distinct
       PROVE  Of(w) = Kept(all, these(w))
  <2> DEFINE X == {k[i] : i \in D}
             B == {x \in X : cases[x.case].workflow = w}
  <2>1. Maps(k, D, X)
    <3>1. DOMAIN k = D /\ k = [i \in D |-> k[i]]
      BY DEF LineOf
    <3> HIDE DEF k
    <3> QED
      BY <3>1 DEF Maps
  <2>2. Takes(k, D, A, B)
    <3> SUFFICES ASSUME NEW i \in D
                 PROVE  i \in A <=> k[i] \in B
      BY DEF Takes
    <3>1. k[i].case = i
      <4>1. \A v : [case |-> i, performance |-> v].case = i
        OBVIOUS
      <4>2. k[i] = [case |-> i, performance |->
              PerformanceStats(rows, cases[i].label, cases[first(U, i)].workflow)]
        BY <1>6, Zenon
      <4> QED
        BY <4>1, <4>2, Zenon
    <3> HIDE DEF k
    <3> QED
      BY <3>1
  <2>3. all \in Seq(X)
    <3> HIDE DEF all, k, every, D, X
    <3> QED
      BY <1>5, <2>1, MappedIs
  <2>4. Kept(all, these(w)) = Kept(all, B)
    <3>1. ToSet(all) \subseteq X
      <4> HIDE DEF all, X
      <4> QED
        BY <2>3, SetOfSeq
    <3>2. ToSet(all) \intersect these(w) = ToSet(all) \intersect B
      <4> HIDE DEF all, X
      <4> QED
        BY <3>1
    <3> HIDE DEF all, X, B, these
    <3> QED
      BY <2>3, <3>2, KeptSame
  <2>5. Kept(all, B) = Mapped(k, Kept(every, A))
    <3> HIDE DEF all, X, B, A, k, every, D
    <3> QED
      BY <1>5, <2>1, <2>2, KeptMapped
  <2>6. Kept(every, A) = lines
    <3>1. Places(cases) \in Seq(D)
      BY PlacesAre
    <3> DEFINE p == Places(cases)
    <3> HIDE DEF p, U, S, A, D
    <3>2. Kept(Kept(p, U), A) = Kept(p, U \intersect A)
      BY <3>1, KeptTwice DEF p
    <3> QED
      BY <1>3, <3>2 DEF p
  <2>7. Mapped(k, lines) = Mapped(h, lines)
    <3>1. \A n \in DOMAIN lines : lines[n] \in S
      <4> HIDE DEF lines, S
      <4> QED
        BY <1>4 DEF ToSet
    <3>2. \A n \in DOMAIN lines : k[lines[n]] = h[lines[n]]
      <4> HIDE DEF lines, S, h, k
      <4> QED
        BY <1>8, <1>10, <3>1
    <3> HIDE DEF lines, S, h, k
    <3> QED
      BY <3>2 DEF Mapped
  <2> HIDE DEF all, k, h, lines, every, A, B, S, U, Of, these
  <2> QED
    BY <1>4, <2>4, <2>5, <2>6, <2>7
<1> QED
  BY <1>9, <1>10

-----------------------------------------------------------------------------
(* The table of distances.                                                 *)

LEMMA LeastOfThree ==
  ASSUME NEW x \in Nat, NEW y \in Nat, NEW z \in Nat
  PROVE  /\ Min({x, y, z}) \in {x, y, z} /\ Min({x, y, z}) \in Nat
         /\ Min({x, y, z}) <= x /\ Min({x, y, z}) <= y /\ Min({x, y, z}) <= z
<1> DEFINE S == {x, y, z}
<1>1. IsFiniteSet(S) /\ S # {} /\ S \in SUBSET Int /\ S \in SUBSET Nat
  <2>1. IsFiniteSet({x})
    BY FS_Singleton
  <2>2. IsFiniteSet({x} \union {y})
    BY <2>1, FS_AddElement
  <2>3. IsFiniteSet(({x} \union {y}) \union {z})
    BY <2>2, FS_AddElement
  <2>4. S = ({x} \union {y}) \union {z}
    OBVIOUS
  <2> QED
    BY <2>3, <2>4
<1> HIDE DEF S
<1>2. Min(S) \in S /\ \A u \in S : Min(S) <= u
  BY <1>1, Bounds
<1>3. x \in S /\ y \in S /\ z \in S
  BY DEF S
<1> QED
  BY <1>1, <1>2, <1>3 DEF S

\* What a pairing of two steps costs.
Cost(x, y) == IF x = y THEN 0 ELSE 1

\* What a row r has to be, after prev.
RowAfter(r, prev, i, x, b) ==
  /\ r \in [0 .. Len(b) -> Nat]
  /\ r[0] = i
  /\ \A j \in 1 .. Len(b) :
       r[j] = Min({r[j - 1] + 1, prev[j] + 1, prev[j - 1] + Cost(x, b[j])})

LEMMA RowIs ==
  ASSUME NEW W, NEW b \in Seq(W), NEW prev \in [0 .. Len(b) -> Nat], NEW i \in Nat, NEW x
  PROVE  RowAfter(NextRow(prev, i, x, b), prev, i, x, b)
<1> DEFINE n == Len(b)
           F(c) == [j \in 0 .. n |->
                      IF j = 0 THEN i
                      ELSE Min({c[j - 1] + 1, prev[j] + 1, prev[j - 1] + Cost(x, b[j])})]
           r == CHOOSE c : c = F(c)
           step == [j \in 1 .. n |->
                      [v \in Nat |-> Min({v + 1, prev[j] + 1, prev[j - 1] + Cost(x, b[j])})]]
<1>1. n \in Nat
  BY LenProperties
<1>2. NextRow(prev, i, x, b) = r
  BY Zenon DEF NextRow, Cost
<1>3. \A j \in 1 .. n : /\ j \in 0 .. n /\ j - 1 \in 0 .. n /\ j # 0
                        /\ prev[j] \in Nat /\ prev[j - 1] \in Nat
                        /\ Cost(x, b[j]) \in Nat
  BY <1>1 DEF Cost
<1>4. step \in [1 .. n -> [Nat -> Nat]]
  <2> SUFFICES ASSUME NEW j \in 1 .. n, NEW v \in Nat
               PROVE  Min({v + 1, prev[j] + 1, prev[j - 1] + Cost(x, b[j])}) \in Nat
    BY Zenon
  <2>1. v + 1 \in Nat /\ prev[j] + 1 \in Nat /\ prev[j - 1] + Cost(x, b[j]) \in Nat
    BY <1>3
  <2> QED
    BY <2>1, LeastOfThree
<1>5. \A j \in 1 .. n, v \in Nat :
        step[j][v] = Min({v + 1, prev[j] + 1, prev[j - 1] + Cost(x, b[j])})
  BY Zenon
<1>6. PICK g : Iterates(g, n, Nat, i, step)
  <2> HIDE DEF step, n
  <2> QED
    BY <1>1, <1>4, Recursion
<1>7. g \in [0 .. n -> Nat] /\ g[0] = i /\ \A j \in 1 .. n : g[j] = step[j][g[j - 1]]
  BY <1>6 DEF Iterates
<1>8. \A j \in 1 .. n :
        g[j] = Min({g[j - 1] + 1, prev[j] + 1, prev[j - 1] + Cost(x, b[j])})
  <2> SUFFICES ASSUME NEW j \in 1 .. n
               PROVE  g[j] = Min({g[j - 1] + 1, prev[j] + 1, prev[j - 1] + Cost(x, b[j])})
    OBVIOUS
  <2>1. g[j - 1] \in Nat
    BY <1>3, <1>7
  <2> HIDE DEF step, n
  <2> QED
    BY <1>5, <1>7, <2>1
<1>9. g = F(g)
  <2>1. F(g) = [j \in 0 .. n |-> g[j]]
    <3> SUFFICES ASSUME NEW j \in 0 .. n
                 PROVE  g[j] = IF j = 0 THEN i
                               ELSE Min({g[j - 1] + 1, prev[j] + 1,
                                         prev[j - 1] + Cost(x, b[j])})
      BY Zenon
    <3>1. CASE j = 0
      BY <1>7, <3>1
    <3>2. CASE j # 0
      <4>1. j \in 1 .. n
        BY <1>1, <3>2
      <4> QED
        BY <1>8, <3>2, <4>1
    <3> QED
      BY <3>1, <3>2
  <2> QED
    BY <1>7, <2>1
<1>10. r = F(r)
  <2> HIDE DEF F
  <2> QED
    BY <1>9
<1> HIDE DEF r
<1>11. \A j \in 0 .. n :
         r[j] = IF j = 0 THEN i
                ELSE Min({r[j - 1] + 1, prev[j] + 1, prev[j - 1] + Cost(x, b[j])})
  <2> DEFINE G == F(r)
  <2>1. \A j \in 0 .. n :
          G[j] = IF j = 0 THEN i
                 ELSE Min({r[j - 1] + 1, prev[j] + 1, prev[j - 1] + Cost(x, b[j])})
    BY Zenon
  <2>2. r = G
    BY <1>10
  <2> HIDE DEF G, n
  <2> QED
    BY <2>1, <2>2
<1>12. r[0] = i
  <2>1. 0 \in 0 .. n
    BY <1>1
  <2> QED
    BY <1>11, <2>1, Zenon
<1>13. \A j \in 1 .. n :
         r[j] = Min({r[j - 1] + 1, prev[j] + 1, prev[j - 1] + Cost(x, b[j])})
  BY <1>3, <1>11
<1>14. DOMAIN r = 0 .. n
  BY <1>10, Zenon
<1>15. \A j \in 0 .. n : r[j] \in Nat
  <2> DEFINE S == {j \in 0 .. n : r[j] \in Nat}
  <2>1. 0 \in S
    BY <1>1, <1>12
  <2>2. ASSUME NEW j \in 0 .. (n - 1), j \in S PROVE j + 1 \in S
    <3>1. j + 1 \in 1 .. n /\ j + 1 \in 0 .. n /\ (j + 1) - 1 = j /\ r[j] \in Nat
      BY <1>1, <2>2
    <3>2. /\ r[j] + 1 \in Nat /\ prev[j + 1] + 1 \in Nat
          /\ prev[j] + Cost(x, b[j + 1]) \in Nat
      BY <1>3, <3>1
    <3>3. r[j + 1] = Min({r[j] + 1, prev[j + 1] + 1, prev[j] + Cost(x, b[j + 1])})
      BY <1>13, <3>1
    <3> DEFINE u == r[j] + 1
               v == prev[j + 1] + 1
               w == prev[j] + Cost(x, b[j + 1])
    <3> HIDE DEF u, v, w
    <3>4. r[j + 1] \in Nat
      <4>1. u \in Nat /\ v \in Nat /\ w \in Nat
        BY <3>2, Zenon DEF u, v, w
      <4>2. Min({u, v, w}) \in Nat
        BY <4>1, LeastOfThree, Zenon
      <4> QED
        BY <3>3, <4>2, Zenon DEF u, v, w
    <3> QED
      BY <3>1, <3>4
  <2> HIDE DEF S
  <2>3. \A j \in 0 .. n : j \in S
    BY <1>1, <2>1, <2>2, UpTo
  <2> QED
    BY <2>3 DEF S
<1>16. r \in [0 .. n -> Nat]
  <2>1. r = [j \in 0 .. n |-> r[j]]
    BY <1>10, <1>14, Zenon
  <2> QED
    BY <1>15, <2>1
<1>17. RowAfter(r, prev, i, x, b)
  BY <1>12, <1>13, <1>16, Zenon DEF RowAfter
<1> QED
  BY <1>2, <1>17, Zenon

\* The table of the distances between what a and b start with.
Table(D, a, b) ==
  /\ D \in [0 .. Len(a) -> [0 .. Len(b) -> Nat]]
  /\ \A j \in 0 .. Len(b) : D[0][j] = j
  /\ \A i \in 0 .. Len(a) : D[i][0] = i
  /\ \A i \in 1 .. Len(a) : \A j \in 1 .. Len(b) :
       D[i][j] = Min({D[i][j - 1] + 1, D[i - 1][j] + 1, D[i - 1][j - 1] + Cost(a[i], b[j])})

\* One row of the table after the other, as the distance takes them.
Rows(D, a, b) ==
  /\ D \in [0 .. Len(a) -> [0 .. Len(b) -> Nat]]
  /\ D[0] = [j \in 0 .. Len(b) |-> j]
  /\ \A i \in 1 .. Len(a) : D[i] = NextRow(D[i - 1], i, a[i], b)

LEMMA RowsAreTable ==
  ASSUME NEW W, NEW a \in Seq(W), NEW b \in Seq(W), NEW D, Rows(D, a, b)
  PROVE  Table(D, a, b)
<1> DEFINE m == Len(a)
           n == Len(b)
<1>1. m \in Nat /\ n \in Nat
  BY LenProperties
<1>2. /\ D \in [0 .. m -> [0 .. n -> Nat]] /\ D[0] = [j \in 0 .. n |-> j]
      /\ \A i \in 1 .. m : D[i] = NextRow(D[i - 1], i, a[i], b)
  BY DEF Rows
<1>3. \A j \in 0 .. n : D[0][j] = j
  BY <1>2
<1>4. ASSUME NEW i \in 1 .. m
      PROVE  /\ D[i][0] = i
             /\ \A j \in 1 .. n :
                  D[i][j] = Min({D[i][j - 1] + 1, D[i - 1][j] + 1,
                                 D[i - 1][j - 1] + Cost(a[i], b[j])})
  <2> DEFINE p == D[i - 1]
             x == a[i]
  <2>1. p \in [0 .. n -> Nat] /\ i \in Nat
    <3>1. i - 1 \in 0 .. m /\ i \in Nat
      BY <1>1
    <3>2. D \in [0 .. m -> [0 .. n -> Nat]]
      BY <1>2
    <3> HIDE DEF m, n
    <3> QED
      BY <3>1, <3>2
  <2>2. D[i] = NextRow(p, i, x, b)
    BY <1>2
  <2> HIDE DEF p, x
  <2>3. RowAfter(NextRow(p, i, x, b), p, i, x, b)
    BY <2>1, RowIs
  <2>4. /\ D[i][0] = i
        /\ \A j \in 1 .. n : D[i][j] = Min({D[i][j - 1] + 1, p[j] + 1, p[j - 1] + Cost(x, b[j])})
    BY <2>2, <2>3, Zenon DEF RowAfter
  <2> QED
    BY <2>4, Zenon DEF p, x
<1>5. \A i \in 0 .. m : D[i][0] = i
  <2> SUFFICES ASSUME NEW i \in 0 .. m PROVE D[i][0] = i
    OBVIOUS
  <2>1. CASE i = 0
    <3>1. 0 \in 0 .. n
      BY <1>1
    <3> QED
      BY <1>3, <2>1, <3>1
  <2>2. CASE i # 0
    <3>1. i \in 1 .. m
      BY <1>1, <2>2
    <3> QED
      BY <1>4, <3>1
  <2> QED
    BY <2>1, <2>2
<1> QED
  BY <1>2, <1>3, <1>4, <1>5, Zenon DEF Table

\* The distance is the last entry of the table, also where the code takes a shortcut.
LEMMA DistanceIs ==
  ASSUME NEW W, NEW a \in Seq(W), NEW b \in Seq(W)
  PROVE  \E D : Table(D, a, b) /\ Levenshtein(a, b) = D[Len(a)][Len(b)]
<1> DEFINE m == Len(a)
           n == Len(b)
           X == [0 .. n -> Nat]
           first == [j \in 0 .. n |-> j]
           F(row) == [i \in 0 .. m |-> IF i = 0 THEN first ELSE NextRow(row[i - 1], i, a[i], b)]
           r == CHOOSE row : row = F(row)
           step == [i \in 1 .. m |-> [v \in X |-> NextRow(v, i, a[i], b)]]
<1>1. m \in Nat /\ n \in Nat
  BY LenProperties
<1>2. Levenshtein(a, b) = IF a = <<>> THEN n ELSE IF b = <<>> THEN m ELSE r[m][n]
  BY Zenon DEF Levenshtein
<1>3. first \in X
  BY <1>1
<1>4. step \in [1 .. m -> [X -> X]]
  <2> SUFFICES ASSUME NEW i \in 1 .. m, NEW v \in X PROVE NextRow(v, i, a[i], b) \in X
    BY Zenon
  <2>1. i \in Nat
    BY <1>1
  <2> QED
    <3>1. RowAfter(NextRow(v, i, a[i], b), v, i, a[i], b)
      BY <2>1, RowIs
    <3> QED
      BY <3>1, Zenon DEF RowAfter
<1>5. \A i \in 1 .. m, v \in X : step[i][v] = NextRow(v, i, a[i], b)
  BY Zenon
<1>6. PICK g : Iterates(g, m, X, first, step)
  <2> HIDE DEF step, m, X, first
  <2> QED
    BY <1>1, <1>3, <1>4, Recursion
<1>7. g \in [0 .. m -> X] /\ g[0] = first /\ \A i \in 1 .. m : g[i] = step[i][g[i - 1]]
  BY <1>6, Zenon DEF Iterates
<1>8. \A i \in 1 .. m : i \in 0 .. m /\ i - 1 \in 0 .. m /\ i # 0
  BY <1>1
<1>9. ASSUME NEW i \in 1 .. m
      PROVE  g[i] = NextRow(g[i - 1], i, a[i], b)
  <2>1. g[i - 1] \in X
    <3> HIDE DEF X, m, first, step
    <3> QED
      BY <1>7, <1>8
  <2> QED
    BY <1>5, <1>7, <2>1, Zenon
<1>10. g = F(g)
  <2>1. F(g) = [i \in 0 .. m |-> g[i]]
    <3> SUFFICES ASSUME NEW i \in 0 .. m
                 PROVE  g[i] = IF i = 0 THEN first ELSE NextRow(g[i - 1], i, a[i], b)
      BY Zenon
    <3>1. CASE i = 0
      BY <1>7, <3>1, Zenon
    <3>2. CASE i # 0
      <4>1. i \in 1 .. m
        BY <1>1, <3>2
      <4> QED
        BY <1>9, <3>2, <4>1, Zenon
    <3> QED
      BY <3>1, <3>2
  <2> HIDE DEF X, F, first
  <2> QED
    BY <1>7, <2>1
<1>11. r = F(r)
  <2> HIDE DEF F
  <2> QED
    BY <1>10
<1> HIDE DEF r
<1>12. \A i \in 0 .. m : r[i] = IF i = 0 THEN first ELSE NextRow(r[i - 1], i, a[i], b)
  <2> DEFINE G == F(r)
  <2>1. \A i \in 0 .. m : G[i] = IF i = 0 THEN first ELSE NextRow(r[i - 1], i, a[i], b)
    BY Zenon
  <2>2. r = G
    BY <1>11
  <2> HIDE DEF G, m, first
  <2> QED
    BY <2>1, <2>2
<1>13. r[0] = first
  <2>1. 0 \in 0 .. m
    BY <1>1
  <2> QED
    BY <1>12, <2>1, Zenon
<1>14. \A i \in 1 .. m : r[i] = NextRow(r[i - 1], i, a[i], b)
  BY <1>8, <1>12, Zenon
<1>15. \A i \in 0 .. m : r[i] \in X
  <2> DEFINE S == {i \in 0 .. m : r[i] \in X}
  <2>1. 0 \in S
    <3>1. 0 \in 0 .. m
      BY <1>1
    <3> QED
      BY <1>3, <1>13, <3>1, Zenon
  <2>2. ASSUME NEW i \in 0 .. (m - 1), i \in S PROVE i + 1 \in S
    <3>1. i + 1 \in 1 .. m /\ i + 1 \in 0 .. m /\ (i + 1) - 1 = i /\ i + 1 \in Nat
      BY <1>1
    <3>2. r[i + 1] = NextRow(r[i], i + 1, a[i + 1], b)
      BY <1>14, <3>1
    <3>3. r[i] \in [0 .. Len(b) -> Nat]
      BY <2>2
    <3>4. NextRow(r[i], i + 1, a[i + 1], b) \in [0 .. Len(b) -> Nat]
      <4>1. RowAfter(NextRow(r[i], i + 1, a[i + 1], b), r[i], i + 1, a[i + 1], b)
        BY <3>1, <3>3, RowIs
      <4> QED
        BY <4>1, Zenon DEF RowAfter
    <3> QED
      BY <3>1, <3>2, <3>4
  <2> HIDE DEF S
  <2>3. \A i \in 0 .. m : i \in S
    BY <1>1, <2>1, <2>2, UpTo
  <2> QED
    BY <2>3 DEF S
<1>16. r \in [0 .. m -> X]
  <2>1. DOMAIN r = 0 .. m
    BY <1>11, Zenon
  <2>2. r = [i \in 0 .. m |-> r[i]]
    BY <1>11, <2>1, Zenon
  <2> HIDE DEF X, F
  <2> QED
    BY <1>15, <2>2
<1>17. Rows(r, a, b)
  BY <1>13, <1>14, <1>16, Zenon DEF Rows
<1>18. Table(r, a, b)
  BY <1>17, RowsAreTable
<1>19. 0 \in 0 .. m /\ 0 \in 0 .. n /\ m \in 0 .. m /\ n \in 0 .. n
  BY <1>1
<1>20. r[0][n] = n /\ r[m][0] = m
  BY <1>18, <1>19 DEF Table
<1>21. (a = <<>> => m = 0) /\ (b = <<>> => n = 0)
  OBVIOUS
<1>22. Levenshtein(a, b) = r[m][n]
  <2> HIDE DEF m, n
  <2> QED
    BY <1>2, <1>20, <1>21
<1> QED
  BY <1>18, <1>22

LEMMA EntryIs ==
  ASSUME NEW W, NEW a \in Seq(W), NEW b \in Seq(W), NEW D, Table(D, a, b),
         NEW i \in 1 .. Len(a), NEW j \in 1 .. Len(b)
  PROVE  /\ D[i][j - 1] \in Nat /\ D[i - 1][j] \in Nat /\ D[i - 1][j - 1] \in Nat
         /\ D[i][j] \in Nat
         /\ D[i][j] = Min({D[i][j - 1] + 1, D[i - 1][j] + 1,
                           D[i - 1][j - 1] + Cost(a[i], b[j])})
         /\ D[i][j] <= D[i][j - 1] + 1 /\ D[i][j] <= D[i - 1][j] + 1
         /\ D[i][j] <= D[i - 1][j - 1] + Cost(a[i], b[j])
         /\ D[i][j] \in {D[i][j - 1] + 1, D[i - 1][j] + 1, D[i - 1][j - 1] + Cost(a[i], b[j])}
<1>1. Len(a) \in Nat /\ Len(b) \in Nat
  BY LenProperties
<1>2. /\ i \in 0 .. Len(a) /\ i - 1 \in 0 .. Len(a)
      /\ j \in 0 .. Len(b) /\ j - 1 \in 0 .. Len(b)
  BY <1>1
<1>3. D \in [0 .. Len(a) -> [0 .. Len(b) -> Nat]]
  BY DEF Table
<1>4. D[i] \in [0 .. Len(b) -> Nat] /\ D[i - 1] \in [0 .. Len(b) -> Nat]
  BY <1>2, <1>3, Zenon
<1>5. /\ D[i][j - 1] \in Nat /\ D[i - 1][j] \in Nat /\ D[i - 1][j - 1] \in Nat
      /\ D[i][j] \in Nat
  BY <1>2, <1>4, Zenon
<1>6. D[i][j] = Min({D[i][j - 1] + 1, D[i - 1][j] + 1, D[i - 1][j - 1] + Cost(a[i], b[j])})
  BY Zenon DEF Table
<1> DEFINE x == D[i][j - 1] + 1
           y == D[i - 1][j] + 1
           z == D[i - 1][j - 1] + Cost(a[i], b[j])
<1>7. x \in Nat /\ y \in Nat /\ z \in Nat
  <2>1. Cost(a[i], b[j]) \in Nat
    BY DEF Cost
  <2>2. \A p, q \in Nat : p + 1 \in Nat /\ p + q \in Nat
    OBVIOUS
  <2> QED
    BY <1>5, <2>1, <2>2, Zenon
<1>8. D[i][j] = Min({x, y, z})
  BY <1>6, Zenon
<1> HIDE DEF x, y, z
<1>9. /\ D[i][j] \in {x, y, z} /\ D[i][j] <= x /\ D[i][j] <= y /\ D[i][j] <= z
  BY <1>7, <1>8, LeastOfThree
<1> QED
  BY <1>5, <1>6, <1>9 DEF x, y, z

\* The distance does not depend on which sequence comes first.
LEMMA TablesMirror ==
  ASSUME NEW W, NEW a \in Seq(W), NEW b \in Seq(W), NEW D, NEW E,
         Table(D, a, b), Table(E, b, a)
  PROVE  D[Len(a)][Len(b)] = E[Len(b)][Len(a)]
<1> DEFINE m == Len(a)
           n == Len(b)
           S == {k \in 0 .. m + n :
                   \A i \in 0 .. m : \A j \in 0 .. n : i + j <= k => D[i][j] = E[j][i]}
<1>1. m \in Nat /\ n \in Nat
  BY LenProperties
<1>2. \A i \in 0 .. m : \A j \in 0 .. n : i = 0 \/ j = 0 => D[i][j] = E[j][i]
  BY Zenon DEF Table
<1>3. 0 \in S
  <2> SUFFICES ASSUME NEW i \in 0 .. m, NEW j \in 0 .. n, i + j <= 0
               PROVE  D[i][j] = E[j][i]
    BY <1>1
  <2>1. i = 0
    BY <1>1
  <2> QED
    BY <1>2, <2>1
<1>4. ASSUME NEW k \in 0 .. (m + n) - 1, k \in S
      PROVE  k + 1 \in S
  <2>0. k + 1 \in 0 .. m + n
    BY <1>1
  <2> SUFFICES ASSUME NEW i \in 0 .. m, NEW j \in 0 .. n, i + j <= k + 1
               PROVE  D[i][j] = E[j][i]
    BY <2>0
  <2>1. CASE i = 0 \/ j = 0
    BY <1>2, <2>1
  <2>2. CASE ~ (i = 0 \/ j = 0)
    <3>1. /\ i \in 1 .. m /\ j \in 1 .. n /\ i - 1 \in 0 .. m /\ j - 1 \in 0 .. n
          /\ (i - 1) + j <= k /\ i + (j - 1) <= k /\ (i - 1) + (j - 1) <= k
      BY <1>1, <2>2
    <3>2. \A u \in 0 .. m : \A v \in 0 .. n : u + v <= k => D[u][v] = E[v][u]
      BY <1>4
    <3>3. /\ D[i - 1][j] = E[j][i - 1] /\ D[i][j - 1] = E[j - 1][i]
          /\ D[i - 1][j - 1] = E[j - 1][i - 1]
      BY <3>1, <3>2
    <3>4. Cost(a[i], b[j]) = Cost(b[j], a[i])
      BY DEF Cost
    <3>5. D[i][j] = Min({D[i][j - 1] + 1, D[i - 1][j] + 1, D[i - 1][j - 1] + Cost(a[i], b[j])})
      <4>1. i \in 1 .. Len(a) /\ j \in 1 .. Len(b)
        BY <3>1, Zenon
      <4> QED
        BY <4>1, Zenon DEF Table
    <3>6. E[j][i] = Min({E[j][i - 1] + 1, E[j - 1][i] + 1, E[j - 1][i - 1] + Cost(b[j], a[i])})
      <4>1. j \in 1 .. Len(b) /\ i \in 1 .. Len(a)
        BY <3>1, Zenon
      <4> QED
        BY <4>1, Zenon DEF Table
    <3>7. \A x, y, z : {x, y, z} = {y, x, z}
      OBVIOUS
    <3> QED
      BY <3>3, <3>4, <3>5, <3>6, <3>7, Zenon
  <2> QED
    BY <2>1, <2>2
<1>5. m + n \in S
  <2>1. m + n \in Nat /\ m + n \in 0 .. m + n
    BY <1>1
  <2> HIDE DEF S, m, n
  <2>2. \A k \in 0 .. m + n : k \in S
    BY <1>3, <1>4, <2>1, UpTo
  <2> QED
    BY <2>1, <2>2
<1>6. m \in 0 .. m /\ n \in 0 .. n /\ m + n <= m + n
  BY <1>1
<1>7. \A i \in 0 .. m : \A j \in 0 .. n : i + j <= m + n => D[i][j] = E[j][i]
  BY <1>5
<1> HIDE DEF m, n
<1> QED
  BY <1>6, <1>7, Zenon DEF m, n

\* It is not above the length of the longer one.
LEMMA TableBounded ==
  ASSUME NEW W, NEW a \in Seq(W), NEW b \in Seq(W), NEW D, Table(D, a, b)
  PROVE  /\ D[Len(a)][Len(b)] \in Nat
         /\ D[Len(a)][Len(b)] <= Len(a) \/ D[Len(a)][Len(b)] <= Len(b)
<1> DEFINE m == Len(a)
           n == Len(b)
           S == {k \in 0 .. m : \A j \in 0 .. n : D[k][j] <= k \/ D[k][j] <= j}
<1>1. m \in Nat /\ n \in Nat /\ m \in 0 .. m /\ n \in 0 .. n /\ 0 \in 0 .. m /\ 0 \in 0 .. n
  BY LenProperties
<1>2. D[m][n] \in Nat
  <2>1. D \in [0 .. m -> [0 .. n -> Nat]]
    BY DEF Table
  <2>2. D[m] \in [0 .. n -> Nat]
    BY <1>1, <2>1, Zenon
  <2> QED
    BY <1>1, <2>2, Zenon
<1>3. 0 \in S
  <2>1. \A j \in 0 .. n : D[0][j] = j
    BY DEF Table
  <2>2. \A j \in 0 .. n : D[0][j] <= j
    BY <1>1, <2>1
  <2> QED
    BY <1>1, <2>2
<1>4. ASSUME NEW k \in 0 .. (m - 1), k \in S
      PROVE  k + 1 \in S
  <2>1. k + 1 \in 0 .. m /\ k + 1 \in 1 .. m /\ (k + 1) - 1 = k /\ k \in Nat
    BY <1>1
  <2> SUFFICES ASSUME NEW j \in 0 .. n
               PROVE  D[k + 1][j] <= k + 1 \/ D[k + 1][j] <= j
    BY <2>1
  <2>2. CASE j = 0
    <3>1. D[k + 1][0] = k + 1
      BY <2>1 DEF Table
    <3> QED
      BY <2>1, <2>2, <3>1
  <2>3. CASE j # 0
    <3>1. j \in 1 .. n /\ j - 1 \in 0 .. n /\ j \in Nat
      BY <1>1, <2>3
    <3>2. /\ D[k][j - 1] \in Nat /\ D[k + 1][j] \in Nat
          /\ D[k + 1][j] <= D[k][j - 1] + Cost(a[k + 1], b[j])
      <4> DEFINE i == k + 1
      <4>1. i \in 1 .. m /\ i - 1 = k
        BY <2>1
      <4> HIDE DEF i
      <4>2. /\ D[i - 1][j - 1] \in Nat /\ D[i][j] \in Nat
            /\ D[i][j] <= D[i - 1][j - 1] + Cost(a[i], b[j])
        BY <3>1, <4>1, EntryIs
      <4> QED
        BY <4>1, <4>2, Zenon DEF i
    <3>3. D[k][j - 1] <= k \/ D[k][j - 1] <= j - 1
      BY <1>4, <3>1
    <3>4. Cost(a[k + 1], b[j]) \in 0 .. 1
      BY DEF Cost
    <3> DEFINE x == D[k + 1][j]
               y == D[k][j - 1]
               c == Cost(a[k + 1], b[j])
    <3>5. x \in Nat /\ y \in Nat /\ c \in 0 .. 1 /\ x <= y + c /\ (y <= k \/ y <= j - 1)
      BY <3>2, <3>3, <3>4
    <3> HIDE DEF x, y, c
    <3>6. x <= k + 1 \/ x <= j
      BY <2>1, <3>1, <3>5
    <3> QED
      BY <3>6 DEF x
  <2> QED
    BY <2>2, <2>3
<1>5. \A k \in 0 .. m : k \in S
  <2> HIDE DEF S
  <2> QED
    BY <1>1, <1>3, <1>4, UpTo
<1> QED
  BY <1>1, <1>2, <1>5

\* A sequence is at no distance from itself.
LEMMA TableOfSame ==
  ASSUME NEW W, NEW a \in Seq(W), NEW D, Table(D, a, a)
  PROVE  D[Len(a)][Len(a)] = 0
<1> DEFINE m == Len(a)
           S == {k \in 0 .. m : D[k][k] = 0}
<1>1. m \in Nat /\ m \in 0 .. m /\ 0 \in 0 .. m
  BY LenProperties
<1>2. 0 \in S
  BY <1>1 DEF Table
<1>3. ASSUME NEW k \in 0 .. (m - 1), k \in S
      PROVE  k + 1 \in S
  <2>1. k + 1 \in 0 .. m /\ k + 1 \in 1 .. m /\ (k + 1) - 1 = k
    BY <1>1
  <2>2. D[k + 1][k + 1] \in Nat /\ D[k + 1][k + 1] <= D[k][k] + Cost(a[k + 1], a[k + 1])
    BY <2>1, EntryIs
  <2>3. D[k][k] = 0 /\ Cost(a[k + 1], a[k + 1]) = 0
    BY <1>3 DEF Cost
  <2> QED
    BY <2>1, <2>2, <2>3
<1>4. \A k \in 0 .. m : k \in S
  <2> HIDE DEF S
  <2> QED
    BY <1>1, <1>2, <1>3, UpTo
<1> QED
  BY <1>1, <1>4

LEMMA DistanceMirrors ==
  ASSUME NEW W, NEW a \in Seq(W), NEW b \in Seq(W)
  PROVE  /\ Levenshtein(a, b) \in Nat /\ Levenshtein(a, b) = Levenshtein(b, a)
         /\ Levenshtein(a, b) <= Len(a) \/ Levenshtein(a, b) <= Len(b)
         /\ Levenshtein(a, a) = 0
<1>1. PICK D : Table(D, a, b) /\ Levenshtein(a, b) = D[Len(a)][Len(b)]
  BY DistanceIs
<1>2. PICK E : Table(E, b, a) /\ Levenshtein(b, a) = E[Len(b)][Len(a)]
  BY DistanceIs
<1>3. PICK F : Table(F, a, a) /\ Levenshtein(a, a) = F[Len(a)][Len(a)]
  BY DistanceIs
<1>4. D[Len(a)][Len(b)] = E[Len(b)][Len(a)]
  BY <1>1, <1>2, TablesMirror
<1>5. /\ D[Len(a)][Len(b)] \in Nat
      /\ D[Len(a)][Len(b)] <= Len(a) \/ D[Len(a)][Len(b)] <= Len(b)
  BY <1>1, TableBounded
<1>6. F[Len(a)][Len(a)] = 0
  BY <1>3, TableOfSame
<1> QED
  BY <1>1, <1>2, <1>3, <1>4, <1>5, <1>6

-----------------------------------------------------------------------------
(* The distance is the price of the cheapest alignment.                    *)

Aligned(m) ==
  \A p \in m : \A q \in m : (p[1] < q[1] <=> p[2] < q[2]) /\ (p[1] = q[1] <=> p[2] = q[2])

\* The alignments of the first i steps with the first j, and what they cost.
Pairings(i, j) == {m \in SUBSET ((1 .. i) \X (1 .. j)) : Aligned(m)}
Differing(m, a, b) == {p \in m : a[p[1]] # b[p[2]]}
Price(m, i, j, a, b) == i + j - 2 * Cardinality(m) + Cardinality(Differing(m, a, b))

LEMMA PairsAreFinite ==
  ASSUME NEW i \in Nat, NEW j \in Nat, NEW m \in SUBSET ((1 .. i) \X (1 .. j)), NEW a, NEW b
  PROVE  /\ IsFiniteSet(m) /\ Cardinality(m) \in Nat
         /\ IsFiniteSet(Differing(m, a, b)) /\ Cardinality(Differing(m, a, b)) \in Nat
         /\ Price(m, i, j, a, b) \in Int
<1>1. IsFiniteSet(1 .. i) /\ IsFiniteSet(1 .. j)
  <2>1. 1 \in Int /\ i \in Int /\ j \in Int
    OBVIOUS
  <2> QED
    BY <2>1, FS_Interval
<1>2. IsFiniteSet((1 .. i) \X (1 .. j))
  BY <1>1, FS_Product
<1>3. IsFiniteSet(m) /\ Cardinality(m) \in Nat
  BY <1>2, FS_Subset, FS_CardinalityType
<1>4. IsFiniteSet(Differing(m, a, b)) /\ Cardinality(Differing(m, a, b)) \in Nat
  <2>1. Differing(m, a, b) \subseteq m
    BY DEF Differing
  <2> QED
    BY <1>3, <2>1, FS_Subset, FS_CardinalityType
<1>5. Price(m, i, j, a, b) \in Int
  <2> DEFINE x == Cardinality(m)
             y == Cardinality(Differing(m, a, b))
  <2>1. x \in Nat /\ y \in Nat /\ Price(m, i, j, a, b) = i + j - 2 * x + y
    BY <1>3, <1>4 DEF Price
  <2> HIDE DEF x, y
  <2> QED
    BY <2>1
<1> QED
  BY <1>3, <1>4, <1>5

\* What a pair more makes of an alignment.
OneMore(w, m, p, a, b) ==
  /\ Cardinality(w) = Cardinality(m) + 1
  /\ Cardinality(Differing(w, a, b)) = Cardinality(Differing(m, a, b)) + Cost(a[p[1]], b[p[2]])

LEMMA PairAdded ==
  ASSUME NEW m, IsFiniteSet(m), NEW p, p \notin m, NEW a, NEW b
  PROVE  OneMore(m \union {p}, m, p, a, b)
<1> USE DEF OneMore
<1>1. Cardinality(m \union {p}) = Cardinality(m) + 1
  BY FS_AddElement
<1>2. IsFiniteSet(Differing(m, a, b)) /\ p \notin Differing(m, a, b)
  <2>1. Differing(m, a, b) \subseteq m
    BY DEF Differing
  <2> QED
    BY <2>1, FS_Subset
<1>3. Cardinality(Differing(m, a, b)) \in Nat
  BY <1>2, FS_CardinalityType
<1>4. CASE a[p[1]] = b[p[2]]
  <2>1. Differing(m \union {p}, a, b) = Differing(m, a, b)
    BY <1>4 DEF Differing
  <2> QED
    BY <1>1, <1>3, <1>4, <2>1 DEF Cost
<1>5. CASE a[p[1]] # b[p[2]]
  <2>1. Differing(m \union {p}, a, b) = Differing(m, a, b) \union {p}
    BY <1>5 DEF Differing
  <2>2. Cardinality(Differing(m, a, b) \union {p}) = Cardinality(Differing(m, a, b)) + 1
    BY <1>2, FS_AddElement
  <2> QED
    BY <1>1, <1>5, <2>1, <2>2 DEF Cost
<1> QED
  BY <1>4, <1>5

\* D is what the cheapest alignment of the first i with the first j costs.
Cheapest(D, i, j, a, b) ==
  /\ \E m \in Pairings(i, j) : Price(m, i, j, a, b) = D
  /\ \A m \in Pairings(i, j) : D <= Price(m, i, j, a, b)

LEMMA CheapestOfNone ==
  ASSUME NEW i \in Nat, NEW j \in Nat, i = 0 \/ j = 0, NEW a, NEW b
  PROVE  Cheapest(i + j, i, j, a, b)
<1>1. \A m \in Pairings(i, j) : m = {}
  <2>1. (1 .. i) \X (1 .. j) = {}
    <3>1. 1 .. i = {} \/ 1 .. j = {}
      OBVIOUS
    <3> QED
      BY <3>1
  <2> QED
    BY <2>1 DEF Pairings
<1>2. {} \in Pairings(i, j)
  BY DEF Pairings, Aligned
<1>3. Price({}, i, j, a, b) = i + j
  <2>1. Differing({}, a, b) = {}
    BY DEF Differing
  <2>2. Cardinality({}) = 0
    BY FS_EmptySet
  <2>3. Price({}, i, j, a, b) = i + j - 2 * 0 + 0
    BY <2>1, <2>2, Zenon DEF Price
  <2> QED
    BY <2>3
<1> QED
  BY <1>1, <1>2, <1>3 DEF Cheapest

\* Fewer steps leave fewer alignments; the step left out costs one more.
LEMMA PairingKept ==
  ASSUME NEW i \in Nat, NEW j \in Nat, NEW u \in 0 .. i, NEW v \in 0 .. j,
         NEW m \in Pairings(u, v), NEW a, NEW b
  PROVE  /\ m \in Pairings(i, j)
         /\ Price(m, i, j, a, b) = Price(m, u, v, a, b) + (i - u) + (j - v)
<1>1. m \in SUBSET ((1 .. u) \X (1 .. v)) /\ Aligned(m)
  BY DEF Pairings
<1>2. (1 .. u) \X (1 .. v) \subseteq (1 .. i) \X (1 .. j)
  <2>1. 1 .. u \subseteq 1 .. i /\ 1 .. v \subseteq 1 .. j
    OBVIOUS
  <2> QED
    BY <2>1
<1>3. m \in Pairings(i, j)
  <2>1. m \in SUBSET ((1 .. i) \X (1 .. j))
    BY <1>1, <1>2
  <2> QED
    BY <1>1, <2>1, Zenon DEF Pairings
<1> DEFINE x == Cardinality(m)
           y == Cardinality(Differing(m, a, b))
<1>4. x \in Nat /\ y \in Nat
  <2>1. u \in Nat /\ v \in Nat /\ m \in SUBSET ((1 .. u) \X (1 .. v))
    BY <1>1
  <2> QED
    BY <2>1, PairsAreFinite
<1>5. Price(m, i, j, a, b) = i + j - 2 * x + y /\ Price(m, u, v, a, b) = u + v - 2 * x + y
  BY DEF Price
<1> HIDE DEF x, y
<1> QED
  BY <1>3, <1>4, <1>5

\* Pairing the next two steps.
LEMMA PairingExtended ==
  ASSUME NEW i \in Nat \ {0}, NEW j \in Nat \ {0}, NEW m \in Pairings(i - 1, j - 1), NEW a, NEW b
  PROVE  /\ m \union {<<i, j>>} \in Pairings(i, j)
         /\ Price(m \union {<<i, j>>}, i, j, a, b) =
              Price(m, i - 1, j - 1, a, b) + Cost(a[i], b[j])
<1> DEFINE p == <<i, j>>
           u == i - 1
           v == j - 1
           w == m \union {p}
<1>1. u \in Nat /\ v \in Nat /\ u < i /\ v < j
  OBVIOUS
<1>2. m \in SUBSET ((1 .. u) \X (1 .. v)) /\ Aligned(m)
  BY DEF Pairings
<1>3. \A q \in m : q[1] \in 1 .. u /\ q[2] \in 1 .. v /\ q[1] < i /\ q[2] < j
  <2> SUFFICES ASSUME NEW q \in m
               PROVE  q[1] \in 1 .. u /\ q[2] \in 1 .. v /\ q[1] < i /\ q[2] < j
    OBVIOUS
  <2>1. q[1] \in 1 .. u /\ q[2] \in 1 .. v
    BY <1>2
  <2> QED
    BY <1>1, <2>1
<1>4. p[1] = i /\ p[2] = j
  OBVIOUS
<1>5. p \notin m
  BY <1>3, <1>4
<1>6. w \in SUBSET ((1 .. i) \X (1 .. j))
  <2>1. (1 .. u) \X (1 .. v) \subseteq (1 .. i) \X (1 .. j)
    <3>1. 1 .. u \subseteq 1 .. i /\ 1 .. v \subseteq 1 .. j
      OBVIOUS
    <3> QED
      BY <3>1
  <2>2. p \in (1 .. i) \X (1 .. j)
    OBVIOUS
  <2> HIDE DEF p, u, v
  <2> QED
    BY <1>2, <2>1, <2>2
<1>7. Aligned(w)
  <2> SUFFICES ASSUME NEW r \in w, NEW q \in w
               PROVE  (r[1] < q[1] <=> r[2] < q[2]) /\ (r[1] = q[1] <=> r[2] = q[2])
    BY DEF Aligned
  <2> HIDE DEF p, u, v
  <2>1. CASE r \in m /\ q \in m
    BY <1>2, <2>1 DEF Aligned
  <2>2. CASE r \in m /\ q = p
    <3>1. r[1] < i /\ r[2] < j /\ r[1] \in Int /\ r[2] \in Int
      BY <1>1, <1>3, <2>2
    <3> QED
      BY <1>4, <2>2, <3>1
  <2>3. CASE r = p /\ q \in m
    <3>1. q[1] < i /\ q[2] < j /\ q[1] \in Int /\ q[2] \in Int
      BY <1>1, <1>3, <2>3
    <3> QED
      BY <1>4, <2>3, <3>1
  <2>4. CASE r = p /\ q = p
    BY <1>4, <2>4
  <2> QED
    BY <2>1, <2>2, <2>3, <2>4
<1>8. w \in Pairings(i, j)
  BY <1>6, <1>7, Zenon DEF Pairings
<1> DEFINE x == Cardinality(m)
           y == Cardinality(Differing(m, a, b))
           c == Cost(a[i], b[j])
<1>9. IsFiniteSet(m) /\ x \in Nat /\ y \in Nat
  BY <1>1, <1>2, PairsAreFinite
<1>10. Cardinality(w) = x + 1 /\ Cardinality(Differing(w, a, b)) = y + Cost(a[p[1]], b[p[2]])
  <2>1. IsFiniteSet(m)
    BY <1>9
  <2> HIDE DEF p
  <2>2. OneMore(m \union {p}, m, p, a, b)
    BY <1>5, <2>1, PairAdded
  <2> QED
    BY <2>2 DEF OneMore
<1>11. Cardinality(Differing(w, a, b)) = y + c
  BY <1>4, <1>10
<1>12. c \in Nat
  BY DEF Cost
<1>13. /\ Price(w, i, j, a, b) = i + j - 2 * (x + 1) + (y + c)
       /\ Price(m, u, v, a, b) = (i - 1) + (j - 1) - 2 * x + y
  BY <1>10, <1>11 DEF Price
<1> HIDE DEF x, y, c, w
<1>14. Price(w, i, j, a, b) = Price(m, u, v, a, b) + c
  BY <1>9, <1>12, <1>13
<1> QED
  BY <1>8, <1>14 DEF w, c

\* An alignment of the next two steps pairs both, or leaves one of them out.
LEMMA PairingCases ==
  ASSUME NEW i \in Nat \ {0}, NEW j \in Nat \ {0}, NEW m \in Pairings(i, j)
  PROVE  \/ m \in Pairings(i - 1, j) \/ m \in Pairings(i, j - 1)
         \/ \E k \in Pairings(i - 1, j - 1) : m = k \union {<<i, j>>}
<1>1. m \in SUBSET ((1 .. i) \X (1 .. j)) /\ Aligned(m)
  BY DEF Pairings
<1>2. \A q \in m : q[1] \in 1 .. i /\ q[2] \in 1 .. j /\ q = <<q[1], q[2]>>
  BY <1>1
<1>3. CASE <<i, j>> \in m
  <2> DEFINE p == <<i, j>>
             k == m \ {p}
  <2>1. p[1] = i /\ p[2] = j /\ p \in m
    BY <1>3
  <2>2. ASSUME NEW q \in k
        PROVE  q \in (1 .. (i - 1)) \X (1 .. (j - 1))
    <3>1. q \in m /\ q # p /\ q = <<q[1], q[2]>> /\ q[1] \in 1 .. i /\ q[2] \in 1 .. j
      BY <1>2
    <3>2. (q[1] < i <=> q[2] < j) /\ (q[1] = i <=> q[2] = j)
      BY <1>1, <2>1, <3>1, Zenon DEF Aligned
    <3>3. q[1] # i
      BY <3>1, <3>2
    <3>4. q[1] < i /\ q[2] < j
      BY <3>1, <3>2, <3>3
    <3>5. q[1] \in 1 .. (i - 1) /\ q[2] \in 1 .. (j - 1)
      BY <3>1, <3>4
    <3> QED
      BY <3>1, <3>5
  <2>3. Aligned(k)
    BY <1>1, Zenon DEF Aligned
  <2>4. k \in Pairings(i - 1, j - 1)
    <3>1. k \in SUBSET ((1 .. (i - 1)) \X (1 .. (j - 1)))
      BY <2>2
    <3> HIDE DEF k
    <3> QED
      BY <2>3, <3>1, Zenon DEF Pairings
  <2>5. m = k \union {p}
    BY <2>1
  <2> QED
    BY <2>4, <2>5
<1>4. CASE \A q \in m : q[1] # i
  <2>1. m \in SUBSET ((1 .. (i - 1)) \X (1 .. j))
    <3> SUFFICES ASSUME NEW q \in m PROVE q \in (1 .. (i - 1)) \X (1 .. j)
      OBVIOUS
    <3>1. q[1] \in 1 .. (i - 1) /\ q[2] \in 1 .. j /\ q = <<q[1], q[2]>>
      BY <1>2, <1>4
    <3> QED
      BY <3>1
  <2> QED
    BY <1>1, <2>1, Zenon DEF Pairings
<1>5. CASE \A q \in m : q[2] # j
  <2>1. m \in SUBSET ((1 .. i) \X (1 .. (j - 1)))
    <3> SUFFICES ASSUME NEW q \in m PROVE q \in (1 .. i) \X (1 .. (j - 1))
      OBVIOUS
    <3>1. q[1] \in 1 .. i /\ q[2] \in 1 .. (j - 1) /\ q = <<q[1], q[2]>>
      BY <1>2, <1>5
    <3> QED
      BY <3>1
  <2> QED
    BY <1>1, <2>1, Zenon DEF Pairings
<1>6. CASE <<i, j>> \notin m /\ (\E q \in m : q[1] = i) /\ (\E q \in m : q[2] = j)
  <2>1. PICK q \in m : q[1] = i
    BY <1>6
  <2>2. PICK r \in m : r[2] = j
    BY <1>6
  <2>3. q[2] # j /\ r[1] # i
    BY <1>2, <1>6, <2>1, <2>2
  <2>4. q[2] < j /\ r[1] < i
    <3>1. q[2] \in 1 .. j /\ r[1] \in 1 .. i
      BY <1>2
    <3> QED
      BY <2>3, <3>1
  <2>5. r[1] < q[1] <=> r[2] < q[2]
    BY <1>1, Zenon DEF Aligned
  <2>6. r[1] \in Int /\ q[2] \in Int
    <3>1. q[2] \in 1 .. j /\ r[1] \in 1 .. i
      BY <1>2
    <3> QED
      BY <3>1
  <2> QED
    BY <2>1, <2>2, <2>4, <2>5, <2>6
<1> QED
  BY <1>3, <1>4, <1>5, <1>6

LEMMA CheapestStep ==
  ASSUME NEW i \in Nat \ {0}, NEW j \in Nat \ {0}, NEW a, NEW b,
         NEW x \in Nat, NEW y \in Nat, NEW z \in Nat, NEW d \in Nat,
         Cheapest(x, i, j - 1, a, b), Cheapest(y, i - 1, j, a, b),
         Cheapest(z, i - 1, j - 1, a, b),
         d \in {x + 1, y + 1, z + Cost(a[i], b[j])},
         d <= x + 1, d <= y + 1, d <= z + Cost(a[i], b[j])
  PROVE  Cheapest(d, i, j, a, b)
<1> DEFINE c == Cost(a[i], b[j])
<1>1. /\ i \in Nat /\ j \in Nat /\ i - 1 \in Nat /\ j - 1 \in Nat /\ c \in Nat
      /\ i \in 0 .. i /\ i - 1 \in 0 .. i /\ j \in 0 .. j /\ j - 1 \in 0 .. j
  BY DEF Cost
<1>2. ASSUME NEW m \in Pairings(i, j - 1)
      PROVE  /\ m \in Pairings(i, j) /\ Price(m, i, j - 1, a, b) \in Int
             /\ Price(m, i, j, a, b) = Price(m, i, j - 1, a, b) + 1
  <2>1. /\ m \in Pairings(i, j)
        /\ Price(m, i, j, a, b) = Price(m, i, j - 1, a, b) + (i - i) + (j - (j - 1))
    BY <1>1, PairingKept
  <2>2. Price(m, i, j - 1, a, b) \in Int
    BY <1>1, PairsAreFinite DEF Pairings
  <2> QED
    BY <1>1, <2>1, <2>2
<1>3. ASSUME NEW m \in Pairings(i - 1, j)
      PROVE  /\ m \in Pairings(i, j) /\ Price(m, i - 1, j, a, b) \in Int
             /\ Price(m, i, j, a, b) = Price(m, i - 1, j, a, b) + 1
  <2>1. /\ m \in Pairings(i, j)
        /\ Price(m, i, j, a, b) = Price(m, i - 1, j, a, b) + (i - (i - 1)) + (j - j)
    BY <1>1, PairingKept
  <2>2. Price(m, i - 1, j, a, b) \in Int
    BY <1>1, PairsAreFinite DEF Pairings
  <2> QED
    BY <1>1, <2>1, <2>2
<1>4. ASSUME NEW k \in Pairings(i - 1, j - 1)
      PROVE  /\ k \union {<<i, j>>} \in Pairings(i, j) /\ Price(k, i - 1, j - 1, a, b) \in Int
             /\ Price(k \union {<<i, j>>}, i, j, a, b) = Price(k, i - 1, j - 1, a, b) + c
  <2>1. Price(k, i - 1, j - 1, a, b) \in Int
    BY <1>1, PairsAreFinite DEF Pairings
  <2> QED
    BY <2>1, PairingExtended
<1>5. \E m \in Pairings(i, j) : Price(m, i, j, a, b) = d
  <2>1. CASE d = x + 1
    <3>1. PICK m \in Pairings(i, j - 1) : Price(m, i, j - 1, a, b) = x
      BY DEF Cheapest
    <3> QED
      BY <1>2, <2>1, <3>1
  <2>2. CASE d = y + 1
    <3>1. PICK m \in Pairings(i - 1, j) : Price(m, i - 1, j, a, b) = y
      BY DEF Cheapest
    <3> QED
      BY <1>3, <2>2, <3>1
  <2>3. CASE d = z + c
    <3>1. PICK k \in Pairings(i - 1, j - 1) : Price(k, i - 1, j - 1, a, b) = z
      BY DEF Cheapest
    <3> QED
      BY <1>4, <2>3, <3>1
  <2> QED
    BY <2>1, <2>2, <2>3
<1>6. ASSUME NEW m \in Pairings(i, j)
      PROVE  d <= Price(m, i, j, a, b)
  <2>1. CASE m \in Pairings(i - 1, j)
    <3>1. y <= Price(m, i - 1, j, a, b)
      BY <2>1 DEF Cheapest
    <3>2. /\ Price(m, i - 1, j, a, b) \in Int
          /\ Price(m, i, j, a, b) = Price(m, i - 1, j, a, b) + 1
      BY <1>3, <2>1
    <3> QED
      BY <3>1, <3>2
  <2>2. CASE m \in Pairings(i, j - 1)
    <3>1. x <= Price(m, i, j - 1, a, b)
      BY <2>2 DEF Cheapest
    <3>2. /\ Price(m, i, j - 1, a, b) \in Int
          /\ Price(m, i, j, a, b) = Price(m, i, j - 1, a, b) + 1
      BY <1>2, <2>2
    <3> QED
      BY <3>1, <3>2
  <2>3. CASE \E k \in Pairings(i - 1, j - 1) : m = k \union {<<i, j>>}
    <3>1. PICK k \in Pairings(i - 1, j - 1) : m = k \union {<<i, j>>}
      BY <2>3
    <3>2. z <= Price(k, i - 1, j - 1, a, b)
      BY DEF Cheapest
    <3>3. /\ Price(k, i - 1, j - 1, a, b) \in Int
          /\ Price(m, i, j, a, b) = Price(k, i - 1, j - 1, a, b) + c
      BY <1>4, <3>1
    <3>4. d <= z + c
      OBVIOUS
    <3> HIDE DEF c
    <3> QED
      BY <1>1, <3>2, <3>3, <3>4
  <2> QED
    BY <2>1, <2>2, <2>3, PairingCases
<1> QED
  BY <1>5, <1>6 DEF Cheapest

LEMMA TableIsCheapest ==
  ASSUME NEW W, NEW a \in Seq(W), NEW b \in Seq(W), NEW D, Table(D, a, b)
  PROVE  Cheapest(D[Len(a)][Len(b)], Len(a), Len(b), a, b)
<1> DEFINE m == Len(a)
           n == Len(b)
           S == {k \in 0 .. m + n :
                   \A i \in 0 .. m : \A j \in 0 .. n :
                     i + j <= k => Cheapest(D[i][j], i, j, a, b)}
<1>1. m \in Nat /\ n \in Nat
  BY LenProperties
<1>2. ASSUME NEW i \in 0 .. m, NEW j \in 0 .. n, i = 0 \/ j = 0
      PROVE  Cheapest(D[i][j], i, j, a, b)
  <2>1. D[i][j] = i + j
    <3>1. CASE i = 0
      BY <1>1, <3>1 DEF Table
    <3>2. CASE j = 0
      BY <1>1, <3>2 DEF Table
    <3> QED
      BY <1>2, <3>1, <3>2
  <2>2. i \in Nat /\ j \in Nat
    BY <1>1
  <2>3. Cheapest(i + j, i, j, a, b)
    BY <1>2, <2>2, CheapestOfNone
  <2> QED
    BY <2>1, <2>3, Zenon
<1>3. 0 \in S
  <2> SUFFICES ASSUME NEW i \in 0 .. m, NEW j \in 0 .. n, i + j <= 0
               PROVE  Cheapest(D[i][j], i, j, a, b)
    BY <1>1
  <2>1. i = 0
    BY <1>1
  <2> QED
    BY <1>2, <2>1
<1>4. ASSUME NEW k \in 0 .. (m + n) - 1, k \in S
      PROVE  k + 1 \in S
  <2>0. k + 1 \in 0 .. m + n
    BY <1>1
  <2> SUFFICES ASSUME NEW i \in 0 .. m, NEW j \in 0 .. n, i + j <= k + 1
               PROVE  Cheapest(D[i][j], i, j, a, b)
    BY <2>0
  <2>1. CASE i = 0 \/ j = 0
    BY <1>2, <2>1
  <2>2. CASE ~ (i = 0 \/ j = 0)
    <3>1. /\ i \in 1 .. m /\ j \in 1 .. n /\ i - 1 \in 0 .. m /\ j - 1 \in 0 .. n
          /\ (i - 1) + j <= k /\ i + (j - 1) <= k /\ (i - 1) + (j - 1) <= k
          /\ i \in Nat \ {0} /\ j \in Nat \ {0}
      BY <1>1, <2>2
    <3>2. \A u \in 0 .. m : \A v \in 0 .. n : u + v <= k => Cheapest(D[u][v], u, v, a, b)
      BY <1>4
    <3>3. /\ Cheapest(D[i][j - 1], i, j - 1, a, b) /\ Cheapest(D[i - 1][j], i - 1, j, a, b)
          /\ Cheapest(D[i - 1][j - 1], i - 1, j - 1, a, b)
      BY <3>1, <3>2
    <3> DEFINE x == D[i][j - 1]
               y == D[i - 1][j]
               z == D[i - 1][j - 1]
               d == D[i][j]
    <3>4. /\ x \in Nat /\ y \in Nat /\ z \in Nat /\ d \in Nat
          /\ d <= x + 1 /\ d <= y + 1 /\ d <= z + Cost(a[i], b[j])
          /\ d \in {x + 1, y + 1, z + Cost(a[i], b[j])}
      BY <3>1, EntryIs
    <3> HIDE DEF x, y, z, d
    <3>5. /\ Cheapest(x, i, j - 1, a, b) /\ Cheapest(y, i - 1, j, a, b)
          /\ Cheapest(z, i - 1, j - 1, a, b)
      BY <3>3, Zenon DEF x, y, z
    <3>6. Cheapest(d, i, j, a, b)
      BY <3>1, <3>4, <3>5, CheapestStep
    <3> QED
      BY <3>6 DEF d
  <2> QED
    BY <2>1, <2>2
<1>5. m + n \in S
  <2>1. m + n \in Nat /\ m + n \in 0 .. m + n
    BY <1>1
  <2> HIDE DEF S, m, n
  <2>2. \A k \in 0 .. m + n : k \in S
    BY <1>3, <1>4, <2>1, UpTo
  <2> QED
    BY <2>1, <2>2
<1>6. m \in 0 .. m /\ n \in 0 .. n /\ m + n <= m + n
  BY <1>1
<1>7. \A i \in 0 .. m : \A j \in 0 .. n : i + j <= m + n => Cheapest(D[i][j], i, j, a, b)
  BY <1>5
<1> HIDE DEF m, n
<1> QED
  BY <1>6, <1>7, Zenon DEF m, n

\* The distance of two sequences of any length is the price of their cheapest
\* alignment (_levenshtein_distance).
THEOREM DistanceIsCheapest ==
  ASSUME NEW W, NEW a \in Seq(W), NEW b \in Seq(W)
  PROVE  DistanceIsLeast(a, b)
<1> DEFINE m == Len(a)
           n == Len(b)
           l == Levenshtein(a, b)
           S == {Price(k, m, n, a, b) : k \in Pairings(m, n)}
<1>1. DOMAIN a = 1 .. m /\ DOMAIN b = 1 .. n
  BY LenProperties
<1>2. Alignments(a, b) = Pairings(m, n)
  BY <1>1, Zenon DEF Alignments, Pairings, Aligned
<1>3. {m + n - 2 * Cardinality(k) + Cardinality({p \in k : a[p[1]] # b[p[2]]}) :
         k \in Alignments(a, b)} = S
  BY <1>2, Zenon DEF Price, Differing
<1>4. PICK D : Table(D, a, b) /\ l = D[m][n]
  BY DistanceIs
<1>5. Cheapest(l, m, n, a, b)
  <2>1. Cheapest(D[m][n], m, n, a, b)
    BY <1>4, TableIsCheapest
  <2> QED
    BY <1>4, <2>1, Zenon
<1>6. l \in S /\ \A x \in S : l <= x
  <2> HIDE DEF l, m, n
  <2> QED
    BY <1>5 DEF Cheapest
<1>7. l \in Nat /\ S \subseteq Int
  <2>1. l \in Nat
    BY DistanceMirrors
  <2>2. m \in Nat /\ n \in Nat
    BY LenProperties
  <2>3. \A k \in Pairings(m, n) : Price(k, m, n, a, b) \in Int
    <3> HIDE DEF m, n
    <3> QED
      BY <2>2, PairsAreFinite DEF Pairings
  <2> HIDE DEF l, m, n
  <2> QED
    BY <2>1, <2>3
<1>8. Min(S) = l
  <2> HIDE DEF S, l
  <2>1. Min(S) \in S /\ \A x \in S : Min(S) <= x
    BY <1>6 DEF Min
  <2>2. Min(S) <= l /\ l <= Min(S)
    BY <1>6, <2>1
  <2>3. Min(S) \in Int
    BY <1>7, <2>1
  <2> QED
    BY <1>7, <2>2, <2>3
<1> HIDE DEF S, l, m, n
<1> QED
  <2>1. DistanceIsLeast(a, b) <=>
          l = Min({m + n - 2 * Cardinality(k) + Cardinality({p \in k : a[p[1]] # b[p[2]]}) :
                     k \in Alignments(a, b)})
    BY Zenon DEF DistanceIsLeast, l, m, n
  <2> QED
    BY <1>3, <1>8, <2>1, Zenon

-----------------------------------------------------------------------------
(* Walks.                                                                  *)

Ids(trace) == {NoParent} \union {trace[i].id : i \in DOMAIN trace}

\* What is put together for the events below p.
Subtrees(trace, p, down) ==
  [i \in DOMAIN trace |->
     IF trace[i].parent = p THEN <<trace[i]>> \o down[trace[i].id] ELSE <<>>]

LEMMA SubtreesAre ==
  ASSUME NEW W, NEW trace \in Seq(W), NEW p,
         NEW down \in [Ids(trace) -> Seq(ToSet(trace))]
  PROVE  /\ Subtrees(trace, p, down) \in Seq(Seq(ToSet(trace)))
         /\ Len(Subtrees(trace, p, down)) = Len(trace)
         /\ \A i \in 1 .. Len(trace) :
              /\ trace[i] \in ToSet(trace)
              /\ down[trace[i].id] \in Seq(ToSet(trace))
              /\ Subtrees(trace, p, down)[i] =
                   IF trace[i].parent = p THEN <<trace[i]>> \o down[trace[i].id] ELSE <<>>
<1> DEFINE n == Len(trace)
           E == ToSet(trace)
           c == Subtrees(trace, p, down)
<1>1. n \in Nat /\ DOMAIN trace = 1 .. n
  BY LenProperties
<1>2. ASSUME NEW i \in 1 .. n
      PROVE  trace[i] \in E /\ down[trace[i].id] \in Seq(E)
  <2>1. trace[i].id \in Ids(trace)
    BY <1>1 DEF Ids
  <2>2. trace[i] \in E
    BY <1>1 DEF ToSet
  <2> HIDE DEF E
  <2> QED
    BY <2>1, <2>2 DEF E
<1>3. \A i \in 1 .. n :
        c[i] = IF trace[i].parent = p THEN <<trace[i]>> \o down[trace[i].id] ELSE <<>>
  BY <1>1 DEF Subtrees
<1>4. c \in [1 .. n -> Seq(E)]
  <2>1. ASSUME NEW i \in 1 .. n
        PROVE  (IF trace[i].parent = p THEN <<trace[i]>> \o down[trace[i].id] ELSE <<>>) \in Seq(E)
    <3> DEFINE x == trace[i]
               s == down[trace[i].id]
    <3>1. x \in E /\ s \in Seq(E)
      BY <1>2
    <3> HIDE DEF x, s, E
    <3>2. <<x>> \in Seq(E) /\ <<>> \in Seq(E)
      BY <3>1
    <3>3. <<x>> \o s \in Seq(E)
      BY <3>1, <3>2, ConcatProperties
    <3> QED
      BY <3>2, <3>3 DEF x, s
  <2> QED
    BY <1>1, <2>1, Zenon DEF Subtrees
<1> HIDE DEF c, E
<1>5. c \in Seq(Seq(E)) /\ Len(c) = n
  BY <1>1, <1>4, FunctionIsSeq
<1> QED
  BY <1>2, <1>3, <1>5, Zenon DEF c, E

\* The events below p are its children and those below them.
Gathers(s, trace, p, down) ==
  \A x : x \in ToSet(s) <=> \E i \in 1 .. Len(trace) :
                             /\ trace[i].parent = p
                             /\ x = trace[i] \/ x \in ToSet(down[trace[i].id])

LEMMA BelowIs ==
  ASSUME NEW W, NEW trace \in Seq(W), NEW p,
         NEW down \in [Ids(trace) -> Seq(ToSet(trace))]
  PROVE  /\ Below(trace, p, down) \in Seq(ToSet(trace))
         /\ Below(trace, p, down) = FlattenSeq(Subtrees(trace, p, down))
         /\ Gathers(Below(trace, p, down), trace, p, down)
<1> DEFINE n == Len(trace)
           E == ToSet(trace)
           c == Subtrees(trace, p, down)
<1>1. Below(trace, p, down) = FlattenSeq(c)
  BY Zenon DEF Below, Subtrees
<1>2. /\ c \in Seq(Seq(E)) /\ Len(c) = n
      /\ \A i \in 1 .. n :
           /\ trace[i] \in E
           /\ down[trace[i].id] \in Seq(E)
           /\ c[i] = IF trace[i].parent = p THEN <<trace[i]>> \o down[trace[i].id] ELSE <<>>
  BY SubtreesAre
<1> HIDE DEF c, E
<1>3. FlattenSeq(c) \in Seq(E) /\ ToSet(FlattenSeq(c)) = UNION {ToSet(c[i]) : i \in 1 .. n}
  BY <1>2, FlattenMembers
<1>4. ASSUME NEW i \in 1 .. n, NEW x
      PROVE  x \in ToSet(c[i]) <=>
               trace[i].parent = p /\ (x = trace[i] \/ x \in ToSet(down[trace[i].id]))
  <2>1. CASE trace[i].parent = p
    <3> DEFINE e == trace[i]
               s == down[trace[i].id]
    <3>1. e \in E /\ s \in Seq(E) /\ c[i] = <<e>> \o s
      BY <1>2, <2>1
    <3> HIDE DEF e, s
    <3>2. <<e>> \in Seq(E)
      BY <3>1
    <3>3. ToSet(<<e>> \o s) = ToSet(<<e>>) \union ToSet(s)
      BY <3>1, <3>2, SetOfBoth
    <3>4. ToSet(<<e>>) = {e}
      BY DEF ToSet
    <3>5. x \in ToSet(c[i]) <=> x = e \/ x \in ToSet(s)
      BY <3>1, <3>3, <3>4
    <3> QED
      BY <2>1, <3>5 DEF e, s
  <2>2. CASE trace[i].parent # p
    <3>1. c[i] = <<>>
      BY <1>2, <2>2
    <3>2. ToSet(<<>>) = {}
      BY DEF ToSet
    <3> QED
      BY <2>2, <3>1, <3>2
  <2> QED
    BY <2>1, <2>2
<1>5. \A x : x \in ToSet(FlattenSeq(c)) <=> \E i \in 1 .. n : x \in ToSet(c[i])
  BY <1>3
<1> HIDE DEF n
<1>6. \A x : x \in ToSet(FlattenSeq(c)) <=>
               \E i \in 1 .. n : /\ trace[i].parent = p
                                 /\ x = trace[i] \/ x \in ToSet(down[trace[i].id])
  BY <1>4, <1>5, Zenon
<1> QED
  BY <1>1, <1>3, <1>6, Zenon DEF c, E, n, Gathers

\* The walks down from each event, by how deep they go.
Descents(w, trace) ==
  /\ w \in [0 .. Len(trace) -> [Ids(trace) -> Seq(ToSet(trace))]]
  /\ \A p \in Ids(trace) : w[0][p] = <<>>
  /\ \A k \in 1 .. Len(trace) : \A p \in Ids(trace) : w[k][p] = Below(trace, p, w[k - 1])

LEMMA WalkIs ==
  ASSUME NEW W, NEW trace \in Seq(W)
  PROVE  \E w : Descents(w, trace) /\ ToolSequence(trace) = w[Len(trace)][NoParent]
<1> DEFINE n == Len(trace)
           P == Ids(trace)
           X == [P -> Seq(ToSet(trace))]
           None == [p \in P |-> <<>>]
           G(v) == [p \in P |-> Below(trace, p, v)]
           F(w) == [k \in 0 .. n |->
                      [p \in P |-> IF k = 0 THEN <<>> ELSE Below(trace, p, w[k - 1])]]
           r == CHOOSE w : w = F(w)
           step == [k \in 1 .. n |-> [v \in X |-> G(v)]]
<1>1. n \in Nat
  BY LenProperties
<1>2. ToolSequence(trace) = r[n][NoParent]
  BY Zenon DEF ToolSequence, Ids
<1>3. None \in X
  <2>1. <<>> \in Seq(ToSet(trace))
    OBVIOUS
  <2> HIDE DEF P
  <2> QED
    BY <2>1
<1>4. \A v \in X : G(v) \in X
  <2> SUFFICES ASSUME NEW v \in X, NEW p \in P PROVE Below(trace, p, v) \in Seq(ToSet(trace))
    BY Zenon
  <2> QED
    BY BelowIs
<1>5. step \in [1 .. n -> [X -> X]] /\ \A k \in 1 .. n : \A v \in X : step[k][v] = G(v)
  <2> HIDE DEF X, G
  <2> QED
    BY <1>4
<1>6. PICK g : Iterates(g, n, X, None, step)
  <2> HIDE DEF step, n, X, None
  <2> QED
    BY <1>1, <1>3, <1>5, Recursion
<1>7. g \in [0 .. n -> X] /\ g[0] = None /\ \A k \in 1 .. n : g[k] = step[k][g[k - 1]]
  BY <1>6, Zenon DEF Iterates
<1>8. \A k \in 1 .. n : k \in 0 .. n /\ k - 1 \in 0 .. n /\ k # 0
  BY <1>1
<1>9. ASSUME NEW k \in 1 .. n
      PROVE  g[k] = G(g[k - 1])
  <2>1. g[k - 1] \in X
    <3> HIDE DEF X, n, None, step
    <3> QED
      BY <1>7, <1>8
  <2> HIDE DEF X, G, step
  <2> QED
    BY <1>5, <1>7, <2>1
<1>10. g = F(g)
  <2> SUFFICES ASSUME NEW k \in 0 .. n
               PROVE  g[k] = [p \in P |-> IF k = 0 THEN <<>> ELSE Below(trace, p, g[k - 1])]
    BY <1>7, Zenon
  <2>1. CASE k = 0
    BY <1>7, <2>1, Zenon
  <2>2. CASE k # 0
    <3>1. k \in 1 .. n
      BY <1>1, <2>2
    <3>2. g[k] = G(g[k - 1])
      BY <1>9, <3>1
    <3> QED
      BY <2>2, <3>2, Zenon
  <2> QED
    BY <2>1, <2>2
<1>11. r = F(r)
  <2> HIDE DEF F
  <2> QED
    BY <1>10
<1> HIDE DEF r
<1>12. ASSUME NEW k \in 0 .. n
       PROVE  r[k] = [p \in P |-> IF k = 0 THEN <<>> ELSE Below(trace, p, r[k - 1])]
  <2> DEFINE Q == F(r)
  <2>1. Q[k] = [p \in P |-> IF k = 0 THEN <<>> ELSE Below(trace, p, r[k - 1])]
    BY Zenon
  <2>2. r = Q
    BY <1>11
  <2> HIDE DEF Q
  <2> QED
    BY <2>1, <2>2, Zenon
<1>13. r[0] = None
  <2>1. 0 \in 0 .. n
    BY <1>1
  <2>2. r[0] = [p \in P |-> IF 0 = 0 THEN <<>> ELSE Below(trace, p, r[0 - 1])]
    BY <1>12, <2>1, Zenon
  <2> QED
    BY <2>2, Zenon
<1>14. ASSUME NEW k \in 1 .. n
       PROVE  r[k] = G(r[k - 1])
  BY <1>8, <1>12, Zenon
<1>15. \A k \in 0 .. n : r[k] \in X
  <2> DEFINE S == {k \in 0 .. n : r[k] \in X}
  <2>1. 0 \in S
    <3>1. 0 \in 0 .. n
      BY <1>1
    <3> QED
      BY <1>3, <1>13, <3>1, Zenon
  <2>2. ASSUME NEW k \in 0 .. (n - 1), k \in S PROVE k + 1 \in S
    <3>1. k + 1 \in 1 .. n /\ k + 1 \in 0 .. n /\ (k + 1) - 1 = k
      BY <1>1
    <3>2. r[k + 1] = G(r[(k + 1) - 1])
      BY <1>14, <3>1, Zenon
    <3>3. r[k] \in X
      BY <2>2
    <3> HIDE DEF G, X
    <3>4. r[k + 1] = G(r[k])
      BY <3>1, <3>2
    <3> QED
      BY <1>4, <3>1, <3>3, <3>4
  <2> HIDE DEF S
  <2>3. \A k \in 0 .. n : k \in S
    BY <1>1, <2>1, <2>2, UpTo
  <2> QED
    BY <2>3 DEF S
<1>16. r \in [0 .. n -> X]
  <2>1. DOMAIN r = 0 .. n
    BY <1>11, Zenon
  <2>2. r = [k \in 0 .. n |-> r[k]]
    BY <1>11, <2>1, Zenon
  <2> HIDE DEF X, F
  <2> QED
    BY <1>15, <2>2
<1>17. \A p \in P : r[0][p] = <<>>
  BY <1>13, Zenon
<1>18. \A k \in 1 .. n : \A p \in P : r[k][p] = Below(trace, p, r[k - 1])
  BY <1>14, Zenon
<1>19. Descents(r, trace)
  BY <1>16, <1>17, <1>18, Zenon DEF Descents
<1> QED
  BY <1>2, <1>19

\* In a sequence of events, each is below one of the roots or below an earlier event.
Rooted(s, R) ==
  \A i \in DOMAIN s : s[i].parent \in R \/ \E j \in 1 .. i - 1 : s[j].id = s[i].parent

IdsOf(s) == {s[i].id : i \in DOMAIN s}

LEMMA RootedBoth ==
  ASSUME NEW E, NEW s \in Seq(E), NEW t \in Seq(E), NEW R,
         Rooted(s, R), Rooted(t, R \union IdsOf(s))
  PROVE  Rooted(s \o t, R)
<1> DEFINE u == s \o t
           m == Len(s)
           n == Len(t)
<1>1. /\ m \in Nat /\ n \in Nat /\ DOMAIN s = 1 .. m /\ DOMAIN t = 1 .. n
      /\ u \in Seq(E) /\ Len(u) = m + n /\ DOMAIN u = 1 .. m + n
  BY LenProperties, ConcatProperties
<1>2. \A i \in 1 .. m + n : u[i] = IF i <= m THEN s[i] ELSE t[i - m]
  BY ConcatProperties
<1> HIDE DEF u, m, n
<1>3. ASSUME NEW i \in 1 .. m + n
      PROVE  u[i].parent \in R \/ \E j \in 1 .. i - 1 : u[j].id = u[i].parent
  <2>1. CASE i <= m
    <3>1. i \in DOMAIN s /\ u[i] = s[i]
      BY <1>1, <1>2, <2>1
    <3>2. \A j \in 1 .. i - 1 : u[j] = s[j]
      BY <1>1, <1>2, <2>1
    <3>3. s[i].parent \in R \/ \E j \in 1 .. i - 1 : s[j].id = s[i].parent
      BY <3>1, Zenon DEF Rooted
    <3> QED
      BY <3>1, <3>2, <3>3
  <2>2. CASE ~ (i <= m)
    <3> DEFINE k == i - m
    <3>1. k \in DOMAIN t /\ u[i] = t[k] /\ k \in 1 .. n /\ i = k + m
      BY <1>1, <1>2, <2>2
    <3> HIDE DEF k
    <3>2. \/ t[k].parent \in R \/ \E l \in 1 .. m : s[l].id = t[k].parent
          \/ \E j \in 1 .. k - 1 : t[j].id = t[k].parent
      BY <1>1, <3>1 DEF Rooted, IdsOf
    <3>3. CASE \E l \in 1 .. m : s[l].id = t[k].parent
      <4>1. PICK l \in 1 .. m : s[l].id = t[k].parent
        BY <3>3
      <4>2. l \in 1 .. i - 1 /\ u[l] = s[l]
        BY <1>1, <1>2, <2>2
      <4> QED
        BY <3>1, <4>1, <4>2
    <3>4. CASE \E j \in 1 .. k - 1 : t[j].id = t[k].parent
      <4>1. PICK j \in 1 .. k - 1 : t[j].id = t[k].parent
        BY <3>4
      <4>2. /\ j + m \in 1 .. i - 1 /\ j + m \in 1 .. m + n /\ ~ (j + m <= m)
            /\ (j + m) - m = j
        BY <1>1, <3>1
      <4>3. u[j + m] = t[j]
        BY <1>2, <4>2
      <4> QED
        BY <3>1, <4>1, <4>2, <4>3
    <3> QED
      BY <3>1, <3>2, <3>3, <3>4
  <2> QED
    BY <2>1, <2>2
<1> QED
  BY <1>1, <1>3, Zenon DEF Rooted, u

AllRooted(ss, R) == \A i \in 1 .. Len(ss) : Rooted(ss[i], R)

LEMMA RootedFlatten ==
  ASSUME NEW E, NEW ss \in Seq(Seq(E)), NEW R, AllRooted(ss, R)
  PROVE  Rooted(FlattenSeq(ss), R)
<1> DEFINE n == Len(ss)
<1>1. n \in Nat /\ \A k \in 1 .. n : ss[k] \in Seq(E)
  BY LenProperties, ElementOfSeq
<1>2. PICK g \in [0 .. n -> Seq(E)] :
        /\ g[0] = <<>> /\ FlattenSeq(ss) = g[n]
        /\ \A k \in 1 .. n : g[k] = g[k - 1] \o ss[k]
  BY FlattenIs
<1>3. \A k \in 1 .. n : Rooted(ss[k], R)
  BY DEF AllRooted
<1> DEFINE S == {k \in 0 .. n : Rooted(g[k], R)}
<1> HIDE DEF n
<1>4. 0 \in S
  <2>1. DOMAIN <<>> = {}
    OBVIOUS
  <2>2. Rooted(<<>>, R)
    BY <2>1, Zenon DEF Rooted
  <2> QED
    BY <1>1, <1>2, <2>2
<1>5. ASSUME NEW k \in 0 .. (n - 1), k \in S PROVE k + 1 \in S
  <2>1. k + 1 \in 1 .. n /\ k + 1 \in 0 .. n /\ (k + 1) - 1 = k /\ k \in 0 .. n
    BY <1>1
  <2> DEFINE s == g[k]
             t == ss[k + 1]
  <2>2. s \in Seq(E) /\ t \in Seq(E) /\ Rooted(s, R) /\ Rooted(t, R)
    BY <1>1, <1>2, <1>3, <1>5, <2>1
  <2>3. g[k + 1] = s \o t
    BY <1>2, <2>1
  <2> HIDE DEF s, t
  <2>4. Rooted(t, R \union IdsOf(s))
    BY <2>2, Zenon DEF Rooted
  <2>5. Rooted(s \o t, R)
    BY <2>2, <2>4, RootedBoth
  <2> QED
    BY <2>1, <2>3, <2>5
<1>6. \A k \in 0 .. n : k \in S
  <2> HIDE DEF S
  <2> QED
    BY <1>1, <1>4, <1>5, UpTo
<1> QED
  BY <1>1, <1>2, <1>6

\* A sequence in which nothing comes twice.
Once(s) == Len(s) = Cardinality(ToSet(s))

LEMMA OnceBoth ==
  ASSUME NEW E, NEW s \in Seq(E), NEW t \in Seq(E), Once(s), Once(t),
         ToSet(s) \intersect ToSet(t) = {}
  PROVE  Once(s \o t)
<1> DEFINE A == ToSet(s)
           B == ToSet(t)
<1>1. IsFiniteSet(A) /\ IsFiniteSet(B)
  BY SetOfSeq
<1>2. ToSet(s \o t) = A \union B
  BY SetOfBoth
<1>3. Len(s \o t) = Len(s) + Len(t)
  BY ConcatProperties
<1>4. Len(s) = Cardinality(A) /\ Len(t) = Cardinality(B) /\ A \intersect B = {}
  BY DEF Once
<1> HIDE DEF A, B
<1>5. Cardinality(A \union B) = Cardinality(A) + Cardinality(B) - Cardinality(A \intersect B)
  BY <1>1, FS_Union
<1>6. Cardinality(A \intersect B) = 0
  BY <1>4, FS_EmptySet
<1>7. Cardinality(A) \in Nat /\ Cardinality(B) \in Nat
  BY <1>1, FS_CardinalityType
<1> QED
  BY <1>2, <1>3, <1>4, <1>5, <1>6, <1>7 DEF Once

Apart(ss) ==
  /\ \A i \in 1 .. Len(ss) : Once(ss[i])
  /\ \A i, j \in 1 .. Len(ss) : i # j => ToSet(ss[i]) \intersect ToSet(ss[j]) = {}

LEMMA OnceFlatten ==
  ASSUME NEW E, NEW ss \in Seq(Seq(E)), Apart(ss)
  PROVE  Once(FlattenSeq(ss))
<1> DEFINE n == Len(ss)
<1>1. n \in Nat /\ \A k \in 1 .. n : ss[k] \in Seq(E)
  BY LenProperties, ElementOfSeq
<1>2. PICK g \in [0 .. n -> Seq(E)] :
        /\ g[0] = <<>> /\ FlattenSeq(ss) = g[n]
        /\ \A k \in 1 .. n : g[k] = g[k - 1] \o ss[k]
  BY FlattenIs
<1>3. \A k \in 1 .. n : Once(ss[k])
  BY DEF Apart
<1>4. \A i, j \in 1 .. n : i # j => ToSet(ss[i]) \intersect ToSet(ss[j]) = {}
  BY DEF Apart
<1> DEFINE S == {k \in 0 .. n : /\ Once(g[k])
                                /\ \A x \in ToSet(g[k]) : \E i \in 1 .. k : x \in ToSet(ss[i])}
<1> HIDE DEF n
<1>5. 0 \in S
  <2>1. ToSet(<<>>) = {} /\ Len(<<>>) = 0 /\ Cardinality({}) = 0
    BY FS_EmptySet DEF ToSet
  <2>2. Once(<<>>)
    BY <2>1 DEF Once
  <2> QED
    BY <1>1, <1>2, <2>1, <2>2
<1>6. ASSUME NEW k \in 0 .. (n - 1), k \in S PROVE k + 1 \in S
  <2>1. /\ k + 1 \in 1 .. n /\ k + 1 \in 0 .. n /\ (k + 1) - 1 = k /\ k \in 0 .. n
        /\ \A i \in 1 .. k : i \in 1 .. n /\ i \in 1 .. k + 1 /\ i # k + 1
        /\ k + 1 \in 1 .. k + 1
    BY <1>1
  <2> DEFINE s == g[k]
             t == ss[k + 1]
  <2>2. s \in Seq(E) /\ t \in Seq(E) /\ Once(s) /\ Once(t)
    BY <1>1, <1>2, <1>3, <1>6, <2>1
  <2>3. g[k + 1] = s \o t
    BY <1>2, <2>1
  <2>4. \A x \in ToSet(s) : \E i \in 1 .. k : x \in ToSet(ss[i])
    BY <1>6
  <2>5. ToSet(s) \intersect ToSet(t) = {}
    BY <1>4, <2>1, <2>4
  <2>6. \A x \in ToSet(s) \union ToSet(t) : \E i \in 1 .. k + 1 : x \in ToSet(ss[i])
    BY <2>1, <2>4
  <2> HIDE DEF s, t
  <2>7. Once(s \o t) /\ ToSet(s \o t) = ToSet(s) \union ToSet(t)
    BY <2>2, <2>5, OnceBoth, SetOfBoth
  <2> QED
    BY <2>1, <2>3, <2>6, <2>7
<1>7. \A k \in 0 .. n : k \in S
  <2> HIDE DEF S
  <2> QED
    BY <1>1, <1>5, <1>6, UpTo
<1> QED
  BY <1>1, <1>2, <1>7

\* The code gives each event an identifier of its own.
Identified(trace) ==
  /\ \A i \in DOMAIN trace : trace[i].id # NoParent
  /\ \A i, j \in DOMAIN trace : trace[i].id = trace[j].id => i = j

\* The identifiers at each depth: of the root, its children, their children ...
Levels(J, trace) ==
  /\ J \in [0 .. Len(trace) + 1 -> SUBSET Ids(trace)]
  /\ J[0] = {NoParent}
  /\ \A k \in 1 .. Len(trace) + 1 :
       \A p : p \in J[k] <=>
                \E i \in DOMAIN trace : trace[i].parent \in J[k - 1] /\ p = trace[i].id

LEMMA LevelsExist ==
  ASSUME NEW W, NEW trace \in Seq(W)
  PROVE  \E J : Levels(J, trace)
<1> DEFINE n == Len(trace) + 1
           X == SUBSET Ids(trace)
           Next1(A) == {trace[i].id : i \in {j \in DOMAIN trace : trace[j].parent \in A}}
           step == [k \in 1 .. n |-> [A \in X |-> Next1(A)]]
           first == {NoParent}
<1>1. n \in Nat
  BY LenProperties
<1>2. first \in X
  BY DEF Ids
<1>3. \A A \in X : Next1(A) \in X
  BY DEF Ids
<1>4. step \in [1 .. n -> [X -> X]] /\ \A k \in 1 .. n : \A A \in X : step[k][A] = Next1(A)
  <2> HIDE DEF X, Next1
  <2> QED
    BY <1>3
<1>5. PICK g : Iterates(g, n, X, first, step)
  <2> HIDE DEF step, n, X, first
  <2> QED
    BY <1>1, <1>2, <1>4, Recursion
<1>6. g \in [0 .. n -> X] /\ g[0] = first /\ \A k \in 1 .. n : g[k] = step[k][g[k - 1]]
  BY <1>5, Zenon DEF Iterates
<1>7. ASSUME NEW k \in 1 .. n
      PROVE  g[k] = Next1(g[k - 1])
  <2>1. k - 1 \in 0 .. n
    BY <1>1
  <2> HIDE DEF n, X, first, step, Next1
  <2>2. g[k - 1] \in X
    BY <1>6, <2>1
  <2> QED
    BY <1>4, <1>6, <2>2
<1>8. \A k \in 1 .. n :
        \A p : p \in g[k] <=>
                 \E i \in DOMAIN trace : trace[i].parent \in g[k - 1] /\ p = trace[i].id
  <2>1. \A A, p : p \in Next1(A) <=>
                    \E i \in DOMAIN trace : trace[i].parent \in A /\ p = trace[i].id
    OBVIOUS
  <2> HIDE DEF Next1
  <2> SUFFICES ASSUME NEW k \in 1 .. n, NEW p
               PROVE  p \in g[k] <=>
                        \E i \in DOMAIN trace :
                          trace[i].parent \in g[k - 1] /\ p = trace[i].id
    BY Zenon
  <2>2. g[k] = Next1(g[k - 1])
    BY <1>7
  <2> DEFINE A == g[k - 1]
  <2>3. p \in Next1(A) <=> \E i \in DOMAIN trace : trace[i].parent \in A /\ p = trace[i].id
    BY <2>1
  <2> HIDE DEF n
  <2> QED
    BY <2>2, <2>3
<1> QED
  BY <1>6, <1>8, Zenon DEF Levels

\* No event is at two depths.
LEMMA LevelsApart ==
  ASSUME NEW W, NEW trace \in Seq(W), Identified(trace), NEW J, Levels(J, trace),
         NEW e \in 0 .. Len(trace) + 1, NEW f \in 0 .. Len(trace) + 1,
         NEW p, p \in J[e], p \in J[f]
  PROVE  e = f
<1> DEFINE n == Len(trace) + 1
           S == {k \in 0 .. n : \A l \in 0 .. n : \A q : q \in J[k] /\ q \in J[l] => k = l}
<1>1. n \in Nat
  BY LenProperties
<1>2. /\ J[0] = {NoParent}
      /\ \A k \in 1 .. n :
           \A q : q \in J[k] <=>
                    \E i \in DOMAIN trace : trace[i].parent \in J[k - 1] /\ q = trace[i].id
  BY Zenon DEF Levels
<1>3. /\ \A i \in DOMAIN trace : trace[i].id # NoParent
      /\ \A i, j \in DOMAIN trace : trace[i].id = trace[j].id => i = j
  BY DEF Identified
<1> HIDE DEF n
<1>4. \A k \in 1 .. n : NoParent \notin J[k]
  BY <1>2, <1>3
<1>5. 0 \in S
  <2>1. \A l \in 0 .. n : l # 0 => l \in 1 .. n
    BY <1>1
  <2>2. 0 \in 0 .. n
    BY <1>1
  <2> QED
    BY <1>2, <1>4, <2>1, <2>2
<1>6. ASSUME NEW k \in 0 .. (n - 1), k \in S PROVE k + 1 \in S
  <2>1. k + 1 \in 1 .. n /\ k + 1 \in 0 .. n /\ (k + 1) - 1 = k /\ k \in 0 .. n
    BY <1>1
  <2> SUFFICES ASSUME NEW l \in 0 .. n, NEW q, q \in J[k + 1], q \in J[l]
               PROVE  k + 1 = l
    BY <2>1
  <2>2. PICK i \in DOMAIN trace : trace[i].parent \in J[k] /\ q = trace[i].id
    BY <1>2, <2>1
  <2>3. l # 0
    BY <1>2, <1>3, <2>2
  <2>4. l \in 1 .. n /\ l - 1 \in 0 .. n
    BY <1>1, <2>3
  <2>5. PICK j \in DOMAIN trace : trace[j].parent \in J[l - 1] /\ q = trace[j].id
    BY <1>2, <2>4
  <2>6. i = j
    BY <1>3, <2>2, <2>5
  <2>7. k = l - 1
    BY <1>6, <2>2, <2>4, <2>5, <2>6
  <2> QED
    BY <2>1, <2>4, <2>7
<1>7. \A k \in 0 .. n : k \in S
  <2> HIDE DEF S
  <2> QED
    BY <1>1, <1>5, <1>6, UpTo
<1>8. e \in S
  BY <1>7 DEF n
<1> QED
  BY <1>8 DEF n

\* There are not more depths than events.
LEMMA LevelsEnd ==
  ASSUME NEW W, NEW trace \in Seq(W), Identified(trace), NEW J, Levels(J, trace)
  PROVE  J[Len(trace) + 1] = {}
<1> DEFINE m == Len(trace)
           n == m + 1
<1>1. m \in Nat /\ n \in Nat /\ DOMAIN trace = 1 .. m /\ n \in 0 .. n
  BY LenProperties
<1>2. \A k \in 1 .. n :
        \A q : q \in J[k] <=>
                 \E i \in DOMAIN trace : trace[i].parent \in J[k - 1] /\ q = trace[i].id
  BY Zenon DEF Levels
<1> SUFFICES ASSUME J[n] # {}
             PROVE  FALSE
  OBVIOUS
<1> DEFINE S == {k \in 0 .. n : J[n - k] # {}}
           f == [k \in 1 .. n |-> CHOOSE i \in 1 .. m : trace[i].id \in J[k]]
<1> HIDE DEF n, m
<1>3. 0 \in S
  <2>1. n - 0 = n /\ 0 \in 0 .. n
    BY <1>1
  <2> QED
    BY <2>1
<1>4. ASSUME NEW k \in 0 .. (n - 1), k \in S PROVE k + 1 \in S
  <2>1. n - k \in 1 .. n /\ (n - k) - 1 = n - (k + 1) /\ k + 1 \in 0 .. n
    BY <1>1
  <2>2. PICK q : q \in J[n - k]
    BY <1>4
  <2>3. \E i \in DOMAIN trace : trace[i].parent \in J[(n - k) - 1]
    BY <1>2, <2>1, <2>2
  <2> QED
    BY <2>1, <2>3
<1>5. \A k \in 0 .. n : k \in S
  <2> HIDE DEF S
  <2> QED
    BY <1>1, <1>3, <1>4, UpTo
<1>6. ASSUME NEW k \in 1 .. n
      PROVE  f[k] \in 1 .. m /\ trace[f[k]].id \in J[k]
  <2>1. n - k \in 0 .. n /\ n - (n - k) = k
    BY <1>1
  <2>2. J[k] # {}
    BY <1>5, <2>1
  <2>3. \E i \in 1 .. m : trace[i].id \in J[k]
    BY <1>1, <1>2, <2>2
  <2> QED
    BY <2>3
<1>7. f \in [1 .. n -> 1 .. m]
  BY <1>6
<1> HIDE DEF f
<1>8. /\ IsFiniteSet(1 .. n) /\ Cardinality(1 .. n) = n
      /\ IsFiniteSet(1 .. m) /\ Cardinality(1 .. m) = m
  <2>1. 1 \in Int /\ n \in Int /\ m \in Int
    BY <1>1
  <2>2. /\ IsFiniteSet(1 .. n) /\ Cardinality(1 .. n) = (IF 1 > n THEN 0 ELSE n - 1 + 1)
        /\ IsFiniteSet(1 .. m) /\ Cardinality(1 .. m) = (IF 1 > m THEN 0 ELSE m - 1 + 1)
    BY <2>1, FS_Interval
  <2> QED
    BY <1>1, <2>2
<1>9. m < n
  BY <1>1 DEF n
<1>10. Cardinality(1 .. m) < Cardinality(1 .. n)
  BY <1>8, <1>9
<1>11. PICK k, l \in 1 .. n : k # l /\ f[k] = f[l]
  BY <1>7, <1>8, <1>10, FS_PigeonHole
<1>12. k \in 0 .. Len(trace) + 1 /\ l \in 0 .. Len(trace) + 1
  BY <1>1 DEF n, m
<1>13. trace[f[k]].id \in J[k] /\ trace[f[k]].id \in J[l]
  BY <1>6, <1>11
<1> QED
  BY <1>11, <1>12, <1>13, LevelsApart

\* What is below an event is deeper than it, by no more steps than the walk takes.
Deeper(s, J, e, k) == \A x \in ToSet(s) : \E f \in e + 1 .. e + k : x.id \in J[f]

LEMMA DescentIs ==
  ASSUME NEW W, NEW trace \in Seq(W), NEW w, Descents(w, trace),
         NEW k \in 1 .. Len(trace), NEW p \in Ids(trace)
  PROVE  /\ w[k - 1] \in [Ids(trace) -> Seq(ToSet(trace))]
         /\ w[k][p] \in Seq(ToSet(trace))
         /\ w[k][p] = Below(trace, p, w[k - 1])
         /\ w[k][p] = FlattenSeq(Subtrees(trace, p, w[k - 1]))
         /\ Gathers(w[k][p], trace, p, w[k - 1])
<1>1. Len(trace) \in Nat /\ k - 1 \in 0 .. Len(trace) /\ k \in 0 .. Len(trace)
  BY LenProperties
<1>2. w \in [0 .. Len(trace) -> [Ids(trace) -> Seq(ToSet(trace))]]
  BY DEF Descents
<1> DEFINE v == w[k - 1]
<1>3. v \in [Ids(trace) -> Seq(ToSet(trace))]
  BY <1>1, <1>2, Zenon
<1>4. w[k][p] = Below(trace, p, v)
  BY Zenon DEF Descents
<1> HIDE DEF v
<1>5. /\ Below(trace, p, v) \in Seq(ToSet(trace))
      /\ Below(trace, p, v) = FlattenSeq(Subtrees(trace, p, v))
      /\ Gathers(Below(trace, p, v), trace, p, v)
  BY <1>3, BelowIs
<1> QED
  BY <1>3, <1>4, <1>5, Zenon DEF v

LEMMA DescentIsRooted ==
  ASSUME NEW W, NEW trace \in Seq(W), NEW w, Descents(w, trace)
  PROVE  \A k \in 0 .. Len(trace) : \A p \in Ids(trace) : Rooted(w[k][p], {p})
<1> DEFINE n == Len(trace)
           E == ToSet(trace)
           S == {k \in 0 .. n : \A p \in Ids(trace) : Rooted(w[k][p], {p})}
<1>1. n \in Nat /\ DOMAIN trace = 1 .. n
  BY LenProperties
<1>2. 0 \in S
  <2>1. \A p \in Ids(trace) : w[0][p] = <<>>
    BY DEF Descents
  <2>2. \A p : Rooted(<<>>, {p})
    <3>1. DOMAIN <<>> = {}
      OBVIOUS
    <3> QED
      BY <3>1, Zenon DEF Rooted
  <2>3. 0 \in 0 .. n
    BY <1>1
  <2> QED
    BY <2>1, <2>2, <2>3
<1>3. ASSUME NEW k \in 0 .. (n - 1), k \in S PROVE k + 1 \in S
  <2>1. k + 1 \in 1 .. n /\ k + 1 \in 0 .. n /\ (k + 1) - 1 = k
    BY <1>1
  <2> SUFFICES ASSUME NEW p \in Ids(trace) PROVE Rooted(w[k + 1][p], {p})
    BY <2>1
  <2> DEFINE v == w[k]
             c == Subtrees(trace, p, v)
  <2>2. v \in [Ids(trace) -> Seq(E)] /\ w[k + 1][p] = FlattenSeq(c)
    <3> DEFINE l == k + 1
    <3>1. l \in 1 .. n /\ l - 1 = k
      BY <2>1
    <3> HIDE DEF l
    <3>2. w[l - 1] \in [Ids(trace) -> Seq(E)] /\ w[l][p] = FlattenSeq(Subtrees(trace, p, w[l - 1]))
      BY <3>1, DescentIs
    <3> QED
      BY <3>1, <3>2, Zenon DEF l
  <2>3. \A q \in Ids(trace) : Rooted(v[q], {q})
    BY <1>3
  <2> HIDE DEF v
  <2>4. /\ c \in Seq(Seq(E)) /\ Len(c) = n
        /\ \A i \in 1 .. n :
             /\ trace[i] \in E
             /\ v[trace[i].id] \in Seq(E)
             /\ c[i] = IF trace[i].parent = p THEN <<trace[i]>> \o v[trace[i].id] ELSE <<>>
    BY <2>2, SubtreesAre
  <2> HIDE DEF c, E, S
  <2>5. ASSUME NEW i \in 1 .. n PROVE Rooted(c[i], {p})
    <3>1. CASE trace[i].parent = p
      <4> DEFINE e == trace[i]
                 s == v[e.id]
      <4>1. e \in E /\ s \in Seq(E) /\ c[i] = <<e>> \o s /\ e.parent = p
        BY <2>4, <3>1
      <4>2. e.id \in Ids(trace)
        BY <1>1 DEF Ids
      <4>3. Rooted(s, {e.id})
        BY <2>3, <4>2
      <4> HIDE DEF e, s
      <4>4. <<e>> \in Seq(E) /\ DOMAIN <<e>> = {1} /\ <<e>>[1] = e
        BY <4>1
      <4>5. Rooted(<<e>>, {p})
        BY <4>1, <4>4 DEF Rooted
      <4>6. e.id \in IdsOf(<<e>>)
        BY <4>4 DEF IdsOf
      <4>7. Rooted(s, {p} \union IdsOf(<<e>>))
        BY <4>3, <4>6, Zenon DEF Rooted
      <4>8. Rooted(<<e>> \o s, {p})
        BY <4>1, <4>4, <4>5, <4>7, RootedBoth
      <4> QED
        BY <4>1, <4>8
    <3>2. CASE trace[i].parent # p
      <4>1. c[i] = <<>>
        BY <2>4, <3>2
      <4>2. DOMAIN <<>> = {}
        OBVIOUS
      <4> QED
        BY <4>1, <4>2, Zenon DEF Rooted
    <3> QED
      BY <3>1, <3>2
  <2>6. AllRooted(c, {p})
    BY <2>4, <2>5 DEF AllRooted
  <2>7. Rooted(FlattenSeq(c), {p})
    BY <2>4, <2>6, RootedFlatten
  <2> QED
    BY <2>2, <2>7
<1>4. \A k \in 0 .. n : k \in S
  <2> HIDE DEF S, n
  <2> QED
    BY <1>1, <1>2, <1>3, UpTo
<1> QED
  BY <1>4

LEMMA DescentIsDeeper ==
  ASSUME NEW W, NEW trace \in Seq(W), NEW w, Descents(w, trace), NEW J, Levels(J, trace)
  PROVE  \A k \in 0 .. Len(trace) : \A e \in Nat : \A p \in Ids(trace) :
           e + k <= Len(trace) + 1 /\ p \in J[e] => Deeper(w[k][p], J, e, k)
<1> DEFINE n == Len(trace)
           S == {k \in 0 .. n : \A e \in Nat : \A p \in Ids(trace) :
                   e + k <= n + 1 /\ p \in J[e] => Deeper(w[k][p], J, e, k)}
<1>1. n \in Nat /\ DOMAIN trace = 1 .. n
  BY LenProperties
<1>2. \A k \in 1 .. n + 1 :
        \A q : q \in J[k] <=>
                 \E i \in DOMAIN trace : trace[i].parent \in J[k - 1] /\ q = trace[i].id
  BY Zenon DEF Levels
<1>3. 0 \in S
  <2>1. \A p \in Ids(trace) : w[0][p] = <<>>
    BY DEF Descents
  <2>2. ToSet(<<>>) = {}
    BY DEF ToSet
  <2>3. 0 \in 0 .. n
    BY <1>1
  <2> QED
    BY <2>1, <2>2, <2>3 DEF Deeper
<1>4. ASSUME NEW k \in 0 .. (n - 1), k \in S PROVE k + 1 \in S
  <2>1. k + 1 \in 1 .. n /\ k + 1 \in 0 .. n /\ (k + 1) - 1 = k
    BY <1>1
  <2> SUFFICES ASSUME NEW e \in Nat, NEW p \in Ids(trace), e + (k + 1) <= n + 1, p \in J[e],
                      NEW x \in ToSet(w[k + 1][p])
               PROVE  \E f \in e + 1 .. e + (k + 1) : x.id \in J[f]
    BY <2>1 DEF Deeper
  <2>2. PICK i \in 1 .. n : /\ trace[i].parent = p
                            /\ x = trace[i] \/ x \in ToSet(w[k][trace[i].id])
    <3> DEFINE l == k + 1
    <3>1. l \in 1 .. n /\ l - 1 = k /\ x \in ToSet(w[l][p])
      BY <2>1
    <3> HIDE DEF l
    <3>2. Gathers(w[l][p], trace, p, w[l - 1])
      BY <3>1, DescentIs
    <3> QED
      BY <3>1, <3>2, Zenon DEF Gathers
  <2>3. trace[i].id \in J[e + 1] /\ trace[i].id \in Ids(trace)
    <3>1. e + 1 \in 1 .. n + 1 /\ (e + 1) - 1 = e
      BY <1>1
    <3>2. trace[i].id \in J[e + 1]
      BY <1>1, <1>2, <2>2, <3>1
    <3> QED
      BY <1>1, <3>2 DEF Ids
  <2>4. CASE x = trace[i]
    <3>1. e + 1 \in e + 1 .. e + (k + 1)
      BY <1>1
    <3> QED
      BY <2>3, <2>4, <3>1
  <2>5. CASE x \in ToSet(w[k][trace[i].id])
    <3>1. e + 1 \in Nat /\ (e + 1) + k <= n + 1
      BY <1>1
    <3>2. Deeper(w[k][trace[i].id], J, e + 1, k)
      BY <1>4, <2>3, <3>1
    <3>3. PICK f \in (e + 1) + 1 .. (e + 1) + k : x.id \in J[f]
      BY <2>5, <3>2, Zenon DEF Deeper
    <3>4. f \in e + 1 .. e + (k + 1)
      BY <1>1
    <3> QED
      BY <3>3, <3>4
  <2> QED
    BY <2>2, <2>4, <2>5
<1>5. \A k \in 0 .. n : k \in S
  <2> HIDE DEF S, n
  <2> QED
    BY <1>1, <1>3, <1>4, UpTo
<1> QED
  BY <1>5, Zenon

LEMMA EventsAre ==
  ASSUME NEW W, NEW trace \in Seq(W), Identified(trace), NEW J, Levels(J, trace),
         NEW x \in ToSet(trace)
  PROVE  /\ x.id # NoParent /\ x.id \in Ids(trace)
         /\ \A y \in ToSet(trace) : x.id = y.id => x = y
         /\ \A f \in 0 .. Len(trace) + 1 : x.id \in J[f] => f # 0 /\ x.parent \in J[f - 1]
         /\ \A f \in 0 .. Len(trace) : x.parent \in J[f] => x.id \in J[f + 1]
<1>1. PICK i \in DOMAIN trace : x = trace[i]
  BY DEF ToSet
<1>2. x.id # NoParent /\ x.id \in Ids(trace)
  BY <1>1 DEF Identified, Ids
<1>3. ASSUME NEW y \in ToSet(trace), x.id = y.id PROVE x = y
  <2>1. PICK j \in DOMAIN trace : y = trace[j]
    BY DEF ToSet
  <2>2. i = j
    BY <1>1, <1>3, <2>1 DEF Identified
  <2> QED
    BY <1>1, <2>1, <2>2
<1>4. Len(trace) \in Nat
  BY LenProperties
<1>5. \A k \in 1 .. Len(trace) + 1 :
        \A q : q \in J[k] <=>
                 \E j \in DOMAIN trace : trace[j].parent \in J[k - 1] /\ q = trace[j].id
  BY Zenon DEF Levels
<1>6. ASSUME NEW f \in 0 .. Len(trace) + 1, x.id \in J[f]
      PROVE  f # 0 /\ x.parent \in J[f - 1]
  <2>1. f # 0
    BY <1>2, <1>6 DEF Levels
  <2>2. f \in 1 .. Len(trace) + 1
    BY <1>4, <2>1
  <2>3. PICK j \in DOMAIN trace : trace[j].parent \in J[f - 1] /\ x.id = trace[j].id
    BY <1>5, <1>6, <2>2
  <2>4. i = j
    BY <1>1, <2>3 DEF Identified
  <2> QED
    BY <1>1, <2>1, <2>3, <2>4
<1>7. ASSUME NEW f \in 0 .. Len(trace), x.parent \in J[f]
      PROVE  x.id \in J[f + 1]
  <2>1. f + 1 \in 1 .. Len(trace) + 1 /\ (f + 1) - 1 = f
    BY <1>4
  <2> QED
    BY <1>1, <1>5, <1>7, <2>1
<1> QED
  BY <1>2, <1>3, <1>6, <1>7

LEMMA RootedAre ==
  ASSUME NEW E, NEW s \in Seq(E), NEW p, Rooted(s, {p}), NEW x \in ToSet(s)
  PROVE  x.parent = p \/ \E y \in ToSet(s) : y.id = x.parent
<1>1. PICK i \in DOMAIN s : x = s[i]
  BY DEF ToSet
<1>2. CASE x.parent = p
  BY <1>2
<1>3. CASE x.parent # p
  <2>1. PICK j \in 1 .. i - 1 : s[j].id = x.parent
    BY <1>1, <1>3 DEF Rooted
  <2>2. Len(s) \in Nat /\ DOMAIN s = 1 .. Len(s)
    BY LenProperties
  <2>3. j \in DOMAIN s
    BY <1>1, <2>2
  <2>4. s[j] \in ToSet(s)
    BY <2>3 DEF ToSet
  <2> QED
    BY <2>1, <2>4
<1> QED
  BY <1>2, <1>3

\* A sequence of events that are below one of depth e.
Beneath(s, trace, J, e, k, p) ==
  s \in Seq(ToSet(trace)) /\ p \in J[e] /\ Rooted(s, {p}) /\ Deeper(s, J, e, k)

\* Nothing is below two events of the same depth.
LEMMA SiblingsApart ==
  ASSUME NEW W, NEW trace \in Seq(W), Identified(trace), NEW J, Levels(J, trace),
         NEW e \in Nat, NEW k \in Nat, e + k <= Len(trace) + 1,
         NEW p, NEW q, p # q, NEW s, NEW t,
         Beneath(s, trace, J, e, k, p), Beneath(t, trace, J, e, k, q)
  PROVE  ToSet(s) \intersect ToSet(t) = {}
<1>0. /\ s \in Seq(ToSet(trace)) /\ t \in Seq(ToSet(trace)) /\ p \in J[e] /\ q \in J[e]
      /\ Rooted(s, {p}) /\ Rooted(t, {q}) /\ Deeper(s, J, e, k) /\ Deeper(t, J, e, k)
  BY DEF Beneath
<1> DEFINE n == Len(trace) + 1
           E == ToSet(trace)
           S == {f \in 0 .. n : \A x \in ToSet(s) \intersect ToSet(t) : x.id \notin J[f]}
<1>1. n \in Nat /\ Len(trace) \in Nat /\ e \in 0 .. n
  BY LenProperties
<1>2. ToSet(s) \subseteq E /\ ToSet(t) \subseteq E
  BY <1>0, SetOfSeq
<1>3. ASSUME NEW g \in e + 1 .. e + k, NEW r, r \in J[e], r \in J[g]
      PROVE  FALSE
  <2>1. g \in 0 .. n /\ e # g
    BY <1>1
  <2> QED
    BY <1>1, <1>3, <2>1, LevelsApart
<1>4. p \notin {y.id : y \in ToSet(t)} /\ q \notin {y.id : y \in ToSet(s)}
  BY <1>0, <1>3, Zenon DEF Deeper
<1>5. 0 \in S
  <2>1. \A x \in E : x.id \notin J[0]
    <3> SUFFICES ASSUME NEW x \in E, x.id \in J[0] PROVE FALSE
      OBVIOUS
    <3>1. 0 \in 0 .. Len(trace) + 1
      BY <1>1
    <3> QED
      BY <3>1, EventsAre
  <2>2. 0 \in 0 .. n
    BY <1>1
  <2> QED
    BY <1>2, <2>1, <2>2
<1>6. ASSUME NEW f \in 0 .. (n - 1), f \in S PROVE f + 1 \in S
  <2>1. f + 1 \in 0 .. n /\ (f + 1) - 1 = f
    BY <1>1
  <2> SUFFICES ASSUME NEW x \in ToSet(s) \intersect ToSet(t), x.id \in J[f + 1]
               PROVE  FALSE
    BY <2>1
  <2>2. x \in E
    BY <1>2
  <2>3. x.parent \in J[f]
    <3> DEFINE g == f + 1
    <3>1. g \in 0 .. Len(trace) + 1 /\ x.id \in J[g] /\ g - 1 = f
      BY <2>1
    <3> HIDE DEF g, E
    <3>2. x.parent \in J[g - 1]
      BY <2>2, <3>1, EventsAre DEF E
    <3> QED
      BY <3>1, <3>2
  <2>4. x.parent = p \/ \E y \in ToSet(s) : y.id = x.parent
    BY <1>0, RootedAre
  <2>5. x.parent = q \/ \E y \in ToSet(t) : y.id = x.parent
    BY <1>0, RootedAre
  <2>6. (\E y \in ToSet(s) : y.id = x.parent) /\ (\E y \in ToSet(t) : y.id = x.parent)
    BY <1>4, <2>4, <2>5
  <2>7. PICK y \in ToSet(s) : y.id = x.parent
    BY <2>6
  <2>8. PICK z \in ToSet(t) : z.id = x.parent
    BY <2>6
  <2>9. y = z
    <3>1. y \in ToSet(trace) /\ z \in ToSet(trace) /\ y.id = z.id
      BY <1>2, <2>7, <2>8
    <3> QED
      BY <3>1, EventsAre
  <2>10. y \in ToSet(s) \intersect ToSet(t) /\ y.id \in J[f]
    BY <2>3, <2>7, <2>8, <2>9
  <2> QED
    BY <1>6, <2>10
<1>7. \A f \in 0 .. n : f \in S
  <2> HIDE DEF S, n
  <2> QED
    BY <1>1, <1>5, <1>6, UpTo
<1> SUFFICES ASSUME NEW x \in ToSet(s) \intersect ToSet(t) PROVE FALSE
  OBVIOUS
<1>8. PICK f \in e + 1 .. e + k : x.id \in J[f]
  BY <1>0 DEF Deeper
<1>9. f \in 0 .. n
  BY <1>1
<1>10. f \in S
  BY <1>7, <1>9
<1> QED
  BY <1>8, <1>10

LEMMA OnceOne ==
  ASSUME NEW x
  PROVE  Once(<<x>>) /\ ToSet(<<x>>) = {x} /\ Once(<<>>) /\ ToSet(<<>>) = {}
<1>1. ToSet(<<x>>) = {x} /\ ToSet(<<>>) = {}
  BY DEF ToSet
<1>2. Cardinality({x}) = 1 /\ Cardinality({}) = 0
  BY FS_Singleton, FS_EmptySet
<1>3. Len(<<x>>) = 1 /\ Len(<<>>) = 0
  OBVIOUS
<1> QED
  BY <1>1, <1>2, <1>3 DEF Once

\* The walk meets no event twice.
LEMMA DescentIsOnce ==
  ASSUME NEW W, NEW trace \in Seq(W), Identified(trace), NEW w, Descents(w, trace),
         NEW J, Levels(J, trace)
  PROVE  \A k \in 0 .. Len(trace) : \A e \in Nat : \A p \in Ids(trace) :
           e + k <= Len(trace) + 1 /\ p \in J[e] => Once(w[k][p])
<1> DEFINE n == Len(trace)
           E == ToSet(trace)
           S == {k \in 0 .. n : \A e \in Nat : \A p \in Ids(trace) :
                   e + k <= n + 1 /\ p \in J[e] => Once(w[k][p])}
<1>1. n \in Nat /\ DOMAIN trace = 1 .. n
  BY LenProperties
<1>2. 0 \in S
  <2>1. \A p \in Ids(trace) : w[0][p] = <<>>
    BY DEF Descents
  <2>2. Once(<<>>)
    BY OnceOne
  <2>3. 0 \in 0 .. n
    BY <1>1
  <2> QED
    BY <2>1, <2>2, <2>3
<1>3. ASSUME NEW k \in 0 .. (n - 1), k \in S PROVE k + 1 \in S
  <2>1. k + 1 \in 1 .. n /\ k + 1 \in 0 .. n /\ (k + 1) - 1 = k /\ k \in 0 .. n /\ k \in Nat
    BY <1>1
  <2> SUFFICES ASSUME NEW e \in Nat, NEW p \in Ids(trace), e + (k + 1) <= n + 1, p \in J[e]
               PROVE  Once(w[k + 1][p])
    BY <2>1
  <2> DEFINE v == w[k]
             c == Subtrees(trace, p, v)
             d == e + 1
  <2>2. v \in [Ids(trace) -> Seq(E)] /\ w[k + 1][p] = FlattenSeq(c)
    <3> DEFINE l == k + 1
    <3>1. l \in 1 .. n /\ l - 1 = k
      BY <2>1
    <3> HIDE DEF l
    <3>2. w[l - 1] \in [Ids(trace) -> Seq(E)] /\ w[l][p] = FlattenSeq(Subtrees(trace, p, w[l - 1]))
      BY <3>1, DescentIs
    <3> QED
      BY <3>1, <3>2, Zenon DEF l
  <2>3. d \in Nat /\ d + k <= n + 1 /\ d \in 0 .. n + 1 /\ e \in 0 .. n /\ d = e + 1
    BY <1>1, <2>1
  <2>4. \A q \in Ids(trace) : q \in J[d] =>
          Once(v[q]) /\ Rooted(v[q], {q}) /\ Deeper(v[q], J, d, k)
    <3> SUFFICES ASSUME NEW q \in Ids(trace), q \in J[d]
                 PROVE  Once(v[q]) /\ Rooted(v[q], {q}) /\ Deeper(v[q], J, d, k)
      OBVIOUS
    <3> HIDE DEF d
    <3>1. Once(v[q])
      BY <1>3, <2>3
    <3>2. Rooted(w[k][q], {q})
      BY <2>1, DescentIsRooted
    <3>3. Deeper(w[k][q], J, d, k)
      BY <2>1, <2>3, DescentIsDeeper
    <3> QED
      BY <3>1, <3>2, <3>3
  <2> HIDE DEF v
  <2>5. /\ c \in Seq(Seq(E)) /\ Len(c) = n
        /\ \A i \in 1 .. n :
             /\ trace[i] \in E
             /\ v[trace[i].id] \in Seq(E)
             /\ c[i] = IF trace[i].parent = p THEN <<trace[i]>> \o v[trace[i].id] ELSE <<>>
    BY <2>2, SubtreesAre
  <2> HIDE DEF c, d, S
  <2>6. ASSUME NEW i \in 1 .. n, trace[i].parent = p
        PROVE  /\ trace[i] \in E /\ trace[i].id \in J[d] /\ trace[i].id \in Ids(trace)
               /\ v[trace[i].id] \in Seq(E)
               /\ Once(v[trace[i].id]) /\ Rooted(v[trace[i].id], {trace[i].id})
               /\ Deeper(v[trace[i].id], J, d, k)
               /\ c[i] = <<trace[i]>> \o v[trace[i].id]
               /\ ToSet(c[i]) = {trace[i]} \union ToSet(v[trace[i].id])
               /\ \A y \in ToSet(v[trace[i].id]) : y.id \notin J[d]
    <3> DEFINE x == trace[i]
               s == v[x.id]
    <3>1. x \in E /\ s \in Seq(E) /\ c[i] = <<x>> \o s /\ x.parent = p
      BY <2>5, <2>6
    <3> HIDE DEF x
    <3>2. x.id \in J[d] /\ x.id \in Ids(trace)
      <4>1. x.parent \in J[e] /\ e \in 0 .. Len(trace)
        BY <2>3, <3>1
      <4> QED
        BY <2>3, <3>1, <4>1, EventsAre
    <3>3. Once(s) /\ Rooted(s, {x.id}) /\ Deeper(s, J, d, k)
      BY <2>4, <3>2
    <3> HIDE DEF s
    <3>4. ASSUME NEW y \in ToSet(s), y.id \in J[d] PROVE FALSE
      <4>1. PICK g \in d + 1 .. d + k : y.id \in J[g]
        BY <3>3 DEF Deeper
      <4>2. g \in 0 .. Len(trace) + 1 /\ d \in 0 .. Len(trace) + 1 /\ g # d
        BY <1>1, <2>1, <2>3
      <4> QED
        BY <3>4, <4>1, <4>2, LevelsApart
    <3>5. ToSet(<<x>> \o s) = {x} \union ToSet(s)
      <4>1. <<x>> \in Seq(E) /\ ToSet(<<x>>) = {x}
        BY <3>1, OnceOne
      <4> DEFINE z == <<x>>
      <4>2. z \in Seq(E) /\ ToSet(z) = {x} /\ s \in Seq(E)
        BY <3>1, <4>1
      <4> HIDE DEF z
      <4>3. ToSet(z \o s) = ToSet(z) \union ToSet(s)
        BY <4>2, SetOfBoth
      <4> QED
        BY <4>2, <4>3 DEF z
    <3>6. ToSet(c[i]) = {x} \union ToSet(s)
      BY <3>1, <3>5
    <3> QED
      BY <3>1, <3>2, <3>3, <3>4, <3>6 DEF s, x
  <2>7. ASSUME NEW i \in 1 .. n PROVE Once(c[i])
    <3>1. CASE trace[i].parent = p
      <4> DEFINE x == trace[i]
                 s == v[x.id]
      <4>1. /\ x \in E /\ s \in Seq(E) /\ c[i] = <<x>> \o s /\ Once(s)
            /\ x.id \in J[d] /\ \A y \in ToSet(s) : y.id \notin J[d]
        BY <2>6, <3>1
      <4> HIDE DEF x, s
      <4>2. x \notin ToSet(s)
        BY <4>1
      <4>3. <<x>> \in Seq(E) /\ Once(<<x>>) /\ ToSet(<<x>>) = {x}
        BY <4>1, OnceOne
      <4>4. ToSet(<<x>>) \intersect ToSet(s) = {}
        BY <4>2, <4>3
      <4>5. Once(<<x>> \o s)
        BY <4>1, <4>3, <4>4, OnceBoth
      <4> QED
        BY <4>1, <4>5
    <3>2. CASE trace[i].parent # p
      <4>1. c[i] = <<>>
        BY <2>5, <3>2
      <4> QED
        BY <4>1, OnceOne
    <3> QED
      BY <3>1, <3>2
  <2>8. ASSUME NEW i \in 1 .. n, NEW j \in 1 .. n, i # j
        PROVE  ToSet(c[i]) \intersect ToSet(c[j]) = {}
    <3>1. CASE trace[i].parent = p /\ trace[j].parent = p
      <4> DEFINE x == trace[i]
                 y == trace[j]
                 s == v[x.id]
                 t == v[y.id]
      <4>1. /\ x \in E /\ s \in Seq(E) /\ x.id \in J[d] /\ ToSet(c[i]) = {x} \union ToSet(s)
            /\ Rooted(s, {x.id}) /\ Deeper(s, J, d, k)
            /\ \A u \in ToSet(s) : u.id \notin J[d]
        BY <2>6, <3>1
      <4>2. /\ y \in E /\ t \in Seq(E) /\ y.id \in J[d] /\ ToSet(c[j]) = {y} \union ToSet(t)
            /\ Rooted(t, {y.id}) /\ Deeper(t, J, d, k)
            /\ \A u \in ToSet(t) : u.id \notin J[d]
        BY <2>6, <3>1
      <4>3. x.id # y.id
        BY <1>1, <2>8 DEF Identified
      <4> HIDE DEF x, y, s, t
      <4>4. ToSet(s) \intersect ToSet(t) = {}
        <5> DEFINE a == x.id
                   b == y.id
        <5>1. d \in Nat /\ k \in Nat /\ d + k <= Len(trace) + 1
          BY <2>1, <2>3
        <5>2. Beneath(s, trace, J, d, k, a) /\ Beneath(t, trace, J, d, k, b) /\ a # b
          BY <4>1, <4>2, <4>3 DEF E, Beneath
        <5> HIDE DEF a, b
        <5> QED
          BY <5>1, <5>2, SiblingsApart
      <4>5. x \notin ToSet(t) /\ y \notin ToSet(s) /\ x # y
        BY <4>1, <4>2, <4>3
      <4> QED
        BY <4>1, <4>2, <4>4, <4>5
    <3>2. CASE trace[i].parent # p \/ trace[j].parent # p
      <4>1. c[i] = <<>> \/ c[j] = <<>>
        BY <2>5, <3>2
      <4>2. ToSet(<<>>) = {}
        BY OnceOne
      <4> QED
        BY <4>1, <4>2
    <3> QED
      BY <3>1, <3>2
  <2>9. Apart(c)
    BY <2>5, <2>7, <2>8 DEF Apart
  <2>10. Once(FlattenSeq(c))
    BY <2>5, <2>9, OnceFlatten
  <2> QED
    BY <2>2, <2>10
<1>4. \A k \in 0 .. n : k \in S
  <2> HIDE DEF S, n
  <2> QED
    BY <1>1, <1>2, <1>3, UpTo
<1> QED
  BY <1>4, Zenon

\* The walk reaches every event that is deep enough below one it starts from.
LEMMA DescentReaches ==
  ASSUME NEW W, NEW trace \in Seq(W), Identified(trace), NEW w, Descents(w, trace),
         NEW J, Levels(J, trace)
  PROVE  \A k \in 0 .. Len(trace) : \A e \in Nat : \A m \in 1 .. k : \A x \in ToSet(trace) :
           e + k <= Len(trace) + 1 /\ x.id \in J[e + m] =>
             \E p \in J[e] : x \in ToSet(w[k][p])
<1> DEFINE n == Len(trace)
           S == {k \in 0 .. n : \A e \in Nat : \A m \in 1 .. k : \A x \in ToSet(trace) :
                   e + k <= n + 1 /\ x.id \in J[e + m] => \E p \in J[e] : x \in ToSet(w[k][p])}
<1>1. n \in Nat /\ DOMAIN trace = 1 .. n
  BY LenProperties
<1>2. \A k \in 1 .. n + 1 :
        \A q : q \in J[k] <=>
                 \E i \in DOMAIN trace : trace[i].parent \in J[k - 1] /\ q = trace[i].id
  BY Zenon DEF Levels
<1>3. \A k \in 0 .. n + 1 : J[k] \subseteq Ids(trace)
  BY DEF Levels
<1>4. 0 \in S
  <2>1. 0 \in 0 .. n /\ 1 .. 0 = {}
    BY <1>1
  <2> QED
    BY <2>1
<1>5. ASSUME NEW k \in 0 .. (n - 1), k \in S PROVE k + 1 \in S
  <2>1. k + 1 \in 1 .. n /\ k + 1 \in 0 .. n /\ (k + 1) - 1 = k
    BY <1>1
  <2> SUFFICES ASSUME NEW e \in Nat, NEW m \in 1 .. k + 1, NEW x \in ToSet(trace),
                      e + (k + 1) <= n + 1, x.id \in J[e + m]
               PROVE  \E p \in J[e] : x \in ToSet(w[k + 1][p])
    BY <2>1
  <2>2. e \in 0 .. n + 1 /\ e + 1 \in 1 .. n + 1 /\ (e + 1) - 1 = e
    BY <1>1
  <2>3. \E i \in DOMAIN trace : /\ trace[i].parent \in J[e]
                                /\ x = trace[i] \/ x \in ToSet(w[k][trace[i].id])
    <3>1. CASE m = 1
      <4>1. PICK i \in DOMAIN trace : trace[i].parent \in J[e] /\ x.id = trace[i].id
        BY <1>2, <2>2, <3>1
      <4>2. PICK j \in DOMAIN trace : x = trace[j]
        BY DEF ToSet
      <4>3. i = j
        BY <4>1, <4>2 DEF Identified
      <4> QED
        BY <4>1, <4>2, <4>3
    <3>2. CASE m # 1
      <4> DEFINE d == e + 1
                 l == m - 1
      <4>1. d \in Nat /\ l \in 1 .. k /\ d + l = e + m /\ d + k <= n + 1
        BY <1>1, <3>2
      <4>2. d \in 1 .. n + 1 /\ d - 1 = e
        BY <2>2
      <4> HIDE DEF d, l
      <4>3. x.id \in J[d + l]
        BY <4>1
      <4>4. PICK q \in J[d] : x \in ToSet(w[k][q])
        BY <1>5, <4>1, <4>3
      <4>5. q \in J[d]
        BY <4>4
      <4>6. \E i \in DOMAIN trace : trace[i].parent \in J[d - 1] /\ q = trace[i].id
        BY <1>2, <4>2, <4>5, Zenon
      <4>7. PICK i \in DOMAIN trace : trace[i].parent \in J[e] /\ q = trace[i].id
        BY <4>2, <4>6
      <4> QED
        BY <4>4, <4>7
    <3> QED
      BY <3>1, <3>2
  <2>4. PICK i \in DOMAIN trace : /\ trace[i].parent \in J[e]
                                  /\ x = trace[i] \/ x \in ToSet(w[k][trace[i].id])
    BY <2>3
  <2> DEFINE p == trace[i].parent
             l == k + 1
  <2>5. p \in Ids(trace) /\ p \in J[e]
    BY <1>3, <2>2, <2>4
  <2>6. l \in 1 .. n /\ l - 1 = k
    BY <2>1
  <2> HIDE DEF l
  <2>7. Gathers(w[l][p], trace, p, w[l - 1])
    <3>1. p \in Ids(trace)
      BY <2>5
    <3> HIDE DEF p
    <3> QED
      BY <2>6, <3>1, DescentIs
  <2>8. x \in ToSet(w[l][p])
    BY <1>1, <2>4, <2>6, <2>7, Zenon DEF Gathers
  <2> QED
    BY <2>5, <2>8, Zenon DEF l
<1>6. \A k \in 0 .. n : k \in S
  <2> HIDE DEF S, n
  <2> QED
    BY <1>1, <1>4, <1>5, UpTo
<1> QED
  BY <1>6, Zenon

ClosedUnder(trace, T) ==
  \A i \in DOMAIN trace :
    trace[i].parent = NoParent \/ (\E j \in T : trace[j].id = trace[i].parent) => i \in T

\* The events that hang together with a root are those at some depth below it.
LEMMA AttachedIs ==
  ASSUME NEW W, NEW trace \in Seq(W), Identified(trace), NEW J, Levels(J, trace)
  PROVE  \A i \in DOMAIN trace :
           i \in Attached(trace) <=> \E f \in 1 .. Len(trace) : trace[i].id \in J[f]
<1> DEFINE n == Len(trace)
           T == {i \in DOMAIN trace : \E f \in 1 .. n : trace[i].id \in J[f]}
<1>1. n \in Nat /\ DOMAIN trace = 1 .. n
  BY LenProperties
<1>2. \A k \in 1 .. n + 1 :
        \A q : q \in J[k] <=>
                 \E i \in DOMAIN trace : trace[i].parent \in J[k - 1] /\ q = trace[i].id
  BY Zenon DEF Levels
<1>3. J[0] = {NoParent} /\ J[n + 1] = {}
  BY LevelsEnd DEF Levels
<1>4. \A i \in DOMAIN trace :
        i \in Attached(trace) <=> \A R \in SUBSET (DOMAIN trace) : ClosedUnder(trace, R) => i \in R
  BY Zenon DEF Attached, ClosedUnder
<1>5. \A i, j \in DOMAIN trace : trace[i].id = trace[j].id => i = j
  BY DEF Identified
<1>6. ASSUME NEW i \in DOMAIN trace, NEW f \in 0 .. n, trace[i].parent \in J[f]
      PROVE  i \in T
  <2>1. f + 1 \in 1 .. n + 1 /\ (f + 1) - 1 = f
    BY <1>1
  <2>2. trace[i].id \in J[f + 1]
    BY <1>2, <1>6, <2>1
  <2>3. f + 1 # n + 1
    BY <1>3, <2>2
  <2>4. f + 1 \in 1 .. n
    BY <1>1, <2>1, <2>3
  <2> QED
    BY <2>2, <2>4
<1>7. ClosedUnder(trace, T)
  <2> SUFFICES ASSUME NEW i \in DOMAIN trace,
                      trace[i].parent = NoParent \/ \E j \in T : trace[j].id = trace[i].parent
               PROVE  i \in T
    BY Zenon DEF ClosedUnder
  <2>1. CASE trace[i].parent = NoParent
    <3>1. 0 \in 0 .. n /\ trace[i].parent \in J[0]
      BY <1>1, <1>3, <2>1
    <3> HIDE DEF T
    <3> QED
      BY <1>6, <3>1
  <2>2. CASE \E j \in T : trace[j].id = trace[i].parent
    <3>1. PICK j \in T : trace[j].id = trace[i].parent
      BY <2>2
    <3>2. PICK f \in 1 .. n : trace[j].id \in J[f]
      BY <3>1
    <3>3. f \in 0 .. n /\ trace[i].parent \in J[f]
      BY <1>1, <3>1, <3>2
    <3> HIDE DEF T
    <3> QED
      BY <1>6, <3>3
  <2> HIDE DEF T
  <2> QED
    BY <2>1, <2>2
<1>8. ASSUME NEW R, ClosedUnder(trace, R)
      PROVE  \A f \in 0 .. n : \A i \in DOMAIN trace : f # 0 /\ trace[i].id \in J[f] => i \in R
  <2> DEFINE F == {f \in 0 .. n :
                     \A i \in DOMAIN trace : f # 0 /\ trace[i].id \in J[f] => i \in R}
  <2>1. 0 \in F
    BY <1>1
  <2>2. ASSUME NEW f \in 0 .. (n - 1), f \in F PROVE f + 1 \in F
    <3>1. f + 1 \in 0 .. n /\ f + 1 \in 1 .. n + 1 /\ (f + 1) - 1 = f
      BY <1>1
    <3> SUFFICES ASSUME NEW i \in DOMAIN trace, trace[i].id \in J[f + 1]
                 PROVE  i \in R
      BY <3>1
    <3>2. trace[i].parent \in J[f]
      <4>1. PICK j \in DOMAIN trace : trace[j].parent \in J[f] /\ trace[i].id = trace[j].id
        BY <1>2, <3>1
      <4> QED
        BY <1>5, <4>1
    <3>3. CASE f = 0
      <4>1. trace[i].parent = NoParent
        BY <1>3, <3>2, <3>3
      <4> QED
        BY <1>8, <4>1 DEF ClosedUnder
    <3>4. CASE f # 0
      <4>1. f \in 1 .. n + 1
        BY <1>1, <3>4
      <4>2. PICK j \in DOMAIN trace : trace[i].parent = trace[j].id
        BY <1>2, <3>2, <4>1
      <4>3. j \in R
        BY <2>2, <3>2, <3>4, <4>2
      <4> QED
        BY <1>8, <4>2, <4>3 DEF ClosedUnder
    <3> QED
      BY <3>3, <3>4
  <2>3. \A f \in 0 .. n : f \in F
    <3> HIDE DEF F, n
    <3> QED
      BY <1>1, <2>1, <2>2, UpTo
  <2> QED
    BY <2>3, Zenon
<1>9. ASSUME NEW i \in DOMAIN trace
      PROVE  i \in Attached(trace) <=> i \in T
  <2>1. CASE i \in T
    <3>1. PICK f \in 1 .. n : trace[i].id \in J[f]
      BY <2>1
    <3>2. f \in 0 .. n /\ f # 0
      BY <1>1
    <3> HIDE DEF T
    <3>3. \A R : ClosedUnder(trace, R) => i \in R
      BY <1>8, <3>1, <3>2
    <3> QED
      BY <1>4, <2>1, <3>3
  <2>2. CASE i \notin T
    <3>1. T \in SUBSET (DOMAIN trace)
      OBVIOUS
    <3> HIDE DEF T
    <3> QED
      BY <1>4, <1>7, <2>2, <3>1
  <2> QED
    BY <2>1, <2>2
<1> QED
  BY <1>9

\* For every trace whose events have identifiers of their own, _walk_tree meets each
\* event that hangs together with a root exactly once and after its parent, and no
\* other, whatever was stored in pieces, out of order or under itself.
THEOREM WalkMeetsAll ==
  ASSUME NEW W, NEW trace \in Seq(W), Identified(trace)
  PROVE  WalkIsWhole(trace)
<1> DEFINE n == Len(trace)
           walk == ToolSequence(trace)
           A == Attached(trace)
           N == ToSet(walk)
<1>1. n \in Nat /\ DOMAIN trace = 1 .. n /\ n \in 0 .. n /\ 0 \in Nat /\ 0 + n <= n + 1
  BY LenProperties
<1>2. PICK w : Descents(w, trace) /\ walk = w[n][NoParent]
  BY WalkIs
<1>3. PICK J : Levels(J, trace)
  BY LevelsExist
<1>4. NoParent \in Ids(trace) /\ J[0] = {NoParent}
  BY <1>3 DEF Ids, Levels
<1>5. walk \in Seq(ToSet(trace))
  <2>1. w \in [0 .. n -> [Ids(trace) -> Seq(ToSet(trace))]]
    BY <1>2, Zenon DEF Descents
  <2>2. w[n] \in [Ids(trace) -> Seq(ToSet(trace))]
    BY <1>1, <2>1, Zenon
  <2> HIDE DEF walk
  <2> QED
    BY <1>2, <1>4, <2>2, Zenon
<1>6. Rooted(w[n][NoParent], {NoParent})
  BY <1>1, <1>2, <1>4, DescentIsRooted
<1>7. Once(w[n][NoParent])
  <2>1. NoParent \in J[0]
    BY <1>4
  <2> HIDE DEF n
  <2>2. n = Len(trace)
    BY DEF n
  <2> QED
    BY <1>1, <1>2, <1>3, <1>4, <2>1, <2>2, DescentIsOnce
<1>8. Deeper(w[n][NoParent], J, 0, n)
  <2>1. NoParent \in J[0]
    BY <1>4
  <2> HIDE DEF n
  <2>2. n = Len(trace)
    BY DEF n
  <2> QED
    BY <1>1, <1>2, <1>3, <1>4, <2>1, <2>2, DescentIsDeeper
<1>9. \A m \in 1 .. n : \A x \in ToSet(trace) :
        x.id \in J[m] => x \in ToSet(w[n][NoParent])
  <2> SUFFICES ASSUME NEW m \in 1 .. n, NEW x \in ToSet(trace), x.id \in J[m]
               PROVE  x \in ToSet(w[n][NoParent])
    OBVIOUS
  <2>1. 0 + m = m
    OBVIOUS
  <2>2. x.id \in J[0 + m]
    BY <2>1
  <2> HIDE DEF n
  <2>3. n = Len(trace)
    BY DEF n
  <2>4. \E p \in J[0] : x \in ToSet(w[n][p])
    BY <1>1, <1>2, <1>3, <2>2, <2>3, DescentReaches
  <2> QED
    BY <1>4, <2>4
<1>10. Rooted(walk, {NoParent}) /\ Once(walk) /\ Deeper(walk, J, 0, n)
  BY <1>2, <1>6, <1>7, <1>8
<1>11. \A i \in DOMAIN trace : i \in A <=> \E f \in 1 .. n : trace[i].id \in J[f]
  BY <1>3, AttachedIs
<1>12. \A i \in DOMAIN trace : trace[i] \in ToSet(trace)
  BY DEF ToSet
<1>13. A \subseteq 1 .. n
  BY <1>1 DEF Attached
<1> HIDE DEF walk, A
<1>14. N \subseteq ToSet(trace) /\ IsFiniteSet(N)
  BY <1>5, SetOfSeq
<1>15. ASSUME NEW i \in A PROVE trace[i] \in N
  <2>1. i \in DOMAIN trace
    BY <1>1, <1>13
  <2> QED
    BY <1>2, <1>9, <1>11, <1>12, <2>1
<1>16. ASSUME NEW x \in N PROVE \E i \in A : trace[i] = x
  <2>1. PICK i \in DOMAIN trace : x = trace[i]
    BY <1>14 DEF ToSet
  <2>2. PICK f \in 0 + 1 .. 0 + n : x.id \in J[f]
    BY <1>10, Zenon DEF Deeper
  <2>3. f \in 1 .. n
    BY <1>1
  <2> QED
    BY <1>11, <2>1, <2>2, <2>3
<1> HIDE DEF N
<1>17. Cardinality(A) = Cardinality(N)
  <2> DEFINE F == [i \in A |-> trace[i]]
  <2>1. IsFiniteSet(A)
    <3>1. IsFiniteSet(1 .. n)
      <4>1. 1 \in Int /\ n \in Int
        BY <1>1
      <4> QED
        BY <4>1, FS_Interval
    <3> QED
      BY <1>13, <3>1, FS_Subset
  <2>2. F \in [A -> N]
    BY <1>15
  <2>3. \A i, j \in A : F[i] = F[j] => i = j
    BY <1>1, <1>13 DEF Identified
  <2>4. \A x \in N : \E i \in A : F[i] = x
    BY <1>16
  <2> HIDE DEF F
  <2>5. F \in Surjection(A, N) /\ F \in Injection(A, N)
    BY <2>2, <2>3, <2>4 DEF Surjection, Injection, IsInjective
  <2>6. F \in Bijection(A, N)
    BY <2>5 DEF Bijection
  <2> QED
    BY <2>1, <2>6, FS_Bijection DEF ExistsBijection
<1>18. {walk[i].id : i \in DOMAIN walk} = {trace[i].id : i \in A}
  <2>1. {walk[i].id : i \in DOMAIN walk} = {x.id : x \in N}
    BY DEF N, ToSet
  <2>2. {x.id : x \in N} = {trace[i].id : i \in A}
    BY <1>15, <1>16
  <2> QED
    BY <2>1, <2>2
<1>19. Len(walk) = Cardinality(A)
  BY <1>10, <1>17 DEF Once, N
<1>20. \A i \in DOMAIN walk :
         walk[i].parent = NoParent \/ \E j \in 1 .. i - 1 : walk[j].id = walk[i].parent
  BY <1>10 DEF Rooted
<1> QED
  BY <1>18, <1>19, <1>20, Zenon DEF WalkIsWhole, walk, A

-----------------------------------------------------------------------------
(* Comparing two runs.                                                     *)

LEMMA SumIsNat ==
  ASSUME NEW S, IsFiniteSet(S), NEW f \in [S -> Nat]
  PROVE  SumOver(f) \in Nat
<1> DEFINE Q == {T \in SUBSET S : SumOver(On(f, T)) \in Nat}
<1>1. f \in [S -> Int] /\ \A x \in S : f[x] \in Nat
  OBVIOUS
<1>2. {} \in Q
  BY SumOnNone
<1>3. ASSUME NEW T \in SUBSET S, NEW x \in S, T \in Q, x \notin T
      PROVE  T \union {x} \in Q
  <2>1. SumOver(On(f, T \union {x})) = f[x] + SumOver(On(f, T))
    BY <1>1, <1>3, SumGrows
  <2> QED
    BY <1>1, <1>3, <2>1
<1> HIDE DEF Q
<1>4. S \in Q
  BY <1>2, <1>3, OfFinite
<1>5. SumOver(On(f, S)) \in Nat
  BY <1>4 DEF Q
<1> QED
  BY <1>1, <1>5, SumOnAll

\* A fraction that is at most u, and one that is u.
AtMost(f, u) == f.num \in Nat /\ f.den \in Nat /\ f.num <= u * f.den
Exactly(f, u) == f.num \in Nat /\ f.den \in Nat /\ f.num = u * f.den

LEMMA OneIs ==
  ASSUME NEW f, f.num \in Nat, f.den \in Nat
  PROVE  /\ f.num <= f.den <=> AtMost(f, 1)
         /\ f.num = f.den <=> Exactly(f, 1)
<1>1. 1 * f.den = f.den
  OBVIOUS
<1> QED
  BY <1>1 DEF AtMost, Exactly

Together(u, v, w) == u \in Nat /\ v \in Nat /\ w = u + v

LEMMA PlusIs ==
  ASSUME NEW f, NEW g, NEW u, NEW v, NEW w, Together(u, v, w)
  PROVE  /\ AtMost(f, u) /\ AtMost(g, v) => AtMost(Plus(f, g), w)
         /\ Exactly(f, u) /\ Exactly(g, v) => Exactly(Plus(f, g), w)
<1> DEFINE x == f.num
           y == f.den
           z == g.num
           t == g.den
           h == Plus(f, g)
<1>1. h.num = x * t + z * y /\ h.den = y * t
  BY DEF Plus
<1>0. u \in Nat /\ v \in Nat /\ w = u + v
  BY DEF Together
<1> SUFFICES ASSUME x \in Nat, y \in Nat, z \in Nat, t \in Nat
             PROVE  /\ h.num \in Nat /\ h.den \in Nat
                    /\ x <= u * y /\ z <= v * t => h.num <= (u + v) * h.den
                    /\ x = u * y /\ z = v * t => h.num = (u + v) * h.den
  BY <1>0 DEF AtMost, Exactly
<1> DEFINE p == x * t
           q == z * y
           d == y * t
<1>2. h.num = p + q /\ h.den = d
  BY <1>1
<1> HIDE DEF h, x, y, z, t
<1>3. p \in Nat /\ q \in Nat /\ d \in Nat
  <2>1. \A i, j \in Nat : i * j \in Nat
    OBVIOUS
  <2> QED
    BY <2>1
<1>4. x <= u * y => p <= u * d
  <2> SUFFICES ASSUME x <= u * y PROVE p <= u * d
    OBVIOUS
  <2>1. x * t <= (u * y) * t
    BY <1>0, TimesGrows
  <2>2. (u * y) * t = u * (y * t)
    BY <1>0, Z3T(20)
  <2> QED
    BY <2>1, <2>2
<1>5. z <= v * t => q <= v * d
  <2> SUFFICES ASSUME z <= v * t PROVE q <= v * d
    OBVIOUS
  <2>1. z * y <= (v * t) * y
    BY <1>0, TimesGrows
  <2>2. (v * t) * y = v * (y * t)
    BY <1>0, Z3T(20)
  <2> QED
    BY <2>1, <2>2
<1>6. x = u * y => p = u * d
  <2> SUFFICES ASSUME x = u * y PROVE p = u * d
    OBVIOUS
  <2>1. (u * y) * t = u * (y * t)
    BY <1>0, Z3T(20)
  <2> QED
    BY <2>1
<1>7. z = v * t => q = v * d
  <2> SUFFICES ASSUME z = v * t PROVE q = v * d
    OBVIOUS
  <2>1. (v * t) * y = v * (y * t)
    BY <1>0, Z3T(20)
  <2> QED
    BY <2>1
<1> HIDE DEF p, q, d
<1>8. (u + v) * d = u * d + v * d /\ u * d \in Int /\ v * d \in Int
  BY <1>0, <1>3, Z3T(20)
<1> DEFINE ud == u * d
           vd == v * d
           whole == (u + v) * d
<1>9. whole = ud + vd /\ ud \in Int /\ vd \in Int
  BY <1>8
<1>10. /\ x <= u * y => p <= ud
       /\ z <= v * t => q <= vd
       /\ x = u * y => p = ud
       /\ z = v * t => q = vd
  BY <1>4, <1>5, <1>6, <1>7
<1> DEFINE xu == x <= u * y
           zv == z <= v * t
           xe == x = u * y
           ze == z = v * t
<1>11. (xu => p <= ud) /\ (zv => q <= vd) /\ (xe => p = ud) /\ (ze => q = vd)
  BY <1>10
<1> HIDE DEF ud, vd, whole, xu, zv, xe, ze
<1>12. (xu /\ zv => p + q <= whole) /\ (xe /\ ze => p + q = whole)
  BY <1>3, <1>9, <1>11
<1> QED
  BY <1>0, <1>2, <1>3, <1>12 DEF whole, xu, zv, xe, ze

LEMMA PlusAtMost ==
  ASSUME NEW f, NEW g, NEW u, NEW v, NEW w, Together(u, v, w), AtMost(f, u), AtMost(g, v)
  PROVE  AtMost(Plus(f, g), w)
BY PlusIs, Zenon

LEMMA PlusExactly ==
  ASSUME NEW f, NEW g, NEW u, NEW v, NEW w, Together(u, v, w), Exactly(f, u), Exactly(g, v)
  PROVE  Exactly(Plus(f, g), w)
BY PlusIs, Zenon

LEMMA WeightedIs ==
  ASSUME NEW f, NEW u \in Nat
  PROVE  /\ AtMost(f, 1) => AtMost(Weighted(u, f), u)
         /\ Exactly(f, 1) => Exactly(Weighted(u, f), u)
<1> DEFINE x == f.num
           y == f.den
           h == Weighted(u, f)
<1>1. h.num = u * x /\ h.den = y
  BY DEF Weighted
<1> SUFFICES ASSUME x \in Nat, y \in Nat
             PROVE  /\ h.num \in Nat /\ h.den \in Nat
                    /\ x <= 1 * y => h.num <= u * h.den
                    /\ x = 1 * y => h.num = u * h.den
  BY DEF AtMost, Exactly
<1> HIDE DEF h, x, y
<1>2. u * x \in Nat /\ 1 * y = y
  OBVIOUS
<1>3. x <= y => u * x <= u * y
  <2> SUFFICES ASSUME x <= y PROVE u * x <= u * y
    OBVIOUS
  <2>1. x * u <= y * u
    BY TimesGrows
  <2>2. x * u = u * x /\ y * u = u * y
    OBVIOUS
  <2> QED
    BY <2>1, <2>2
<1> QED
  BY <1>1, <1>2, <1>3

LEMMA HundredthIs ==
  ASSUME NEW f
  PROVE  /\ AtMost(f, 100) => AtMost(Hundredth(f), 1)
         /\ Exactly(f, 100) => Exactly(Hundredth(f), 1)
<1>1. Hundredth(f).num = f.num /\ Hundredth(f).den = 100 * f.den
  BY DEF Hundredth
<1> QED
  BY <1>1 DEF AtMost, Exactly

LEMMA RatioIs ==
  ASSUME NEW x \in Nat, NEW y \in Nat
  PROVE  /\ AtMost(RatioScore(x, y), 1) /\ RatioScore(x, y) = RatioScore(y, x)
         /\ Exactly(RatioScore(x, x), 1)
<1>1. /\ Max({x, y}) \in Nat /\ Min({x, y}) \in Nat /\ Min({x, y}) <= Max({x, y})
      /\ Max({x, x}) \in Nat /\ Min({x, x}) = Max({x, x})
  <2>1. ASSUME NEW z \in Nat
        PROVE  /\ Max({x, z}) \in {x, z} /\ Min({x, z}) \in {x, z} /\ Min({x, z}) <= Max({x, z})
    <3> DEFINE S == {x, z}
    <3>1. IsFiniteSet(S) /\ S # {} /\ S \in SUBSET Int
      <4>1. IsFiniteSet({x})
        BY FS_Singleton
      <4>2. IsFiniteSet({x} \union {z})
        BY <4>1, FS_AddElement
      <4>3. S = {x} \union {z}
        OBVIOUS
      <4> QED
        BY <4>2, <4>3
    <3>2. x \in S
      OBVIOUS
    <3> HIDE DEF S
    <3>3. Max(S) \in S /\ Min(S) \in S /\ Max(S) >= x /\ Min(S) <= x
      BY <3>1, <3>2, Bounds
    <3>4. Max(S) \in Int /\ Min(S) \in Int
      BY <3>1, <3>3
    <3> QED
      BY <3>3, <3>4 DEF S
  <2>2. Max({x, y}) \in {x, y} /\ Min({x, y}) \in {x, y} /\ Min({x, y}) <= Max({x, y})
    BY <2>1
  <2>3. Max({x, x}) \in {x, x} /\ Min({x, x}) \in {x, x}
    BY <2>1
  <2> QED
    BY <2>2, <2>3
<1>2. {x, y} = {y, x}
  OBVIOUS
<1>3. One.num = 1 /\ One.den = 1 /\ Zero.num = 0 /\ Zero.den = 1
  BY DEF One, Zero
<1> DEFINE a == Min({x, y})
           b == Max({x, y})
           c == Max({x, x})
           r == [num |-> a, den |-> b]
           s == [num |-> c, den |-> c]
<1>4. r.num = a /\ r.den = b /\ s.num = c /\ s.den = c
  OBVIOUS
<1>5. /\ RatioScore(x, y) = IF x = 0 /\ y = 0 THEN One ELSE IF x = 0 \/ y = 0 THEN Zero ELSE r
      /\ RatioScore(y, x) = IF y = 0 /\ x = 0 THEN One ELSE IF y = 0 \/ x = 0 THEN Zero ELSE r
      /\ RatioScore(x, x) = IF x = 0 THEN One ELSE s
  BY <1>1, <1>2 DEF RatioScore
<1>6. a \in Nat /\ b \in Nat /\ a <= b /\ c \in Nat
  BY <1>1
<1> HIDE DEF a, b, c, r, s
<1>7. AtMost(One, 1) /\ AtMost(Zero, 1) /\ AtMost(r, 1) /\ Exactly(One, 1) /\ Exactly(s, 1)
  BY <1>3, <1>4, <1>6 DEF AtMost, Exactly
<1> QED
  BY <1>5, <1>7

\* What get_trace_events returns of an event's measures.
Measured(trace) ==
  \A i \in DOMAIN trace :
    trace[i].latency \in Nat /\ trace[i].tokens \in Nat /\ trace[i].cost \in Nat

LEMMA StatsAre ==
  ASSUME NEW W, NEW trace \in Seq(W), Measured(trace)
  PROVE  /\ TraceStats(trace).latency \in Nat /\ TraceStats(trace).cost \in Nat
         /\ TraceStats(trace).tokens \in Nat /\ TraceStats(trace).tools \in Nat
<1> DEFINE D == DOMAIN trace
<1>1. IsFiniteSet(D)
  <2>1. D = 1 .. Len(trace) /\ 1 \in Int /\ Len(trace) \in Int
    BY LenProperties
  <2> HIDE DEF D
  <2> QED
    BY <2>1, FS_Interval
<1>2. /\ [i \in D |-> trace[i].latency] \in [D -> Nat]
      /\ [i \in D |-> trace[i].tokens] \in [D -> Nat]
      /\ [i \in D |-> trace[i].cost] \in [D -> Nat]
  BY DEF Measured
<1>3. /\ SumOver([i \in D |-> trace[i].latency]) \in Nat
      /\ SumOver([i \in D |-> trace[i].tokens]) \in Nat
      /\ SumOver([i \in D |-> trace[i].cost]) \in Nat
  <2> HIDE DEF D
  <2> QED
    BY <1>1, <1>2, SumIsNat
<1>4. ToolCount(trace) \in Nat
  <2> DEFINE K == {i \in D : trace[i].type \in {"tool_call", "sub_agent"}}
  <2>1. K \subseteq D /\ ToolCount(trace) = Cardinality(K)
    BY DEF ToolCount
  <2> HIDE DEF D, K
  <2> QED
    BY <1>1, <2>1, FS_Subset, FS_CardinalityType
<1>5. /\ TraceStats(trace).latency = SumOver([i \in D |-> trace[i].latency])
      /\ TraceStats(trace).tokens = SumOver([i \in D |-> trace[i].tokens])
      /\ TraceStats(trace).cost = SumOver([i \in D |-> trace[i].cost])
      /\ TraceStats(trace).tools = ToolCount(trace)
  BY Zenon DEF TraceStats, Total, SumOver
<1> QED
  BY <1>3, <1>4, <1>5

LEMMA EfficiencyIs ==
  ASSUME NEW W, NEW a \in Seq(W), NEW b \in Seq(W), Measured(a), Measured(b)
  PROVE  /\ AtMost(EfficiencyScore(a, b), 1)
         /\ EfficiencyScore(a, b) = EfficiencyScore(b, a)
         /\ Exactly(EfficiencyScore(a, a), 1)
<1> DEFINE TimeScore(s, t) == Weighted(25, RatioScore(s.latency, t.latency))
           CostScore(s, t) == Weighted(35, RatioScore(s.cost, t.cost))
           TokenScore(s, t) == Weighted(25, RatioScore(s.tokens, t.tokens))
           ToolScore(s, t) == Weighted(15, RatioScore(s.tools, t.tools))
           Usable(s) == s.latency \in Nat /\ s.cost \in Nat /\ s.tokens \in Nat /\ s.tools \in Nat
           Mean(s, t) == Hundredth(Plus(Plus(TimeScore(s, t), CostScore(s, t)),
                                        Plus(TokenScore(s, t), ToolScore(s, t))))
<1>1. Usable(TraceStats(a)) /\ Usable(TraceStats(b))
  BY StatsAre
<1>2. ASSUME NEW s, NEW t, Usable(s), Usable(t)
      PROVE  AtMost(Mean(s, t), 1) /\ Mean(s, t) = Mean(t, s) /\ Exactly(Mean(s, s), 1)
  <2>1. /\ TimeScore(s, t) = TimeScore(t, s) /\ CostScore(s, t) = CostScore(t, s)
        /\ TokenScore(s, t) = TokenScore(t, s) /\ ToolScore(s, t) = ToolScore(t, s)
    BY <1>2, RatioIs
  <2>2. /\ AtMost(RatioScore(s.latency, t.latency), 1) /\ AtMost(RatioScore(s.cost, t.cost), 1)
        /\ AtMost(RatioScore(s.tokens, t.tokens), 1) /\ AtMost(RatioScore(s.tools, t.tools), 1)
        /\ Exactly(RatioScore(s.latency, s.latency), 1) /\ Exactly(RatioScore(s.cost, s.cost), 1)
        /\ Exactly(RatioScore(s.tokens, s.tokens), 1) /\ Exactly(RatioScore(s.tools, s.tools), 1)
    BY <1>2, RatioIs
  <2>3. /\ AtMost(TimeScore(s, t), 25) /\ AtMost(CostScore(s, t), 35)
        /\ AtMost(TokenScore(s, t), 25) /\ AtMost(ToolScore(s, t), 15)
        /\ Exactly(TimeScore(s, s), 25) /\ Exactly(CostScore(s, s), 35)
        /\ Exactly(TokenScore(s, s), 25) /\ Exactly(ToolScore(s, s), 15)
    BY <2>2, WeightedIs
  <2> HIDE DEF TimeScore, CostScore, TokenScore, ToolScore
  <2> DEFINE c25 == 25
             c35 == 35
             c15 == 15
             c60 == 60
             c40 == 40
             c100 == 100
  <2>4. Together(c25, c35, c60) /\ Together(c25, c15, c40) /\ Together(c60, c40, c100)
    BY DEF Together
  <2>5. /\ AtMost(Plus(TimeScore(s, t), CostScore(s, t)), c60)
        /\ AtMost(Plus(TokenScore(s, t), ToolScore(s, t)), c40)
        /\ Exactly(Plus(TimeScore(s, s), CostScore(s, s)), c60)
        /\ Exactly(Plus(TokenScore(s, s), ToolScore(s, s)), c40)
    <3>1. /\ AtMost(TimeScore(s, t), c25) /\ AtMost(CostScore(s, t), c35)
          /\ AtMost(TokenScore(s, t), c25) /\ AtMost(ToolScore(s, t), c15)
          /\ Exactly(TimeScore(s, s), c25) /\ Exactly(CostScore(s, s), c35)
          /\ Exactly(TokenScore(s, s), c25) /\ Exactly(ToolScore(s, s), c15)
      BY <2>3
    <3> HIDE DEF c25, c35, c15, c60, c40, c100
    <3> QED
      BY <2>4, <3>1, PlusAtMost, PlusExactly
  <2>6. AtMost(Mean(s, t), 1) /\ Exactly(Mean(s, s), 1)
    <3> DEFINE f == Plus(TimeScore(s, t), CostScore(s, t))
               g == Plus(TokenScore(s, t), ToolScore(s, t))
               h == Plus(TimeScore(s, s), CostScore(s, s))
               k == Plus(TokenScore(s, s), ToolScore(s, s))
    <3> HIDE DEF f, g, h, k
    <3>1. AtMost(f, c60) /\ AtMost(g, c40) /\ Exactly(h, c60) /\ Exactly(k, c40)
      BY <2>5 DEF f, g, h, k
    <3>2. AtMost(Plus(f, g), c100) /\ Exactly(Plus(h, k), c100)
      <4> HIDE DEF c60, c40, c100
      <4> QED
        BY <2>4, <3>1, PlusAtMost, PlusExactly
    <3>3. AtMost(Hundredth(Plus(f, g)), 1) /\ Exactly(Hundredth(Plus(h, k)), 1)
      BY <3>2, HundredthIs
    <3> QED
      BY <3>3, Zenon DEF f, g, h, k
  <2>7. Mean(s, t) = Mean(t, s)
    BY <2>1, Zenon
  <2> QED
    BY <2>6, <2>7
<1>3. \A r, u : EfficiencyScore(r, u) = Mean(TraceStats(r), TraceStats(u))
  BY Zenon DEF EfficiencyScore
<1> HIDE DEF Mean, Usable
<1>4. /\ AtMost(Mean(TraceStats(a), TraceStats(b)), 1)
      /\ Mean(TraceStats(a), TraceStats(b)) = Mean(TraceStats(b), TraceStats(a))
      /\ Exactly(Mean(TraceStats(a), TraceStats(a)), 1)
  BY <1>1, <1>2
<1> QED
  BY <1>3, <1>4, Zenon

LEMMA ToolsAre ==
  ASSUME NEW W, NEW a \in Seq(W), NEW b \in Seq(W)
  PROVE  /\ AtMost(ToolSequenceScore(a, b), 1)
         /\ ToolSequenceScore(a, b) = ToolSequenceScore(b, a)
         /\ Exactly(ToolSequenceScore(a, a), 1)
<1> DEFINE Longer(s, t) == Max({Len(s), Len(t)})
           Likeness(s, t) == IF Longer(s, t) = 0 THEN One
                             ELSE [num |-> Longer(s, t) - Levenshtein(s, t), den |-> Longer(s, t)]
           L(v) == [i \in DOMAIN v |-> <<v[i].type, v[i].name>>]
           E == {<<x.type, x.name>> : x \in ToSet(a) \union ToSet(b)}
<1>1. ASSUME NEW t \in Seq(W), ToSet(t) \subseteq ToSet(a) \union ToSet(b)
      PROVE  Labels(t) \in Seq(E)
  <2> DEFINE v == ToolSequence(t)
  <2>1. Labels(t) = L(v)
    BY Zenon DEF Labels
  <2>2. v \in Seq(ToSet(t))
    <3>1. PICK w : Descents(w, t) /\ v = w[Len(t)][NoParent]
      BY <1>1, WalkIs
    <3>2. w \in [0 .. Len(t) -> [Ids(t) -> Seq(ToSet(t))]]
      BY <3>1, Zenon DEF Descents
    <3>3. Len(t) \in 0 .. Len(t)
      BY LenProperties
    <3>4. NoParent \in Ids(t)
      BY DEF Ids
    <3>5. w[Len(t)] \in [Ids(t) -> Seq(ToSet(t))]
      BY <3>2, <3>3, Zenon
    <3> HIDE DEF v
    <3> QED
      BY <3>1, <3>4, <3>5, Zenon
  <2> HIDE DEF v
  <2>3. DOMAIN v = 1 .. Len(v) /\ Len(v) \in Nat /\ \A i \in 1 .. Len(v) : v[i] \in ToSet(t)
    BY <2>2, LenProperties, ElementOfSeq
  <2>4. \A i \in 1 .. Len(v) : <<v[i].type, v[i].name>> \in E
    BY <1>1, <2>3
  <2> HIDE DEF E
  <2> QED
    BY <2>1, <2>3, <2>4
<1>2. Labels(a) \in Seq(E) /\ Labels(b) \in Seq(E)
  BY <1>1
<1>3. \A s, t : ToolSequenceScore(s, t) = Likeness(Labels(s), Labels(t))
  BY Zenon DEF ToolSequenceScore
<1> HIDE DEF E
<1>4. ASSUME NEW s \in Seq(E), NEW t \in Seq(E)
      PROVE  /\ AtMost(Likeness(s, t), 1) /\ Likeness(s, t) = Likeness(t, s)
             /\ Exactly(Likeness(s, s), 1)
  <2>1. ASSUME NEW u \in Seq(E)
        PROVE  /\ Longer(s, u) \in Nat /\ Len(s) <= Longer(s, u) /\ Len(u) <= Longer(s, u)
    <3> DEFINE S == {Len(s), Len(u)}
    <3>1. Len(s) \in Nat /\ Len(u) \in Nat
      BY LenProperties
    <3>2. IsFiniteSet(S) /\ S # {} /\ S \in SUBSET Int
      <4>1. IsFiniteSet({Len(s)})
        BY FS_Singleton
      <4>2. IsFiniteSet({Len(s)} \union {Len(u)})
        BY <4>1, FS_AddElement
      <4>3. S = {Len(s)} \union {Len(u)} /\ S # {}
        OBVIOUS
      <4>4. S \in SUBSET Int
        BY <3>1
      <4> HIDE DEF S
      <4> QED
        BY <4>2, <4>3, <4>4
    <3>3. Len(s) \in S /\ Len(u) \in S /\ S \subseteq Nat
      BY <3>1
    <3> HIDE DEF S
    <3>4. Max(S) \in S /\ Max(S) >= Len(s) /\ Max(S) >= Len(u)
      BY <3>2, <3>3, Bounds
    <3> QED
      BY <3>1, <3>3, <3>4 DEF S
  <2>2. Longer(s, t) = Longer(t, s)
    <3>1. {Len(s), Len(t)} = {Len(t), Len(s)}
      OBVIOUS
    <3> QED
      BY <3>1
  <2>3. /\ Levenshtein(s, t) \in Nat /\ Levenshtein(s, t) = Levenshtein(t, s)
        /\ Levenshtein(s, t) <= Len(s) \/ Levenshtein(s, t) <= Len(t)
        /\ Levenshtein(s, s) = 0
    BY DistanceMirrors
  <2>4. Len(s) \in Nat /\ Len(t) \in Nat
    BY LenProperties
  <2>5. AtMost(One, 1) /\ Exactly(One, 1)
    BY DEF AtMost, Exactly, One
  <2> DEFINE m == Longer(s, t)
             n == Longer(s, s)
             d == Levenshtein(s, t)
             r == [num |-> m - d, den |-> m]
             q == [num |-> n - 0, den |-> n]
  <2>6. m \in Nat /\ n \in Nat /\ d \in Nat /\ d <= m
    BY <2>1, <2>3, <2>4
  <2>7. r.num = m - d /\ r.den = m /\ q.num = n - 0 /\ q.den = n
    OBVIOUS
  <2>8. /\ Likeness(s, t) = IF m = 0 THEN One ELSE r
        /\ Likeness(t, s) = IF m = 0 THEN One ELSE r
        /\ Likeness(s, s) = IF n = 0 THEN One ELSE q
    BY <2>2, <2>3, Zenon
  <2> HIDE DEF m, n, d, r, q, Likeness
  <2>9. AtMost(r, 1) /\ Exactly(q, 1)
    BY <2>6, <2>7 DEF AtMost, Exactly
  <2> QED
    BY <2>5, <2>8, <2>9
<1> HIDE DEF Likeness
<1> QED
  BY <1>2, <1>3, <1>4

\* A share of what could differ, as each of the divergence scorers returns it.
AtMostAll(f) == f.num \in Nat /\ f.den \in Nat /\ f.num <= f.den

LEMMA OutcomeIs ==
  ASSUME NEW a, NEW b, NEW divergence, AtMostAll(divergence)
  PROVE  /\ AtMost(OutcomeScore(a, b, divergence), 1)
         /\ OutcomeScore(a, b, divergence) = OutcomeScore(b, a, divergence)
         /\ Exactly(OutcomeScore(a, a, divergence), 1)
<1> DEFINE r == Complement(divergence)
           Alike(s, t) == CASE NoText(s) /\ NoText(t) -> One
                            [] NoText(s) # NoText(t) -> Zero
                            [] StripLines(s) = StripLines(t) -> One
                            [] OTHER -> r
<1>1. \A s, t : OutcomeScore(s, t, divergence) = Alike(FinalOutputs(s), FinalOutputs(t))
  BY Zenon DEF OutcomeScore
<1>2. AtMost(One, 1) /\ AtMost(Zero, 1) /\ Exactly(One, 1)
  BY DEF AtMost, Exactly, One, Zero
<1>3. AtMost(r, 1)
  <2>1. r.num = divergence.den - divergence.num /\ r.den = divergence.den
    BY DEF Complement
  <2> HIDE DEF r
  <2> QED
    BY <2>1 DEF AtMost, AtMostAll
<1> HIDE DEF r
<1>4. \A s : NoText(s) \in BOOLEAN
  <2> DEFINE N == {<<>>, <<"">>}
  <2>1. \A s : NoText(s) = (s \in N)
    BY Zenon DEF NoText
  <2> HIDE DEF N
  <2>2. \A s : (s \in N) = TRUE \/ (s \in N) = FALSE
    OBVIOUS
  <2> QED
    BY <2>1, <2>2
<1>5. ASSUME NEW s, NEW t
      PROVE  /\ Alike(s, t) = One \/ Alike(s, t) = Zero \/ Alike(s, t) = r
             /\ Alike(s, t) = Alike(t, s)
             /\ Alike(s, s) = One
  <2>1. NoText(s) \in BOOLEAN /\ NoText(t) \in BOOLEAN
    BY <1>4
  <2>2. CASE NoText(s) /\ NoText(t)
    BY <2>2
  <2>3. CASE NoText(s) # NoText(t)
    BY <2>1, <2>3
  <2>4. CASE ~NoText(s) /\ ~NoText(t) /\ StripLines(s) = StripLines(t)
    BY <2>4
  <2>5. CASE ~NoText(s) /\ ~NoText(t) /\ StripLines(s) # StripLines(t)
    BY <2>5
  <2> QED
    BY <2>1, <2>2, <2>3, <2>4, <2>5
<1> HIDE DEF Alike
<1> QED
  BY <1>1, <1>2, <1>3, <1>5

\* For any two runs, of every length and with the events in any order, and whichever
\* scorer compares the outcomes: comparing B with A gives the scores of comparing A
\* with B, each between 0 and 1, and a run compared with itself scores 1
\* (compare_trajectories and the three scores it weighs).
THEOREM ComparisonsOfRunsMirror ==
  ASSUME NEW W, NEW a \in Seq(W), NEW b \in Seq(W), Measured(a), Measured(b),
         NEW divergence, AtMostAll(divergence)
  PROVE  ComparisonMirrors(a, b, divergence)
<1> DEFINE ab == CompareTrajectories(a, b, divergence)
           ba == CompareTrajectories(b, a, divergence)
<1>1. /\ ab.tools = ToolSequenceScore(a, b) /\ ba.tools = ToolSequenceScore(b, a)
      /\ ab.outcome = OutcomeScore(a, b, divergence)
      /\ ba.outcome = OutcomeScore(b, a, divergence)
      /\ ab.efficiency = EfficiencyScore(a, b) /\ ba.efficiency = EfficiencyScore(b, a)
      /\ ab.stats = <<TraceStats(a), TraceStats(b)>>
      /\ ba.stats = <<TraceStats(b), TraceStats(a)>>
  BY DEF CompareTrajectories
<1> HIDE DEF ab, ba
<1>2. ab.tools = ba.tools /\ ab.outcome = ba.outcome /\ ab.efficiency = ba.efficiency
  BY <1>1, ToolsAre, OutcomeIs, EfficiencyIs
<1>3. AtMost(ab.tools, 1) /\ AtMost(ab.outcome, 1) /\ AtMost(ab.efficiency, 1)
  BY <1>1, ToolsAre, OutcomeIs, EfficiencyIs
<1>4. ab.stats = <<ba.stats[2], ba.stats[1]>>
  BY <1>1
<1>5. \A f \in {ab.tools, ab.outcome, ab.efficiency} : 0 <= f.num /\ f.num <= f.den
  <2>1. \A f : AtMost(f, 1) => 0 <= f.num /\ f.num <= f.den
    BY DEF AtMost
  <2> QED
    BY <1>3, <2>1
<1>6. /\ SameFraction(ab.tools, ba.tools) /\ SameFraction(ab.outcome, ba.outcome)
      /\ SameFraction(ab.efficiency, ba.efficiency)
  BY <1>2 DEF SameFraction
<1>7. ASSUME a = b PROVE TrajectoryScore(ab).num = TrajectoryScore(ab).den
  <2>1. Exactly(ab.tools, 1) /\ Exactly(ab.outcome, 1) /\ Exactly(ab.efficiency, 1)
    <3>1. /\ Exactly(ToolSequenceScore(a, a), 1) /\ Exactly(EfficiencyScore(a, a), 1)
          /\ Exactly(OutcomeScore(a, a, divergence), 1)
      BY ToolsAre, OutcomeIs, EfficiencyIs
    <3> QED
      BY <1>1, <1>7, <3>1
  <2> DEFINE f == Weighted(35, ab.tools)
             g == Weighted(45, ab.outcome)
             h == Weighted(20, ab.efficiency)
  <2>2. Exactly(f, 35) /\ Exactly(g, 45) /\ Exactly(h, 20)
    BY <2>1, WeightedIs
  <2>3. TrajectoryScore(ab) = Hundredth(Plus(f, Plus(g, h)))
    BY Zenon DEF TrajectoryScore
  <2> HIDE DEF f, g, h
  <2> DEFINE c20 == 20
             c35 == 35
             c45 == 45
             c65 == 65
             c100 == 100
             k == Plus(g, h)
  <2>4. /\ Together(c45, c20, c65) /\ Together(c35, c65, c100)
        /\ Exactly(f, c35) /\ Exactly(g, c45) /\ Exactly(h, c20)
    BY <2>2 DEF Together
  <2> HIDE DEF c20, c35, c45, c65, c100
  <2>5. Exactly(k, c65)
    BY <2>4, PlusExactly
  <2> HIDE DEF k
  <2>6. Exactly(Plus(f, k), c100)
    BY <2>4, <2>5, PlusExactly
  <2>7. Exactly(Plus(f, k), 100)
    BY <2>6 DEF c100
  <2>8. Exactly(Hundredth(Plus(f, k)), 1)
    BY <2>7, HundredthIs
  <2>9. Exactly(TrajectoryScore(ab), 1)
    BY <2>3, <2>8 DEF k
  <2> QED
    BY <2>9 DEF Exactly
<1> QED
  BY <1>4, <1>5, <1>6, <1>7, Zenon DEF ComparisonMirrors, ab, ba

-----------------------------------------------------------------------------
(* The questions of the run of MCAlgorithms: what each is a question about, *)
(* however long its sequences are.                                          *)

LEMMA UpToIsSeq ==
  ASSUME NEW S, NEW m \in Nat, NEW s \in SeqUpTo(S, m)
  PROVE  s \in Seq(S)
<1>1. PICK k \in 0 .. m : s \in [1 .. k -> S]
  BY Zenon DEF SeqUpTo
<1>2. k \in Nat
  OBVIOUS
<1> QED
  BY <1>1, <1>2, FunctionIsSeq

\* A question is asked once, of the part it was begun for.
LEMMA PartStays ==
  ASSUME [Next]_vars
  PROVE  part' = part /\ left' = left /\ (chosen => UNCHANGED vars)
<1>1. CASE UNCHANGED vars
  BY <1>1, Zenon DEF vars
<1>2. CASE Next
  BY <1>2, Zenon DEF Next, Choose
<1> QED
  BY <1>1, <1>2


SequencesTyped == part = "sequences" =>
  /\ left \in Seq(Steps)
  /\ chosen => right \in Seq(Steps)

LEMMA SequencesTypedStays ==
  (Init => SequencesTyped) /\ (SequencesTyped /\ [Next]_vars => SequencesTyped')
<1>1. Init => SequencesTyped
  <2> SUFFICES ASSUME Init, part = "sequences" PROVE SequencesTyped
    BY Zenon DEF SequencesTyped
  <2>1. left \in SeqUpTo(Steps, 3) /\ chosen = FALSE
    BY Zenon DEF Init
  <2> QED
    BY <2>1, UpToIsSeq DEF SequencesTyped
<1>2. ASSUME SequencesTyped, [Next]_vars, part = "sequences"
      PROVE  chosen' => right' \in Seq(Steps)
  <2>1. CASE UNCHANGED vars
    BY <1>2, <2>1 DEF vars, SequencesTyped
  <2>2. CASE Next
    <3>1. right' \in SeqUpTo(Steps, 3)
      BY <1>2, <2>2, Zenon DEF Next, Choose
    <3> QED
      BY <3>1, UpToIsSeq
  <2> QED
    BY <1>2, <2>1, <2>2
<1> QED
  BY <1>1, <1>2, PartStays DEF SequencesTyped

TestsTyped == part = "tests" =>
  /\ left \in Seq(0 .. 100) /\ left # <<>>
  /\ chosen => given \in 0 .. 100

LEMMA TestsTypedStays ==
  (Init => TestsTyped) /\ (TestsTyped /\ [Next]_vars => TestsTyped')
<1>1. Init => TestsTyped
  <2> SUFFICES ASSUME Init, part = "tests" PROVE TestsTyped
    BY Zenon DEF TestsTyped
  <2>1. left \in UNION {[1 .. n -> PValues] : n \in 1 .. 4} /\ chosen = FALSE
    BY Zenon DEF Init
  <2>2. PICK n \in 1 .. 4 : left \in [1 .. n -> PValues]
    BY <2>1
  <2>3. left \in [1 .. n -> 0 .. 100] /\ n \in Nat
    BY <2>2 DEF PValues
  <2>4. left \in Seq(0 .. 100) /\ Len(left) = n
    BY <2>3, FunctionIsSeq
  <2> QED
    BY <2>1, <2>4 DEF TestsTyped
<1>2. ASSUME TestsTyped, [Next]_vars, part = "tests"
      PROVE  chosen' => given' \in 0 .. 100
  <2>1. CASE UNCHANGED vars
    BY <1>2, <2>1 DEF vars, TestsTyped
  <2>2. CASE Next
    <3>1. given' \in {2, 5, 10}
      BY <1>2, <2>2, Zenon DEF Next, Choose
    <3> QED
      BY <3>1
  <2> QED
    BY <1>2, <2>1, <2>2
<1> QED
  BY <1>1, <1>2, PartStays DEF TestsTyped

BatchTyped == part = "batch" =>
  /\ left \in Seq(Seq(Int) \X Seq(Int)) /\ left # <<>>
  /\ chosen => right \in Seq(0 .. 100) /\ Len(right) = Len(left) /\ given \in 0 .. 100

LEMMA BatchTypedStays ==
  (Init => BatchTyped) /\ (BatchTyped /\ [Next]_vars => BatchTyped')
<1>1. Init => BatchTyped
  <2> SUFFICES ASSUME Init, part = "batch" PROVE BatchTyped
    BY Zenon DEF BatchTyped
  <2>1. left \in UNION {[1 .. n -> ScorePairs] : n \in 1 .. 3} /\ chosen = FALSE
    BY Zenon DEF Init
  <2>2. PICK n \in 1 .. 3 : left \in [1 .. n -> ScorePairs]
    BY <2>1
  <2>3. ScorePairs \subseteq Seq(Int) \X Seq(Int)
    <3> DEFINE a == <<0, 1>>
               b == <<1, 1>>
               c == <<1, 2>>
               d == <<2, 0>>
               e == <<1>>
    <3>1. a \in Seq(Int) /\ b \in Seq(Int) /\ c \in Seq(Int) /\ d \in Seq(Int) /\ e \in Seq(Int)
      OBVIOUS
    <3>2. ScorePairs = {<<a, b>>, <<a, c>>, <<b, b>>, <<d, b>>, <<e, e>>, <<c, e>>}
      BY Zenon DEF ScorePairs
    <3> HIDE DEF a, b, c, d, e
    <3> QED
      BY <3>1, <3>2
  <2>4. left \in [1 .. n -> Seq(Int) \X Seq(Int)] /\ n \in Nat
    BY <2>2, <2>3
  <2>5. left \in Seq(Seq(Int) \X Seq(Int)) /\ Len(left) = n
    BY <2>4, FunctionIsSeq
  <2> QED
    BY <2>1, <2>5 DEF BatchTyped
<1>2. ASSUME BatchTyped, [Next]_vars, part = "batch"
      PROVE  chosen' => right' \in Seq(0 .. 100) /\ Len(right') = Len(left') /\ given' \in 0 .. 100
  <2>1. CASE UNCHANGED vars
    BY <1>2, <2>1 DEF vars, BatchTyped
  <2>2. CASE Next
    <3>1. right' \in [DOMAIN left -> {1, 3, 60}] /\ given' \in {5}
      BY <1>2, <2>2, Zenon DEF Next, Choose
    <3>2. left \in Seq(Seq(Int) \X Seq(Int)) /\ left' = left
      BY <1>2, PartStays DEF BatchTyped
    <3>3. Len(left) \in Nat /\ DOMAIN left = 1 .. Len(left)
      BY <3>2, LenProperties
    <3>4. right' \in [1 .. Len(left) -> 0 .. 100]
      BY <3>1, <3>3
    <3>5. right' \in Seq(0 .. 100) /\ Len(right') = Len(left)
      BY <3>3, <3>4, FunctionIsSeq
    <3> QED
      BY <3>1, <3>2, <3>5
  <2> QED
    BY <1>2, <2>1, <2>2
<1> QED
  BY <1>1, <1>2, PartStays DEF BatchTyped

SizeTyped == part = "size" =>
  left \in Nat \ {0}

LEMMA SizeTypedStays ==
  (Init => SizeTyped) /\ (SizeTyped /\ [Next]_vars => SizeTyped')
<1>1. Init => SizeTyped
  <2> SUFFICES ASSUME Init, part = "size" PROVE SizeTyped
    BY Zenon DEF SizeTyped
  <2>1. left \in 1 .. 40 /\ chosen = FALSE
    BY Zenon DEF Init
  <2> QED
    BY <2>1 DEF SizeTyped
<1> QED
  BY <1>1, PartStays DEF SizeTyped

FiguresTyped == part = "figures" =>
  /\ left \in Seq(Figure({"currency"}))
  /\ chosen => right \in Seq(Figure({"currency"})) /\ given \in Nat

LEMMA FiguresTypedStays ==
  (Init => FiguresTyped) /\ (FiguresTyped /\ [Next]_vars => FiguresTyped')
<1>1. Init => FiguresTyped
  <2> SUFFICES ASSUME Init, part = "figures" PROVE FiguresTyped
    BY Zenon DEF FiguresTyped
  <2>1. left \in SeqUpTo(Figures, 2) /\ chosen = FALSE
    BY Zenon DEF Init
  <2>2. Figures \subseteq Figure({"currency"})
    BY DEF Figures, Figure
  <2>3. left \in Seq(Figures)
    BY <2>1, UpToIsSeq
  <2> QED
    BY <2>1, <2>2, <2>3 DEF FiguresTyped
<1>2. ASSUME FiguresTyped, [Next]_vars, part = "figures"
      PROVE  chosen' => right' \in Seq(Figure({"currency"})) /\ given' \in Nat
  <2>1. CASE UNCHANGED vars
    BY <1>2, <2>1 DEF vars, FiguresTyped
  <2>2. CASE Next
    <3>1. right' \in SeqUpTo(Figures, 2) /\ given' \in {0, 1, 2}
      BY <1>2, <2>2, Zenon DEF Next, Choose
    <3>2. Figures \subseteq Figure({"currency"})
      BY DEF Figures, Figure
    <3>3. right' \in Seq(Figures)
      BY <3>1, UpToIsSeq
    <3> QED
      BY <3>1, <3>2, <3>3
  <2> QED
    BY <1>2, <2>1, <2>2
<1> QED
  BY <1>1, <1>2, PartStays DEF FiguresTyped

GroupsTyped == part = "groups" =>
  /\ \E G : IsFiniteSet(G) /\ left \in [G -> Int]
  /\ chosen => right \in Nat

LEMMA GroupsTypedStays ==
  (Init => GroupsTyped) /\ (GroupsTyped /\ [Next]_vars => GroupsTyped')
<1>1. Init => GroupsTyped
  <2> SUFFICES ASSUME Init, part = "groups" PROVE GroupsTyped
    BY Zenon DEF GroupsTyped
  <2>1. left \in [1 .. 3 -> -1 .. 4] \union [1 .. 1 -> 0 .. 1] /\ chosen = FALSE
    BY Zenon DEF Init
  <2>2. left \in [1 .. 3 -> Int] \/ left \in [1 .. 1 -> Int]
    BY <2>1
  <2>3. IsFiniteSet(1 .. 3) /\ IsFiniteSet(1 .. 1)
    <3>1. ASSUME NEW n \in Nat PROVE IsFiniteSet(1 .. n)
      <4>1. 1 \in Int /\ n \in Int
        OBVIOUS
      <4> QED
        BY <4>1, FS_Interval
    <3> QED
      BY <3>1
  <2> QED
    BY <2>1, <2>2, <2>3 DEF GroupsTyped
<1>2. ASSUME GroupsTyped, [Next]_vars, part = "groups"
      PROVE  chosen' => right' \in Nat
  <2>1. CASE UNCHANGED vars
    BY <1>2, <2>1 DEF vars, GroupsTyped
  <2>2. CASE Next
    <3>1. right' \in {10, 12, 20}
      BY <1>2, <2>2, Zenon DEF Next, Choose
    <3> QED
      BY <3>1
  <2> QED
    BY <1>2, <2>1, <2>2
<1> QED
  BY <1>1, <1>2, PartStays DEF GroupsTyped

ParaphrasesTyped == part = "paraphrases" =>
  /\ left \in Seq(Int)
  /\ chosen => right \in Nat

LEMMA ParaphrasesTypedStays ==
  (Init => ParaphrasesTyped) /\ (ParaphrasesTyped /\ [Next]_vars => ParaphrasesTyped')
<1>1. Init => ParaphrasesTyped
  <2> SUFFICES ASSUME Init, part = "paraphrases" PROVE ParaphrasesTyped
    BY Zenon DEF ParaphrasesTyped
  <2>1. left \in UNION {[1 .. n -> -1 .. 6] : n \in 2 .. 3} /\ chosen = FALSE
    BY Zenon DEF Init
  <2>2. PICK n \in 2 .. 3 : left \in [1 .. n -> -1 .. 6]
    BY <2>1
  <2>3. left \in [1 .. n -> Int] /\ n \in Nat
    BY <2>2
  <2> QED
    BY <2>1, <2>3, FunctionIsSeq DEF ParaphrasesTyped
<1>2. ASSUME ParaphrasesTyped, [Next]_vars, part = "paraphrases"
      PROVE  chosen' => right' \in Nat
  <2>1. CASE UNCHANGED vars
    BY <1>2, <2>1 DEF vars, ParaphrasesTyped
  <2>2. CASE Next
    <3>1. right' \in {15, 50}
      BY <1>2, <2>2, Zenon DEF Next, Choose
    <3> QED
      BY <3>1
  <2> QED
    BY <1>2, <2>1, <2>2
<1> QED
  BY <1>1, <1>2, PartStays DEF ParaphrasesTyped

ScoresTyped == part = "scores" =>
  /\ left \in Seq(Int) /\ left # <<>>
  /\ chosen => right \in Seq(Int) /\ Len(left) = Len(right)

LEMMA ScoresTypedStays ==
  (Init => ScoresTyped) /\ (ScoresTyped /\ [Next]_vars => ScoresTyped')
<1>1. Init => ScoresTyped
  <2> SUFFICES ASSUME Init, part = "scores" PROVE ScoresTyped
    BY Zenon DEF ScoresTyped
  <2>1. left \in UNION {[1 .. n -> 0 .. 2] : n \in 2 .. 4} /\ chosen = FALSE
    BY Zenon DEF Init
  <2>2. PICK n \in 2 .. 4 : left \in [1 .. n -> 0 .. 2]
    BY <2>1
  <2>3. left \in [1 .. n -> Int] /\ n \in Nat
    BY <2>2
  <2>4. left \in Seq(Int) /\ Len(left) = n
    BY <2>3, FunctionIsSeq
  <2> QED
    BY <2>1, <2>4 DEF ScoresTyped
<1>2. ASSUME ScoresTyped, [Next]_vars, part = "scores"
      PROVE  chosen' => right' \in Seq(Int) /\ Len(left') = Len(right')
  <2>1. CASE UNCHANGED vars
    BY <1>2, <2>1 DEF vars, ScoresTyped
  <2>2. CASE Next
    <3>1. right' \in [DOMAIN left -> 0 .. 2]
      BY <1>2, <2>2, Zenon DEF Next, Choose
    <3>2. left \in Seq(Int) /\ left' = left
      BY <1>2, PartStays DEF ScoresTyped
    <3>3. Len(left) \in Nat /\ DOMAIN left = 1 .. Len(left)
      BY <3>2, LenProperties
    <3>4. right' \in [1 .. Len(left) -> Int]
      BY <3>1, <3>3
    <3>5. right' \in Seq(Int) /\ Len(right') = Len(left)
      BY <3>3, <3>4, FunctionIsSeq
    <3> QED
      BY <3>2, <3>5
  <2> QED
    BY <1>2, <2>1, <2>2
<1> QED
  BY <1>1, <1>2, PartStays DEF ScoresTyped

TextsTyped == part = "texts" =>
  /\ left \in Seq(Words)
  /\ chosen => right \in Seq(Words) /\ given \in Seq(Words)

LEMMA TextsTypedStays ==
  (Init => TextsTyped) /\ (TextsTyped /\ [Next]_vars => TextsTyped')
<1>1. Init => TextsTyped
  <2> SUFFICES ASSUME Init, part = "texts" PROVE TextsTyped
    BY Zenon DEF TextsTyped
  <2>1. left \in SeqUpTo(Words, 2) /\ chosen = FALSE
    BY Zenon DEF Init
  <2> QED
    BY <2>1, UpToIsSeq DEF TextsTyped
<1>2. ASSUME TextsTyped, [Next]_vars, part = "texts"
      PROVE  chosen' => right' \in Seq(Words) /\ given' \in Seq(Words)
  <2>1. CASE UNCHANGED vars
    BY <1>2, <2>1 DEF vars, TextsTyped
  <2>2. CASE Next
    <3>1. right' \in SeqUpTo(Words, 3) /\ given' \in SeqUpTo(Words, 2)
      BY <1>2, <2>2, Zenon DEF Next, Choose
    <3> QED
      BY <3>1, UpToIsSeq
  <2> QED
    BY <1>2, <2>1, <2>2
<1> QED
  BY <1>1, <1>2, PartStays DEF TextsTyped

JudgeTyped == part = "judge" =>
  {left[<<1, 2>>], left[<<2, 1>>]} \subseteq Opinions

LEMMA JudgeTypedStays ==
  (Init => JudgeTyped) /\ (JudgeTyped /\ [Next]_vars => JudgeTyped')
<1>1. Init => JudgeTyped
  <2> SUFFICES ASSUME Init, part = "judge" PROVE JudgeTyped
    BY Zenon DEF JudgeTyped
  <2>1. left \in [{<<1, 2>>, <<2, 1>>} -> Opinions] /\ chosen = FALSE
    BY Zenon DEF Init
  <2> QED
    BY <2>1, Zenon DEF JudgeTyped
<1> QED
  BY <1>1, PartStays DEF JudgeTyped

ListTyped == part = "list" =>
  /\ left \in Seq(Listed)
  /\ chosen =>
       right \in [{"json_schema"} -> Outcomes] /\ given \in [{"pairwise_preference"} -> Outcomes]

LEMMA ListTypedStays ==
  (Init => ListTyped) /\ (ListTyped /\ [Next]_vars => ListTyped')
<1>1. Init => ListTyped
  <2> SUFFICES ASSUME Init, part = "list" PROVE ListTyped
    BY Zenon DEF ListTyped
  <2>1. left \in SeqUpTo(Listed, 3) /\ chosen = FALSE
    BY Zenon DEF Init
  <2> QED
    BY <2>1, UpToIsSeq DEF ListTyped
<1>2. ASSUME ListTyped, [Next]_vars, part = "list"
      PROVE  chosen' => /\ right' \in [{"json_schema"} -> Outcomes]
                        /\ given' \in [{"pairwise_preference"} -> Outcomes]
  <2>1. CASE UNCHANGED vars
    BY <1>2, <2>1 DEF vars, ListTyped
  <2>2. CASE Next
    <3>1. /\ right' \in [{"json_schema"} -> Outcomes]
          /\ given' \in [{"pairwise_preference"} -> Outcomes]
      BY <1>2, <2>2, Zenon DEF Next, Choose
    <3> QED
      BY <3>1
  <2> QED
    BY <1>2, <2>1, <2>2
<1> QED
  BY <1>1, <1>2, PartStays DEF ListTyped

\* A trace: a sequence of events with identifiers of their own.
Traced(trace) == (\E W : trace \in Seq(W)) /\ Identified(trace)

WalkTyped == part = "walk" => Traced(left)

LEMMA ThreeAreTraced ==
  ASSUME NEW e, NEW f, NEW g, e.id = 1, f.id = 2, g.id = 3
  PROVE  Traced(<<e, f, g>>)
<1> DEFINE s == <<e, f, g>>
<1>1. s \in Seq({e, f, g}) /\ DOMAIN s = 1 .. 3 /\ s[1] = e /\ s[2] = f /\ s[3] = g
  OBVIOUS
<1> HIDE DEF s
<1>2. \A i \in DOMAIN s : s[i].id = i
  BY <1>1
<1>3. \A i \in DOMAIN s : s[i].id # NoParent
  BY <1>1, <1>2 DEF NoParent
<1> QED
  BY <1>1, <1>2, <1>3, Zenon DEF Traced, Identified, s

LEMMA WalkTypedStays ==
  (Init => WalkTyped) /\ (WalkTyped /\ [Next]_vars => WalkTyped')
<1>1. Init => WalkTyped
  <2> SUFFICES ASSUME Init, part = "walk" PROVE Traced(left)
    BY Zenon DEF WalkTyped
  <2>1. left \in Forests
    BY Zenon DEF Init
  <2>2. PICK e \in Event(1, 0 .. 3, {"tool_call"}, {"u"}, {1}),
             f \in Event(2, 0 .. 3, {"reasoning"}, {"u"}, {1}),
             g \in Event(3, {0, 1, 2, 3, 9}, {"tool_call"}, {"u"}, {1}) :
          left = <<e, f, g>>
    BY <2>1 DEF Forests
  <2>3. \A id, P, T, O, C : \A x \in Event(id, P, T, O, C) : x.id = id
    BY DEF Event
  <2>4. e.id = 1 /\ f.id = 2 /\ g.id = 3
    BY <2>2, <2>3
  <2> QED
    BY <2>2, <2>4, ThreeAreTraced
<1> QED
  BY <1>1, PartStays DEF WalkTyped

\* A run's trace, with what was measured of each event.
Recorded(trace) == (\E W : trace \in Seq(W)) /\ Measured(trace)

LEMMA RunsAreRecorded ==
  \A r \in Runs : Recorded(r)
<1>1. \A id, P, T, O, C : \A x \in Event(id, P, T, O, C) : C \subseteq {0, 1} =>
        x.latency \in Nat /\ x.tokens \in Nat /\ x.cost \in Nat
  BY DEF Event
<1> DEFINE Fine(x) == x.latency \in Nat /\ x.tokens \in Nat /\ x.cost \in Nat
<1>2. ASSUME NEW r \in Runs
      PROVE  \/ r = <<>>
             \/ \E x : Fine(x) /\ r = <<x>>
             \/ \E x, y : Fine(x) /\ Fine(y) /\ r = <<x, y>>
  <2>2. {0, 1} \subseteq {0, 1} /\ {1} \subseteq {0, 1}
    OBVIOUS
  <2> HIDE DEF Fine
  <2>3. \A x \in Alone : Fine(x)
    BY <1>1, <2>2, Zenon DEF Fine, Alone
  <2>4. \A x \in Opening : Fine(x)
    BY <1>1, <2>2, Zenon DEF Fine, Opening
  <2>5. \A x \in Following : Fine(x)
    BY <1>1, <2>2, Zenon DEF Fine, Following
  <2> QED
    BY <1>2, <2>3, <2>4, <2>5 DEF Runs
<1>3. Recorded(<<>>)
  BY DEF Recorded, Measured
<1>4. ASSUME NEW x, Fine(x) PROVE Recorded(<<x>>)
  <2> DEFINE s == <<x>>
  <2>1. s \in Seq({x}) /\ DOMAIN s = {1} /\ s[1] = x
    OBVIOUS
  <2> HIDE DEF s
  <2>2. Recorded(s)
    BY <1>4, <2>1 DEF Recorded, Measured
  <2> QED
    BY <2>2 DEF s
<1>5. ASSUME NEW x, NEW y, Fine(x), Fine(y) PROVE Recorded(<<x, y>>)
  <2> DEFINE s == <<x, y>>
  <2>1. s \in Seq({x, y}) /\ DOMAIN s = {1, 2} /\ s[1] = x /\ s[2] = y
    OBVIOUS
  <2> HIDE DEF s
  <2>2. Recorded(s)
    BY <1>5, <2>1 DEF Recorded, Measured
  <2> QED
    BY <2>2 DEF s
<1> HIDE DEF Fine
<1> QED
  BY <1>2, <1>3, <1>4, <1>5

RunsTyped == part = "runs" =>
  Recorded(left) /\ (chosen => Recorded(right) /\ AtMostAll(given))

LEMMA RunsTypedStays ==
  (Init => RunsTyped) /\ (RunsTyped /\ [Next]_vars => RunsTyped')
<1>1. Init => RunsTyped
  <2> SUFFICES ASSUME Init, part = "runs" PROVE RunsTyped
    BY Zenon DEF RunsTyped
  <2>1. left \in Runs /\ chosen = FALSE
    BY Zenon DEF Init
  <2> QED
    BY <2>1, RunsAreRecorded DEF RunsTyped
<1>2. ASSUME RunsTyped, [Next]_vars, part = "runs"
      PROVE  Recorded(left') /\ (chosen' => Recorded(right') /\ AtMostAll(given'))
  <2>1. Recorded(left) /\ left' = left /\ Recorded(left')
    BY <1>2, PartStays DEF RunsTyped
  <2>2. CASE UNCHANGED vars
    BY <1>2, <2>1, <2>2 DEF vars, RunsTyped
  <2>3. CASE Next
    <3>1. right' \in Runs /\ given' \in {JudgeDivergence(3), EmbeddingDivergence(-10, TRUE)}
      BY <1>2, <2>3, Zenon DEF Next, Choose
    <3>2. AtMostAll(JudgeDivergence(3))
      <4> DEFINE m == Max({3, 0})
                 k == Min({m, 10})
      <4>1. m \in Nat
        <5> DEFINE S == {3, 0}
        <5>1. IsFiniteSet({3})
          BY FS_Singleton
        <5>2. IsFiniteSet({3} \union {0})
          BY <5>1, FS_AddElement
        <5>3. S = {3} \union {0} /\ S # {} /\ S \subseteq Nat
          OBVIOUS
        <5> HIDE DEF S
        <5>4. Max(S) \in S
          BY <5>2, <5>3, Bounds
        <5> QED
          BY <5>3, <5>4 DEF S
      <4>2. k \in Nat /\ k <= 10
        <5> DEFINE S == {m, 10}
        <5>1. IsFiniteSet({10})
          BY FS_Singleton
        <5>2. IsFiniteSet({10} \union {m})
          BY <5>1, FS_AddElement
        <5>3. S = {10} \union {m} /\ S # {} /\ 10 \in S
          OBVIOUS
        <5>4. S \subseteq Nat
          BY <4>1
        <5> HIDE DEF S
        <5>5. Min(S) \in S /\ Min(S) <= 10
          BY <5>2, <5>3, <5>4, Bounds
        <5> QED
          BY <5>4, <5>5 DEF S
      <4>3. JudgeDivergence(3).num = k /\ JudgeDivergence(3).den = 10
        BY DEF JudgeDivergence
      <4> QED
        BY <4>2, <4>3 DEF AtMostAll
    <3>3. AtMostAll(EmbeddingDivergence(-10, TRUE))
      BY DEF AtMostAll, EmbeddingDivergence
    <3>4. Recorded(right')
      BY <3>1, RunsAreRecorded
    <3> QED
      BY <2>1, <3>1, <3>2, <3>3, <3>4
  <2> QED
    BY <1>2, <2>2, <2>3
<1> QED
  BY <1>1, <1>2, PartStays DEF RunsTyped

CorpusTyped == part = "corpus" =>
  left \in Seq(Case({"l1", "l2"}, {"w1", "w2"}))

LEMMA CorpusTypedStays == (Init => CorpusTyped) /\ (CorpusTyped /\ [Next]_vars => CorpusTyped')
<1>1. Init => CorpusTyped
  <2> SUFFICES ASSUME Init, part = "corpus" PROVE CorpusTyped
    BY Zenon DEF CorpusTyped
  <2>1. left \in SeqUpTo(CaseRows, 3) /\ chosen = FALSE
    BY Zenon DEF Init
  <2>2. CaseRows = Case({"l1", "l2"}, {"w1", "w2"})
    BY DEF CaseRows, Case
  <2> QED
    BY <2>1, <2>2, UpToIsSeq DEF CorpusTyped
<1> QED
  BY <1>1, PartStays DEF CorpusTyped

LEMMA RowsAreCompared ==
  CompRows \subseteq Compared({"e1", "e2", "none"}, 1 .. 3)
<1> SUFFICES ASSUME NEW x \in CompRows PROVE x \in Compared({"e1", "e2", "none"}, 1 .. 3)
  OBVIOUS
<1>1. \/ \E e \in {"e1", "e2"}, s \in {NULL, 20, 99, 100}, c \in {"none", "A", "both"},
           r \in {"pending", "reviewed", "skipped"} :
           x = [evalRun |-> e, decided |-> TRUE, score |-> s, choice |-> c, review |-> r,
                a |-> 1, b |-> 1]
      \/ \E e \in {"e1", "none"}, r \in {"assigned", "skipped"}, b \in {2, 3} :
           x = [evalRun |-> e, decided |-> FALSE, score |-> 20, choice |-> "none", review |-> r,
                a |-> 1, b |-> b]
  BY DEF CompRows
<1>2. ASSUME NEW e \in {"e1", "e2"}, NEW s \in {NULL, 20, 99, 100},
             NEW c \in {"none", "A", "both"}, NEW r \in {"pending", "reviewed", "skipped"},
             x = [evalRun |-> e, decided |-> TRUE, score |-> s, choice |-> c, review |-> r,
                  a |-> 1, b |-> 1]
      PROVE  x \in Compared({"e1", "e2", "none"}, 1 .. 3)
  <2>1. s \in {NULL} \union (0 .. 100)
    OBVIOUS
  <2>2. e \in {"e1", "e2", "none"} /\ c \in DecisionChoices \union {"none"} /\ r \in Reviewing
    BY DEF DecisionChoices, Reviewing
  <2> QED
    BY <1>2, <2>1, <2>2 DEF Compared
<1>3. ASSUME NEW e \in {"e1", "none"}, NEW r \in {"assigned", "skipped"}, NEW b \in {2, 3},
             x = [evalRun |-> e, decided |-> FALSE, score |-> 20, choice |-> "none", review |-> r,
                  a |-> 1, b |-> b]
      PROVE  x \in Compared({"e1", "e2", "none"}, 1 .. 3)
  <2>1. 20 \in {NULL} \union (0 .. 100) /\ b \in 1 .. 3
    OBVIOUS
  <2>2. e \in {"e1", "e2", "none"} /\ r \in Reviewing
    BY DEF Reviewing
  <2> QED
    BY <1>3, <2>1, <2>2 DEF Compared
<1> QED
  BY <1>1, <1>2, <1>3

BoardTyped == part = "board" =>
  left \in Seq(Compared({"e1", "e2", "none"}, 1 .. 3))

LEMMA BoardTypedStays == (Init => BoardTyped) /\ (BoardTyped /\ [Next]_vars => BoardTyped')
<1>1. Init => BoardTyped
  <2> SUFFICES ASSUME Init, part = "board" PROVE BoardTyped
    BY Zenon DEF BoardTyped
  <2>1. left \in SeqUpTo(CompRows, 2) /\ chosen = FALSE
    BY Zenon DEF Init
  <2>2. left \in Seq(CompRows)
    BY <2>1, UpToIsSeq
  <2> QED
    BY <2>1, <2>2, RowsAreCompared DEF BoardTyped
<1> QED
  BY <1>1, PartStays DEF BoardTyped

\* The rows of the steps of the two runs, whichever way they were saved.
Stepped == StepRow(1 .. 2, 1 .. 3, {"priced", "other"})

LEMMA StepRowsAreSteps ==
  StepRows \subseteq Stepped
<1> DEFINE Made ==
             {[run |-> BranchRun[b], branch |-> b, model |-> m, tokens |-> n, cost |-> NULL] :
                b \in 1 .. 3, m \in {"priced", "other"}, n \in 0 .. 2}
<1>1. ASSUME NEW s \in Made
      PROVE  SaveStepOutput(s, Prices) \in Stepped /\ BatchSaveStepOutput(s) \in Stepped
  <2>1. PICK b \in 1 .. 3, m \in {"priced", "other"}, n \in 0 .. 2 :
          s = [run |-> BranchRun[b], branch |-> b, model |-> m, tokens |-> n, cost |-> NULL]
    BY <1>1
  <2>2. BranchRun[b] \in 1 .. 2
    BY DEF BranchRun
  <2>3. s \in Stepped
    BY <2>1, <2>2 DEF Stepped, StepRow, NULL
  <2>4. \A k \in {NULL} \union Nat : [s EXCEPT !.cost = k] \in Stepped
    BY <2>3 DEF Stepped, StepRow
  <2>5. s.model \in DOMAIN Prices => s.tokens * Prices[s.model] \in Nat
    BY <2>1 DEF Prices
  <2> QED
    BY <2>4, <2>5 DEF SaveStepOutput, BatchSaveStepOutput
<1>2. StepRows = {SaveStepOutput(s, Prices) : s \in Made}
                 \union {BatchSaveStepOutput(s) : s \in Made}
  BY DEF StepRows
<1> HIDE DEF Made
<1> QED
  BY <1>1, <1>2

CostsTyped == part = "costs" =>
  /\ left \in Seq(Stepped)
  /\ chosen => /\ right \in Seq(Compared({"e1", "none"}, 1 .. 3))
               /\ given \in [1 .. 2 -> {"e1", "none"}]

LEMMA CostsTypedStays == (Init => CostsTyped) /\ (CostsTyped /\ [Next]_vars => CostsTyped')
<1>1. Init => CostsTyped
  <2> SUFFICES ASSUME Init, part = "costs" PROVE CostsTyped
    BY Zenon DEF CostsTyped
  <2>1. left \in SeqUpTo(StepRows, 2) /\ chosen = FALSE
    BY Zenon DEF Init
  <2>2. left \in Seq(StepRows)
    BY <2>1, UpToIsSeq
  <2> QED
    BY <2>1, <2>2, StepRowsAreSteps DEF CostsTyped
<1>2. ASSUME CostsTyped, [Next]_vars, part = "costs"
      PROVE  chosen' => /\ right' \in Seq(Compared({"e1", "none"}, 1 .. 3))
                        /\ given' \in [1 .. 2 -> {"e1", "none"}]
  <2>1. CASE UNCHANGED vars
    BY <1>2, <2>1 DEF vars, CostsTyped
  <2>2. CASE Next
    <3>1. right' \in SeqUpTo(ComparedPairs, 2) /\ given' \in {<<"e1", "none">>, <<"e1", "e1">>}
      BY <1>2, <2>2, Zenon DEF Next, Choose
    <3>2. right' \in Seq(ComparedPairs)
      BY <3>1, UpToIsSeq
    <3>3. ASSUME NEW x \in ComparedPairs
          PROVE  x \in Compared({"e1", "none"}, 1 .. 3)
      <4>1. PICK e \in {"e1", "none"}, b \in {2, 3} :
              x = [evalRun |-> e, decided |-> FALSE, score |-> NULL, choice |-> "none",
                   review |-> "pending", a |-> 1, b |-> b]
        BY DEF ComparedPairs
      <4>2. "pending" \in Reviewing /\ b \in 1 .. 3
        BY DEF Reviewing
      <4> QED
        BY <4>1, <4>2 DEF Compared
    <3>4. right' \in Seq(Compared({"e1", "none"}, 1 .. 3))
      BY <3>2, <3>3
    <3>5. given' \in [1 .. 2 -> {"e1", "none"}]
      BY <3>1
    <3> QED
      BY <3>4, <3>5
  <2> QED
    BY <1>2, <2>1, <2>2
<1> QED
  BY <1>1, <1>2, PartStays DEF CostsTyped

\* The artifacts, comparisons and choices of the models and bodies that are asked about.
Artifacts == Requirements["cbuae"].artifacts \union Requirements["sr_26_2"].artifacts
Modelled == ModelOf(Artifacts, {"grounded", "ungrounded", "empty"}, {"A", "B"})
Linkable == Run({"grounded", "ungrounded", "empty"}, {"A", "B"})

LEMMA LinkedRunsAreRuns ==
  LinkedRuns \subseteq Linkable
<1> DEFINE X == [comparisons : {<<"grounded">>, <<"ungrounded", "empty", "ungrounded">>},
                 decisions : {<<>>, <<"B">>}]
<1>1. LinkedRuns = {EmptyRun} \union X
  BY DEF LinkedRuns
<1>2. EmptyRun \in Linkable
  BY DEF EmptyRun, Linkable, Run
<1>3. /\ <<"grounded">> \in Seq({"grounded", "ungrounded", "empty"})
      /\ <<"ungrounded", "empty", "ungrounded">> \in Seq({"grounded", "ungrounded", "empty"})
      /\ <<>> \in Seq({"A", "B"}) /\ <<"B">> \in Seq({"A", "B"})
  OBVIOUS
<1>4. X \subseteq Linkable
  BY <1>3 DEF Linkable, Run
<1> HIDE DEF X
<1> QED
  BY <1>1, <1>2, <1>4

LEMMA ModelsAreModelled ==
  Models \subseteq Modelled
<1>1. {"cbuae", "sr_26_2"} \subseteq Regimes
  BY DEF Regimes, LocalRequirements, ForeignRequirements
<1>2. {<<>>} \union {<<r>> : r \in LinkedRuns} \subseteq Seq(Linkable)
  <2>1. ASSUME NEW r \in LinkedRuns
        PROVE  <<r>> \in Seq(Linkable)
    <3>1. r \in Linkable
      BY LinkedRunsAreRuns
    <3> QED
      BY <3>1
  <2>2. <<>> \in Seq(Linkable)
    OBVIOUS
  <2> QED
    BY <2>1, <2>2, Zenon
<1>3. {"none", "one", "pass", "fail"} = Groups
  BY DEF Groups
<1> DEFINE S == {Artifacts, Requirements["sr_26_2"].artifacts \ {"outcome_analysis"}}
           R == {{}, {"cbuae", "sr_26_2"}}
           T == {<<>>} \union {<<r>> : r \in LinkedRuns}
<1>4. S \subseteq SUBSET Artifacts
  BY Zenon DEF Artifacts
<1>5. R \subseteq SUBSET Regimes
  BY <1>1
<1>6. Models = [present : S, overdue : BOOLEAN, regimes : R, groups : Groups, runs : T]
  BY <1>3, Zenon DEF Models, Artifacts
<1> HIDE DEF S, R, T
<1> QED
  BY <1>2, <1>4, <1>5, <1>6 DEF Modelled, ModelOf, Linkable, T

LEMMA BodiesAreBodies ==
  Bodies \subseteq Body({"A", "B"})
<1> DEFINE X == {<<>>, <<Good>>, <<Good, Weak>>}
           Y == {<<>>, <<TRUE, FALSE>>}
           Z == {<<>>, <<"A", "A", "B">>}
           G == {"one", "pass", "fail"}
<1>1. Good \in Stat /\ Weak \in Stat
  BY DEF Good, Weak, Stat
<1>2. X \subseteq Seq(Stat)
  BY <1>1
<1>3. Y \subseteq Seq(BOOLEAN)
  <2>1. TRUE \in BOOLEAN /\ FALSE \in BOOLEAN
    OBVIOUS
  <2> QED
    BY <2>1
<1>4. Z \subseteq Seq({"A", "B"})
  OBVIOUS
<1>5. G \subseteq Groups /\ "none" \in Groups
  BY DEF Groups
<1>6. Silent \in Body({"A", "B"})
  BY <1>5 DEF Silent, Body
<1>7. Bodies = {Silent} \union [stats : X, groups : G, checks : Y, decisions : Z]
  BY Zenon DEF Bodies
<1> HIDE DEF X, Y, Z, G
<1> QED
  BY <1>2, <1>3, <1>4, <1>5, <1>6, <1>7 DEF Body

MemoTyped == part = "memo" =>
  /\ left \in Modelled
  /\ chosen => right \in Body({"A", "B"}) /\ given \in Regimes

LEMMA MemoTypedStays == (Init => MemoTyped) /\ (MemoTyped /\ [Next]_vars => MemoTyped')
<1>1. Init => MemoTyped
  <2> SUFFICES ASSUME Init, part = "memo" PROVE MemoTyped
    BY Zenon DEF MemoTyped
  <2>1. left \in Models /\ chosen = FALSE
    BY Zenon DEF Init
  <2> QED
    BY <2>1, ModelsAreModelled DEF MemoTyped
<1>2. ASSUME MemoTyped, [Next]_vars, part = "memo"
      PROVE  chosen' => right' \in Body({"A", "B"}) /\ given' \in Regimes
  <2>1. CASE UNCHANGED vars
    BY <1>2, <2>1 DEF vars, MemoTyped
  <2>2. CASE Next
    <3>1. right' \in Bodies /\ given' \in {"cbuae", "sr_26_2"}
      BY <1>2, <2>2, Zenon DEF Next, Choose
    <3>2. {"cbuae", "sr_26_2"} \subseteq Regimes
      BY DEF Regimes, LocalRequirements, ForeignRequirements
    <3> QED
      BY <3>1, <3>2, BodiesAreBodies
  <2> QED
    BY <1>2, <2>1, <2>2
<1> QED
  BY <1>1, <1>2, PartStays DEF MemoTyped

-----------------------------------------------------------------------------
(* The answers of the run of MCAlgorithms.                                  *)

MeasuresTyped ==
  /\ SequencesTyped /\ WalkTyped /\ TestsTyped /\ BatchTyped
  /\ SizeTyped /\ FiguresTyped /\ GroupsTyped /\ ParaphrasesTyped

LEMMA MeasuresTypedStays ==
  (Init => MeasuresTyped) /\ (MeasuresTyped /\ [Next]_vars => MeasuresTyped')
BY SequencesTypedStays, WalkTypedStays, TestsTypedStays, BatchTypedStays,
   SizeTypedStays, FiguresTypedStays, GroupsTypedStays, ParaphrasesTypedStays, Zenon
   DEF MeasuresTyped

LEMMA MeasuresFollow ==
  MeasuresTyped => MeasuresAreExact
<1> SUFFICES ASSUME MeasuresTyped PROVE MeasuresAreExact
  OBVIOUS
<1>1. Asked("sequences") => DistanceIsLeast(left, right)
  BY DistanceIsCheapest, Zenon DEF MeasuresTyped, SequencesTyped, Asked
<1>2. Asked("walk") => WalkIsWhole(left)
  <2> SUFFICES ASSUME Asked("walk") PROVE WalkIsWhole(left)
    OBVIOUS
  <2>1. PICK W : left \in Seq(W)
    BY Zenon DEF MeasuresTyped, WalkTyped, Traced, Asked
  <2>2. Identified(left)
    BY Zenon DEF MeasuresTyped, WalkTyped, Traced, Asked
  <2> QED
    BY <2>1, <2>2, WalkMeetsAll, Zenon
<1>3. Asked("tests") => StepUp(left, given)
  BY AdjustmentIsStepUp, Zenon DEF MeasuresTyped, TestsTyped, Asked
<1>4. Asked("batch") => BatchInOrder(left, right, given)
  BY BatchesInOrder, Zenon DEF MeasuresTyped, BatchTyped, Asked
<1>5. Asked("size") => PowerInverse(left)
  BY SampleSizeIsLeast, Zenon DEF MeasuresTyped, SizeTyped, Asked
<1>6. Asked("figures") => \A f \in Figures : FidelityGrows(left, <<f>>, right, given)
  <2> SUFFICES ASSUME Asked("figures"), NEW f \in Figures
               PROVE  FidelityGrows(left, <<f>>, right, given)
    OBVIOUS
  <2>1. /\ left \in Seq(Figure({"currency"})) /\ right \in Seq(Figure({"currency"}))
        /\ given \in Nat
    BY Zenon DEF MeasuresTyped, FiguresTyped, Asked
  <2>2. f \in Figure({"currency"})
    BY DEF Figures, Figure
  <2>3. <<f>> \in Seq(Figure({"currency"}))
    BY <2>2
  <2> QED
    BY <2>1, <2>3, FidelityOnlyGrows, Zenon
<1>7. Asked("groups") => DisparityIsPairwise(left, right)
  <2> SUFFICES ASSUME Asked("groups") PROVE DisparityIsPairwise(left, right)
    OBVIOUS
  <2>1. PICK G : IsFiniteSet(G) /\ left \in [G -> Int]
    BY Zenon DEF MeasuresTyped, GroupsTyped, Asked
  <2>2. right \in Nat
    BY Zenon DEF MeasuresTyped, GroupsTyped, Asked
  <2> QED
    BY <2>1, <2>2, DisparityOfAllPairs, Zenon
<1>8. Asked("paraphrases") => ConsistencyScales(left, right)
  BY ScalingKeepsConsistency, Zenon DEF MeasuresTyped, ParaphrasesTyped, Asked
<1> QED
  BY <1>1, <1>2, <1>3, <1>4, <1>5, <1>6, <1>7, <1>8, Zenon DEF MeasuresAreExact

\* What is computed by tables, running minima and tolerances is what its definition
\* says, for whatever it is asked of (core/trajectory_comparator.py,
\* core/statistical_analyzer.py, core/finance_evaluators.py).
THEOREM MeasuresStayExact ==
  Init /\ [][Next]_vars => []MeasuresAreExact
BY MeasuresTypedStays, MeasuresFollow, PTL

ComparisonsTyped == RunsTyped /\ ScoresTyped /\ JudgeTyped /\ TextsTyped

LEMMA ComparisonsTypedStays ==
  (Init => ComparisonsTyped) /\ (ComparisonsTyped /\ [Next]_vars => ComparisonsTyped')
BY RunsTypedStays, ScoresTypedStays, JudgeTypedStays, TextsTypedStays, Zenon
   DEF ComparisonsTyped

LEMMA ComparisonsFollow ==
  ComparisonsTyped => ComparisonsMirror
<1> SUFFICES ASSUME ComparisonsTyped PROVE ComparisonsMirror
  OBVIOUS
<1>1. Asked("runs") => ComparisonMirrors(left, right, given)
  <2> SUFFICES ASSUME Asked("runs") PROVE ComparisonMirrors(left, right, given)
    OBVIOUS
  <2>1. PICK V : left \in Seq(V)
    BY Zenon DEF ComparisonsTyped, RunsTyped, Recorded, Asked
  <2>2. PICK X : right \in Seq(X)
    BY Zenon DEF ComparisonsTyped, RunsTyped, Recorded, Asked
  <2>3. Measured(left) /\ Measured(right) /\ AtMostAll(given)
    BY Zenon DEF ComparisonsTyped, RunsTyped, Recorded, Asked
  <2>4. left \in Seq(V \union X) /\ right \in Seq(V \union X)
    BY <2>1, <2>2
  <2> QED
    BY <2>3, <2>4, ComparisonsOfRunsMirror, Zenon
<1>2. Asked("scores") =>
        \A paired \in BOOLEAN : SummaryMirrors(left, right, paired, given, 5)
  BY SummariesMirror, Zenon DEF ComparisonsTyped, ScoresTyped, Asked
<1>3. Asked("judge") => SwapMirrors(left, 1, 2)
  BY SwapsMirror, Zenon DEF ComparisonsTyped, JudgeTyped, Asked, Opinions
<1>4. Asked("texts") => SharesMirror(left, right, given)
  BY SharesAddUp, Zenon DEF ComparisonsTyped, TextsTyped, Asked
<1> QED
  BY <1>1, <1>2, <1>3, <1>4, Zenon DEF ComparisonsMirror

\* Comparing B with A is comparing A with B seen from the other side, for whatever runs,
\* scores, opinions and texts are compared (core/trajectory_comparator.py,
\* core/evaluators.py, core/statistical_analyzer.py).
THEOREM ComparisonsAlwaysMirror ==
  Init /\ [][Next]_vars => []ComparisonsMirror
BY ComparisonsTypedStays, ComparisonsFollow, PTL

ReportsTyped ==
  ListTyped /\ TextsTyped /\ MemoTyped /\ BoardTyped /\ CostsTyped /\ CorpusTyped

LEMMA ReportsTypedStays ==
  (Init => ReportsTyped) /\ (ReportsTyped /\ [Next]_vars => ReportsTyped')
BY ListTypedStays, TextsTypedStays, MemoTypedStays, BoardTypedStays, CostsTypedStays,
   CorpusTypedStays, Zenon DEF ReportsTyped

LEMMA ReportsFollow ==
  ReportsTyped => ReportsAgree
<1> SUFFICES ASSUME ReportsTyped PROVE ReportsAgree
  OBVIOUS
<1>1. Asked("list") => EachAnsweredOnce(left, right, given)
  <2> SUFFICES ASSUME Asked("list") PROVE EachAnsweredOnce(left, right, given)
    OBVIOUS
  <2>1. /\ left \in Seq(Listed) /\ right \in [{"json_schema"} -> Outcomes]
        /\ given \in [{"pairwise_preference"} -> Outcomes]
    BY Zenon DEF ReportsTyped, ListTyped, Asked
  <2>2. Outcomes \subseteq Verdict \union {Raises}
    BY DEF Outcomes, Verdict, Result, Raises
  <2>3. "json_schema" \notin PairwiseNames
    BY DEF PairwiseNames
  <2>4. /\ \A x \in DOMAIN right : right[x] \in Verdict \union {Raises} /\ x \notin PairwiseNames
        /\ \A x \in DOMAIN given : given[x] \in Verdict \union {Raises}
    BY <2>1, <2>2, <2>3
  <2> QED
    BY <2>1, <2>4, EachIsAnsweredOnce, Zenon
<1>2. Asked("texts") =>
        \A n \in {0, 3, 10}, answer \in {-1, 49, 50, 120} :
          VerdictsAgree(left, right, Lower, n, 3, answer)
  <2> SUFFICES ASSUME Asked("texts"), NEW n \in {0, 3, 10}, NEW answer \in {-1, 49, 50, 120}
               PROVE  VerdictsAgree(left, right, Lower, n, 3, answer)
    OBVIOUS
  <2>1. left \in Seq(Words) /\ right \in Seq(Words)
    BY Zenon DEF ReportsTyped, TextsTyped, Asked
  <2>2. Lower \in [Words -> Words]
    BY DEF Lower, Words
  <2>3. n \in Nat /\ 3 \in 0 .. 100 /\ answer \in Int
    OBVIOUS
  <2> QED
    BY <2>1, <2>2, <2>3, EvaluatorsAgree
<1>3. Asked("memo") => /\ MemoIsConsistent(left, given, right)
                       /\ \A run \in LinkedRuns : LinkingKeeps(left, run, given, right)
  <2> SUFFICES ASSUME Asked("memo")
               PROVE  /\ MemoIsConsistent(left, given, right)
                      /\ \A run \in LinkedRuns : LinkingKeeps(left, run, given, right)
    OBVIOUS
  <2>1. left \in Modelled /\ right \in Body({"A", "B"}) /\ given \in Regimes
    BY Zenon DEF ReportsTyped, MemoTyped, Asked
  <2>2. MemoIsConsistent(left, given, right)
    BY <2>1, MemosAreConsistent, Zenon DEF Modelled
  <2>3. ASSUME NEW run \in LinkedRuns
        PROVE  LinkingKeeps(left, run, given, right)
    <3>1. run \in Linkable
      BY LinkedRunsAreRuns
    <3> QED
      BY <2>1, <3>1, LinkingKeepsEvidence, Zenon DEF Modelled, Linkable
  <2> QED
    BY <2>2, <2>3
<1>4. Asked("board") => \A e \in {"e1", "e2"} :
        BoardsAgree(EvalRunStats(left, <<>>, e), BatchEvalRunStats(left, {"e1", "e2"})[e],
                    ReviewStats(left, e), {left[i] : i \in RowsOf(left, e)})
  <2> SUFFICES ASSUME Asked("board"), NEW e \in {"e1", "e2"}
               PROVE  BoardsAgree(EvalRunStats(left, <<>>, e),
                        BatchEvalRunStats(left, {"e1", "e2"})[e],
                        ReviewStats(left, e), {left[i] : i \in RowsOf(left, e)})
    BY Zenon
  <2> DEFINE E == {"e1", "e2", "none"}
             B == 1 .. 3
  <2>1. left \in Seq(Compared(E, B))
    BY Zenon DEF ReportsTyped, BoardTyped, Asked
  <2> HIDE DEF E, B
  <2>2. \A steps, asked : \A x \in asked :
          BoardsAgree(EvalRunStats(left, steps, x), BatchEvalRunStats(left, asked)[x],
                      ReviewStats(left, x), {left[i] : i \in RowsOf(left, x)})
    BY <2>1, PagesCountTheSame, Zenon
  <2> QED
    BY <2>2, Zenon
<1>5. Asked("costs") => CostsAgree(left, right, given, "e1")
  <2> SUFFICES ASSUME Asked("costs") PROVE CostsAgree(left, right, given, "e1")
    OBVIOUS
  <2>1. /\ left \in Seq(StepRow(1 .. 2, 1 .. 3, {"priced", "other"}))
        /\ right \in Seq(Compared({"e1", "none"}, 1 .. 3))
        /\ given \in [1 .. 2 -> {"e1", "none"}]
    BY Zenon DEF ReportsTyped, CostsTyped, Asked, Stepped
  <2>2. 1 \in Int /\ 2 \in Int
    OBVIOUS
  <2>3. IsFiniteSet(1 .. 2)
    BY <2>2, FS_Interval
  <2> QED
    BY <2>1, <2>3, CostsAddUp, Zenon
<1>6. Asked("corpus") => CorpusIsOwn(left, right, given)
  <2> SUFFICES ASSUME Asked("corpus") PROVE CorpusIsOwn(left, right, given)
    OBVIOUS
  <2>1. left \in Seq(Case({"l1", "l2"}, {"w1", "w2"}))
    BY Zenon DEF ReportsTyped, CorpusTyped, Asked
  <2>2. AnyWorkflow \notin {"w1", "w2"}
    BY DEF AnyWorkflow
  <2> QED
    BY <2>1, <2>2, CorpusKeepsRecords, Zenon
<1> QED
  BY <1>1, <1>2, <1>3, <1>4, <1>5, <1>6, Zenon DEF ReportsAgree

\* Every configured evaluator answers once, memos agree with the evidence and keep it when
\* runs are linked, and the pages that count the same rows agree, however many rows there
\* are (core/evaluators.py, core/compliance_reporter.py, core/store_impl/evalruns.py,
\* stats.py, flywheel.py).
THEOREM ReportsAlwaysAgree ==
  Init /\ [][Next]_vars => []ReportsAgree
BY ReportsTypedStays, ReportsFollow, PTL

-----------------------------------------------------------------------------
(* What psycopg2 makes of a text.                                          *)

\* The values along a text of what psycopg2 has made of it.
SendsAlong(g, text) ==
  g = [i \in 0 .. Len(text) |->
        IF i = 0 THEN [out |-> <<>>, format |-> FALSE] ELSE Sent(g[i - 1], text[i])]

SentAs(text, s) == \E g : SendsAlong(g, text) /\ g[Len(text)] = s

LEMMA NothingSent ==
  SentAs(<<>>, [out |-> <<>>, format |-> FALSE])
<1> DEFINE s == [out |-> <<>>, format |-> FALSE]
           g == [i \in 0 .. 0 |-> s]
           h == [i \in 0 .. 0 |-> IF i = 0 THEN s ELSE Sent(g[i - 1], <<>>[i])]
<1>1. \A i \in 0 .. 0 : g[i] = IF i = 0 THEN s ELSE Sent(g[i - 1], <<>>[i])
  OBVIOUS
<1>2. g = h
  BY <1>1
<1>3. Len(<<>>) = 0 /\ g[0] = s
  OBVIOUS
<1>4. SendsAlong(g, <<>>)
  BY <1>2, <1>3, Zenon DEF SendsAlong
<1> QED
  BY <1>3, <1>4, Zenon DEF SentAs

LEMMA SentNext ==
  ASSUME NEW W, NEW text \in Seq(W), NEW ch \in W, NEW s, SentAs(text, s)
  PROVE  SentAs(text \o <<ch>>, Sent(s, ch))
<1> DEFINE n == Len(text)
           more == text \o <<ch>>
           first == [out |-> <<>>, format |-> FALSE]
<1>1. PICK g : SendsAlong(g, text) /\ g[n] = s
  BY Zenon DEF SentAs
<1> DEFINE h == [i \in 0 .. (n + 1) |-> IF i = n + 1 THEN Sent(s, ch) ELSE g[i]]
<1>2. n \in Nat
  BY LenProperties
<1>3. Len(more) = n + 1 /\ more[n + 1] = ch /\ \A i \in 1 .. n : more[i] = text[i]
  OBVIOUS
<1>4. \A i \in 0 .. n : g[i] = IF i = 0 THEN first ELSE Sent(g[i - 1], text[i])
  <2>1. g = [i \in 0 .. n |-> IF i = 0 THEN first ELSE Sent(g[i - 1], text[i])]
    BY <1>1, Zenon DEF SendsAlong
  <2> HIDE DEF n, first
  <2> QED
    BY <2>1, Zenon
<1> HIDE DEF first, more
<1>5. ASSUME NEW i \in 0 .. (n + 1)
      PROVE  h[i] = IF i = 0 THEN first ELSE Sent(h[i - 1], more[i])
  <2>1. CASE i = n + 1
    <3>1. i # 0 /\ n \in 0 .. (n + 1) /\ n # n + 1 /\ i - 1 = n
      BY <1>2, <2>1
    <3>2. h[i] = Sent(s, ch) /\ h[n] = g[n]
      BY <2>1, <3>1, Zenon
    <3> QED
      BY <1>1, <1>3, <2>1, <3>1, <3>2
  <2>2. CASE i # n + 1
    <3>1. i \in 0 .. n /\ h[i] = g[i]
      BY <1>2, <2>2
    <3>2. CASE i = 0
      BY <1>4, <3>1, <3>2
    <3>3. CASE i # 0
      <4>1. i \in 1 .. n /\ i - 1 \in 0 .. (n + 1) /\ i - 1 # n + 1
        BY <1>2, <3>1, <3>3
      <4>2. h[i - 1] = g[i - 1]
        BY <4>1
      <4> HIDE DEF h
      <4> QED
        BY <1>3, <1>4, <3>1, <3>3, <4>1, <4>2
    <3> QED
      BY <3>2, <3>3
  <2> QED
    BY <2>1, <2>2
<1>6. h[n + 1] = Sent(s, ch)
  BY <1>2
<1>7. h = [i \in 0 .. (n + 1) |-> IF i = 0 THEN first ELSE Sent(h[i - 1], more[i])]
  <2>1. h = [i \in 0 .. (n + 1) |-> h[i]]
    OBVIOUS
  <2> HIDE DEF h
  <2> QED
    BY <1>5, <2>1
<1> HIDE DEF h, n
<1>8. SendsAlong(h, more)
  BY <1>3, <1>7, Zenon DEF SendsAlong, first
<1> QED
  BY <1>3, <1>6, <1>8, Zenon DEF SentAs, more

LEMMA SentIs ==
  ASSUME NEW W, NEW text \in Seq(W), NEW s, SentAs(text, s)
  PROVE  Interpolate(text) = s.out
<1> DEFINE n == Len(text)
           first == [out |-> <<>>, format |-> FALSE]
           F(f) == [i \in 0 .. n |-> IF i = 0 THEN first ELSE Sent(f[i - 1], text[i])]
           f == CHOOSE x : x = F(x)
<1>1. PICK g : SendsAlong(g, text) /\ g[n] = s
  BY Zenon DEF SentAs
<1>2. n \in Nat
  BY LenProperties
<1>3. g = F(g)
  BY <1>1, Zenon DEF SendsAlong
<1>4. f = F(f)
  <2> HIDE DEF F
  <2> QED
    BY <1>3, Zenon
<1>5. Interpolate(text) = f[n].out
  BY Zenon DEF Interpolate
<1> HIDE DEF f, n, first
<1>6. /\ \A i \in 0 .. n : f[i] = IF i = 0 THEN first ELSE Sent(f[i - 1], text[i])
      /\ \A i \in 0 .. n : g[i] = IF i = 0 THEN first ELSE Sent(g[i - 1], text[i])
  BY <1>3, <1>4, Zenon
<1> HIDE DEF F
<1> DEFINE S == {k \in 0 .. n : f[k] = g[k]}
<1>7. 0 \in S
  <2>1. 0 \in 0 .. n
    BY <1>2
  <2> QED
    BY <1>6, <2>1
<1>8. ASSUME NEW k \in 0 .. (n - 1), k \in S
      PROVE  k + 1 \in S
  <2>1. k + 1 \in 0 .. n /\ k + 1 # 0 /\ (k + 1) - 1 = k
    BY <1>2
  <2> QED
    BY <1>6, <1>8, <2>1
<1>9. \A k \in 0 .. n : k \in S
  <2> HIDE DEF S
  <2> QED
    BY <1>2, <1>7, <1>8, UpTo
<1>10. f[n] = s
  BY <1>1, <1>2, <1>9 DEF n
<1> QED
  BY <1>5, <1>10

\* A character that is no percent sign goes out as it is, a pair that begins with one as
\* what it stands for.
LEMMA SentPlain ==
  ASSUME NEW W, NEW text \in Seq(W), NEW ch \in W, ch # "%", NEW out,
         SentAs(text, [out |-> out, format |-> FALSE])
  PROVE  SentAs(text \o <<ch>>, [out |-> out \o <<ch>>, format |-> FALSE])
<1>1. Sent([out |-> out, format |-> FALSE], ch) = [out |-> out \o <<ch>>, format |-> FALSE]
  BY DEF Sent
<1> QED
  BY <1>1, SentNext, Zenon

LEMMA PairJoins ==
  ASSUME NEW W, NEW a \in W, NEW b \in W
  PROVE  <<a>> \in Seq(W) /\ <<b>> \in Seq(W) /\ <<a>> \o <<b>> = <<a, b>>
<1> DEFINE s == <<a>>
           t == <<b>>
           u == <<a, b>>
<1>1. /\ s \in Seq(W) /\ Len(s) = 1 /\ s[1] = a
      /\ t \in Seq(W) /\ Len(t) = 1 /\ t[1] = b
      /\ u \in Seq(W) /\ Len(u) = 2 /\ u[1] = a /\ u[2] = b
  OBVIOUS
<1> HIDE DEF s, t, u
<1>2. /\ s \o t \in Seq(W) /\ Len(s \o t) = 2
      /\ \A i \in 1 .. 2 : (s \o t)[i] = IF i <= 1 THEN s[i] ELSE t[i - 1]
  BY <1>1, ConcatProperties
<1>3. \A i \in 1 .. 2 : (s \o t)[i] = u[i]
  BY <1>1, <1>2
<1>4. s \o t = u
  BY <1>1, <1>2, <1>3, SeqEqual
<1> QED
  BY <1>1, <1>4 DEF s, t, u

LEMMA SentPair ==
  ASSUME NEW W, "%" \in W, NEW text \in Seq(W), NEW ch \in W, NEW out,
         SentAs(text, [out |-> out, format |-> FALSE])
  PROVE  SentAs(text \o <<"%", ch>>,
                [out |-> out \o <<IF ch = "s" THEN "parameter" ELSE ch>>, format |-> FALSE])
<1> DEFINE x == IF ch = "s" THEN "parameter" ELSE ch
           half == text \o <<"%">>
<1>1. Sent([out |-> out, format |-> FALSE], "%") = [out |-> out, format |-> TRUE]
  BY DEF Sent
<1>2. Sent([out |-> out, format |-> TRUE], ch) = [out |-> out \o <<x>>, format |-> FALSE]
  BY DEF Sent
<1>3. SentAs(half, [out |-> out, format |-> TRUE])
  BY <1>1, SentNext, Zenon
<1>4. half \in Seq(W) /\ half \o <<ch>> = text \o <<"%", ch>>
  <2>1. <<"%">> \in Seq(W) /\ <<ch>> \in Seq(W) /\ <<"%">> \o <<ch>> = <<"%", ch>>
    BY PairJoins
  <2> QED
    BY <2>1, ConcatProperties, ConcatAssociative
<1> HIDE DEF half, x
<1>5. SentAs(half \o <<ch>>, [out |-> out \o <<x>>, format |-> FALSE])
  BY <1>2, <1>3, <1>4, SentNext, Zenon
<1> QED
  BY <1>4, <1>5, Zenon DEF x

-----------------------------------------------------------------------------
(* Placeholders.                                                           *)

\* What is known of the text that was read at each character.
TranslatesAlong(g, sql) ==
  /\ PgTranslate(sql) = g[Len(sql)].out
  /\ g[0] = [out |-> <<>>, in |-> "bare", read |-> 0]
  /\ \A k \in 1 .. Len(sql) : g[k] = Translated(g[k - 1], sql, k)

LEMMA TranslationIs ==
  ASSUME NEW W, NEW sql \in Seq(W)
  PROVE  \E g : TranslatesAlong(g, sql)
<1> DEFINE n == Len(sql)
           first == [out |-> <<>>, in |-> "bare", read |-> 0]
           G(g, m) == g = [i \in 0 .. m |-> IF i = 0 THEN first ELSE Translated(g[i - 1], sql, i)]
           Reached(m) == \E g : G(g, m)
           S == {m \in 0 .. n : Reached(m)}
           after == CHOOSE g : G(g, n)
<1>1. n \in Nat
  BY LenProperties
<1> HIDE DEF n, first
<1>2. Reached(0)
  <2> DEFINE h == [i \in 0 .. 0 |-> first]
  <2>1. \A i \in 0 .. 0 : h[i] = IF i = 0 THEN first ELSE Translated(h[i - 1], sql, i)
    OBVIOUS
  <2>2. h = [i \in 0 .. 0 |-> h[i]]
    OBVIOUS
  <2> HIDE DEF h
  <2>3. G(h, 0)
    BY <2>1, <2>2
  <2> QED
    BY <2>3, Zenon
<1>3. ASSUME NEW m \in 0 .. (n - 1), Reached(m)
      PROVE  Reached(m + 1)
  <2>1. PICK g : G(g, m)
    BY <1>3, Zenon
  <2>2. \A i \in 0 .. m : g[i] = IF i = 0 THEN first ELSE Translated(g[i - 1], sql, i)
    BY <2>1, Zenon
  <2> DEFINE x == Translated(g[m], sql, m + 1)
             h == [i \in 0 .. (m + 1) |-> IF i = m + 1 THEN x ELSE g[i]]
  <2>3. h[m + 1] = x /\ \A i \in 0 .. m : h[i] = g[i]
    <3>1. m + 1 \in 0 .. (m + 1) /\ \A i \in 0 .. m : i \in 0 .. (m + 1) /\ i # m + 1
      OBVIOUS
    <3> HIDE DEF x
    <3> QED
      BY <3>1
  <2>4. h = [i \in 0 .. (m + 1) |-> h[i]]
    OBVIOUS
  <2> HIDE DEF h
  <2>5. ASSUME NEW i \in 0 .. (m + 1)
        PROVE  h[i] = IF i = 0 THEN first ELSE Translated(h[i - 1], sql, i)
    <3>1. CASE i = m + 1
      <4>1. i # 0 /\ i - 1 = m /\ m \in 0 .. m
        BY <3>1
      <4> QED
        BY <2>3, <3>1, <4>1
    <3>2. CASE i # m + 1
      <4>1. i \in 0 .. m /\ (i # 0 => i - 1 \in 0 .. m)
        BY <3>2
      <4> QED
        BY <2>2, <2>3, <4>1
    <3> QED
      BY <3>1, <3>2
  <2>6. G(h, m + 1)
    BY <2>4, <2>5
  <2> QED
    BY <2>6, Zenon
<1> HIDE DEF Reached
<1>4. 0 \in S /\ \A m \in 0 .. (n - 1) : m \in S => m + 1 \in S
  BY <1>1, <1>2, <1>3
<1>5. \A m \in 0 .. n : m \in S
  <2> HIDE DEF S
  <2> QED
    BY <1>1, <1>4, UpTo
<1>6. Reached(n)
  BY <1>1, <1>5
<1>7. G(after, n)
  <2> HIDE DEF G
  <2> QED
    BY <1>6, Zenon DEF Reached
<1>8. PgTranslate(sql) = after[n].out
  BY Zenon DEF PgTranslate, n, first
<1> HIDE DEF after
<1>9. \A i \in 0 .. n : after[i] = IF i = 0 THEN first ELSE Translated(after[i - 1], sql, i)
  BY <1>7, Zenon
<1> HIDE DEF G
<1>10. /\ after[0] = first
       /\ \A k \in 1 .. n : after[k] = Translated(after[k - 1], sql, k)
  <2>1. 0 \in 0 .. n /\ \A k \in 1 .. n : k \in 0 .. n /\ k # 0
    BY <1>1
  <2> QED
    BY <1>9, <2>1
<1>11. TranslatesAlong(after, sql)
  BY <1>8, <1>10, Zenon DEF TranslatesAlong, n, first
<1> QED
  BY <1>11, Zenon

Mode == {"bare", "squote", "dquote"}

\* The quotes after a character: the second of two quotes in a row begins what the first
\* has ended.
Turned(in, ch) ==
  CASE ch = "'" -> Toggled(in, "squote") [] ch = "\"" -> Toggled(in, "dquote") [] OTHER -> in

\* A text, read from one mode to another, and what the database gets for it.
ReadsBy(e, text, sent) ==
  /\ e \in [0 .. Len(text) -> Mode]
  /\ \A k \in 1 .. Len(text) : e[k] = Turned(e[k - 1], text[k])
  /\ sent = [k \in 1 .. Len(text) |->
               IF text[k] = "?" /\ e[k - 1] = "bare" THEN "parameter" ELSE text[k]]

Reads(from, text, to, sent) ==
  \E e : ReadsBy(e, text, sent) /\ e[0] = from /\ e[Len(text)] = to

\* What a translation knows after k characters, in the modes of e: a quote that the next
\* character doubles is not over for it.
Knows(s, sql, k, in) ==
  \/ s.in = in /\ s.read <= k
  \/ /\ in = "bare" /\ s.in = "squote" /\ s.read = k + 1
     /\ k + 1 \in DOMAIN sql /\ sql[k + 1] = "'"

\* What is written for a character.
Written(in, ch) ==
  CASE ch = "%" -> <<"%", "%">>
    [] ch = "?" /\ in = "bare" -> <<"%", "s">>
    [] OTHER -> <<ch>>

LEMMA NextIs ==
  ASSUME NEW sql, NEW k, CharAt(sql, k) = "'"
  PROVE  k \in DOMAIN sql /\ sql[k] = "'"
BY Zenon DEF CharAt

LEMMA KnowsNext ==
  ASSUME NEW W, NEW sql \in Seq(W), NEW k \in 1 .. Len(sql), NEW s, NEW in \in Mode,
         s.read \in Nat, Knows(s, sql, k - 1, in)
  PROVE  LET t == Translated(s, sql, k)
         IN /\ Knows(t, sql, k, Turned(in, sql[k])) /\ t.read \in Nat
            /\ t.out = s.out \o Written(in, sql[k])
            /\ Turned(in, sql[k]) \in Mode
<1> DEFINE ch == sql[k]
           t == Translated(s, sql, k)
           Put(text, m, read) == [out |-> s.out \o text, in |-> m, read |-> read]
<1>1. k \in Nat /\ k \in DOMAIN sql /\ (k - 1) + 1 = k
  BY LenProperties
<1>2. Turned(in, ch) \in Mode
  BY DEF Turned, Toggled, Mode
<1>3. CASE s.read >= k
  <2>1. in = "bare" /\ s.in = "squote" /\ s.read = k /\ ch = "'"
    BY <1>1, <1>3 DEF Knows
  <2>2. t = Put(<<ch>>, s.in, s.read)
    BY <1>1, <1>3 DEF Translated
  <2>3. t.in = "squote" /\ t.read = k /\ t.out = s.out \o <<ch>>
    BY <2>1, <2>2
  <2>4. Turned(in, ch) = "squote" /\ Written(in, ch) = <<ch>>
    BY <2>1 DEF Turned, Toggled, Written
  <2> HIDE DEF t, ch
  <2>5. t.in = Turned(in, ch) /\ t.read <= k /\ t.read \in Nat
    BY <1>1, <2>3, <2>4
  <2>6. Knows(t, sql, k, Turned(in, ch))
    BY <2>5, Zenon DEF Knows
  <2>7. t.out = s.out \o Written(in, ch)
    BY <2>3, <2>4, Zenon
  <2> QED
    BY <1>2, <2>5, <2>6, <2>7, Zenon DEF t, ch
<1>4. CASE s.read < k
  <2>1. s.in = in /\ s.read <= k /\ ~ (k <= s.read)
    BY <1>1, <1>4 DEF Knows
  <2>2. ASSUME t = Put(Written(in, ch), Turned(in, ch), k)
        PROVE  /\ Knows(t, sql, k, Turned(in, ch)) /\ t.read \in Nat
               /\ t.out = s.out \o Written(in, ch)
    <3> HIDE DEF t, ch
    <3>1. /\ t.in = Turned(in, ch) /\ t.read = k /\ t.out = s.out \o Written(in, ch)
      BY <2>2
    <3>2. t.read <= k /\ t.read \in Nat
      BY <1>1, <3>1
    <3> QED
      BY <3>1, <3>2, Zenon DEF Knows
  <2>3. CASE ch = "%"
    <3>1. t = Put(<<"%", "%">>, s.in, k)
      BY <2>1, <2>3 DEF Translated
    <3>2. Turned(in, ch) = in /\ Written(in, ch) = <<"%", "%">>
      BY <2>3 DEF Turned, Written
    <3> QED
      BY <1>2, <2>1, <2>2, <3>1, <3>2, Zenon
  <2>4. CASE ch = "?"
    <3>1. t = Put(IF s.in = "bare" THEN <<"%", "s">> ELSE <<ch>>, s.in, k)
      BY <2>1, <2>4 DEF Translated
    <3>2. Turned(in, ch) = in /\ Written(in, ch) = IF in = "bare" THEN <<"%", "s">> ELSE <<ch>>
      BY <2>4 DEF Turned, Written
    <3> QED
      BY <1>2, <2>1, <2>2, <3>1, <3>2, Zenon
  <2>5. CASE ch = "'" /\ s.in = "squote" /\ CharAt(sql, k + 1) = "'"
    <3>1. t = Put(<<ch>>, s.in, k + 1)
      BY <2>1, <2>5 DEF Translated
    <3>2. t.in = "squote" /\ t.read = k + 1 /\ t.out = s.out \o <<ch>>
      BY <2>5, <3>1
    <3>3. Turned(in, ch) = "bare" /\ Written(in, ch) = <<ch>>
      BY <2>1, <2>5 DEF Turned, Toggled, Written
    <3>4. k + 1 \in DOMAIN sql /\ sql[k + 1] = "'"
      BY <2>5, NextIs, Zenon
    <3> HIDE DEF t, ch
    <3>5. k + 1 \in Nat
      BY <1>1
    <3>6. Knows(t, sql, k, Turned(in, ch)) /\ t.read \in Nat
      BY <3>2, <3>3, <3>4, <3>5, Zenon DEF Knows
    <3>7. t.out = s.out \o Written(in, ch)
      BY <3>2, <3>3, Zenon
    <3> QED
      BY <1>2, <3>6, <3>7, Zenon DEF t, ch
  <2>6. CASE ch = "'" /\ ~ (s.in = "squote" /\ CharAt(sql, k + 1) = "'")
    <3>1. t = Put(<<ch>>, Toggled(s.in, "squote"), k)
      BY <2>1, <2>6 DEF Translated
    <3>2. Turned(in, ch) = Toggled(in, "squote") /\ Written(in, ch) = <<ch>>
      BY <2>6 DEF Turned, Written
    <3> QED
      BY <1>2, <2>1, <2>2, <3>1, <3>2, Zenon
  <2>7. CASE ch = "\""
    <3>1. t = Put(<<ch>>, Toggled(s.in, "dquote"), k)
      BY <2>1, <2>7 DEF Translated
    <3>2. Turned(in, ch) = Toggled(in, "dquote") /\ Written(in, ch) = <<ch>>
      BY <2>7 DEF Turned, Written
    <3> QED
      BY <1>2, <2>1, <2>2, <3>1, <3>2, Zenon
  <2>8. CASE ch \notin {"%", "?", "'", "\""}
    <3>1. t = Put(<<ch>>, s.in, k)
      BY <2>1, <2>8 DEF Translated
    <3>2. Turned(in, ch) = in /\ Written(in, ch) = <<ch>>
      BY <2>8 DEF Turned, Written
    <3> QED
      BY <1>2, <2>1, <2>2, <3>1, <3>2, Zenon
  <2> HIDE DEF t, ch
  <2>9. /\ ch = "%" \/ ch = "?" \/ ch = "'" \/ ch = "\"" \/ ch \notin {"%", "?", "'", "\""}
    OBVIOUS
  <2> USE DEF t, ch
  <2> QED
    BY <2>3, <2>4, <2>5, <2>6, <2>7, <2>8, <2>9, Zenon
<1> QED
  <2>1. s.read >= k \/ s.read < k
    BY <1>1
  <2> QED
    BY <1>3, <1>4, <2>1

\* What is sent for a character.
Meant(in, ch) == IF ch = "?" /\ in = "bare" THEN "parameter" ELSE ch

Escaped == Characters \union {"s"}

LEMMA SentWritten ==
  ASSUME NEW text \in Seq(Escaped), NEW ch \in Characters, NEW in, NEW out,
         SentAs(text, [out |-> out, format |-> FALSE])
  PROVE  /\ text \o Written(in, ch) \in Seq(Escaped)
         /\ SentAs(text \o Written(in, ch), [out |-> out \o <<Meant(in, ch)>>, format |-> FALSE])
<1>1. "%" \in Escaped /\ "s" \in Escaped /\ ch \in Escaped /\ ch # "s" /\ "%" # "s"
  BY DEF Escaped, Characters
<1>2. CASE ch = "%"
  <2>1. Written(in, ch) = <<"%", "%">> /\ Meant(in, ch) = "%"
    BY <1>2 DEF Written, Meant
  <2>2. <<"%", "%">> \in Seq(Escaped)
    BY <1>1
  <2>3. text \o <<"%", "%">> \in Seq(Escaped)
    BY <2>2, ConcatProperties
  <2>4. SentAs(text \o <<"%", "%">>,
               [out |-> out \o <<IF "%" = "s" THEN "parameter" ELSE "%">>, format |-> FALSE])
    BY <1>1, SentPair, Zenon
  <2>5. (IF "%" = "s" THEN "parameter" ELSE "%") = "%"
    BY <1>1
  <2> QED
    BY <2>1, <2>3, <2>4, <2>5, Zenon
<1>3. CASE ch = "?" /\ in = "bare"
  <2>1. Written(in, ch) = <<"%", "s">> /\ Meant(in, ch) = "parameter"
    BY <1>3 DEF Written, Meant
  <2>2. <<"%", "s">> \in Seq(Escaped)
    BY <1>1
  <2>3. text \o <<"%", "s">> \in Seq(Escaped)
    BY <2>2, ConcatProperties
  <2>4. SentAs(text \o <<"%", "s">>,
               [out |-> out \o <<IF "s" = "s" THEN "parameter" ELSE "s">>, format |-> FALSE])
    BY <1>1, SentPair, Zenon
  <2>5. (IF "s" = "s" THEN "parameter" ELSE "s") = "parameter"
    OBVIOUS
  <2> QED
    BY <2>1, <2>3, <2>4, <2>5, Zenon
<1>4. CASE ch # "%" /\ ~ (ch = "?" /\ in = "bare")
  <2>1. Written(in, ch) = <<ch>> /\ Meant(in, ch) = ch
    BY <1>4 DEF Written, Meant
  <2>2. <<ch>> \in Seq(Escaped)
    BY <1>1
  <2>3. text \o <<ch>> \in Seq(Escaped)
    BY <2>2, ConcatProperties
  <2>4. SentAs(text \o <<ch>>, [out |-> out \o <<ch>>, format |-> FALSE])
    BY <1>1, <1>4, SentPlain, Zenon
  <2> QED
    BY <2>1, <2>3, <2>4, Zenon
<1> QED
  BY <1>2, <1>3, <1>4

LEMMA OneCharacterMore ==
  ASSUME NEW f, NEW k \in Nat
  PROVE  [j \in 1 .. (k + 1) |-> f[j]] = [j \in 1 .. k |-> f[j]] \o <<f[k + 1]>>
<1> DEFINE V == {f[j] : j \in 1 .. (k + 1)}
           s == [j \in 1 .. k |-> f[j]]
           t == <<f[k + 1]>>
           u == [j \in 1 .. (k + 1) |-> f[j]]
<1>1. \A j \in 1 .. (k + 1) : f[j] \in V
  OBVIOUS
<1>2. k + 1 \in 1 .. (k + 1) /\ k + 1 \in Nat /\ \A j \in 1 .. k : j \in 1 .. (k + 1)
  OBVIOUS
<1> HIDE DEF V
<1>3. s \in Seq(V) /\ Len(s) = k /\ \A j \in 1 .. k : s[j] = f[j]
  BY <1>1, <1>2
<1>4. t \in Seq(V) /\ Len(t) = 1 /\ t[1] = f[k + 1]
  BY <1>1, <1>2
<1>5. u \in Seq(V) /\ Len(u) = k + 1 /\ \A j \in 1 .. (k + 1) : u[j] = f[j]
  BY <1>1, <1>2
<1> HIDE DEF s, t, u
<1>6. /\ s \o t \in Seq(V) /\ Len(s \o t) = k + 1
      /\ \A j \in 1 .. (k + 1) : (s \o t)[j] = IF j <= k THEN s[j] ELSE t[j - k]
  BY <1>3, <1>4, ConcatProperties
<1>7. ASSUME NEW j \in 1 .. (k + 1) PROVE (s \o t)[j] = u[j]
  <2>1. (j \in 1 .. k /\ j <= k) \/ (j = k + 1 /\ ~ (j <= k) /\ j - k = 1)
    OBVIOUS
  <2> QED
    BY <1>3, <1>4, <1>5, <1>6, <2>1
<1>8. s \o t = u
  BY <1>5, <1>6, <1>7, SeqEqual
<1> QED
  BY <1>8 DEF s, t, u

\* What psycopg2 makes of a translated text is what its characters mean.
LEMMA TranslationReads ==
  ASSUME NEW sql \in Seq(Characters), NEW to, NEW sent, Reads("bare", sql, to, sent)
  PROVE  Interpolate(PgTranslate(sql)) = sent
<1> DEFINE n == Len(sql)
           piece(k) == [j \in 1 .. k |-> sent[j]]
<1>1. n \in Nat /\ \A k \in 1 .. n : sql[k] \in Characters
  BY LenProperties, ElementOfSeq
<1>2. PICK e : ReadsBy(e, sql, sent) /\ e[0] = "bare"
  BY Zenon DEF Reads
<1>3. PICK g : TranslatesAlong(g, sql)
  BY TranslationIs, Zenon
<1>4. /\ PgTranslate(sql) = g[n].out
      /\ g[0] = [out |-> <<>>, in |-> "bare", read |-> 0]
      /\ \A k \in 1 .. n : g[k] = Translated(g[k - 1], sql, k)
  BY <1>3, Zenon DEF TranslatesAlong
<1>5. /\ \A k \in 0 .. n : e[k] \in Mode
      /\ \A k \in 1 .. n : e[k] = Turned(e[k - 1], sql[k])
  BY <1>2, Zenon DEF ReadsBy
<1>6. sent = [k \in 1 .. n |-> Meant(e[k - 1], sql[k])]
  <2>1. sent = [k \in 1 .. n |->
                  IF sql[k] = "?" /\ e[k - 1] = "bare" THEN "parameter" ELSE sql[k]]
    BY <1>2, Zenon DEF ReadsBy
  <2> QED
    BY <2>1, Zenon DEF Meant
<1>7. piece(n) = sent /\ \A k \in 1 .. n : sent[k] = Meant(e[k - 1], sql[k])
  BY <1>6
<1> DEFINE P(k) == /\ Knows(g[k], sql, k, e[k])
                   /\ g[k].read \in Nat
                   /\ g[k].out \in Seq(Escaped)
                   /\ SentAs(g[k].out, [out |-> piece(k), format |-> FALSE])
           S == {k \in 0 .. n : P(k)}
<1>8. P(0)
  <2>1. g[0].out = <<>> /\ g[0].in = "bare" /\ g[0].read = 0
    BY <1>4
  <2>2. piece(0) = <<>>
    OBVIOUS
  <2>3. <<>> \in Seq(Escaped) /\ 0 \in Nat /\ 0 <= 0
    OBVIOUS
  <2>4. Knows(g[0], sql, 0, e[0])
    BY <1>2, <2>1, <2>3, Zenon DEF Knows
  <2> HIDE DEF piece
  <2> QED
    BY <2>1, <2>2, <2>3, <2>4, NothingSent, Zenon
<1>9. ASSUME NEW k \in 0 .. (n - 1), P(k)
      PROVE  P(k + 1)
  <2>1. k + 1 \in 1 .. n /\ (k + 1) - 1 = k /\ k \in Nat /\ k \in 0 .. n /\ k + 1 \in 0 .. n
    BY <1>1
  <2> DEFINE t == Translated(g[k], sql, k + 1)
             ch == sql[k + 1]
             in == e[k]
  <2>2. g[k + 1] = t
    BY <1>4, <2>1
  <2>3. ch \in Characters /\ in \in Mode /\ e[k + 1] = Turned(in, ch)
    BY <1>1, <1>5, <2>1
  <2>4. /\ Knows(g[k], sql, k, in) /\ g[k].read \in Nat /\ g[k].out \in Seq(Escaped)
        /\ SentAs(g[k].out, [out |-> piece(k), format |-> FALSE])
    BY <1>9, Zenon
  <2>5. /\ Knows(t, sql, k + 1, Turned(in, ch)) /\ t.read \in Nat
        /\ t.out = g[k].out \o Written(in, ch)
    <3> HIDE DEF in
    <3>1. Knows(g[k], sql, (k + 1) - 1, in)
      BY <2>1, <2>4, Zenon
    <3> QED
      BY <2>1, <2>3, <2>4, <3>1, KnowsNext, Zenon
  <2>6. sent[k + 1] = Meant(in, ch)
    BY <1>7, <2>1
  <2>7. piece(k + 1) = piece(k) \o <<Meant(in, ch)>>
    <3>1. piece(k + 1) = piece(k) \o <<sent[k + 1]>>
      BY <2>1, OneCharacterMore, Zenon
    <3> QED
      BY <2>6, <3>1, Zenon
  <2> HIDE DEF t, ch, in, piece
  <2>8. /\ t.out \in Seq(Escaped)
        /\ SentAs(t.out, [out |-> piece(k + 1), format |-> FALSE])
    BY <2>3, <2>4, <2>5, <2>7, SentWritten, Zenon
  <2> QED
    BY <2>2, <2>3, <2>5, <2>8, Zenon
<1> HIDE DEF P
<1>10. 0 \in S /\ \A k \in 0 .. (n - 1) : k \in S => k + 1 \in S
  BY <1>1, <1>8, <1>9
<1>11. n \in S
  <2>1. n \in 0 .. n
    BY <1>1
  <2> HIDE DEF S
  <2>2. \A k \in 0 .. n : k \in S
    BY <1>1, <1>10, UpTo
  <2> QED
    BY <2>1, <2>2
<1>12. SentAs(g[n].out, [out |-> sent, format |-> FALSE]) /\ g[n].out \in Seq(Escaped)
  BY <1>7, <1>11, Zenon DEF P
<1>13. Interpolate(g[n].out) = [out |-> sent, format |-> FALSE].out
  BY <1>12, SentIs, Zenon
<1> QED
  BY <1>4, <1>13

-----------------------------------------------------------------------------
(* Texts read one after the other.                                         *)

Meanings == Characters \union {"parameter"}

LEMMA MeantIs ==
  ASSUME NEW in, NEW ch \in Characters
  PROVE  Meant(in, ch) \in Meanings
BY DEF Meant, Meanings

LEMMA ReadsSent ==
  ASSUME NEW from, NEW text \in Seq(Characters), NEW to, NEW sent, Reads(from, text, to, sent)
  PROVE  /\ sent \in Seq(Meanings) /\ Len(sent) = Len(text)
         /\ from \in Mode /\ to \in Mode
<1> DEFINE n == Len(text)
<1>1. n \in Nat /\ \A k \in 1 .. n : text[k] \in Characters
  BY LenProperties, ElementOfSeq
<1>2. PICK e : ReadsBy(e, text, sent) /\ e[0] = from /\ e[n] = to
  BY Zenon DEF Reads
<1>3. /\ e \in [0 .. n -> Mode]
      /\ sent = [k \in 1 .. n |->
                   IF text[k] = "?" /\ e[k - 1] = "bare" THEN "parameter" ELSE text[k]]
  BY <1>2, Zenon DEF ReadsBy
<1>4. 0 \in 0 .. n /\ n \in 0 .. n
  BY <1>1
<1>5. \A k \in 1 .. n :
        (IF text[k] = "?" /\ e[k - 1] = "bare" THEN "parameter" ELSE text[k]) \in Meanings
  BY <1>1 DEF Meanings
<1> HIDE DEF n
<1>6. sent \in [1 .. n -> Meanings]
  BY <1>3, <1>5, Zenon
<1>7. sent \in Seq(Meanings) /\ Len(sent) = n
  BY <1>1, <1>6
<1> QED
  BY <1>2, <1>3, <1>4, <1>7, Zenon DEF n

LEMMA ReadsJoin ==
  ASSUME NEW a, NEW b, NEW c, NEW u \in Seq(Characters), NEW v \in Seq(Characters),
         NEW p, NEW q, Reads(a, u, b, p), Reads(b, v, c, q)
  PROVE  Reads(a, u \o v, c, p \o q)
<1> DEFINE m == Len(u)
           n == Len(v)
           w == u \o v
           Means(e, text, k) ==
             IF text[k] = "?" /\ e[k - 1] = "bare" THEN "parameter" ELSE text[k]
<1>1. m \in Nat /\ n \in Nat
  BY LenProperties
<1>2. /\ w \in Seq(Characters) /\ Len(w) = m + n
      /\ \A k \in 1 .. m + n : w[k] = IF k <= m THEN u[k] ELSE v[k - m]
  BY ConcatProperties
<1>3. /\ p \in Seq(Meanings) /\ Len(p) = m
      /\ q \in Seq(Meanings) /\ Len(q) = n
  BY ReadsSent, Zenon
<1>4. /\ p \o q \in Seq(Meanings) /\ Len(p \o q) = m + n
      /\ \A k \in 1 .. m + n : (p \o q)[k] = IF k <= m THEN p[k] ELSE q[k - m]
  <2> HIDE DEF m, n
  <2> QED
    BY <1>3, ConcatProperties
<1>5. PICK d : ReadsBy(d, u, p) /\ d[0] = a /\ d[m] = b
  BY Zenon DEF Reads
<1>6. PICK e : ReadsBy(e, v, q) /\ e[0] = b /\ e[n] = c
  BY Zenon DEF Reads
<1>7. /\ d \in [0 .. m -> Mode] /\ p = [k \in 1 .. m |-> Means(d, u, k)]
      /\ \A k \in 1 .. m : d[k] = Turned(d[k - 1], u[k])
  BY <1>5, Zenon DEF ReadsBy
<1>8. /\ e \in [0 .. n -> Mode] /\ q = [k \in 1 .. n |-> Means(e, v, k)]
      /\ \A k \in 1 .. n : e[k] = Turned(e[k - 1], v[k])
  BY <1>6, Zenon DEF ReadsBy
<1> DEFINE f == [k \in 0 .. m + n |-> IF k <= m THEN d[k] ELSE e[k - m]]
           r == p \o q
<1> HIDE DEF w, r
<1>9. f \in [0 .. m + n -> Mode]
  <2> SUFFICES ASSUME NEW k \in 0 .. m + n
               PROVE  (IF k <= m THEN d[k] ELSE e[k - m]) \in Mode
    OBVIOUS
  <2>1. (k <= m /\ k \in 0 .. m) \/ (~ (k <= m) /\ k - m \in 0 .. n)
    BY <1>1
  <2> QED
    BY <1>7, <1>8, <2>1
<1>10. ASSUME NEW k \in 1 .. m + n
       PROVE  f[k] = Turned(f[k - 1], w[k]) /\ r[k] = Means(f, w, k)
  <2>1. k \in 0 .. m + n /\ k - 1 \in 0 .. m + n
    BY <1>1
  <2>2. CASE k <= m
    <3>1. k \in 1 .. m /\ k - 1 <= m
      BY <1>1, <2>2
    <3>2. f[k] = d[k] /\ f[k - 1] = d[k - 1] /\ w[k] = u[k] /\ r[k] = p[k]
      BY <1>2, <1>4, <2>1, <2>2, <3>1 DEF w, r
    <3>3. d[k] = Turned(d[k - 1], u[k]) /\ p[k] = Means(d, u, k)
      BY <1>7, <3>1
    <3> HIDE DEF f
    <3> QED
      BY <3>2, <3>3, Zenon
  <2>3. CASE ~ (k <= m)
    <3>1. k - m \in 1 .. n /\ (k - m) - 1 = (k - 1) - m
      BY <1>1, <2>3
    <3>2. w[k] = v[k - m] /\ r[k] = q[k - m] /\ f[k] = e[k - m]
      BY <1>2, <1>4, <2>1, <2>3 DEF w, r
    <3>3. f[k - 1] = e[(k - m) - 1]
      <4>1. CASE k - 1 <= m
        <5>1. k - 1 = m /\ (k - m) - 1 = 0
          BY <1>1, <2>3, <4>1
        <5>2. f[k - 1] = d[k - 1]
          BY <2>1, <4>1
        <5> HIDE DEF f
        <5> QED
          BY <1>5, <1>6, <5>1, <5>2
      <4>2. CASE ~ (k - 1 <= m)
        BY <2>1, <3>1, <4>2
      <4> QED
        BY <4>1, <4>2
    <3>4. e[k - m] = Turned(e[(k - m) - 1], v[k - m]) /\ q[k - m] = Means(e, v, k - m)
      BY <1>8, <3>1
    <3> HIDE DEF f
    <3> QED
      BY <3>2, <3>3, <3>4, Zenon
  <2> QED
    BY <2>2, <2>3
<1>11. f[0] = a /\ f[m + n] = c
  <2>1. 0 \in 0 .. m + n /\ 0 <= m /\ m + n \in 0 .. m + n /\ (m + n) - m = n
    BY <1>1
  <2>2. CASE n = 0
    <3>1. m + n <= m /\ m + n = m
      BY <1>1, <2>2
    <3> QED
      BY <1>5, <1>6, <2>1, <2>2, <3>1
  <2>3. CASE n # 0
    <3>1. ~ (m + n <= m)
      BY <1>1, <2>3
    <3> QED
      BY <1>5, <1>6, <2>1, <3>1
  <2> QED
    BY <2>2, <2>3
<1> HIDE DEF f, m, n
<1>12. r = [k \in 1 .. m + n |-> Means(f, w, k)]
  <2> DEFINE z == [k \in 1 .. m + n |-> Means(f, w, k)]
  <2>1. r \in [1 .. m + n -> Meanings]
    <3>1. r \in Seq(Meanings) /\ Len(r) = m + n
      BY <1>4 DEF r
    <3> QED
      BY <3>1, LenProperties
  <2> HIDE DEF Means
  <2>2. \A k \in 1 .. m + n : r[k] = z[k]
    BY <1>10, Zenon
  <2> QED
    BY <2>1, <2>2, Zenon
<1>13. ReadsBy(f, w, r)
  BY <1>2, <1>9, <1>10, <1>12, Zenon DEF ReadsBy, w
<1> QED
  BY <1>2, <1>11, <1>13, Zenon DEF Reads, w, r

LEMMA ReadsNothing ==
  ASSUME NEW in \in Mode
  PROVE  Reads(in, <<>>, in, <<>>)
<1> DEFINE e == [k \in 0 .. 0 |-> in]
           t == <<>>
<1>1. Len(t) = 0 /\ t \in Seq(Characters)
  OBVIOUS
<1>2. e \in [0 .. 0 -> Mode] /\ e[0] = in
  OBVIOUS
<1>3. 1 .. 0 = {}
  OBVIOUS
<1>4. t = [k \in 1 .. 0 |-> IF t[k] = "?" /\ e[k - 1] = "bare" THEN "parameter" ELSE t[k]]
  OBVIOUS
<1> HIDE DEF e, t
<1>5. ReadsBy(e, t, t)
  BY <1>1, <1>2, <1>3, <1>4 DEF ReadsBy
<1>6. Reads(in, t, in, t)
  BY <1>1, <1>2, <1>5, Zenon DEF Reads
<1> QED
  BY <1>6, Zenon DEF t

LEMMA ReadsOne ==
  ASSUME NEW in \in Mode, NEW ch \in Characters
  PROVE  Reads(in, <<ch>>, Turned(in, ch), <<Meant(in, ch)>>)
<1> DEFINE to == Turned(in, ch)
           e == [k \in 0 .. 1 |-> IF k = 0 THEN in ELSE to]
           t == <<ch>>
           s == <<Meant(in, ch)>>
<1>1. to \in Mode
  BY DEF Turned, Toggled, Mode
<1> HIDE DEF to
<1>2. e \in [0 .. 1 -> Mode] /\ e[0] = in /\ e[1] = to
  BY <1>1
<1>3. Len(t) = 1 /\ t[1] = ch /\ 1 .. 1 = {1} /\ 1 - 1 = 0
  OBVIOUS
<1>4. s = [k \in 1 .. 1 |-> IF t[k] = "?" /\ e[k - 1] = "bare" THEN "parameter" ELSE t[k]]
  <2> DEFINE z == [k \in 1 .. 1 |->
                     IF t[k] = "?" /\ e[k - 1] = "bare" THEN "parameter" ELSE t[k]]
  <2>1. s = [k \in 1 .. 1 |-> Meant(in, ch)]
    OBVIOUS
  <2> HIDE DEF e, t, s
  <2>2. \A k \in 1 .. 1 : z[k] = Meant(in, ch)
    BY <1>2, <1>3 DEF Meant
  <2>3. z = [k \in 1 .. 1 |-> z[k]]
    OBVIOUS
  <2> HIDE DEF z
  <2>4. s = z
    BY <2>1, <2>2, <2>3
  <2> QED
    BY <2>4 DEF z
<1> HIDE DEF e, t, s
<1>5. \A k \in 1 .. 1 : e[k] = Turned(e[k - 1], t[k])
  BY <1>2, <1>3 DEF to
<1>6. ReadsBy(e, t, s)
  BY <1>2, <1>3, <1>4, <1>5, Zenon DEF ReadsBy
<1>7. Reads(in, t, to, s)
  BY <1>2, <1>3, <1>6, Zenon DEF Reads
<1> QED
  BY <1>7, Zenon DEF t, s, to

\* Texts that each leave the mode alone do so together.
LEMMA ReadsEach ==
  ASSUME NEW in \in Mode, NEW texts \in Seq(Seq(Characters)), NEW sents \in Seq(Seq(Meanings)),
         Len(sents) = Len(texts),
         \A i \in 1 .. Len(texts) : Reads(in, texts[i], in, sents[i])
  PROVE  /\ Reads(in, FlattenSeq(texts), in, FlattenSeq(sents))
         /\ FlattenSeq(texts) \in Seq(Characters)
<1> DEFINE n == Len(texts)
<1>1. n \in Nat /\ \A i \in 1 .. n : texts[i] \in Seq(Characters)
  BY LenProperties, ElementOfSeq
<1>2. PICK f \in [0 .. n -> Seq(Characters)] :
        /\ f[0] = <<>> /\ FlattenSeq(texts) = f[n]
        /\ \A k \in 1 .. n : f[k] = f[k - 1] \o texts[k]
  BY FlattenIs, Zenon
<1>3. PICK g \in [0 .. n -> Seq(Meanings)] :
        /\ g[0] = <<>> /\ FlattenSeq(sents) = g[n]
        /\ \A k \in 1 .. n : g[k] = g[k - 1] \o sents[k]
  <2>1. \E g \in [0 .. Len(sents) -> Seq(Meanings)] :
          /\ g[0] = <<>> /\ FlattenSeq(sents) = g[Len(sents)]
          /\ \A k \in 1 .. Len(sents) : g[k] = g[k - 1] \o sents[k]
    BY FlattenIs, Zenon
  <2> QED
    BY <2>1, Zenon
<1> DEFINE P(k) == Reads(in, f[k], in, g[k])
           S == {k \in 0 .. n : P(k)}
<1>4. P(0)
  BY <1>2, <1>3, ReadsNothing, Zenon
<1>5. ASSUME NEW k \in 0 .. (n - 1), P(k)
      PROVE  P(k + 1)
  <2>1. k + 1 \in 1 .. n /\ (k + 1) - 1 = k /\ k \in 0 .. n
    BY <1>1
  <2>2. f[k + 1] = f[k] \o texts[k + 1] /\ g[k + 1] = g[k] \o sents[k + 1]
    BY <1>2, <1>3, <2>1
  <2>3. f[k] \in Seq(Characters) /\ texts[k + 1] \in Seq(Characters)
    BY <1>1, <2>1, Zenon
  <2>4. Reads(in, texts[k + 1], in, sents[k + 1])
    BY <2>1, Zenon
  <2>5. Reads(in, f[k] \o texts[k + 1], in, g[k] \o sents[k + 1])
    BY <1>5, <2>3, <2>4, ReadsJoin, Zenon
  <2> QED
    BY <2>2, <2>5, Zenon
<1> HIDE DEF P
<1>6. 0 \in S /\ \A k \in 0 .. (n - 1) : k \in S => k + 1 \in S
  BY <1>1, <1>4, <1>5
<1>7. n \in 0 .. n
  BY <1>1
<1>8. P(n)
  <2> HIDE DEF S
  <2>1. \A k \in 0 .. n : k \in S
    BY <1>1, <1>6, UpTo
  <2> QED
    BY <1>7, <2>1 DEF S
<1>9. f[n] \in Seq(Characters)
  BY <1>7, Zenon
<1> QED
  BY <1>2, <1>3, <1>8, <1>9, Zenon DEF P

-----------------------------------------------------------------------------
(* Segments.                                                               *)

\* A text as it stands in a literal.
Double(ch) == IF ch = "'" THEN <<"'", "'">> ELSE <<ch>>
Doubled(text) == FlattenSeq([i \in DOMAIN text |-> Double(text[i])])

\* What is neither quoted nor a statement's end, literals, and identifiers.
Plain == {"x", " ", "?", "%"}
Bare == [kind : {"bare"}, body : Seq(Plain)]
Literals == [kind : {"squote"}, body : {Doubled(text) : text \in Seq(Characters)}]
Identifiers == [kind : {"dquote"}, body : Seq(Characters \ {"\""})]

\* What the database gets for a segment.
SentFor(segment) ==
  IF segment.kind # "bare" THEN TextOf(segment)
  ELSE [j \in DOMAIN segment.body |->
          IF segment.body[j] = "?" THEN "parameter" ELSE segment.body[j]]

LEMMA DoublesAre ==
  ASSUME NEW text \in Seq(Characters)
  PROVE  LET doubles == [i \in DOMAIN text |-> Double(text[i])]
         IN /\ doubles \in Seq(Seq(Characters)) /\ Len(doubles) = Len(text)
            /\ \A i \in 1 .. Len(text) : doubles[i] = Double(text[i]) /\ text[i] \in Characters
<1>1. Len(text) \in Nat /\ DOMAIN text = 1 .. Len(text)
  BY LenProperties
<1>2. \A i \in 1 .. Len(text) : text[i] \in Characters
  BY <1>1, ElementOfSeq
<1>3. \A ch \in Characters : Double(ch) \in Seq(Characters)
  <2>1. "'" \in Characters
    BY DEF Characters
  <2>2. <<"'", "'">> \in Seq(Characters) /\ \A ch \in Characters : <<ch>> \in Seq(Characters)
    BY <2>1
  <2> QED
    BY <2>2 DEF Double
<1> QED
  BY <1>1, <1>2, <1>3

LEMMA ReadsDouble ==
  ASSUME NEW ch \in Characters
  PROVE  Reads("squote", Double(ch), "squote", Double(ch))
<1>1. "squote" \in Mode /\ "bare" \in Mode /\ "'" \in Characters
  BY DEF Mode, Characters
<1>2. CASE ch = "'"
  <2>1. Turned("squote", ch) = "bare" /\ Turned("bare", ch) = "squote"
    BY <1>2 DEF Turned, Toggled
  <2>2. Meant("squote", ch) = ch /\ Meant("bare", ch) = ch
    BY <1>2 DEF Meant
  <2>3. Reads("squote", <<ch>>, "bare", <<ch>>) /\ Reads("bare", <<ch>>, "squote", <<ch>>)
    <3>1. Reads("squote", <<ch>>, Turned("squote", ch), <<Meant("squote", ch)>>)
      BY <1>1, ReadsOne, Zenon
    <3>2. Reads("bare", <<ch>>, Turned("bare", ch), <<Meant("bare", ch)>>)
      BY <1>1, ReadsOne, Zenon
    <3> QED
      BY <2>1, <2>2, <3>1, <3>2, Zenon
  <2>4. <<ch>> \in Seq(Characters) /\ <<ch>> \o <<ch>> = <<ch, ch>>
    BY PairJoins
  <2>5. Reads("squote", <<ch>> \o <<ch>>, "squote", <<ch>> \o <<ch>>)
    BY <2>3, <2>4, ReadsJoin, Zenon
  <2>6. Double(ch) = <<ch, ch>>
    BY <1>2 DEF Double
  <2> QED
    BY <2>4, <2>5, <2>6, Zenon
<1>3. CASE ch # "'"
  <2>1. Turned("squote", ch) = "squote" /\ Meant("squote", ch) = ch
    BY <1>3 DEF Turned, Toggled, Meant
  <2>2. Reads("squote", <<ch>>, Turned("squote", ch), <<Meant("squote", ch)>>)
    BY <1>1, ReadsOne, Zenon
  <2>3. Double(ch) = <<ch>>
    BY <1>3 DEF Double
  <2> QED
    BY <2>1, <2>2, <2>3, Zenon
<1> QED
  BY <1>2, <1>3

LEMMA ReadsDoubled ==
  ASSUME NEW text \in Seq(Characters)
  PROVE  /\ Reads("squote", Doubled(text), "squote", Doubled(text))
         /\ Doubled(text) \in Seq(Characters)
<1> DEFINE doubles == [i \in DOMAIN text |-> Double(text[i])]
<1>1. /\ doubles \in Seq(Seq(Characters)) /\ Len(doubles) = Len(text)
      /\ \A i \in 1 .. Len(text) : doubles[i] = Double(text[i]) /\ text[i] \in Characters
  BY DoublesAre, Zenon
<1>2. Doubled(text) = FlattenSeq(doubles)
  BY Zenon DEF Doubled
<1> HIDE DEF doubles
<1>3. \A i \in 1 .. Len(doubles) : Reads("squote", doubles[i], "squote", doubles[i])
  BY <1>1, ReadsDouble, Zenon
<1>4. doubles \in Seq(Seq(Meanings))
  <2>1. \A i \in 1 .. Len(doubles) : doubles[i] \in Seq(Characters)
    BY <1>1, LenProperties, ElementOfSeq
  <2>2. Len(doubles) \in Nat /\ DOMAIN doubles = 1 .. Len(doubles)
    BY <1>1, LenProperties
  <2>3. doubles = [i \in 1 .. Len(doubles) |-> doubles[i]]
    BY <1>1, LenProperties
  <2>4. \A t \in Seq(Characters) : t \in Seq(Meanings)
    BY DEF Meanings
  <2> QED
    BY <2>1, <2>2, <2>3, <2>4
<1>5. "squote" \in Mode
  BY DEF Mode
<1> QED
  BY <1>1, <1>2, <1>3, <1>4, <1>5, ReadsEach, Zenon

\* What a mode leaves alone.
LEMMA ReadsThrough ==
  ASSUME NEW in \in Mode, NEW text \in Seq(Characters),
         \A k \in 1 .. Len(text) : Turned(in, text[k]) = in
  PROVE  Reads(in, text, in, [k \in 1 .. Len(text) |-> Meant(in, text[k])])
<1> DEFINE n == Len(text)
           e == [k \in 0 .. n |-> in]
           s == [k \in 1 .. n |-> Meant(in, text[k])]
           z == [k \in 1 .. n |-> IF text[k] = "?" /\ e[k - 1] = "bare" THEN "parameter"
                                  ELSE text[k]]
<1>1. n \in Nat /\ 0 \in 0 .. n /\ n \in 0 .. n
      /\ \A k \in 1 .. n : k \in 0 .. n /\ k - 1 \in 0 .. n
  BY LenProperties
<1>2. e \in [0 .. n -> Mode] /\ \A k \in 0 .. n : e[k] = in
  OBVIOUS
<1> HIDE DEF e
<1>3. s = z
  <2>1. s = [k \in 1 .. n |-> s[k]] /\ z = [k \in 1 .. n |-> z[k]]
    OBVIOUS
  <2>2. \A k \in 1 .. n : s[k] = z[k]
    BY <1>1, <1>2 DEF Meant
  <2> HIDE DEF s, z
  <2> QED
    BY <2>1, <2>2
<1>4. \A k \in 1 .. n : e[k] = Turned(e[k - 1], text[k])
  BY <1>1, <1>2
<1>5. ReadsBy(e, text, s)
  BY <1>2, <1>3, <1>4, Zenon DEF ReadsBy
<1> HIDE DEF n, s
<1>6. Reads(in, text, in, s)
  BY <1>1, <1>2, <1>5, Zenon DEF Reads, n
<1> QED
  BY <1>6, Zenon DEF s, n

LEMMA BareTexts ==
  ASSUME NEW text \in Seq(Plain)
  PROVE  /\ text \in Seq(Characters) /\ DOMAIN text = 1 .. Len(text)
         /\ \A k \in 1 .. Len(text) : text[k] \in Plain
<1>1. \A x \in Plain : x \in Characters
  BY DEF Plain, Characters
<1>2. DOMAIN text = 1 .. Len(text) /\ \A k \in 1 .. Len(text) : text[k] \in Plain
  BY LenProperties, ElementOfSeq
<1> QED
  BY <1>1, <1>2

LEMMA ReadsBare ==
  ASSUME NEW segment \in Bare
  PROVE  /\ Reads("bare", TextOf(segment), "bare", SentFor(segment))
         /\ TextOf(segment) \in Seq(Characters)
<1> DEFINE body == segment.body
<1>1. segment.kind = "bare" /\ body \in Seq(Plain)
  BY DEF Bare
<1> HIDE DEF body
<1>2. /\ body \in Seq(Characters) /\ DOMAIN body = 1 .. Len(body)
      /\ \A k \in 1 .. Len(body) : body[k] \in Plain
  BY <1>1, BareTexts, Zenon
<1>3. TextOf(segment) = body
  <2>1. Delimiters["bare"] = <<>>
    BY DEF Delimiters
  <2>2. (<<>> \o body) \o <<>> = body
    BY <1>2, ConcatEmptySeq
  <2> QED
    BY <1>1, <2>1, <2>2, Zenon DEF TextOf, body
<1>4. SentFor(segment) = [k \in 1 .. Len(body) |-> Meant("bare", body[k])]
  <2>1. SentFor(segment) = [j \in DOMAIN body |-> IF body[j] = "?" THEN "parameter" ELSE body[j]]
    BY <1>1, Zenon DEF SentFor, body
  <2>2. \A ch : Meant("bare", ch) = IF ch = "?" THEN "parameter" ELSE ch
    BY DEF Meant
  <2> QED
    BY <1>2, <2>1, <2>2, Zenon
<1>5. \A k \in 1 .. Len(body) : Turned("bare", body[k]) = "bare"
  BY <1>2 DEF Turned, Plain
<1>6. "bare" \in Mode
  BY DEF Mode
<1>7. Reads("bare", body, "bare", [k \in 1 .. Len(body) |-> Meant("bare", body[k])])
  BY <1>2, <1>5, <1>6, ReadsThrough, Zenon
<1> QED
  BY <1>2, <1>3, <1>4, <1>7, Zenon

\* A text between two of its quotes.
LEMMA ReadsQuoted ==
  ASSUME NEW quote \in Characters, NEW in \in Mode, NEW body \in Seq(Characters),
         Turned("bare", quote) = in, Turned(in, quote) = "bare",
         quote # "?", Reads(in, body, in, body)
  PROVE  /\ Reads("bare", (<<quote>> \o body) \o <<quote>>, "bare",
                  (<<quote>> \o body) \o <<quote>>)
         /\ (<<quote>> \o body) \o <<quote>> \in Seq(Characters)
<1> DEFINE q == <<quote>>
           h == q \o body
<1>1. "bare" \in Mode /\ Meant("bare", quote) = quote /\ Meant(in, quote) = quote
  BY DEF Mode, Meant
<1>2. Reads("bare", q, in, q)
  <2>1. Reads("bare", q, Turned("bare", quote), <<Meant("bare", quote)>>)
    BY <1>1, ReadsOne, Zenon
  <2> QED
    BY <1>1, <2>1, Zenon
<1>3. Reads(in, q, "bare", q)
  <2>1. Reads(in, q, Turned(in, quote), <<Meant(in, quote)>>)
    BY <1>1, ReadsOne, Zenon
  <2> QED
    BY <1>1, <2>1, Zenon
<1>4. q \in Seq(Characters)
  OBVIOUS
<1> HIDE DEF q
<1>5. h \in Seq(Characters) /\ h \o q \in Seq(Characters)
  BY <1>4, ConcatProperties
<1>6. Reads("bare", h, in, h)
  BY <1>2, <1>4, ReadsJoin, Zenon
<1> HIDE DEF h
<1>7. Reads("bare", h \o q, "bare", h \o q)
  BY <1>3, <1>4, <1>5, <1>6, ReadsJoin, Zenon
<1> QED
  BY <1>5, <1>7, Zenon DEF h, q

LEMMA ReadsLiteral ==
  ASSUME NEW segment \in Literals
  PROVE  /\ Reads("bare", TextOf(segment), "bare", SentFor(segment))
         /\ TextOf(segment) \in Seq(Characters)
<1> DEFINE body == segment.body
           q == "'"
<1>1. segment.kind = "squote" /\ \E text \in Seq(Characters) : body = Doubled(text)
  BY DEF Literals
<1> HIDE DEF body
<1>2. PICK text \in Seq(Characters) : body = Doubled(text)
  BY <1>1
<1>3. Reads("squote", body, "squote", body) /\ body \in Seq(Characters)
  BY <1>2, ReadsDoubled, Zenon
<1>4. TextOf(segment) = (<<q>> \o body) \o <<q>> /\ SentFor(segment) = TextOf(segment)
  <2>1. Delimiters["squote"] = <<"'">> /\ "squote" # "bare"
    BY DEF Delimiters
  <2> QED
    BY <1>1, <2>1, Zenon DEF TextOf, SentFor, body
<1>5. /\ Turned("bare", q) = "squote" /\ Turned("squote", q) = "bare" /\ q # "?"
      /\ q \in Characters /\ "squote" \in Mode
  BY DEF Turned, Toggled, Characters, Mode
<1> HIDE DEF q
<1>6. /\ Reads("bare", (<<q>> \o body) \o <<q>>, "bare", (<<q>> \o body) \o <<q>>)
      /\ (<<q>> \o body) \o <<q>> \in Seq(Characters)
  BY <1>3, <1>5, ReadsQuoted, Zenon
<1> QED
  BY <1>4, <1>6, Zenon

LEMMA ReadsIdentifier ==
  ASSUME NEW segment \in Identifiers
  PROVE  /\ Reads("bare", TextOf(segment), "bare", SentFor(segment))
         /\ TextOf(segment) \in Seq(Characters)
<1> DEFINE body == segment.body
           q == "\""
           n == Len(body)
<1>1. segment.kind = "dquote" /\ body \in Seq(Characters \ {q})
  BY DEF Identifiers
<1> HIDE DEF body
<1>2. /\ body \in Seq(Characters) /\ n \in Nat
      /\ \A k \in 1 .. n : body[k] # q
  <2> HIDE DEF q
  <2>1. n \in Nat
    BY <1>1, LenProperties
  <2>2. \A k \in 1 .. n : body[k] \in Characters \ {q}
    BY <1>1, ElementOfSeq
  <2>3. body \in Seq(Characters)
    BY <1>1
  <2> QED
    BY <2>1, <2>2, <2>3
<1>3. "dquote" \in Mode /\ "dquote" # "bare" /\ q \in Characters /\ q # "?"
  BY DEF Mode, Characters
<1>4. /\ Turned("bare", q) = "dquote" /\ Turned("dquote", q) = "bare"
      /\ \A ch : ch # q => Turned("dquote", ch) = "dquote"
  BY DEF Turned, Toggled
<1>5. \A ch : Meant("dquote", ch) = ch
  BY DEF Meant
<1>6. TextOf(segment) = (<<q>> \o body) \o <<q>> /\ SentFor(segment) = TextOf(segment)
  <2>1. Delimiters["dquote"] = <<"\"">> /\ "dquote" # "bare"
    BY DEF Delimiters
  <2> QED
    BY <1>1, <2>1, Zenon DEF TextOf, SentFor, body
<1> HIDE DEF q
<1>7. Reads("dquote", body, "dquote", [k \in 1 .. n |-> Meant("dquote", body[k])])
  <2>1. \A k \in 1 .. Len(body) : Turned("dquote", body[k]) = "dquote"
    BY <1>2, <1>4, Zenon
  <2> QED
    BY <1>2, <1>3, <2>1, ReadsThrough, Zenon
<1>8. [k \in 1 .. n |-> Meant("dquote", body[k])] = body
  <2>1. body = [k \in 1 .. n |-> body[k]]
    BY <1>2, LenProperties
  <2> QED
    BY <1>5, <2>1, Zenon
<1>9. /\ Reads("bare", (<<q>> \o body) \o <<q>>, "bare", (<<q>> \o body) \o <<q>>)
      /\ (<<q>> \o body) \o <<q>> \in Seq(Characters)
  <2>1. Reads("dquote", body, "dquote", body)
    BY <1>7, <1>8, Zenon
  <2> QED
    BY <1>2, <1>3, <1>4, <2>1, ReadsQuoted, Zenon
<1> QED
  BY <1>6, <1>9, Zenon

\* The database gets a statement as it was written, however many segments it has and
\* however long they are, with a parameter for each '?' outside of quotes
\* (core/store_impl/base.py, _pg_translate).
LEMMA TranslationKeeps ==
  ASSUME NEW segments \in Seq((Bare \union Literals) \union Identifiers)
  PROVE  TranslationRestores(segments)
<1> DEFINE n == Len(segments)
           texts == [i \in DOMAIN segments |-> TextOf(segments[i])]
           sents == [i \in DOMAIN segments |-> SentFor(segments[i])]
<1>1. n \in Nat /\ DOMAIN segments = 1 .. n
  BY LenProperties
<1>2. \A i \in 1 .. n : segments[i] \in (Bare \union Literals) \union Identifiers
  BY ElementOfSeq
<1>3. \A i \in 1 .. n : /\ Reads("bare", TextOf(segments[i]), "bare", SentFor(segments[i]))
                        /\ TextOf(segments[i]) \in Seq(Characters)
  BY <1>2, ReadsBare, ReadsLiteral, ReadsIdentifier
<1>4. \A i \in 1 .. n : SentFor(segments[i]) \in Seq(Meanings)
  BY <1>3, ReadsSent, Zenon
<1> HIDE DEF n
<1>5. /\ texts \in Seq(Seq(Characters)) /\ Len(texts) = n
      /\ \A i \in 1 .. n : texts[i] = TextOf(segments[i])
  BY <1>1, <1>3
<1>6. /\ sents \in Seq(Seq(Meanings)) /\ Len(sents) = n
      /\ \A i \in 1 .. n : sents[i] = SentFor(segments[i])
  BY <1>1, <1>4
<1>7. Statement(segments) = FlattenSeq(texts)
  BY Zenon DEF Statement
<1>8. FlattenSeq(sents)
        = FlattenSeq([i \in DOMAIN segments |->
            IF segments[i].kind # "bare" THEN TextOf(segments[i])
            ELSE [j \in DOMAIN segments[i].body |->
                    IF segments[i].body[j] = "?" THEN "parameter" ELSE segments[i].body[j]]])
  BY Zenon DEF SentFor
<1> HIDE DEF texts, sents
<1>9. Reads("bare", FlattenSeq(texts), "bare", FlattenSeq(sents))
      /\ FlattenSeq(texts) \in Seq(Characters)
  <2>1. \A i \in 1 .. Len(texts) : Reads("bare", texts[i], "bare", sents[i])
    BY <1>3, <1>5, <1>6, Zenon
  <2>2. "bare" \in Mode /\ Len(sents) = Len(texts)
    BY <1>5, <1>6 DEF Mode
  <2> QED
    BY <1>5, <1>6, <2>1, <2>2, ReadsEach, Zenon
<1>10. Interpolate(PgTranslate(FlattenSeq(texts))) = FlattenSeq(sents)
  BY <1>9, TranslationReads, Zenon
<1> QED
  BY <1>7, <1>8, <1>10, Zenon DEF TranslationRestores

-----------------------------------------------------------------------------
(* Scripts taken apart.                                                    *)

SplitsAlong(g, sql) ==
  /\ Pieces(sql) = g[Len(sql)].done \o <<g[Len(sql)].now>>
  /\ g[0] = [done |-> <<>>, now |-> <<>>, in |-> <<>>, read |-> 0]
  /\ \A k \in 1 .. Len(sql) : g[k] = Scanned(g[k - 1], sql, k)

LEMMA SplitIs ==
  ASSUME NEW W, NEW sql \in Seq(W)
  PROVE  \E g : SplitsAlong(g, sql)
<1> DEFINE n == Len(sql)
           first == [done |-> <<>>, now |-> <<>>, in |-> <<>>, read |-> 0]
           G(g, m) == g = [i \in 0 .. m |-> IF i = 0 THEN first ELSE Scanned(g[i - 1], sql, i)]
           Reached(m) == \E g : G(g, m)
           S == {m \in 0 .. n : Reached(m)}
           after == CHOOSE g : G(g, n)
<1>1. n \in Nat
  BY LenProperties
<1> HIDE DEF n, first
<1>2. Reached(0)
  <2> DEFINE h == [i \in 0 .. 0 |-> first]
  <2>1. \A i \in 0 .. 0 : h[i] = IF i = 0 THEN first ELSE Scanned(h[i - 1], sql, i)
    OBVIOUS
  <2>2. h = [i \in 0 .. 0 |-> h[i]]
    OBVIOUS
  <2> HIDE DEF h
  <2>3. G(h, 0)
    BY <2>1, <2>2
  <2> QED
    BY <2>3, Zenon
<1>3. ASSUME NEW m \in 0 .. (n - 1), Reached(m)
      PROVE  Reached(m + 1)
  <2>1. PICK g : G(g, m)
    BY <1>3, Zenon
  <2>2. \A i \in 0 .. m : g[i] = IF i = 0 THEN first ELSE Scanned(g[i - 1], sql, i)
    BY <2>1, Zenon
  <2> DEFINE x == Scanned(g[m], sql, m + 1)
             h == [i \in 0 .. (m + 1) |-> IF i = m + 1 THEN x ELSE g[i]]
  <2>3. h[m + 1] = x /\ \A i \in 0 .. m : h[i] = g[i]
    <3>1. m + 1 \in 0 .. (m + 1) /\ \A i \in 0 .. m : i \in 0 .. (m + 1) /\ i # m + 1
      OBVIOUS
    <3> HIDE DEF x
    <3> QED
      BY <3>1
  <2>4. h = [i \in 0 .. (m + 1) |-> h[i]]
    OBVIOUS
  <2> HIDE DEF h
  <2>5. ASSUME NEW i \in 0 .. (m + 1)
        PROVE  h[i] = IF i = 0 THEN first ELSE Scanned(h[i - 1], sql, i)
    <3>1. CASE i = m + 1
      <4>1. i # 0 /\ i - 1 = m /\ m \in 0 .. m
        BY <3>1
      <4> QED
        BY <2>3, <3>1, <4>1
    <3>2. CASE i # m + 1
      <4>1. i \in 0 .. m /\ (i # 0 => i - 1 \in 0 .. m)
        BY <3>2
      <4> QED
        BY <2>2, <2>3, <4>1
    <3> QED
      BY <3>1, <3>2
  <2>6. G(h, m + 1)
    BY <2>4, <2>5
  <2> QED
    BY <2>6, Zenon
<1> HIDE DEF Reached
<1>4. 0 \in S /\ \A m \in 0 .. (n - 1) : m \in S => m + 1 \in S
  BY <1>1, <1>2, <1>3
<1>5. \A m \in 0 .. n : m \in S
  <2> HIDE DEF S
  <2> QED
    BY <1>1, <1>4, UpTo
<1>6. Reached(n)
  BY <1>1, <1>5
<1>7. G(after, n)
  <2> HIDE DEF G
  <2> QED
    BY <1>6, Zenon DEF Reached
<1>8. Pieces(sql) = after[n].done \o <<after[n].now>>
  BY Zenon DEF Pieces, n, first
<1> HIDE DEF after
<1>9. \A i \in 0 .. n : after[i] = IF i = 0 THEN first ELSE Scanned(after[i - 1], sql, i)
  BY <1>7, Zenon
<1> HIDE DEF G
<1>10. /\ after[0] = first
       /\ \A k \in 1 .. n : after[k] = Scanned(after[k - 1], sql, k)
  <2>1. 0 \in 0 .. n /\ \A k \in 1 .. n : k \in 0 .. n /\ k # 0
    BY <1>1
  <2> QED
    BY <1>9, <2>1
<1>11. SplitsAlong(after, sql)
  BY <1>8, <1>10, Zenon DEF SplitsAlong, n, first
<1> QED
  BY <1>11, Zenon

\* The literal a scan is in after k characters, m: a quote that the next character doubles
\* is not over for it.
In(s, k, sql, m) ==
  /\ s.now \in Seq(Characters) /\ s.read \in Nat
  /\ \/ s.in = m /\ s.read <= k
     \/ /\ m = <<>> /\ s.in = <<"'">> /\ s.read = k + 1
        /\ k + 1 \in DOMAIN sql /\ sql[k + 1] = "'"

\* A quote begins a literal, or ends its own.
Switched(m, ch) ==
  IF m = <<>> THEN IF ch \in {"'", "\""} THEN <<ch>> ELSE m
  ELSE IF m = <<ch>> THEN <<>> ELSE m

LEMMA QuotesDiffer ==
  /\ <<>> # <<"'">> /\ <<>> # <<"\"">> /\ <<"'">> # <<"\"">>
  /\ \A ch : (<<"'">> = <<ch>> <=> ch = "'") /\ (<<"\"">> = <<ch>> <=> ch = "\"")
OBVIOUS

\* What a scan does with one character, by the literal it is in.
Grows(t, s, ch, m, read) ==
  t = [done |-> s.done, now |-> s.now \o <<ch>>, in |-> m, read |-> read]

LEMMA LaterIs ==
  ASSUME NEW a \in Nat, NEW b \in Nat, b < a
  PROVE  ~ (a <= b) /\ a > b
OBVIOUS

LEMMA ScansRead ==
  ASSUME NEW s, NEW sql, NEW k \in Nat, s.read \in Nat, k <= s.read
  PROVE  Grows(Scanned(s, sql, k), s, sql[k], s.in, s.read)
<1>1. ~ (k > s.read)
  OBVIOUS
<1> QED
  BY <1>1 DEF Scanned, Grows

LEMMA ScansLiteral ==
  ASSUME NEW s, NEW sql, NEW k \in Nat, s.read \in Nat, s.read < k, s.in = <<"'">>
  PROVE  LET t == Scanned(s, sql, k)
         IN /\ sql[k] # "'" => Grows(t, s, sql[k], s.in, k)
            /\ sql[k] = "'" /\ CharAt(sql, k + 1) = "'" => Grows(t, s, sql[k], s.in, k + 1)
            /\ sql[k] = "'" /\ CharAt(sql, k + 1) # "'" => Grows(t, s, sql[k], <<>>, k)
<1>1. ~ (k <= s.read) /\ k > s.read
  OBVIOUS
<1> QED
  BY <1>1, QuotesDiffer DEF Scanned, Grows, Quotes

LEMMA ScansIdentifier ==
  ASSUME NEW s, NEW sql, NEW k \in Nat, s.read \in Nat, s.read < k, s.in = <<"\"">>
  PROVE  Grows(Scanned(s, sql, k), s, sql[k], IF sql[k] = "\"" THEN <<>> ELSE s.in, k)
<1>1. ~ (k <= s.read) /\ k > s.read
  BY LaterIs, Zenon
<1> QED
  BY <1>1, QuotesDiffer DEF Scanned, Grows, Quotes

LEMMA ScansBare ==
  ASSUME NEW s, NEW sql, NEW k \in Nat, s.read \in Nat, s.read < k, s.in = <<>>
  PROVE  LET t == Scanned(s, sql, k)
             tag == TagAt(sql, k)
         IN /\ sql[k] \in {"'", "\""} => Grows(t, s, sql[k], <<sql[k]>>, k)
            /\ sql[k] = "$" /\ tag # <<>> => Grows(t, s, sql[k], tag, k + Len(tag) - 1)
            /\ sql[k] = ";" =>
                 t = [done |-> s.done \o <<s.now>>, now |-> <<>>, in |-> <<>>, read |-> k]
            /\ sql[k] \notin {"'", "\"", "$", ";"} => Grows(t, s, sql[k], <<>>, k)
<1>1. ~ (k <= s.read) /\ k > s.read
  OBVIOUS
<1> QED
  BY <1>1, QuotesDiffer DEF Scanned, Grows, Quotes

LEMMA ScansTagged ==
  ASSUME NEW s, NEW sql, NEW k \in Nat, s.read \in Nat, s.read < k, s.in \notin Quotes
  PROVE  LET t == Scanned(s, sql, k)
         IN IF StartsWith(sql, s.in, k) THEN Grows(t, s, sql[k], <<>>, k + Len(s.in) - 1)
            ELSE Grows(t, s, sql[k], s.in, k)
<1>1. ~ (k <= s.read) /\ k > s.read
  OBVIOUS
<1>2. s.in # <<>> /\ s.in # <<"'">> /\ s.in # <<"\"">>
  BY DEF Quotes
<1> QED
  BY <1>1, <1>2 DEF Scanned, Grows

\* What a scan has put together after a text.
Grown(t, s, u) == t.done = s.done /\ t.now = s.now \o u

LEMMA GrowsIs ==
  ASSUME NEW t, NEW s, NEW ch \in Characters, NEW m, NEW read,
         s.now \in Seq(Characters), Grows(t, s, ch, m, read)
  PROVE  /\ Grown(t, s, <<ch>>) /\ t.in = m /\ t.read = read
         /\ t.now \in Seq(Characters)
<1>1. t.done = s.done /\ t.now = s.now \o <<ch>> /\ t.in = m /\ t.read = read
  BY DEF Grows
<1>2. <<ch>> \in Seq(Characters)
  OBVIOUS
<1>3. t.now \in Seq(Characters)
  BY <1>1, <1>2, ConcatProperties
<1> QED
  BY <1>1, <1>3, Zenon DEF Grown

LEMMA ArrivesIn ==
  ASSUME NEW t, NEW k \in Nat, NEW sql, NEW m, t.now \in Seq(Characters), t.in = m,
         t.read \in Nat, t.read <= k
  PROVE  In(t, k, sql, m)
BY Zenon DEF In

\* Outside of literals these may be more than text.
Special == {"$", ";"}

LEMMA ScanNext ==
  ASSUME NEW sql \in Seq(Characters), NEW k \in 1 .. Len(sql), NEW s, NEW m \in Quotes,
         In(s, k - 1, sql, m), m = <<>> => sql[k] \notin Special
  PROVE  /\ In(Scanned(s, sql, k), k, sql, Switched(m, sql[k]))
         /\ Grown(Scanned(s, sql, k), s, <<sql[k]>>)
<1> DEFINE t == Scanned(s, sql, k)
           ch == sql[k]
           to == Switched(m, ch)
<1>1. k \in Nat /\ k + 1 \in Nat /\ (k - 1) + 1 = k /\ ch \in Characters
  BY LenProperties, ElementOfSeq
<1>2. s.now \in Seq(Characters) /\ s.read \in Nat
  BY Zenon DEF In
<1>3. \/ s.in = m /\ s.read <= k - 1
      \/ m = <<>> /\ s.in = <<"'">> /\ s.read = k /\ ch = "'"
  BY <1>1, Zenon DEF In
<1> HIDE DEF t, ch, to
<1>4. CASE s.read >= k
  <2>1. m = <<>> /\ s.in = <<"'">> /\ s.read = k /\ ch = "'"
    BY <1>1, <1>2, <1>3, <1>4
  <2>2. Grows(t, s, ch, s.in, s.read)
    <3>1. k <= s.read
      BY <1>1, <2>1
    <3> QED
      BY <1>1, <1>2, <3>1, ScansRead, Zenon DEF t, ch
  <2>3. to = <<"'">>
    BY <2>1 DEF to, Switched
  <2>4. Grown(t, s, <<ch>>) /\ t.in = to /\ t.read = k /\ t.now \in Seq(Characters)
    BY <1>1, <1>2, <2>1, <2>2, <2>3, GrowsIs, Zenon
  <2>5. t.read \in Nat /\ t.read <= k
    BY <1>1, <2>4
  <2> QED
    BY <1>1, <2>4, <2>5, ArrivesIn, Zenon DEF t, ch, to
<1>5. CASE s.read < k
  <2>1. s.in = m
    BY <1>1, <1>2, <1>3, <1>5
  <2>2. ASSUME Grows(t, s, ch, to, k)
        PROVE  In(t, k, sql, to) /\ Grown(t, s, <<ch>>)
    <3>1. Grown(t, s, <<ch>>) /\ t.in = to /\ t.read = k /\ t.now \in Seq(Characters)
      BY <1>1, <1>2, <2>2, GrowsIs, Zenon
    <3>2. t.read \in Nat /\ t.read <= k
      BY <1>1, <3>1
    <3> QED
      BY <1>1, <3>1, <3>2, ArrivesIn, Zenon
  <2>3. CASE m = <<>>
    <3>1. s.in = <<>> /\ ch \notin {"$", ";"}
      BY <2>1, <2>3, Zenon DEF ch, Special
    <3>2. /\ ch \in {"'", "\""} => Grows(t, s, ch, <<ch>>, k)
          /\ ch \notin {"'", "\"", "$", ";"} => Grows(t, s, ch, <<>>, k)
      BY <1>1, <1>2, <1>5, <3>1, ScansBare, Zenon DEF t, ch
    <3>3. to = IF ch \in {"'", "\""} THEN <<ch>> ELSE <<>>
      BY <2>3, Zenon DEF to, Switched
    <3>4. Grows(t, s, ch, to, k)
      <4>1. CASE ch \in {"'", "\""}
        BY <3>2, <3>3, <4>1, Zenon
      <4>2. CASE ch \notin {"'", "\""}
        <5>1. ch \notin {"'", "\"", "$", ";"}
          BY <3>1, <4>2, Zenon
        <5> QED
          BY <3>2, <3>3, <4>2, <5>1, Zenon
      <4> QED
        BY <4>1, <4>2, Zenon
    <3> QED
      BY <2>2, <3>4, Zenon DEF t, ch, to
  <2>4. CASE m = <<"'">>
    <3>1. s.in = <<"'">>
      BY <2>1, <2>4, Zenon
    <3>2. /\ ch # "'" => Grows(t, s, ch, s.in, k)
          /\ ch = "'" /\ CharAt(sql, k + 1) = "'" => Grows(t, s, ch, s.in, k + 1)
          /\ ch = "'" /\ CharAt(sql, k + 1) # "'" => Grows(t, s, ch, <<>>, k)
      BY <1>1, <1>2, <1>5, <3>1, ScansLiteral, Zenon DEF t, ch
    <3>3. to = IF ch = "'" THEN <<>> ELSE m
      <4>1. m # <<>> /\ (m = <<ch>> <=> ch = "'")
        BY <2>4, QuotesDiffer, Zenon
      <4> QED
        BY <4>1, Zenon DEF to, Switched
    <3>4. CASE ch = "'" /\ CharAt(sql, k + 1) = "'"
      <4>1. to = <<>>
        BY <3>3, <3>4, Zenon
      <4>2. Grown(t, s, <<ch>>) /\ t.in = m /\ t.read = k + 1 /\ t.now \in Seq(Characters)
        <5>1. Grows(t, s, ch, m, k + 1)
          BY <2>1, <3>2, <3>4, Zenon
        <5> QED
          BY <1>1, <1>2, <5>1, GrowsIs, Zenon
      <4>3. k + 1 \in DOMAIN sql /\ sql[k + 1] = "'"
        BY <3>4, NextIs, Zenon
      <4>4. In(t, k, sql, to)
        BY <1>1, <2>4, <4>1, <4>2, <4>3, Zenon DEF In
      <4> QED
        BY <4>2, <4>4, Zenon DEF t, ch, to
    <3>5. CASE ch = "'" /\ CharAt(sql, k + 1) # "'"
      <4>1. Grows(t, s, ch, to, k)
        BY <3>2, <3>3, <3>5, Zenon
      <4> QED
        BY <2>2, <4>1, Zenon DEF t, ch, to
    <3>6. CASE ch # "'"
      <4>1. Grows(t, s, ch, to, k)
        BY <2>1, <3>2, <3>3, <3>6, Zenon
      <4> QED
        BY <2>2, <4>1, Zenon DEF t, ch, to
    <3> QED
      BY <3>4, <3>5, <3>6, Zenon
  <2>5. CASE m = <<"\"">>
    <3>1. s.in = <<"\"">>
      BY <2>1, <2>5, Zenon
    <3>2. Grows(t, s, ch, IF ch = "\"" THEN <<>> ELSE s.in, k)
      BY <1>1, <1>2, <1>5, <3>1, ScansIdentifier, Zenon DEF t, ch
    <3>3. to = IF ch = "\"" THEN <<>> ELSE m
      <4>1. m # <<>> /\ (m = <<ch>> <=> ch = "\"")
        BY <2>5, QuotesDiffer, Zenon
      <4> QED
        BY <4>1, Zenon DEF to, Switched
    <3>4. Grows(t, s, ch, to, k)
      BY <2>1, <3>2, <3>3, Zenon
    <3> QED
      BY <2>2, <3>4, Zenon DEF t, ch, to
  <2> QED
    BY <2>3, <2>4, <2>5, Zenon DEF Quotes
<1> QED
  <2>1. s.read >= k \/ s.read < k
    BY <1>1, <1>2
  <2> QED
    BY <1>4, <1>5, <2>1, Zenon

-----------------------------------------------------------------------------
(* Texts that a scan carries over.                                         *)

\* A text stands in another after its first p characters.
Holds(sql, p, u) ==
  /\ p \in Nat /\ p + Len(u) <= Len(sql)
  /\ \A j \in 1 .. Len(u) : sql[p + j] = u[j]

Carried(g, sql, p, u, to) ==
  In(g[p + Len(u)], p + Len(u), sql, to) /\ Grown(g[p + Len(u)], g[p], u)

\* Wherever a text stands, a scan that comes to it in one literal leaves it in another,
\* with all of it in the piece under way.
Carries(u, m, to) ==
  \A sql \in Seq(Characters) : \A g, p :
    SplitsAlong(g, sql) /\ Holds(sql, p, u) /\ In(g[p], p, sql, m) => Carried(g, sql, p, u, to)

HeldInParts(sql, p, u, v) ==
  /\ Holds(sql, p, u) /\ Holds(sql, p + Len(u), v)
  /\ p + Len(u \o v) = (p + Len(u)) + Len(v)

LEMMA HoldsParts ==
  ASSUME NEW sql \in Seq(Characters), NEW p, NEW u \in Seq(Characters),
         NEW v \in Seq(Characters), Holds(sql, p, u \o v)
  PROVE  HeldInParts(sql, p, u, v)
<1> DEFINE m == Len(u)
           n == Len(v)
           w == u \o v
<1>1. m \in Nat /\ n \in Nat /\ Len(sql) \in Nat
  BY LenProperties
<1>2. /\ Len(w) = m + n
      /\ \A k \in 1 .. m + n : w[k] = IF k <= m THEN u[k] ELSE v[k - m]
  BY ConcatProperties
<1>3. p \in Nat /\ p + Len(w) <= Len(sql) /\ \A j \in 1 .. Len(w) : sql[p + j] = w[j]
  BY Zenon DEF Holds
<1> HIDE DEF m, n, w
<1>4. ASSUME NEW j \in 1 .. m
      PROVE  sql[p + j] = u[j]
  <2>1. j \in 1 .. m + n /\ j <= m
    BY <1>1
  <2> QED
    BY <1>2, <1>3, <2>1
<1>5. ASSUME NEW j \in 1 .. n
      PROVE  sql[(p + m) + j] = v[j]
  <2>1. m + j \in 1 .. m + n /\ ~ (m + j <= m) /\ (m + j) - m = j /\ p + (m + j) = (p + m) + j
    BY <1>1, <1>3
  <2> QED
    BY <1>2, <1>3, <2>1
<1>6. p + m \in Nat /\ p + m <= Len(sql) /\ (p + m) + n <= Len(sql) /\ p + Len(w) = (p + m) + n
  BY <1>1, <1>2, <1>3
<1> QED
  BY <1>3, <1>4, <1>5, <1>6, Zenon DEF HeldInParts, Holds, m, n, w

LEMMA CarriesNothing ==
  ASSUME NEW m
  PROVE  Carries(<<>>, m, m)
<1> DEFINE u == <<>>
<1>1. Len(u) = 0
  OBVIOUS
<1>2. \A s \in Seq(Characters) : s \o u = s
  BY ConcatEmptySeq
<1> HIDE DEF u
<1>3. ASSUME NEW sql \in Seq(Characters), NEW g, NEW p, Holds(sql, p, u), In(g[p], p, sql, m)
      PROVE  Carried(g, sql, p, u, m)
  <2>1. p + Len(u) = p
    <3>1. p \in Nat
      BY <1>3, Zenon DEF Holds
    <3> QED
      BY <1>1, <3>1
  <2>2. g[p].now \in Seq(Characters)
    BY <1>3, Zenon DEF In
  <2>3. g[p].now = g[p].now \o u
    BY <1>2, <2>2, Zenon
  <2> QED
    BY <1>3, <2>1, <2>3, Zenon DEF Carried, Grown
<1>4. Carries(u, m, m)
  BY <1>3, Zenon DEF Carries
<1> QED
  BY <1>4, Zenon DEF u

LEMMA CarriesJoin ==
  ASSUME NEW u \in Seq(Characters), NEW v \in Seq(Characters), NEW a, NEW b, NEW c,
         Carries(u, a, b), Carries(v, b, c)
  PROVE  Carries(u \o v, a, c) /\ u \o v \in Seq(Characters)
<1>1. u \o v \in Seq(Characters)
  BY ConcatProperties
<1>2. \A x, y, z \in Seq(Characters) : (x \o y) \o z = x \o (y \o z)
  BY ConcatAssociative
<1>3. ASSUME NEW sql \in Seq(Characters), NEW g, NEW p, SplitsAlong(g, sql),
             Holds(sql, p, u \o v), In(g[p], p, sql, a)
      PROVE  Carried(g, sql, p, u \o v, c)
  <2> DEFINE q == p + Len(u)
             r == q + Len(v)
  <2>2. Holds(sql, p, u) /\ Holds(sql, q, v) /\ p + Len(u \o v) = r
    <3>1. Holds(sql, p, u \o v)
      BY <1>3, Zenon
    <3>2. HeldInParts(sql, p, u, v)
      BY <3>1, HoldsParts, Zenon
    <3> QED
      BY <3>2, Zenon DEF HeldInParts
  <2>3. Carried(g, sql, p, u, b)
    BY <1>3, <2>2, Zenon DEF Carries
  <2>4. In(g[q], q, sql, b) /\ Grown(g[q], g[p], u)
    BY <2>3, Zenon DEF Carried
  <2>5. Carried(g, sql, q, v, c)
    BY <1>3, <2>2, <2>4, Zenon DEF Carries
  <2>6. In(g[r], r, sql, c) /\ Grown(g[r], g[q], v)
    BY <2>5, Zenon DEF Carried
  <2> HIDE DEF q, r
  <2>7. g[p].now \in Seq(Characters)
    BY <1>3, Zenon DEF In
  <2>8. Grown(g[r], g[p], u \o v)
    <3>1. g[q].now = g[p].now \o u /\ g[r].now = g[q].now \o v
      BY <2>4, <2>6, Zenon DEF Grown
    <3>2. (g[p].now \o u) \o v = g[p].now \o (u \o v)
      BY <1>2, <2>7, Zenon
    <3>3. g[r].done = g[p].done
      BY <2>4, <2>6, Zenon DEF Grown
    <3> QED
      BY <3>1, <3>2, <3>3, Zenon DEF Grown
  <2> QED
    BY <2>2, <2>6, <2>8, Zenon DEF Carried
<1> QED
  BY <1>1, <1>3, Zenon DEF Carries

LEMMA CarriesOne ==
  ASSUME NEW ch \in Characters, NEW m \in Quotes, m = <<>> => ch \notin Special
  PROVE  Carries(<<ch>>, m, Switched(m, ch))
<1> DEFINE u == <<ch>>
           to == Switched(m, ch)
<1>1. Len(u) = 1 /\ u[1] = ch
  OBVIOUS
<1> HIDE DEF u, to
<1>2. ASSUME NEW sql \in Seq(Characters), NEW g, NEW p, SplitsAlong(g, sql),
             Holds(sql, p, u), In(g[p], p, sql, m)
      PROVE  Carried(g, sql, p, u, to)
  <2>1. /\ p \in Nat /\ p + Len(u) <= Len(sql)
        /\ \A j \in 1 .. Len(u) : sql[p + j] = u[j]
    BY <1>2, Zenon DEF Holds
  <2>2. Len(sql) \in Nat
    BY LenProperties
  <2>3. p + 1 \in 1 .. Len(sql) /\ (p + 1) - 1 = p /\ p + Len(u) = p + 1 /\ 1 \in 1 .. Len(u)
    BY <1>1, <2>1, <2>2
  <2>4. sql[p + 1] = ch
    BY <1>1, <2>1, <2>3
  <2>5. g[p + 1] = Scanned(g[p], sql, p + 1)
    <3>1. g[p + 1] = Scanned(g[(p + 1) - 1], sql, p + 1)
      BY <1>2, <2>3, Zenon DEF SplitsAlong
    <3> QED
      BY <2>3, <3>1, Zenon
  <2>6. In(g[p], (p + 1) - 1, sql, m)
    BY <1>2, <2>3, Zenon
  <2>7. /\ In(g[p + 1], p + 1, sql, to) /\ Grown(g[p + 1], g[p], u)
    <3>1. m = <<>> => sql[p + 1] \notin Special
      BY <2>4, Zenon
    <3>2. /\ In(Scanned(g[p], sql, p + 1), p + 1, sql, Switched(m, sql[p + 1]))
          /\ Grown(Scanned(g[p], sql, p + 1), g[p], <<sql[p + 1]>>)
      BY <2>3, <2>6, <3>1, ScanNext, Zenon
    <3> QED
      BY <2>4, <2>5, <3>2, Zenon DEF u, to
  <2> QED
    BY <2>3, <2>7, Zenon DEF Carried
<1>3. Carries(u, m, to)
  BY <1>2, Zenon DEF Carries
<1> QED
  BY <1>3, Zenon DEF u, to

\* Texts that each leave the literal as it is do so together.
LEMMA CarriesEach ==
  ASSUME NEW m, NEW texts \in Seq(Seq(Characters)),
         \A i \in 1 .. Len(texts) : Carries(texts[i], m, m)
  PROVE  Carries(FlattenSeq(texts), m, m) /\ FlattenSeq(texts) \in Seq(Characters)
<1> DEFINE n == Len(texts)
<1>1. n \in Nat /\ \A i \in 1 .. n : texts[i] \in Seq(Characters)
  BY LenProperties, ElementOfSeq
<1>2. PICK f \in [0 .. n -> Seq(Characters)] :
        /\ f[0] = <<>> /\ FlattenSeq(texts) = f[n]
        /\ \A k \in 1 .. n : f[k] = f[k - 1] \o texts[k]
  BY FlattenIs, Zenon
<1> DEFINE P(k) == Carries(f[k], m, m)
           S == {k \in 0 .. n : P(k)}
<1>3. P(0)
  BY <1>2, CarriesNothing, Zenon
<1>4. ASSUME NEW k \in 0 .. (n - 1), P(k)
      PROVE  P(k + 1)
  <2>1. k + 1 \in 1 .. n /\ (k + 1) - 1 = k /\ k \in 0 .. n
    BY <1>1
  <2>2. f[k + 1] = f[k] \o texts[k + 1]
    BY <1>2, <2>1
  <2>3. f[k] \in Seq(Characters) /\ texts[k + 1] \in Seq(Characters)
    BY <1>1, <2>1, Zenon
  <2>4. Carries(texts[k + 1], m, m)
    BY <2>1, Zenon
  <2>5. Carries(f[k] \o texts[k + 1], m, m)
    BY <1>4, <2>3, <2>4, CarriesJoin, Zenon
  <2> QED
    BY <2>2, <2>5, Zenon
<1> HIDE DEF P
<1>5. 0 \in S /\ \A k \in 0 .. (n - 1) : k \in S => k + 1 \in S
  BY <1>1, <1>3, <1>4
<1>6. n \in 0 .. n
  BY <1>1
<1>7. P(n)
  <2> HIDE DEF S
  <2>1. \A k \in 0 .. n : k \in S
    BY <1>1, <1>5, UpTo
  <2> QED
    BY <1>6, <2>1 DEF S
<1>8. f[n] \in Seq(Characters)
  BY <1>6, Zenon
<1> QED
  BY <1>2, <1>7, <1>8, Zenon DEF P

\* What a literal has of a text is carried over.
LEMMA CarriesThrough ==
  ASSUME NEW m \in Quotes, NEW text \in Seq(Characters),
         \A k \in 1 .. Len(text) : Switched(m, text[k]) = m /\ (m = <<>> => text[k] \notin Special)
  PROVE  Carries(text, m, m)
<1> DEFINE n == Len(text)
           first(k) == [j \in 1 .. k |-> text[j]]
<1>1. n \in Nat /\ \A k \in 1 .. n : text[k] \in Characters
  BY LenProperties, ElementOfSeq
<1>2. first(n) = text
  BY LenProperties
<1> DEFINE P(k) == Carries(first(k), m, m) /\ first(k) \in Seq(Characters)
           S == {k \in 0 .. n : P(k)}
<1>3. P(0)
  <2>1. first(0) = <<>> /\ <<>> \in Seq(Characters)
    OBVIOUS
  <2> HIDE DEF first
  <2> QED
    BY <2>1, CarriesNothing, Zenon
<1>4. ASSUME NEW k \in 0 .. (n - 1), P(k)
      PROVE  P(k + 1)
  <2>1. k + 1 \in 1 .. n /\ k \in Nat
    BY <1>1
  <2>2. first(k + 1) = first(k) \o <<text[k + 1]>>
    BY <2>1, OneCharacterMore, Zenon
  <2> HIDE DEF first
  <2>3. Carries(<<text[k + 1]>>, m, m) /\ <<text[k + 1]>> \in Seq(Characters)
    <3>1. text[k + 1] \in Characters
      BY <1>1, <2>1, Zenon
    <3>2. Switched(m, text[k + 1]) = m /\ (m = <<>> => text[k + 1] \notin Special)
      BY <2>1, Zenon
    <3>3. Carries(<<text[k + 1]>>, m, Switched(m, text[k + 1]))
      BY <3>1, <3>2, CarriesOne, Zenon
    <3>4. <<text[k + 1]>> \in Seq(Characters)
      BY <3>1
    <3> QED
      BY <3>2, <3>3, <3>4, Zenon
  <2>4. /\ Carries(first(k) \o <<text[k + 1]>>, m, m)
        /\ first(k) \o <<text[k + 1]>> \in Seq(Characters)
    BY <1>4, <2>3, CarriesJoin, Zenon
  <2> QED
    BY <2>2, <2>4, Zenon
<1> HIDE DEF P
<1>5. 0 \in S /\ \A k \in 0 .. (n - 1) : k \in S => k + 1 \in S
  BY <1>1, <1>3, <1>4
<1>6. n \in 0 .. n
  BY <1>1
<1>7. P(n)
  <2> HIDE DEF S
  <2>1. \A k \in 0 .. n : k \in S
    BY <1>1, <1>5, UpTo
  <2> QED
    BY <1>6, <2>1 DEF S
<1> HIDE DEF first
<1> QED
  BY <1>2, <1>7, Zenon DEF P

\* A text between two of its quotes.
LEMMA CarriesQuoted ==
  ASSUME NEW quote \in Characters, <<quote>> \in Quotes, quote \notin Special,
         NEW body \in Seq(Characters), Carries(body, <<quote>>, <<quote>>)
  PROVE  /\ Carries((<<quote>> \o body) \o <<quote>>, <<>>, <<>>)
         /\ (<<quote>> \o body) \o <<quote>> \in Seq(Characters)
<1> DEFINE q == <<quote>>
<1>1. q \in Seq(Characters) /\ q # <<>>
  OBVIOUS
<1>2. quote \in {"'", "\""}
  BY QuotesDiffer, Zenon DEF Quotes
<1>3. Switched(<<>>, quote) = q /\ Switched(q, quote) = <<>> /\ <<>> \in Quotes
  BY <1>1, <1>2, Zenon DEF Switched, Quotes
<1>4. Carries(q, <<>>, q)
  BY <1>3, CarriesOne, Zenon
<1>5. Carries(q, q, <<>>)
  BY <1>1, <1>3, CarriesOne, Zenon
<1> HIDE DEF q
<1>6. Carries(q \o body, <<>>, q) /\ q \o body \in Seq(Characters)
  BY <1>1, <1>4, CarriesJoin, Zenon DEF q
<1>7. Carries((q \o body) \o q, <<>>, <<>>) /\ (q \o body) \o q \in Seq(Characters)
  BY <1>1, <1>5, <1>6, CarriesJoin, Zenon
<1> QED
  BY <1>7, Zenon DEF q

LEMMA CarriesBare ==
  ASSUME NEW segment \in Bare
  PROVE  Carries(TextOf(segment), <<>>, <<>>) /\ TextOf(segment) \in Seq(Characters)
<1> DEFINE body == segment.body
<1>1. segment.kind = "bare" /\ body \in Seq(Plain)
  BY DEF Bare
<1> HIDE DEF body
<1>2. /\ body \in Seq(Characters) /\ DOMAIN body = 1 .. Len(body)
      /\ \A k \in 1 .. Len(body) : body[k] \in Plain
  BY <1>1, BareTexts, Zenon
<1>3. TextOf(segment) = body
  <2>1. Delimiters["bare"] = <<>>
    BY DEF Delimiters
  <2>2. (<<>> \o body) \o <<>> = body
    BY <1>2, ConcatEmptySeq
  <2> QED
    BY <1>1, <2>1, <2>2, Zenon DEF TextOf, body
<1>4. \A ch \in Plain : ch \notin Special /\ ch \notin {"'", "\""}
  BY DEF Plain, Special
<1>5. \A ch \in Plain : Switched(<<>>, ch) = <<>>
  BY <1>4, Zenon DEF Switched
<1>6. <<>> \in Quotes
  BY Zenon DEF Quotes
<1>7. \A k \in 1 .. Len(body) :
        Switched(<<>>, body[k]) = <<>> /\ (<<>> = <<>> => body[k] \notin Special)
  BY <1>2, <1>4, <1>5, Zenon
<1>8. Carries(body, <<>>, <<>>)
  BY <1>2, <1>6, <1>7, CarriesThrough, Zenon
<1> QED
  BY <1>2, <1>3, <1>8, Zenon

LEMMA CarriesDoubled ==
  ASSUME NEW text \in Seq(Characters)
  PROVE  Carries(Doubled(text), <<"'">>, <<"'">>) /\ Doubled(text) \in Seq(Characters)
<1> DEFINE m == <<"'">>
           doubles == [i \in DOMAIN text |-> Double(text[i])]
<1>1. /\ doubles \in Seq(Seq(Characters)) /\ Len(doubles) = Len(text)
      /\ \A i \in 1 .. Len(text) : doubles[i] = Double(text[i]) /\ text[i] \in Characters
  BY DoublesAre, Zenon
<1>2. Doubled(text) = FlattenSeq(doubles)
  BY Zenon DEF Doubled
<1>3. m \in Quotes /\ <<>> \in Quotes /\ m # <<>> /\ "'" \in Characters /\ "'" \notin Special
  BY DEF Quotes, Characters, Special
<1>4. /\ Switched(m, "'") = <<>> /\ Switched(<<>>, "'") = m
      /\ \A ch \in Characters : ch # "'" => Switched(m, ch) = m
  BY <1>3, QuotesDiffer, Zenon DEF Switched
<1> HIDE DEF doubles, m
<1>5. ASSUME NEW ch \in Characters
      PROVE  Carries(Double(ch), m, m)
  <2>1. CASE ch # "'"
    <3>1. Carries(<<ch>>, m, Switched(m, ch))
      BY <1>3, CarriesOne, Zenon
    <3> QED
      BY <1>4, <2>1, <3>1, Zenon DEF Double
  <2>2. CASE ch = "'"
    <3>1. Carries(<<ch>>, m, Switched(m, ch)) /\ Carries(<<ch>>, <<>>, Switched(<<>>, ch))
      BY <1>3, <2>2, CarriesOne, Zenon
    <3>2. <<ch>> \in Seq(Characters) /\ <<ch>> \o <<ch>> = <<ch, ch>>
      BY PairJoins
    <3>3. Carries(<<ch>> \o <<ch>>, m, m)
      BY <1>4, <2>2, <3>1, <3>2, CarriesJoin, Zenon
    <3> QED
      BY <2>2, <3>2, <3>3, Zenon DEF Double
  <2> QED
    BY <2>1, <2>2, Zenon
<1>6. \A i \in 1 .. Len(doubles) : Carries(doubles[i], m, m)
  BY <1>1, <1>5, Zenon
<1> QED
  BY <1>1, <1>2, <1>6, CarriesEach, Zenon DEF m

LEMMA CarriesLiteral ==
  ASSUME NEW segment \in Literals
  PROVE  Carries(TextOf(segment), <<>>, <<>>) /\ TextOf(segment) \in Seq(Characters)
<1> DEFINE body == segment.body
           q == "'"
<1>1. segment.kind = "squote" /\ \E text \in Seq(Characters) : body = Doubled(text)
  BY DEF Literals
<1> HIDE DEF body
<1>2. PICK text \in Seq(Characters) : body = Doubled(text)
  BY <1>1
<1>3. Carries(body, <<q>>, <<q>>) /\ body \in Seq(Characters)
  BY <1>2, CarriesDoubled, Zenon
<1>4. TextOf(segment) = (<<q>> \o body) \o <<q>>
  <2>1. Delimiters["squote"] = <<"'">>
    BY DEF Delimiters
  <2> QED
    BY <1>1, <2>1, Zenon DEF TextOf, body
<1>5. <<q>> \in Quotes /\ q \in Characters /\ q \notin Special
  BY DEF Quotes, Characters, Special
<1> HIDE DEF q
<1>6. /\ Carries((<<q>> \o body) \o <<q>>, <<>>, <<>>)
      /\ (<<q>> \o body) \o <<q>> \in Seq(Characters)
  BY <1>3, <1>5, CarriesQuoted, Zenon
<1> QED
  BY <1>4, <1>6, Zenon

LEMMA CarriesIdentifier ==
  ASSUME NEW segment \in Identifiers
  PROVE  Carries(TextOf(segment), <<>>, <<>>) /\ TextOf(segment) \in Seq(Characters)
<1> DEFINE body == segment.body
           q == "\""
           n == Len(body)
<1>1. segment.kind = "dquote" /\ body \in Seq(Characters \ {q})
  BY DEF Identifiers
<1> HIDE DEF body
<1>2. /\ body \in Seq(Characters) /\ n \in Nat
      /\ \A k \in 1 .. n : body[k] # q
  <2> HIDE DEF q
  <2>1. n \in Nat
    BY <1>1, LenProperties
  <2>2. \A k \in 1 .. n : body[k] \in Characters \ {q}
    BY <1>1, ElementOfSeq
  <2>3. body \in Seq(Characters)
    BY <1>1
  <2> QED
    BY <2>1, <2>2, <2>3
<1>3. TextOf(segment) = (<<q>> \o body) \o <<q>>
  <2>1. Delimiters["dquote"] = <<"\"">>
    BY DEF Delimiters
  <2> QED
    BY <1>1, <2>1, Zenon DEF TextOf, body
<1>4. <<q>> \in Quotes /\ q \in Characters /\ q \notin Special
  BY DEF Quotes, Characters, Special
<1>5. <<q>> # <<>> /\ \A ch : ch # q => Switched(<<q>>, ch) = <<q>>
  BY QuotesDiffer, Zenon DEF Switched
<1> HIDE DEF q
<1>6. Carries(body, <<q>>, <<q>>)
  <2>1. \A k \in 1 .. Len(body) :
          Switched(<<q>>, body[k]) = <<q>> /\ (<<q>> = <<>> => body[k] \notin Special)
    BY <1>2, <1>5, Zenon
  <2> QED
    BY <1>2, <1>4, <2>1, CarriesThrough, Zenon
<1>7. /\ Carries((<<q>> \o body) \o <<q>>, <<>>, <<>>)
      /\ (<<q>> \o body) \o <<q>> \in Seq(Characters)
  BY <1>2, <1>4, <1>6, CarriesQuoted, Zenon
<1> QED
  BY <1>3, <1>7, Zenon

-----------------------------------------------------------------------------
(* Function bodies.                                                        *)

\* A tag ends no body that it closes before the body's end.
Unclosed(body, tag) ==
  \A j \in 1 .. Len(body) : \E i \in 1 .. Len(tag) : (body \o tag)[(j + i) - 1] # tag[i]

Dollars == [kind : {"dollar"},
            body : {body \in Seq(Characters) : Unclosed(body, Delimiters["dollar"])}]
Tagged == [kind : {"tagged"},
           body : {body \in Seq(Characters) : Unclosed(body, Delimiters["tagged"])}]

LEMMA Associates ==
  \A x, y, z \in Seq(Characters) : (x \o y) \o z = x \o (y \o z)
BY ConcatAssociative

\* After its first character, the rest of what was recognised is taken as it is.
LEMMA TakenOver ==
  ASSUME NEW sql \in Seq(Characters), NEW g, SplitsAlong(g, sql), NEW p,
         NEW u \in Seq(Characters), Len(u) >= 1, Holds(sql, p, u),
         g[p].now \in Seq(Characters), NEW m,
         Grows(g[p + 1], g[p], u[1], m, p + Len(u))
  PROVE  Carried(g, sql, p, u, m)
<1> DEFINE n == Len(u)
           first(k) == [j \in 1 .. k |-> u[j]]
<1>1. n \in Nat /\ Len(sql) \in Nat /\ \A k \in 1 .. n : u[k] \in Characters
  BY LenProperties, ElementOfSeq
<1>2. p \in Nat /\ p + n <= Len(sql) /\ \A j \in 1 .. n : sql[p + j] = u[j]
  BY Zenon DEF Holds
<1>3. first(n) = u
  BY LenProperties
<1>4. \A x, y, z \in Seq(Characters) : (x \o y) \o z = x \o (y \o z)
  BY Associates, Zenon
<1> HIDE DEF n
<1> DEFINE P(k) == /\ Grown(g[p + (k + 1)], g[p], first(k + 1))
                   /\ first(k + 1) \in Seq(Characters)
                   /\ g[p + (k + 1)].in = m /\ g[p + (k + 1)].read = p + n
           S == {k \in 0 .. n - 1 : P(k)}
<1>5. P(0)
  <2>1. first(1) = <<u[1]>> /\ 0 + 1 = 1
    OBVIOUS
  <2>2. u[1] \in Characters
    BY <1>1 DEF n
  <2>3. <<u[1]>> \in Seq(Characters)
    BY <2>2
  <2> HIDE DEF first
  <2>4. Grown(g[p + 1], g[p], <<u[1]>>) /\ g[p + 1].in = m /\ g[p + 1].read = p + n
    <3>1. Grows(g[p + 1], g[p], u[1], m, p + n)
      BY Zenon DEF n
    <3>2. /\ Grown(g[p + 1], g[p], <<u[1]>>) /\ g[p + 1].in = m /\ g[p + 1].read = p + n
          /\ g[p + 1].now \in Seq(Characters)
      BY <2>2, <3>1, GrowsIs, Zenon
    <3> QED
      BY <3>2, Zenon
  <2> QED
    BY <2>1, <2>3, <2>4, Zenon
<1>6. ASSUME NEW k \in 0 .. (n - 1) - 1, P(k)
      PROVE  P(k + 1)
  <2> DEFINE i == k + 1
             j == i + 1
             s == g[p + i]
             t == g[p + j]
  <2>1. /\ k \in Nat /\ i \in Nat /\ j \in 1 .. n /\ p + j \in 1 .. Len(sql)
        /\ (p + j) - 1 = p + i /\ p + j \in Nat /\ p + j <= p + n /\ p + n \in Nat
    BY <1>1, <1>2
  <2>2. first(j) = first(i) \o <<u[j]>>
    BY <2>1, OneCharacterMore, Zenon
  <2>3. /\ Grown(s, g[p], first(i)) /\ first(i) \in Seq(Characters)
        /\ s.in = m /\ s.read = p + n
    BY <1>6, Zenon
  <2> HIDE DEF first, i, s
  <2>4. u[j] \in Characters /\ sql[p + j] = u[j]
    BY <1>1, <1>2, <2>1, Zenon
  <2>5. <<u[j]>> \in Seq(Characters) /\ first(i) \o <<u[j]>> \in Seq(Characters)
    <3>1. <<u[j]>> \in Seq(Characters)
      BY <2>4
    <3> QED
      BY <2>3, <3>1, ConcatProperties
  <2>6. s.now = g[p].now \o first(i) /\ s.done = g[p].done /\ s.now \in Seq(Characters)
    <3>1. s.now = g[p].now \o first(i) /\ s.done = g[p].done
      BY <2>3, Zenon DEF Grown
    <3>2. g[p].now \o first(i) \in Seq(Characters)
      BY <2>3, ConcatProperties
    <3> QED
      BY <3>1, <3>2, Zenon
  <2>7. t = Scanned(s, sql, p + j)
    <3>1. t = Scanned(g[(p + j) - 1], sql, p + j)
      BY <2>1, Zenon DEF SplitsAlong
    <3> QED
      BY <2>1, <3>1, Zenon DEF s
  <2> HIDE DEF t, j
  <2>8. Grows(t, s, u[j], m, p + n)
    <3>1. Grows(Scanned(s, sql, p + j), s, sql[p + j], s.in, s.read)
      BY <2>1, <2>3, ScansRead, Zenon
    <3> QED
      BY <2>3, <2>4, <2>7, <3>1, Zenon
  <2>9. Grown(t, s, <<u[j]>>) /\ t.in = m /\ t.read = p + n
    <3>1. /\ Grown(t, s, <<u[j]>>) /\ t.in = m /\ t.read = p + n
          /\ t.now \in Seq(Characters)
      BY <2>4, <2>6, <2>8, GrowsIs, Zenon
    <3> QED
      BY <3>1, Zenon
  <2>10. Grown(t, g[p], first(j))
    <3>1. t.done = g[p].done /\ t.now = (g[p].now \o first(i)) \o <<u[j]>>
      BY <2>6, <2>9, Zenon DEF Grown
    <3>2. (g[p].now \o first(i)) \o <<u[j]>> = g[p].now \o (first(i) \o <<u[j]>>)
      BY <1>4, <2>3, <2>5, Zenon
    <3> QED
      BY <2>2, <3>1, <3>2, Zenon DEF Grown
  <2> QED
    BY <2>2, <2>5, <2>9, <2>10, Zenon DEF i, j, t
<1> HIDE DEF P
<1>7. n - 1 \in Nat /\ n - 1 \in 0 .. n - 1 /\ (n - 1) + 1 = n
  BY <1>1 DEF n
<1>8. 0 \in S /\ \A k \in 0 .. (n - 1) - 1 : k \in S => k + 1 \in S
  BY <1>1, <1>5, <1>6, <1>7
<1>9. P(n - 1)
  <2> HIDE DEF S
  <2>1. \A k \in 0 .. n - 1 : k \in S
    BY <1>7, <1>8, UpTo
  <2> QED
    BY <1>7, <2>1 DEF S
<1>10. Grown(g[p + n], g[p], u) /\ g[p + n].in = m /\ g[p + n].read = p + n
  <2> HIDE DEF first
  <2> QED
    BY <1>3, <1>7, <1>9, Zenon DEF P
<1>11. In(g[p + n], p + n, sql, m)
  <2>1. g[p + n].now = g[p].now \o u
    BY <1>10, Zenon DEF Grown
  <2>2. g[p + n].now \in Seq(Characters)
    BY <2>1, ConcatProperties
  <2>3. p + n \in Nat /\ p + n <= p + n
    BY <1>1, <1>2
  <2> QED
    BY <1>10, <2>2, <2>3, ArrivesIn, Zenon
<1> QED
  BY <1>10, <1>11, Zenon DEF Carried, n

LEMMA LeastOfTwo ==
  ASSUME NEW a \in Nat, NEW b \in Nat, b <= a
  PROVE  Min({a, b}) = b
<1> DEFINE S == {a, b}
<1>1. IsFiniteSet(S) /\ S # {} /\ S \in SUBSET Int
  <2>1. IsFiniteSet({a})
    BY FS_Singleton
  <2>2. IsFiniteSet({a} \union {b})
    BY <2>1, FS_AddElement
  <2>3. S = {a} \union {b}
    OBVIOUS
  <2> QED
    BY <2>2, <2>3
<1>2. b \in S /\ \A x \in S : x = a \/ x = b
  OBVIOUS
<1> HIDE DEF S
<1>3. Min(S) \in S /\ Min(S) <= b
  BY <1>1, <1>2, Bounds
<1>4. Min(S) = b
  <2>1. Min(S) = a \/ Min(S) = b
    BY <1>2, <1>3, Zenon
  <2> QED
    BY <1>3, <2>1
<1> QED
  BY <1>4 DEF S

LEMMA StartsIs ==
  ASSUME NEW sql \in Seq(Characters), NEW tag \in Seq(Characters), Len(tag) >= 1,
         NEW i \in Nat, i >= 1, (i + Len(tag)) - 1 <= Len(sql)
  PROVE  StartsWith(sql, tag, i) <=> \A j \in 1 .. Len(tag) : sql[(i + j) - 1] = tag[j]
<1> DEFINE n == Len(tag)
           e == i + (n - 1)
           sub == SubSeq(sql, i, e)
<1>1. n \in Nat /\ Len(sql) \in Nat
  BY LenProperties
<1>2. e \in Nat /\ e <= Len(sql) /\ (e - i) + 1 = n
  BY <1>1
<1>3. Min({Len(sql), e}) = e
  BY <1>1, <1>2, LeastOfTwo, Zenon
<1>4. StartsWith(sql, tag, i) <=> sub = tag
  <2>1. StartsWith(sql, tag, i) <=> SubSeq(sql, i, Min({Len(sql), e})) = tag
    BY Zenon DEF StartsWith
  <2> HIDE DEF e
  <2>2. SubSeq(sql, i, Min({Len(sql), e})) = sub
    BY <1>3
  <2> HIDE DEF sub
  <2> QED
    BY <2>1, <2>2
<1>5. /\ sub \in Seq(Characters) /\ Len(sub) = n
      /\ \A j \in 1 .. n : sub[j] = sql[(i + j) - 1]
  <2>1. \A j \in i .. e : sql[j] \in Characters
    BY <1>1, <1>2, ElementOfSeq
  <2>2. sub = [j \in 1 .. n |-> sql[(i + j) - 1]]
    BY <1>1, <1>2
  <2>3. \A j \in 1 .. n : (i + j) - 1 \in i .. e
    BY <1>1
  <2> HIDE DEF n, e, sub
  <2>4. \A j \in 1 .. n : sql[(i + j) - 1] \in Characters
    BY <2>1, <2>3, Zenon
  <2>5. sub \in [1 .. n -> Characters] /\ \A j \in 1 .. n : sub[j] = sql[(i + j) - 1]
    BY <2>2, <2>4
  <2>6. sub \in Seq(Characters) /\ Len(sub) = n
    BY <1>1, <2>5
  <2> QED
    BY <2>5, <2>6
<1> HIDE DEF sub, n, e
<1>6. sub = tag <=> \A j \in 1 .. n : sub[j] = tag[j]
  BY <1>1, <1>5, SeqEqual DEF n
<1> QED
  BY <1>4, <1>5, <1>6, Zenon DEF n

\* A tag: two dollars, and letters between them.
Tag(tag) ==
  /\ tag \in Seq(Characters) /\ Len(tag) >= 2
  /\ tag[1] = "$" /\ tag[Len(tag)] = "$"
  /\ \A k \in 2 .. Len(tag) - 1 : tag[k] = "x"

LEMMA TagsAre ==
  /\ Tag(Delimiters["dollar"]) /\ Tag(Delimiters["tagged"])
  /\ Delimiters["dollar"] \notin Quotes /\ Delimiters["tagged"] \notin Quotes
<1>1. "$" \in Characters /\ "x" \in Characters
  BY DEF Characters
<1>2. Delimiters["dollar"] = <<"$", "$">> /\ Delimiters["tagged"] = <<"$", "x", "$">>
  BY DEF Delimiters
<1>3. Tag(<<"$", "$">>)
  <2> DEFINE t == <<"$", "$">>
  <2>1. t \in Seq(Characters) /\ Len(t) = 2 /\ t[1] = "$" /\ t[2] = "$"
    BY <1>1
  <2> HIDE DEF t
  <2>2. Len(t) >= 2 /\ 2 .. Len(t) - 1 = {}
    BY <2>1
  <2>3. Tag(t)
    BY <2>1, <2>2 DEF Tag
  <2> QED
    BY <2>3, Zenon DEF t
<1>4. Tag(<<"$", "x", "$">>)
  <2> DEFINE t == <<"$", "x", "$">>
  <2>1. t \in Seq(Characters) /\ Len(t) = 3 /\ t[1] = "$" /\ t[2] = "x" /\ t[3] = "$"
    BY <1>1
  <2> HIDE DEF t
  <2>2. Len(t) >= 2 /\ 2 .. Len(t) - 1 = {2}
    BY <2>1
  <2>3. Tag(t)
    BY <2>1, <2>2 DEF Tag
  <2> QED
    BY <2>3, Zenon DEF t
<1>5. /\ \A q : <<"$", "$">> # <<q>> /\ <<"$", "x", "$">> # <<q>>
      /\ <<"$", "$">> # <<>> /\ <<"$", "x", "$">> # <<>>
  OBVIOUS
<1>6. <<"$", "$">> \notin Quotes /\ <<"$", "x", "$">> \notin Quotes
  BY <1>5, Zenon DEF Quotes
<1> QED
  BY <1>2, <1>3, <1>4, <1>6, Zenon

\* The tag that stands at a place is the one that is recognised there.
LEMMA TagIs ==
  ASSUME NEW sql \in Seq(Characters), NEW tag, Tag(tag), NEW p, Holds(sql, p, tag)
  PROVE  TagAt(sql, p + 1) = tag
<1> DEFINE n == Len(tag)
           i == p + 1
           ends == {j \in i + 1 .. Len(sql) :
                      sql[j] = "$" /\ \A k \in i + 1 .. j - 1 : sql[k] = "x"}
           e == p + n
<1>1. /\ tag \in Seq(Characters) /\ n \in Nat /\ n >= 2 /\ Len(sql) \in Nat
      /\ tag[1] = "$" /\ tag[n] = "$"
      /\ \A k \in 2 .. n - 1 : tag[k] = "x"
  BY LenProperties DEF Tag
<1>2. /\ p \in Nat /\ p + n <= Len(sql) /\ \A j \in 1 .. n : sql[p + j] = tag[j]
  BY Zenon DEF Holds
<1> HIDE DEF n
<1>3. e \in Nat /\ e \in i + 1 .. Len(sql) /\ i \in Nat /\ i \in 1 .. Len(sql)
  BY <1>1, <1>2
<1>4. \A k \in i + 1 .. e - 1 : sql[k] = "x"
  <2> SUFFICES ASSUME NEW k \in i + 1 .. e - 1
               PROVE  sql[k] = "x"
    OBVIOUS
  <2>1. k - p \in 2 .. n - 1 /\ k - p \in 1 .. n /\ p + (k - p) = k
    BY <1>1, <1>2
  <2> HIDE DEF ends, i, e
  <2>2. sql[k] = tag[k - p]
    BY <1>2, <2>1
  <2> QED
    BY <1>1, <2>1, <2>2, Zenon
<1>5. sql[e] = "$" /\ CharAt(sql, i) = "$"
  <2>1. n \in 1 .. n /\ 1 \in 1 .. n
    BY <1>1
  <2>2. DOMAIN sql = 1 .. Len(sql)
    BY LenProperties
  <2> QED
    BY <1>1, <1>2, <1>3, <2>1, <2>2, Zenon DEF CharAt
<1>6. e \in ends
  BY <1>3, <1>4, <1>5, Zenon
<1>7. \A y \in ends : e <= y
  <2> SUFFICES ASSUME NEW y \in ends, y < e
               PROVE  FALSE
    BY <1>3
  <2>1. y \in i + 1 .. Len(sql) /\ sql[y] = "$"
    BY Zenon
  <2>2. y \in i + 1 .. e - 1
    BY <1>3, <2>1
  <2>3. sql[y] = "x"
    BY <1>4, <2>2, Zenon
  <2> QED
    BY <2>1, <2>3
<1>8. Min(ends) = e
  <2>1. i + 1 \in Int /\ Len(sql) \in Int /\ i + 1 .. Len(sql) \subseteq Int
    BY <1>1, <1>3
  <2>2. IsFiniteSet(i + 1 .. Len(sql)) /\ ends \subseteq i + 1 .. Len(sql)
    BY <2>1, FS_Interval
  <2>3. IsFiniteSet(ends) /\ ends \in SUBSET Int /\ ends # {}
    BY <1>6, <2>1, <2>2, FS_Subset, Zenon
  <2> HIDE DEF ends
  <2>4. Min(ends) \in ends /\ Min(ends) <= e
    BY <1>6, <2>3, Bounds
  <2>5. e <= Min(ends) /\ Min(ends) \in Int
    BY <1>7, <2>3, <2>4, Zenon
  <2> QED
    BY <1>3, <2>4, <2>5
<1>9. TagAt(sql, i) = SubSeq(sql, i, e)
  BY <1>5, <1>6, <1>8, Zenon DEF TagAt
<1> HIDE DEF ends
<1>10. SubSeq(sql, i, e) = tag
  <2> DEFINE sub == SubSeq(sql, i, e)
  <2>1. \A j \in i .. e : sql[j] \in Characters
    BY <1>1, <1>3, ElementOfSeq
  <2>2. sub = [j \in 1 .. n |-> sql[(i + j) - 1]]
    BY <1>1, <1>2, <1>3
  <2>3. \A j \in 1 .. n : (i + j) - 1 \in i .. e /\ (i + j) - 1 = p + j
    BY <1>1, <1>2
  <2> HIDE DEF sub, i, e
  <2>4. sub \in Seq(Characters) /\ Len(sub) = n /\ \A j \in 1 .. n : sub[j] = tag[j]
    BY <1>1, <1>2, <2>1, <2>2, <2>3
  <2>5. sub = tag
    BY <1>1, <2>4, SeqEqual DEF n
  <2> QED
    BY <2>5 DEF sub
<1> QED
  BY <1>9, <1>10, Zenon

LEMMA InTag ==
  ASSUME NEW s, NEW k, NEW sql, NEW tag, tag # <<>>, In(s, k, sql, tag)
  PROVE  s.now \in Seq(Characters) /\ s.read \in Nat /\ s.in = tag /\ s.read <= k
BY Zenon DEF In

LEMMA OpensTag ==
  ASSUME NEW tag, Tag(tag)
  PROVE  Carries(tag, <<>>, tag)
<1>1. tag \in Seq(Characters) /\ Len(tag) \in Nat /\ Len(tag) >= 2 /\ tag[1] = "$"
  BY LenProperties DEF Tag
<1>2. "$" # "'" /\ "$" \in Characters
  BY DEF Characters
<1>3. tag # <<>>
  <2>1. Len(<<>>) = 0
    OBVIOUS
  <2> QED
    BY <1>1, <2>1
<1>4. ASSUME NEW sql \in Seq(Characters), NEW g, NEW p, SplitsAlong(g, sql),
             Holds(sql, p, tag), In(g[p], p, sql, <<>>)
      PROVE  Carried(g, sql, p, tag, tag)
  <2> DEFINE k == p + 1
             s == g[p]
             t == g[k]
  <2>1. p \in Nat /\ p + Len(tag) <= Len(sql) /\ \A j \in 1 .. Len(tag) : sql[p + j] = tag[j]
    BY <1>4, Zenon DEF Holds
  <2>2. 1 \in 1 .. Len(tag) /\ Len(sql) \in Nat
    BY <1>1, LenProperties
  <2>3. sql[k] = "$"
    BY <1>1, <2>1, <2>2, Zenon
  <2>4. k \in Nat /\ k \in 1 .. Len(sql) /\ k - 1 = p
    BY <1>1, <2>1, <2>2
  <2>5. s.now \in Seq(Characters) /\ s.read \in Nat /\ s.in = <<>> /\ s.read <= p
    BY <1>2, <1>4, <2>3, Zenon DEF In
  <2>6. s.read < k
    <3> HIDE DEF s
    <3> QED
      BY <2>1, <2>5
  <2>7. t = Scanned(s, sql, k)
    <3>1. t = Scanned(g[k - 1], sql, k)
      BY <1>4, <2>4, Zenon DEF SplitsAlong
    <3> QED
      BY <2>4, <3>1, Zenon
  <2>8. TagAt(sql, k) = tag
    BY <1>4, TagIs, Zenon
  <2> HIDE DEF k, s, t
  <2>9. Grows(t, s, "$", tag, k + Len(tag) - 1)
    <3>1. sql[k] = "$" /\ TagAt(sql, k) # <<>> =>
            Grows(Scanned(s, sql, k), s, sql[k], TagAt(sql, k), k + Len(TagAt(sql, k)) - 1)
      BY <2>4, <2>5, <2>6, ScansBare, Zenon
    <3> QED
      BY <1>3, <2>3, <2>7, <2>8, <3>1, Zenon
  <2>10. k + Len(tag) - 1 = p + Len(tag)
    BY <1>1, <2>1 DEF k
  <2>11. Grows(g[p + 1], g[p], tag[1], tag, p + Len(tag))
    BY <1>1, <2>9, <2>10, Zenon DEF k, s, t
  <2>12. g[p].now \in Seq(Characters) /\ Len(tag) >= 1
    BY <1>1, <2>5 DEF s
  <2> QED
    BY <1>1, <1>4, <2>11, <2>12, TakenOver, Zenon
<1> QED
  BY <1>4, Zenon DEF Carries

LEMMA ClosesTag ==
  ASSUME NEW tag, Tag(tag), tag \notin Quotes
  PROVE  Carries(tag, tag, <<>>)
<1>1. tag \in Seq(Characters) /\ Len(tag) \in Nat /\ Len(tag) >= 2
  BY LenProperties DEF Tag
<1>2. tag # <<>>
  BY Zenon DEF Quotes
<1>3. ASSUME NEW sql \in Seq(Characters), NEW g, NEW p, SplitsAlong(g, sql),
             Holds(sql, p, tag), In(g[p], p, sql, tag)
      PROVE  Carried(g, sql, p, tag, <<>>)
  <2> DEFINE k == p + 1
             s == g[p]
             t == g[k]
  <2>1. p \in Nat /\ p + Len(tag) <= Len(sql) /\ \A j \in 1 .. Len(tag) : sql[p + j] = tag[j]
    BY <1>3, Zenon DEF Holds
  <2>2. 1 \in 1 .. Len(tag) /\ Len(sql) \in Nat
    BY <1>1, LenProperties
  <2>3. sql[k] = tag[1]
    BY <2>1, <2>2, Zenon
  <2>4. /\ k \in Nat /\ k >= 1 /\ k \in 1 .. Len(sql) /\ k - 1 = p
        /\ (k + Len(tag)) - 1 <= Len(sql) /\ k + Len(tag) - 1 = p + Len(tag)
    BY <1>1, <2>1, <2>2
  <2>5. s.now \in Seq(Characters) /\ s.read \in Nat /\ s.in = tag /\ s.read <= p
    BY <1>2, <1>3, InTag, Zenon
  <2>6. s.read < k
    <3> HIDE DEF s
    <3> QED
      BY <2>1, <2>5
  <2>7. t = Scanned(s, sql, k)
    <3>1. t = Scanned(g[k - 1], sql, k)
      BY <1>3, <2>4, Zenon DEF SplitsAlong
    <3> QED
      BY <2>4, <3>1, Zenon
  <2>8. StartsWith(sql, tag, k)
    <3>1. \A j \in 1 .. Len(tag) : (k + j) - 1 = p + j
      BY <2>1
    <3>2. \A j \in 1 .. Len(tag) : sql[(k + j) - 1] = tag[j]
      BY <2>1, <3>1
    <3>3. Len(tag) >= 1
      BY <1>1
    <3> HIDE DEF k
    <3>4. StartsWith(sql, tag, k) <=> \A j \in 1 .. Len(tag) : sql[(k + j) - 1] = tag[j]
      BY <1>1, <2>4, <3>3, StartsIs, Zenon
    <3> QED
      BY <3>2, <3>4, Zenon
  <2> HIDE DEF k, s, t
  <2>9. Grows(t, s, sql[k], <<>>, k + Len(tag) - 1)
    <3>1. IF StartsWith(sql, s.in, k)
          THEN Grows(Scanned(s, sql, k), s, sql[k], <<>>, k + Len(s.in) - 1)
          ELSE Grows(Scanned(s, sql, k), s, sql[k], s.in, k)
      BY <2>4, <2>5, <2>6, ScansTagged, Zenon
    <3> QED
      BY <2>5, <2>7, <2>8, <3>1, Zenon
  <2>10. Grows(g[p + 1], g[p], tag[1], <<>>, p + Len(tag))
    BY <2>3, <2>4, <2>9, Zenon DEF k, s, t
  <2>11. g[p].now \in Seq(Characters) /\ Len(tag) >= 1
    BY <1>1, <2>5 DEF s
  <2> QED
    BY <1>1, <1>3, <2>10, <2>11, TakenOver, Zenon
<1> QED
  BY <1>3, Zenon DEF Carries

\* A body of a tag is carried over with the tag that closes it.
LEMMA CarriesBody ==
  ASSUME NEW tag, Tag(tag), tag \notin Quotes, NEW body \in Seq(Characters),
         Unclosed(body, tag)
  PROVE  Carries(body \o tag, tag, <<>>)
<1> DEFINE n == Len(body)
           w == body \o tag
           first(k) == [j \in 1 .. k |-> body[j]]
<1>1. tag \in Seq(Characters) /\ Len(tag) \in Nat /\ Len(tag) >= 2
  BY LenProperties DEF Tag
<1>2. tag # <<>>
  BY Zenon DEF Quotes
<1>3. n \in Nat /\ \A k \in 1 .. n : body[k] \in Characters
  BY LenProperties, ElementOfSeq
<1>4. first(n) = body
  BY LenProperties
<1>5. w \in Seq(Characters) /\ Len(w) = n + Len(tag)
      /\ \A k \in 1 .. n + Len(tag) : w[k] = IF k <= n THEN body[k] ELSE tag[k - n]
  BY <1>1, ConcatProperties
<1>6. \A j \in 1 .. n : \E i \in 1 .. Len(tag) : w[(j + i) - 1] # tag[i]
  BY Zenon DEF Unclosed
<1>7. \A x, y, z \in Seq(Characters) : (x \o y) \o z = x \o (y \o z)
  BY Associates, Zenon
<1> HIDE DEF n, w
<1>8. ASSUME NEW sql \in Seq(Characters), NEW g, NEW p, SplitsAlong(g, sql),
             Holds(sql, p, w), In(g[p], p, sql, tag)
      PROVE  Carried(g, sql, p, w, <<>>)
  <2>1. /\ p \in Nat /\ p + Len(w) <= Len(sql) /\ \A j \in 1 .. Len(w) : sql[p + j] = w[j]
        /\ Len(sql) \in Nat
    <3>1. Len(sql) \in Nat
      BY LenProperties
    <3> QED
      BY <1>8, <3>1, Zenon DEF Holds
  <2>2. g[p].now \in Seq(Characters)
    BY <1>8, Zenon DEF In
  <2> DEFINE P(k) == /\ In(g[p + k], p + k, sql, tag)
                     /\ Grown(g[p + k], g[p], first(k)) /\ first(k) \in Seq(Characters)
             S == {k \in 0 .. n : P(k)}
  <2>3. P(0)
    <3>1. p + 0 = p /\ first(0) = <<>> /\ <<>> \in Seq(Characters)
      BY <2>1
    <3>2. \A s \in Seq(Characters) : s \o <<>> = s
      BY ConcatEmptySeq
    <3> HIDE DEF first
    <3>3. Grown(g[p], g[p], <<>>)
      BY <2>2, <3>2, Zenon DEF Grown
    <3> QED
      BY <1>8, <3>1, <3>3, Zenon
  <2>4. ASSUME NEW k \in 0 .. (n - 1), P(k)
        PROVE  P(k + 1)
    <3> DEFINE j == k + 1
               i == p + j
               s == g[p + k]
               t == g[i]
               ch == body[j]
    <3>1. /\ k \in Nat /\ j \in 1 .. n /\ i \in Nat /\ i \in 1 .. Len(sql) /\ i - 1 = p + k
          /\ p + k < i /\ p + k \in Nat /\ i >= 1
      BY <1>1, <1>3, <1>5, <2>1
    <3>2. first(j) = first(k) \o <<ch>>
      BY <3>1, OneCharacterMore, Zenon
    <3>3. /\ In(s, p + k, sql, tag) /\ Grown(s, g[p], first(k)) /\ first(k) \in Seq(Characters)
      BY <2>4, Zenon
    <3>4. s.now \in Seq(Characters) /\ s.read \in Nat /\ s.in = tag /\ s.read <= p + k
      BY <1>2, <3>3, InTag, Zenon
    <3>5. t = Scanned(s, sql, i)
      <4>1. t = Scanned(g[i - 1], sql, i)
        BY <1>8, <3>1, Zenon DEF SplitsAlong
      <4> QED
        BY <3>1, <4>1, Zenon
    <3>6. ch \in Characters /\ sql[i] = ch
      <4>1. j \in 1 .. Len(w) /\ j \in 1 .. n + Len(tag) /\ j <= n
        BY <1>1, <1>3, <1>5, <3>1
      <4>2. w[j] = body[j]
        BY <1>5, <4>1, Zenon
      <4> QED
        BY <1>3, <2>1, <3>1, <4>1, <4>2, Zenon
    <3>7. ~ StartsWith(sql, tag, i)
      <4>1. PICK q \in 1 .. Len(tag) : w[(j + q) - 1] # tag[q]
        BY <1>6, <3>1, Zenon
      <4>2. (j + q) - 1 \in 1 .. Len(w) /\ (i + q) - 1 = p + ((j + q) - 1)
        BY <1>1, <1>3, <1>5, <2>1, <3>1
      <4>3. sql[(i + q) - 1] = w[(j + q) - 1]
        BY <2>1, <4>2, Zenon
      <4>4. Len(tag) >= 1 /\ (i + Len(tag)) - 1 <= Len(sql)
        BY <1>1, <1>3, <1>5, <2>1, <3>1
      <4> HIDE DEF i, j
      <4>5. StartsWith(sql, tag, i) <=> \A y \in 1 .. Len(tag) : sql[(i + y) - 1] = tag[y]
        BY <1>1, <3>1, <4>4, StartsIs, Zenon
      <4> QED
        BY <4>1, <4>3, <4>5, Zenon
    <3>8. s.read < i
      <4> HIDE DEF i, s
      <4> QED
        BY <3>1, <3>4
    <3> HIDE DEF first, i, j, s, t, ch
    <3>9. Grows(t, s, ch, tag, i)
      <4>1. IF StartsWith(sql, s.in, i)
            THEN Grows(Scanned(s, sql, i), s, sql[i], <<>>, i + Len(s.in) - 1)
            ELSE Grows(Scanned(s, sql, i), s, sql[i], s.in, i)
        BY <3>1, <3>4, <3>8, ScansTagged, Zenon
      <4> QED
        BY <3>4, <3>5, <3>6, <3>7, <4>1, Zenon
    <3>10. Grown(t, s, <<ch>>) /\ t.in = tag /\ t.read = i /\ t.now \in Seq(Characters)
      BY <3>4, <3>6, <3>9, GrowsIs, Zenon
    <3>11. In(t, i, sql, tag)
      <4>1. t.read \in Nat /\ t.read <= i
        BY <3>1, <3>10
      <4> QED
        BY <3>1, <3>10, <4>1, ArrivesIn, Zenon
    <3>12. <<ch>> \in Seq(Characters) /\ first(j) \in Seq(Characters)
      <4>1. <<ch>> \in Seq(Characters)
        BY <3>6
      <4>2. first(k) \o <<ch>> \in Seq(Characters)
        BY <3>3, <4>1, ConcatProperties
      <4> QED
        BY <3>2, <4>1, <4>2, Zenon
    <3>13. Grown(t, g[p], first(j))
      <4>1. /\ s.done = g[p].done /\ s.now = g[p].now \o first(k)
            /\ t.done = s.done /\ t.now = s.now \o <<ch>>
        BY <3>3, <3>10, Zenon DEF Grown
      <4>2. (g[p].now \o first(k)) \o <<ch>> = g[p].now \o (first(k) \o <<ch>>)
        BY <1>7, <2>2, <3>3, <3>12, Zenon
      <4> QED
        BY <3>2, <4>1, <4>2, Zenon DEF Grown
    <3> QED
      BY <3>11, <3>12, <3>13, Zenon DEF i, j, t
  <2> HIDE DEF P
  <2>5. 0 \in S /\ \A k \in 0 .. (n - 1) : k \in S => k + 1 \in S
    BY <1>3, <2>3, <2>4
  <2>6. P(n)
    <3>1. n \in 0 .. n
      BY <1>3
    <3> HIDE DEF S
    <3>2. \A k \in 0 .. n : k \in S
      BY <1>3, <2>5, UpTo
    <3> QED
      BY <3>1, <3>2 DEF S
  <2> HIDE DEF first
  <2> DEFINE q == p + n
             r == q + Len(tag)
  <2>7. In(g[q], q, sql, tag) /\ Grown(g[q], g[p], body)
    BY <1>4, <2>6, Zenon DEF P
  <2>8. Holds(sql, q, tag) /\ p + Len(w) = r
    <3>1. Holds(sql, p, body \o tag)
      BY <1>8, Zenon DEF w
    <3>2. HeldInParts(sql, p, body, tag)
      BY <1>1, <3>1, HoldsParts, Zenon
    <3> QED
      BY <3>2, Zenon DEF HeldInParts, w, n
  <2>9. Carried(g, sql, q, tag, <<>>)
    <3>1. Carries(tag, tag, <<>>)
      BY ClosesTag, Zenon
    <3> QED
      BY <1>8, <2>7, <2>8, <3>1, Zenon DEF Carries
  <2>10. In(g[r], r, sql, <<>>) /\ Grown(g[r], g[q], tag)
    BY <2>9, Zenon DEF Carried
  <2> HIDE DEF q, r
  <2>11. Grown(g[r], g[p], w)
    <3>1. /\ g[q].done = g[p].done /\ g[q].now = g[p].now \o body
          /\ g[r].done = g[q].done /\ g[r].now = g[q].now \o tag
      BY <2>7, <2>10, Zenon DEF Grown
    <3>2. (g[p].now \o body) \o tag = g[p].now \o w
      BY <1>1, <1>7, <2>2, Zenon DEF w
    <3> QED
      BY <3>1, <3>2, Zenon DEF Grown
  <2> QED
    BY <2>8, <2>10, <2>11, Zenon DEF Carried
<1> QED
  BY <1>8, Zenon DEF Carries, w

LEMMA CarriesTagged ==
  ASSUME NEW segment \in Dollars \union Tagged
  PROVE  Carries(TextOf(segment), <<>>, <<>>) /\ TextOf(segment) \in Seq(Characters)
<1> DEFINE body == segment.body
           tag == Delimiters[segment.kind]
<1>1. /\ segment.kind \in {"dollar", "tagged"} /\ body \in Seq(Characters)
      /\ Unclosed(body, tag)
  BY DEF Dollars, Tagged
<1>2. Tag(tag) /\ tag \notin Quotes
  BY <1>1, TagsAre, Zenon
<1>3. TextOf(segment) = (tag \o body) \o tag
  BY Zenon DEF TextOf
<1> HIDE DEF tag, body
<1>4. tag \in Seq(Characters)
  BY <1>2, Zenon DEF Tag
<1>5. body \o tag \in Seq(Characters) /\ (tag \o body) \o tag = tag \o (body \o tag)
  <2>1. body \o tag \in Seq(Characters)
    BY <1>1, <1>4, ConcatProperties
  <2> QED
    BY <1>1, <1>4, <2>1, Associates, Zenon
<1>6. Carries(body \o tag, tag, <<>>)
  BY <1>1, <1>2, CarriesBody, Zenon
<1>7. Carries(tag, <<>>, tag)
  BY <1>2, OpensTag, Zenon
<1>8. Carries(tag \o (body \o tag), <<>>, <<>>) /\ tag \o (body \o tag) \in Seq(Characters)
  BY <1>4, <1>5, <1>6, <1>7, CarriesJoin, Zenon
<1> QED
  BY <1>3, <1>5, <1>8, Zenon

-----------------------------------------------------------------------------
(* Scripts.                                                                *)

Segment == (((Bare \union Literals) \union Identifiers) \union Dollars) \union Tagged

LEMMA StatementCarried ==
  ASSUME NEW segments \in Seq(Segment)
  PROVE  Carries(Statement(segments), <<>>, <<>>) /\ Statement(segments) \in Seq(Characters)
<1> DEFINE n == Len(segments)
           texts == [i \in DOMAIN segments |-> TextOf(segments[i])]
<1>1. n \in Nat /\ DOMAIN segments = 1 .. n
  BY LenProperties
<1>2. \A i \in 1 .. n : segments[i] \in Segment
  BY ElementOfSeq
<1>3. ASSUME NEW i \in 1 .. n
      PROVE  Carries(TextOf(segments[i]), <<>>, <<>>) /\ TextOf(segments[i]) \in Seq(Characters)
  <2>1. \/ segments[i] \in Bare \/ segments[i] \in Literals \/ segments[i] \in Identifiers
        \/ segments[i] \in Dollars \union Tagged
    BY <1>2, Zenon DEF Segment
  <2> QED
    BY <2>1, CarriesBare, CarriesLiteral, CarriesIdentifier, CarriesTagged, Zenon
<1>4. Statement(segments) = FlattenSeq(texts)
  BY Zenon DEF Statement
<1> HIDE DEF n
<1>5. /\ texts \in Seq(Seq(Characters)) /\ Len(texts) = n
      /\ \A i \in 1 .. n : texts[i] = TextOf(segments[i])
  BY <1>1, <1>3
<1> HIDE DEF texts
<1>6. \A i \in 1 .. Len(texts) : Carries(texts[i], <<>>, <<>>)
  BY <1>3, <1>5, Zenon
<1> QED
  BY <1>4, <1>5, <1>6, CarriesEach, Zenon

\* A script that begins with a text is in these pieces after it.
SplitsInto(g, sql, k, pieces) ==
  In(g[k], k, sql, <<>>) /\ g[k].done \o <<g[k].now>> = pieces

Splits(u, pieces) ==
  \A sql \in Seq(Characters) : \A g :
    SplitsAlong(g, sql) /\ Holds(sql, 0, u) => SplitsInto(g, sql, Len(u), pieces)

LEMMA ScriptBegins ==
  ASSUME NEW v \in Seq(Characters), Carries(v, <<>>, <<>>)
  PROVE  Splits(v, <<v>>)
<1> DEFINE n == Len(v)
<1>1. n \in Nat /\ 0 + n = n
  BY LenProperties
<1>2. ASSUME NEW sql \in Seq(Characters), NEW g, SplitsAlong(g, sql), Holds(sql, 0, v)
      PROVE  SplitsInto(g, sql, n, <<v>>)
  <2>1. g[0] = [done |-> <<>>, now |-> <<>>, in |-> <<>>, read |-> 0]
    BY <1>2, Zenon DEF SplitsAlong
  <2>2. g[0].done = <<>> /\ g[0].now = <<>> /\ g[0].in = <<>> /\ g[0].read = 0
    BY <2>1
  <2>3. <<>> \in Seq(Characters) /\ 0 \in Nat /\ 0 <= 0
    OBVIOUS
  <2>4. In(g[0], 0, sql, <<>>)
    BY <2>2, <2>3, ArrivesIn, Zenon
  <2>5. Carried(g, sql, 0, v, <<>>)
    BY <1>2, <2>4, Zenon DEF Carries
  <2> HIDE DEF n
  <2>6. In(g[n], n, sql, <<>>) /\ g[n].done = <<>> /\ g[n].now = <<>> \o v
    BY <1>1, <2>2, <2>5, Zenon DEF Carried, Grown, n
  <2>7. <<>> \o v = v /\ <<>> \o <<v>> = <<v>>
    <3>1. v \in Seq(Characters) /\ <<v>> \in Seq(Seq(Characters))
      OBVIOUS
    <3> QED
      BY <3>1, ConcatEmptySeq
  <2> QED
    BY <2>6, <2>7, Zenon DEF SplitsInto
<1> QED
  BY <1>2, Zenon DEF Splits

\* What ends a statement.
Ends == {";"}

LEMMA MarkIs ==
  ASSUME NEW mark \in Ends
  PROVE  mark # "'" /\ mark \in Characters
BY Zenon DEF Ends, Characters

LEMMA MarkEnds ==
  ASSUME NEW mark \in Ends, NEW s, NEW sql, NEW k \in Nat, s.read \in Nat, s.read < k,
         s.in = <<>>, sql[k] = mark
  PROVE  Scanned(s, sql, k)
           = [done |-> s.done \o <<s.now>>, now |-> <<>>, in |-> <<>>, read |-> k]
<1>1. sql[k] = ";"
  BY Zenon DEF Ends
<1>2. sql[k] = ";" =>
        Scanned(s, sql, k)
          = [done |-> s.done \o <<s.now>>, now |-> <<>>, in |-> <<>>, read |-> k]
  BY ScansBare, Zenon
<1> QED
  BY <1>1, <1>2, Zenon

LEMMA ScriptGoesOn ==
  ASSUME NEW mark \in Ends, NEW u \in Seq(Characters), NEW pieces, Splits(u, pieces),
         NEW v \in Seq(Characters), Carries(v, <<>>, <<>>)
  PROVE  Splits(u \o (<<mark>> \o v), pieces \o <<v>>)
<1> DEFINE m == Len(u)
           t == <<mark>>
           w == t \o v
<1>1. mark # "'" /\ mark \in Characters
  BY MarkIs, Zenon
<1>2. t \in Seq(Characters) /\ Len(t) = 1 /\ t[1] = mark
  BY <1>1
<1> HIDE DEF t
<1>3. m \in Nat /\ w \in Seq(Characters)
  BY <1>2, LenProperties, ConcatProperties
<1>4. ASSUME NEW sql \in Seq(Characters), NEW g, SplitsAlong(g, sql), Holds(sql, 0, u \o w)
      PROVE  SplitsInto(g, sql, Len(u \o w), pieces \o <<v>>)
  <2> DEFINE k == m + 1
             n == k + Len(v)
             s == g[m]
  <2> HIDE DEF w
  <2>1. Holds(sql, 0, u) /\ Holds(sql, 0 + m, w) /\ 0 + Len(u \o w) = (0 + m) + Len(w)
    <3>1. HeldInParts(sql, 0, u, w)
      BY <1>3, <1>4, HoldsParts, Zenon
    <3> QED
      BY <3>1, Zenon DEF HeldInParts
  <2>2. 0 + m = m
    BY <1>3
  <2>3. Holds(sql, m, t) /\ Holds(sql, m + 1, v) /\ m + Len(w) = (m + 1) + Len(v)
    <3>1. Holds(sql, m, t \o v)
      BY <2>1, <2>2, Zenon DEF w
    <3>2. HeldInParts(sql, m, t, v)
      BY <1>2, <3>1, HoldsParts, Zenon
    <3> QED
      BY <1>2, <3>2, Zenon DEF HeldInParts, w
  <2>4. Len(u \o w) = n
    <3>1. Len(u \o w) = m + Len(w)
      BY <1>3, ConcatProperties
    <3> QED
      BY <2>3, <3>1, Zenon
  <2>5. SplitsInto(g, sql, m, pieces)
    BY <1>4, <2>1, Zenon DEF Splits
  <2>6. In(s, m, sql, <<>>) /\ s.done \o <<s.now>> = pieces
    BY <2>5, Zenon DEF SplitsInto
  <2>7. sql[k] = mark /\ k \in 1 .. Len(sql) /\ k \in Nat /\ k - 1 = m
    <3>1. m + Len(t) <= Len(sql) /\ \A j \in 1 .. Len(t) : sql[m + j] = t[j]
      BY <2>3, Zenon DEF Holds
    <3>2. 1 \in 1 .. Len(t) /\ Len(sql) \in Nat
      BY <1>2, LenProperties
    <3> QED
      BY <1>2, <1>3, <3>1, <3>2
  <2>8. s.read \in Nat /\ s.in = <<>> /\ s.read <= m
    BY <1>1, <2>6, <2>7, Zenon DEF In
  <2>9. s.read < k
    <3> HIDE DEF s
    <3> QED
      BY <1>3, <2>8
  <2>10. g[k] = Scanned(s, sql, k)
    <3>1. g[k] = Scanned(g[k - 1], sql, k)
      BY <1>4, <2>7, Zenon DEF SplitsAlong
    <3> QED
      BY <2>7, <3>1, Zenon
  <2> HIDE DEF s
  <2>11. g[k] = [done |-> pieces, now |-> <<>>, in |-> <<>>, read |-> k]
    <3>1. Scanned(s, sql, k)
            = [done |-> s.done \o <<s.now>>, now |-> <<>>, in |-> <<>>, read |-> k]
      BY <2>7, <2>8, <2>9, MarkEnds, Zenon
    <3> QED
      BY <2>6, <2>10, <3>1, Zenon
  <2>12. g[k].done = pieces /\ g[k].now = <<>> /\ g[k].in = <<>> /\ g[k].read = k
    BY <2>11
  <2>13. In(g[k], k, sql, <<>>)
    <3>1. <<>> \in Seq(Characters) /\ k <= k
      BY <2>7
    <3> HIDE DEF k
    <3> QED
      BY <2>7, <2>12, <3>1, ArrivesIn, Zenon
  <2>14. Carried(g, sql, k, v, <<>>)
    BY <1>4, <2>3, <2>13, Zenon DEF Carries
  <2>15. In(g[n], n, sql, <<>>) /\ g[n].done = pieces /\ g[n].now = <<>> \o v
    BY <2>12, <2>14, Zenon DEF Carried, Grown
  <2>16. <<>> \o v = v
    BY ConcatEmptySeq
  <2> HIDE DEF n, k
  <2> QED
    BY <2>4, <2>15, <2>16, Zenon DEF SplitsInto
<1>5. Splits(u \o w, pieces \o <<v>>)
  BY <1>4, Zenon DEF Splits
<1> QED
  BY <1>5, Zenon DEF w, t

\* A script is split into the statements it was joined from, however many there are and
\* however long they are (core/store_impl/base.py, _split_sql_statements).
LEMMA SplitKeeps ==
  ASSUME NEW statements \in Seq(Seq(Segment)), Len(statements) >= 1
  PROVE  SplitRestores(statements)
<1> DEFINE n == Len(statements)
           text(i) == Statement(statements[i])
           piece(i) == IF i = 1 THEN text(i) ELSE <<";">> \o text(i)
           parts == [i \in DOMAIN statements |-> piece(i)]
           texts == [i \in 1 .. n |-> text(i)]
           first(k) == [j \in 1 .. k |-> texts[j]]
<1>1. n \in Nat /\ n >= 1 /\ DOMAIN statements = 1 .. n
  BY LenProperties
<1>2. \A i \in 1 .. n : statements[i] \in Seq(Segment)
  BY ElementOfSeq
<1>3. \A i \in 1 .. n : Carries(text(i), <<>>, <<>>) /\ text(i) \in Seq(Characters)
  BY <1>2, StatementCarried, Zenon
<1> HIDE DEF n, text
<1>0. first(n) = texts /\ \A i \in 1 .. n : texts[i] = text(i)
  BY <1>1
<1> HIDE DEF texts
<1>4. ASSUME NEW i \in 1 .. n
      PROVE  piece(i) \in Seq(Characters)
  <2>1. text(i) \in Seq(Characters)
    BY <1>3, Zenon
  <2>2. ";" \in Characters
    BY Zenon DEF Characters
  <2> DEFINE x == ";"
  <2> HIDE DEF x
  <2>3. x \in Characters
    BY <2>2, Zenon DEF x
  <2>4. <<x>> \in Seq(Characters)
    BY <2>3
  <2>5. <<x>> \o text(i) \in Seq(Characters)
    BY <2>1, <2>4, ConcatProperties
  <2> QED
    BY <2>1, <2>5, Zenon DEF x
<1> HIDE DEF piece
<1>5. /\ parts \in Seq(Seq(Characters)) /\ Len(parts) = n
      /\ \A i \in 1 .. n : parts[i] = piece(i)
  BY <1>1, <1>4
<1>6. Joined(statements) = FlattenSeq(parts)
  BY Zenon DEF Joined, parts, piece, text
<1> HIDE DEF parts
<1>7. PICK h \in [0 .. n -> Seq(Characters)] :
        /\ h[0] = <<>> /\ FlattenSeq(parts) = h[n]
        /\ \A k \in 1 .. n : h[k] = h[k - 1] \o parts[k]
  <2>1. \E h \in [0 .. Len(parts) -> Seq(Characters)] :
          /\ h[0] = <<>> /\ FlattenSeq(parts) = h[Len(parts)]
          /\ \A k \in 1 .. Len(parts) : h[k] = h[k - 1] \o parts[k]
    BY <1>5, FlattenIs, Zenon
  <2> QED
    BY <1>5, <2>1, Zenon
<1> DEFINE P(k) == Splits(h[k + 1], first(k + 1))
           S == {k \in 0 .. n - 1 : P(k)}
<1>8. P(0)
  <2>1. 0 + 1 = 1 /\ 1 \in 1 .. n /\ 1 - 1 = 0
    BY <1>1
  <2>2. first(1) = <<text(1)>>
    <3>1. first(1) = <<texts[1]>>
      OBVIOUS
    <3> QED
      BY <1>0, <2>1, <3>1, Zenon
  <2>3. h[1] = h[0] \o parts[1]
    BY <1>7, <2>1
  <2>4. parts[1] = text(1)
    BY <1>5, <2>1, Zenon DEF piece
  <2>5. text(1) \in Seq(Characters) /\ Carries(text(1), <<>>, <<>>)
    BY <1>3, <2>1, Zenon
  <2>6. <<>> \o text(1) = text(1)
    BY <2>5, ConcatEmptySeq
  <2>7. Splits(text(1), <<text(1)>>)
    BY <2>5, ScriptBegins, Zenon
  <2> HIDE DEF first
  <2> QED
    BY <1>7, <2>1, <2>2, <2>3, <2>4, <2>6, <2>7, Zenon
<1>9. ASSUME NEW k \in 0 .. (n - 1) - 1, P(k)
      PROVE  P(k + 1)
  <2> DEFINE j == k + 1
             i == j + 1
  <2>1. k \in Nat /\ j \in Nat /\ i \in 1 .. n /\ i - 1 = j /\ i # 1 /\ j \in 0 .. n
    BY <1>1
  <2>2. first(i) = first(j) \o <<text(i)>>
    <3>1. first(i) = first(j) \o <<texts[i]>>
      BY <2>1, OneCharacterMore, Zenon
    <3> QED
      BY <1>0, <2>1, <3>1, Zenon
  <2>3. Splits(h[j], first(j))
    BY <1>9, Zenon
  <2> HIDE DEF first, i, j
  <2>4. h[i] = h[j] \o parts[i]
    BY <1>7, <2>1
  <2>5. parts[i] = <<";">> \o text(i)
    BY <1>5, <2>1, Zenon DEF piece
  <2>6. /\ text(i) \in Seq(Characters) /\ Carries(text(i), <<>>, <<>>)
        /\ h[j] \in Seq(Characters)
    BY <1>3, <2>1, Zenon
  <2>7. ";" \in Ends
    BY Zenon DEF Ends
  <2>8. Splits(h[j] \o (<<";">> \o text(i)), first(j) \o <<text(i)>>)
    BY <2>3, <2>6, <2>7, ScriptGoesOn, Zenon
  <2> QED
    BY <2>2, <2>4, <2>5, <2>8, Zenon DEF i, j
<1> HIDE DEF P
<1>10. n - 1 \in Nat /\ n - 1 \in 0 .. n - 1 /\ (n - 1) + 1 = n
  BY <1>1
<1>11. 0 \in S /\ \A k \in 0 .. (n - 1) - 1 : k \in S => k + 1 \in S
  BY <1>1, <1>8, <1>9, <1>10
<1>12. P(n - 1)
  <2> HIDE DEF S
  <2>1. \A k \in 0 .. n - 1 : k \in S
    BY <1>10, <1>11, UpTo
  <2> QED
    BY <1>10, <2>1 DEF S
<1> DEFINE sql == h[n]
<1>13. Splits(sql, first(n)) /\ sql \in Seq(Characters)
  <2>1. n \in 0 .. n
    BY <1>1
  <2> HIDE DEF first
  <2> QED
    BY <1>10, <1>12, <2>1, Zenon DEF P
<1> HIDE DEF sql
<1>14. PICK g : SplitsAlong(g, sql)
  BY <1>13, SplitIs, Zenon
<1>15. Holds(sql, 0, sql)
  <2>1. Len(sql) \in Nat
    BY <1>13, LenProperties
  <2>2. 0 \in Nat /\ 0 + Len(sql) <= Len(sql) /\ \A j \in 1 .. Len(sql) : 0 + j = j
    BY <2>1
  <2> QED
    BY <2>2, Zenon DEF Holds
<1>16. Pieces(sql) = first(n)
  <2> HIDE DEF first
  <2>1. SplitsInto(g, sql, Len(sql), first(n))
    BY <1>13, <1>14, <1>15, Zenon DEF Splits
  <2> QED
    BY <1>14, <2>1, Zenon DEF SplitsAlong, SplitsInto
<1>17. first(n) = [i \in DOMAIN statements |-> Statement(statements[i])]
  BY <1>0, <1>1, Zenon DEF text, texts
<1>18. Joined(statements) = sql
  BY <1>6, <1>7, Zenon DEF sql
<1> HIDE DEF first
<1> QED
  BY <1>16, <1>17, <1>18, Zenon DEF SplitRestores, SplitSqlStatements

-----------------------------------------------------------------------------
(* The scripts and statements that are asked about.                        *)

LEMMA OneIn ==
  ASSUME NEW W, NEW a \in W
  PROVE  <<a>> \in Seq(W)
OBVIOUS

LEMMA TwoIn ==
  ASSUME NEW W, NEW a \in W, NEW b \in W
  PROVE  <<a, b>> \in Seq(W) /\ Len(<<a, b>>) = 2 /\ <<a, b>>[1] = a /\ <<a, b>>[2] = b
OBVIOUS

LEMMA TripleJoins ==
  ASSUME NEW W, NEW a \in W, NEW b \in W, NEW c \in W
  PROVE  <<a, b, c>> \in Seq(W) /\ <<a, b>> \o <<c>> = <<a, b, c>>
<1> DEFINE s == <<a, b>>
           t == <<c>>
           u == <<a, b, c>>
<1>1. /\ s \in Seq(W) /\ Len(s) = 2 /\ s[1] = a /\ s[2] = b
      /\ t \in Seq(W) /\ Len(t) = 1 /\ t[1] = c
      /\ u \in Seq(W) /\ Len(u) = 3 /\ u[1] = a /\ u[2] = b /\ u[3] = c
  OBVIOUS
<1> HIDE DEF s, t, u
<1>2. /\ s \o t \in Seq(W) /\ Len(s \o t) = 3
      /\ \A i \in 1 .. 3 : (s \o t)[i] = IF i <= 2 THEN s[i] ELSE t[i - 2]
  <2>1. /\ s \o t \in Seq(W) /\ Len(s \o t) = Len(s) + Len(t)
        /\ \A i \in 1 .. Len(s) + Len(t) :
             (s \o t)[i] = IF i <= Len(s) THEN s[i] ELSE t[i - Len(s)]
    BY <1>1, ConcatProperties
  <2>2. Len(s) + Len(t) = 3
    BY <1>1
  <2> QED
    BY <1>1, <2>1, <2>2, Zenon
<1>3. \A i \in 1 .. 3 : (s \o t)[i] = u[i]
  BY <1>1, <1>2
<1>4. s \o t = u
  BY <1>1, <1>2, <1>3, SeqEqual
<1> QED
  BY <1>1, <1>4 DEF s, t, u

LEMMA DoubledNothing ==
  Doubled(<<>>) = <<>>
<1> DEFINE t == <<>>
           doubles == [i \in DOMAIN t |-> Double(t[i])]
<1>1. t \in Seq(Characters) /\ Len(t) = 0
  OBVIOUS
<1> HIDE DEF t
<1>2. doubles \in Seq(Seq(Characters)) /\ Len(doubles) = 0
  BY <1>1, DoublesAre, Zenon
<1>3. Doubled(t) = FlattenSeq(doubles)
  BY Zenon DEF Doubled
<1> HIDE DEF doubles
<1>4. PICK g \in [0 .. Len(doubles) -> Seq(Characters)] :
        /\ g[0] = <<>> /\ FlattenSeq(doubles) = g[Len(doubles)]
        /\ \A k \in 1 .. Len(doubles) : g[k] = g[k - 1] \o doubles[k]
  <2>1. doubles \in Seq(Seq(Characters))
    BY <1>2, Zenon
  <2> QED
    BY <2>1, FlattenIs, Zenon
<1>5. Doubled(t) = <<>>
  BY <1>2, <1>3, <1>4, Zenon
<1> QED
  BY <1>5, Zenon DEF t

LEMMA DoubledOne ==
  ASSUME NEW a \in Characters
  PROVE  Doubled(<<a>>) = Double(a)
<1> DEFINE t == <<a>>
           doubles == [i \in DOMAIN t |-> Double(t[i])]
<1>1. t \in Seq(Characters) /\ Len(t) = 1 /\ t[1] = a
  OBVIOUS
<1> HIDE DEF t
<1>2. /\ doubles \in Seq(Seq(Characters)) /\ Len(doubles) = Len(t)
      /\ \A i \in 1 .. Len(t) : doubles[i] = Double(t[i]) /\ t[i] \in Characters
  BY <1>1, DoublesAre, Zenon
<1>3. Doubled(t) = FlattenSeq(doubles)
  BY Zenon DEF Doubled
<1> HIDE DEF doubles
<1>4. PICK g \in [0 .. Len(doubles) -> Seq(Characters)] :
        /\ g[0] = <<>> /\ FlattenSeq(doubles) = g[Len(doubles)]
        /\ \A k \in 1 .. Len(doubles) : g[k] = g[k - 1] \o doubles[k]
  BY <1>2, FlattenIs, Zenon
<1>5. 1 \in 1 .. 1 /\ 1 - 1 = 0
  OBVIOUS
<1>6. doubles[1] = Double(a) /\ g[1] = g[0] \o doubles[1]
  BY <1>1, <1>2, <1>4, <1>5, Zenon
<1>7. Double(a) \in Seq(Characters)
  <2>1. doubles[1] \in Seq(Characters)
    BY <1>1, <1>2, <1>5, ElementOfSeq
  <2> QED
    BY <1>6, <2>1, Zenon
<1>8. <<>> \o Double(a) = Double(a)
  BY <1>7, ConcatEmptySeq
<1>9. Doubled(t) = Double(a)
  BY <1>1, <1>2, <1>3, <1>4, <1>6, <1>8, Zenon
<1> QED
  BY <1>9, Zenon DEF t

LEMMA DoubledTwo ==
  ASSUME NEW a \in Characters, NEW b \in Characters
  PROVE  Doubled(<<a, b>>) = Double(a) \o Double(b)
<1> DEFINE t == <<a, b>>
           doubles == [i \in DOMAIN t |-> Double(t[i])]
<1>1. t \in Seq(Characters) /\ Len(t) = 2 /\ t[1] = a /\ t[2] = b
  OBVIOUS
<1> HIDE DEF t
<1>2. /\ doubles \in Seq(Seq(Characters)) /\ Len(doubles) = Len(t)
      /\ \A i \in 1 .. Len(t) : doubles[i] = Double(t[i]) /\ t[i] \in Characters
  BY <1>1, DoublesAre, Zenon
<1>3. Doubled(t) = FlattenSeq(doubles)
  BY Zenon DEF Doubled
<1> HIDE DEF doubles
<1>4. PICK g \in [0 .. Len(doubles) -> Seq(Characters)] :
        /\ g[0] = <<>> /\ FlattenSeq(doubles) = g[Len(doubles)]
        /\ \A k \in 1 .. Len(doubles) : g[k] = g[k - 1] \o doubles[k]
  BY <1>2, FlattenIs, Zenon
<1>5. 1 \in 1 .. 2 /\ 1 - 1 = 0 /\ 2 \in 1 .. 2 /\ 2 - 1 = 1
  OBVIOUS
<1>6. /\ doubles[1] = Double(a) /\ g[1] = g[0] \o doubles[1]
      /\ doubles[2] = Double(b) /\ g[2] = g[1] \o doubles[2]
  BY <1>1, <1>2, <1>4, <1>5, Zenon
<1>7. Double(a) \in Seq(Characters)
  <2>1. doubles[1] \in Seq(Characters)
    BY <1>1, <1>2, <1>5, ElementOfSeq
  <2> QED
    BY <1>6, <2>1, Zenon
<1>8. <<>> \o Double(a) = Double(a)
  BY <1>7, ConcatEmptySeq
<1>9. Doubled(t) = Double(a) \o Double(b)
  BY <1>1, <1>2, <1>3, <1>4, <1>6, <1>8, Zenon
<1> QED
  BY <1>9, Zenon DEF t

\* A body is unclosed if no dollar in it is followed as in the tag.
LEMMA UnclosedBy ==
  ASSUME NEW tag, Tag(tag), NEW body \in Seq(Characters),
         \A j \in 1 .. Len(body) : \/ body[j] # "$"
                                   \/ j < Len(body) /\ body[j + 1] # tag[2]
  PROVE  Unclosed(body, tag)
<1> DEFINE n == Len(body)
           m == Len(tag)
           w == body \o tag
<1>1. tag \in Seq(Characters) /\ m \in Nat /\ m >= 2 /\ tag[1] = "$" /\ n \in Nat
  BY LenProperties DEF Tag
<1>2. \A k \in 1 .. n + m : w[k] = IF k <= n THEN body[k] ELSE tag[k - n]
  BY <1>1, ConcatProperties
<1> HIDE DEF n, m, w
<1>3. ASSUME NEW j \in 1 .. n
      PROVE  \E i \in 1 .. m : w[(j + i) - 1] # tag[i]
  <2>1. 1 \in 1 .. m /\ 2 \in 1 .. m /\ (j + 1) - 1 = j /\ (j + 2) - 1 = j + 1
    BY <1>1
  <2>2. CASE body[j] # "$"
    <3>1. w[j] = body[j]
      <4>1. j \in 1 .. n + m /\ j <= n
        BY <1>1
      <4> QED
        BY <1>2, <4>1
    <3> QED
      BY <1>1, <2>1, <2>2, <3>1
  <2>3. CASE j < n /\ body[j + 1] # tag[2]
    <3>1. w[j + 1] = body[j + 1]
      <4>1. j + 1 \in 1 .. n + m /\ j + 1 <= n
        BY <1>1, <2>3
      <4> QED
        BY <1>2, <4>1
    <3> QED
      BY <2>1, <2>3, <3>1
  <2> QED
    BY <2>2, <2>3 DEF n
<1> QED
  BY <1>3, Zenon DEF Unclosed, n, m, w

LEMMA SegmentsAre ==
  Segments \subseteq (Bare \union Literals) \union Identifiers
<1> DEFINE A == {<<"x">>, <<" ">>, <<"?">>, <<"%">>, <<"x", "?">>}
           B == {<<>>, <<";">>, <<"?">>, <<"%">>, <<"'", "'", ";">>, <<"\"">>, <<"$", "$">>}
           C == {<<";">>, <<"'">>, <<"?">>}
           Texts == {Doubled(text) : text \in Seq(Characters)}
<1>1. A \subseteq Seq(Plain)
  <2>1. "x" \in Plain /\ " " \in Plain /\ "?" \in Plain /\ "%" \in Plain
    BY Zenon DEF Plain
  <2>2. /\ <<"x">> \in Seq(Plain) /\ <<" ">> \in Seq(Plain) /\ <<"?">> \in Seq(Plain)
        /\ <<"%">> \in Seq(Plain) /\ <<"x", "?">> \in Seq(Plain)
    BY <2>1, OneIn, TwoIn, Zenon
  <2> QED
    BY <2>2, Zenon
<1>2. B \subseteq Texts
  <2>1. /\ "'" \in Characters /\ ";" \in Characters /\ "?" \in Characters /\ "%" \in Characters
        /\ "\"" \in Characters /\ "$" \in Characters
    BY Zenon DEF Characters
  <2>2. \A ch \in Characters : ch # "'" => <<ch>> \in Texts
    <3> SUFFICES ASSUME NEW ch \in Characters, ch # "'"
                 PROVE  <<ch>> \in Texts
      BY Zenon
    <3>1. Doubled(<<ch>>) = <<ch>>
      BY DoubledOne, Zenon DEF Double
    <3>2. <<ch>> \in Seq(Characters)
      BY OneIn, Zenon
    <3> QED
      BY <3>1, <3>2, Zenon
  <2>3. <<>> \in Texts
    <3>1. <<>> \in Seq(Characters)
      OBVIOUS
    <3> QED
      BY <3>1, DoubledNothing, Zenon
  <2>4. \A a, b \in Characters : <<a, b>> \in Seq(Characters)
    BY TwoIn, Zenon
  <2>5. <<"'", "'", ";">> \in Texts
    <3>1. Doubled(<<"'", ";">>) = Double("'") \o Double(";")
      BY <2>1, DoubledTwo, Zenon
    <3>2. "'" # ";"
      BY Zenon
    <3>3. Double("'") = <<"'", "'">> /\ Double(";") = <<";">>
      BY <3>2, Zenon DEF Double
    <3>4. <<"'", "'">> \o <<";">> = <<"'", "'", ";">>
      BY <2>1, TripleJoins, Zenon
    <3>5. <<"'", ";">> \in Seq(Characters)
      BY <2>1, <2>4, Zenon
    <3> QED
      BY <3>1, <3>3, <3>4, <3>5, Zenon
  <2>6. <<"$", "$">> \in Texts
    <3>1. Doubled(<<"$", "$">>) = Double("$") \o Double("$")
      BY <2>1, DoubledTwo, Zenon
    <3>2. "$" # "'"
      BY Zenon
    <3>3. Double("$") = <<"$">>
      BY <3>2, Zenon DEF Double
    <3>4. <<"$">> \o <<"$">> = <<"$", "$">>
      BY <2>1, PairJoins, Zenon
    <3>5. <<"$", "$">> \in Seq(Characters)
      BY <2>1, <2>4, Zenon
    <3> QED
      BY <3>1, <3>3, <3>4, <3>5, Zenon
  <2>7. ";" # "'" /\ "?" # "'" /\ "%" # "'" /\ "\"" # "'"
    BY Zenon
  <2>8. /\ <<";">> \in Texts /\ <<"?">> \in Texts /\ <<"%">> \in Texts /\ <<"\"">> \in Texts
    BY <2>1, <2>2, <2>7, Zenon
  <2> HIDE DEF Texts
  <2> QED
    BY <2>3, <2>5, <2>6, <2>8, Zenon
<1>3. C \subseteq Seq(Characters \ {"\""})
  <2> DEFINE W == Characters \ {"\""}
  <2>1. ";" \in W /\ "'" \in W /\ "?" \in W
    BY Zenon DEF Characters
  <2> HIDE DEF W
  <2>2. <<";">> \in Seq(W) /\ <<"'">> \in Seq(W) /\ <<"?">> \in Seq(W)
    BY <2>1, OneIn, Zenon
  <2> QED
    BY <2>2, Zenon DEF W
<1>4. Segments = ([kind : {"bare"}, body : A] \union [kind : {"squote"}, body : B])
                 \union [kind : {"dquote"}, body : C]
  BY Zenon DEF Segments
<1> HIDE DEF A, B, C
<1>5. [kind : {"bare"}, body : A] \subseteq Bare
  BY <1>1 DEF Bare
<1>6. [kind : {"squote"}, body : B] \subseteq Literals
  <2>1. Literals = [kind : {"squote"}, body : Texts]
    BY Zenon DEF Literals
  <2> HIDE DEF Texts
  <2> QED
    BY <1>2, <2>1
<1>7. [kind : {"dquote"}, body : C] \subseteq Identifiers
  <2> DEFINE D == Seq(Characters \ {"\""})
  <2>1. Identifiers = [kind : {"dquote"}, body : D] /\ C \subseteq D
    BY <1>3, Zenon DEF Identifiers
  <2> HIDE DEF D
  <2> QED
    BY <2>1
<1> QED
  BY <1>4, <1>5, <1>6, <1>7, Zenon

\* The bodies of functions that are asked about have no dollar that begins their tag.
LEMMA ShortBodies ==
  ASSUME NEW tag, Tag(tag), NEW a \in Characters, a # "$"
  PROVE  /\ <<a>> \in Seq(Characters) /\ Unclosed(<<a>>, tag)
         /\ \A b \in Characters : b # "$" =>
              <<b, a>> \in Seq(Characters) /\ Unclosed(<<b, a>>, tag)
<1>1. <<a>> \in Seq(Characters) /\ Unclosed(<<a>>, tag)
  <2> DEFINE s == <<a>>
  <2>1. s \in Seq(Characters) /\ Len(s) = 1 /\ s[1] = a
    OBVIOUS
  <2> HIDE DEF s
  <2>2. \A j \in 1 .. Len(s) : s[j] # "$" \/ (j < Len(s) /\ s[j + 1] # tag[2])
    BY <2>1
  <2>3. Unclosed(s, tag)
    BY <2>1, <2>2, UnclosedBy, Zenon
  <2> QED
    BY <2>1, <2>3 DEF s
<1>2. ASSUME NEW b \in Characters, b # "$"
      PROVE  <<b, a>> \in Seq(Characters) /\ Unclosed(<<b, a>>, tag)
  <2> DEFINE s == <<b, a>>
  <2>1. s \in Seq(Characters) /\ Len(s) = 2 /\ s[1] = b /\ s[2] = a
    OBVIOUS
  <2> HIDE DEF s
  <2>2. \A j \in 1 .. Len(s) : s[j] # "$" \/ (j < Len(s) /\ s[j + 1] # tag[2])
    BY <1>2, <2>1
  <2>3. Unclosed(s, tag)
    BY <2>1, <2>2, UnclosedBy, Zenon
  <2> QED
    BY <2>1, <2>3 DEF s
<1> QED
  BY <1>1, <1>2, Zenon

LEMMA BodyOfTag ==
  ASSUME NEW tag, Tag(tag), tag[2] # "x", NEW a \in Characters, a # "$"
  PROVE  LET s == <<"$", "x", "$", a>>
         IN s \in Seq(Characters) /\ (a # tag[2] => Unclosed(s, tag))
<1> DEFINE s == <<"$", "x", "$", a>>
<1>1. "$" \in Characters /\ "x" \in Characters /\ "x" # "$"
  BY DEF Characters
<1>2. s \in Seq(Characters) /\ Len(s) = 4 /\ s[1] = "$" /\ s[2] = "x" /\ s[3] = "$" /\ s[4] = a
  BY <1>1
<1> HIDE DEF s
<1>3. ASSUME a # tag[2]
      PROVE  \A j \in 1 .. Len(s) : s[j] # "$" \/ (j < Len(s) /\ s[j + 1] # tag[2])
  <2> SUFFICES ASSUME NEW j \in 1 .. 4
               PROVE  s[j] # "$" \/ (j < 4 /\ s[j + 1] # tag[2])
    BY <1>2
  <2>1. j = 1 \/ j = 2 \/ j = 3 \/ j = 4
    OBVIOUS
  <2> QED
    BY <1>1, <1>2, <1>3, <2>1
<1>4. a # tag[2] => Unclosed(s, tag)
  BY <1>2, <1>3, UnclosedBy, Zenon
<1> QED
  BY <1>2, <1>4 DEF s

LEMMA BodyOfDollars ==
  ASSUME NEW tag, Tag(tag), tag[2] # "$", NEW a \in Characters, a # "$", a # tag[2]
  PROVE  <<"$", "$", a>> \in Seq(Characters) /\ Unclosed(<<"$", "$", a>>, tag)
<1> DEFINE s == <<"$", "$", a>>
<1>1. "$" \in Characters
  BY DEF Characters
<1>2. s \in Seq(Characters) /\ Len(s) = 3 /\ s[1] = "$" /\ s[2] = "$" /\ s[3] = a
  BY <1>1
<1> HIDE DEF s
<1>3. \A j \in 1 .. Len(s) : s[j] # "$" \/ (j < Len(s) /\ s[j + 1] # tag[2])
  <2> SUFFICES ASSUME NEW j \in 1 .. 3
               PROVE  s[j] # "$" \/ (j < 3 /\ s[j + 1] # tag[2])
    BY <1>2
  <2>1. j = 1 \/ j = 2 \/ j = 3
    OBVIOUS
  <2> QED
    BY <1>2, <2>1
<1>4. Unclosed(s, tag)
  BY <1>2, <1>3, UnclosedBy, Zenon
<1> QED
  BY <1>2, <1>4 DEF s

LEMMA BodiedAre ==
  Bodied \subseteq Dollars \union Tagged
<1> DEFINE A == {<<";">>, <<"'">>, <<"$", "x", "$", ";">>}
           B == {<<";">>, <<"\"", ";">>, <<"$", "$", ";">>}
           d == Delimiters["dollar"]
           t == Delimiters["tagged"]
           X == {body \in Seq(Characters) : Unclosed(body, d)}
           Y == {body \in Seq(Characters) : Unclosed(body, t)}
<1>1. Tag(d) /\ Tag(t)
  BY TagsAre, Zenon
<1>2. d[2] = "$" /\ t[2] = "x"
  <2>1. d = <<"$", "$">> /\ t = <<"$", "x", "$">>
    BY DEF Delimiters
  <2>2. <<"$", "$">>[2] = "$" /\ <<"$", "x", "$">>[2] = "x"
    OBVIOUS
  <2> HIDE DEF d, t
  <2> QED
    BY <2>1, <2>2, Zenon
<1> HIDE DEF d, t
<1>3. /\ ";" \in Characters /\ "'" \in Characters /\ "\"" \in Characters
      /\ ";" # "$" /\ "'" # "$" /\ "\"" # "$" /\ ";" # "x" /\ "$" # "x"
  BY Zenon DEF Characters
<1>4. A \subseteq X
  <2>1. <<";">> \in X /\ <<"'">> \in X
    BY <1>1, <1>3, ShortBodies, Zenon
  <2>2. <<"$", "x", "$", ";">> \in X
    BY <1>1, <1>2, <1>3, BodyOfTag, Zenon
  <2> HIDE DEF X
  <2> QED
    BY <2>1, <2>2, Zenon
<1>5. B \subseteq Y
  <2>1. <<";">> \in Y /\ <<"\"", ";">> \in Y
    BY <1>1, <1>3, ShortBodies, Zenon
  <2>2. <<"$", "$", ";">> \in Y
    BY <1>1, <1>2, <1>3, BodyOfDollars, Zenon
  <2> HIDE DEF Y
  <2> QED
    BY <2>1, <2>2, Zenon
<1>6. Bodied = [kind : {"dollar"}, body : A] \union [kind : {"tagged"}, body : B]
  BY Zenon DEF Bodied
<1>7. Dollars = [kind : {"dollar"}, body : X] /\ Tagged = [kind : {"tagged"}, body : Y]
  BY Zenon DEF Dollars, Tagged, d, t
<1> HIDE DEF A, B, X, Y
<1> QED
  BY <1>4, <1>5, <1>6, <1>7

LEMMA StatementsAre ==
  Statements \subseteq Seq(Segment)
<1>1. Segments \union Bodied \subseteq Segment
  BY SegmentsAre, BodiedAre, Zenon DEF Segment
<1>2. \A x \in Statements : x = <<>> \/ \E s \in Segments \union Bodied : x = <<s>>
  BY Zenon DEF Statements
<1>3. <<>> \in Seq(Segment) /\ \A s \in Segment : <<s>> \in Seq(Segment)
  OBVIOUS
<1> QED
  BY <1>1, <1>2, <1>3, Zenon

\* What is asked about SQL.
SqlTyped ==
  /\ part = "script" => /\ left \in Seq(Segment)
                        /\ chosen => right \in Seq(Segment) /\ given \in Seq(Segment)
  /\ part = "statement" => left \in Seq((Bare \union Literals) \union Identifiers)

LEMMA SqlTypedStays ==
  (Init => SqlTyped) /\ (SqlTyped /\ [Next]_vars => SqlTyped')
<1>1. Init => SqlTyped
  <2> SUFFICES ASSUME Init PROVE SqlTyped
    OBVIOUS
  <2>1. ASSUME part = "script"
        PROVE  left \in Seq(Segment) /\ chosen = FALSE
    <3>1. left \in SeqUpTo(Segments \union Bodied, 2) /\ chosen = FALSE
      BY <2>1, Zenon DEF Init
    <3>2. left \in Seq(Segments \union Bodied)
      BY <3>1, UpToIsSeq
    <3>3. Segments \union Bodied \subseteq Segment
      BY SegmentsAre, BodiedAre, Zenon DEF Segment
    <3> QED
      BY <3>1, <3>2, <3>3
  <2>2. ASSUME part = "statement"
        PROVE  left \in Seq((Bare \union Literals) \union Identifiers)
    <3>1. left \in SeqUpTo(Segments, 3)
      BY <2>2, Zenon DEF Init
    <3>2. left \in Seq(Segments)
      BY <3>1, UpToIsSeq
    <3> DEFINE R == (Bare \union Literals) \union Identifiers
    <3>3. Segments \subseteq R
      BY SegmentsAre, Zenon
    <3> HIDE DEF R
    <3>4. left \in Seq(R)
      BY <3>2, <3>3
    <3> QED
      BY <3>4 DEF R
  <2> QED
    BY <2>1, <2>2, Zenon DEF SqlTyped
<1>2. ASSUME SqlTyped, [Next]_vars, part = "script"
      PROVE  chosen' => right' \in Seq(Segment) /\ given' \in Seq(Segment)
  <2>1. CASE UNCHANGED vars
    BY <1>2, <2>1 DEF vars, SqlTyped
  <2>2. CASE Next
    <3>1. right' \in Statements /\ given' \in Statements
      BY <1>2, <2>2, Zenon DEF Next, Choose
    <3> QED
      BY <3>1, StatementsAre, Zenon
  <2> QED
    BY <1>2, <2>1, <2>2
<1> QED
  BY <1>1, <1>2, PartStays DEF SqlTyped

LEMMA SqlFollows ==
  SqlTyped => SqlIsKept
<1> SUFFICES ASSUME SqlTyped PROVE SqlIsKept
  OBVIOUS
<1>1. Asked("script") => SplitRestores(<<left, right, given>>)
  <2> SUFFICES ASSUME Asked("script") PROVE SplitRestores(<<left, right, given>>)
    OBVIOUS
  <2>1. left \in Seq(Segment) /\ right \in Seq(Segment) /\ given \in Seq(Segment)
    BY Zenon DEF SqlTyped, Asked
  <2> DEFINE T == Seq(Segment)
             s == <<left, right, given>>
  <2>2. s \in Seq(T) /\ Len(s) = 3
    BY <2>1
  <2> HIDE DEF s
  <2>3. Len(s) >= 1 /\ s \in Seq(Seq(Segment))
    BY <2>2
  <2>4. SplitRestores(s)
    BY <2>3, SplitKeeps, Zenon
  <2> QED
    BY <2>4, Zenon DEF s
<1>2. Asked("statement") => TranslationRestores(left)
  BY TranslationKeeps, Zenon DEF SqlTyped, Asked
<1> QED
  BY <1>1, <1>2, Zenon DEF SqlIsKept

\* SQL reaches PostgreSQL as it was written: a script as its statements, and a statement
\* with a parameter for each placeholder, whatever their literals, identifiers and bodies
\* contain and however long they are (core/store_impl/base.py).
THEOREM SqlStaysKept ==
  Init /\ [][Next]_vars => []SqlIsKept
BY SqlTypedStays, SqlFollows, PTL
==============================================================================
