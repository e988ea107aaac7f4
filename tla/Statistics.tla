------------------------------ MODULE Statistics -------------------------------
(***************************************************************************)
(* The statistics of A/B comparisons (core/statistical_analyzer.py and     *)
(* backend/routes/statistics.py).                                          *)
(*                                                                         *)
(* Scores are integers, successes are counted in halves, p-values and      *)
(* alpha in percent.  A square root is kept as its square: an effect as    *)
(* its sign and its square, the Wilson interval as its centre and the      *)
(* square of its margin.  The p-value of a t-test that has one is given.   *)
(***************************************************************************)
EXTENDS Integers, FiniteSets, SequencesExt

CONSTANTS
  ZSquared,     \* the square of the normal quantile of the interval
  PowerSquared  \* (z_alpha + z_power)^2, in hundredths

ASSUME StatisticsAssumption == ZSquared \in Nat \ {0} /\ PowerSquared \in Nat \ {0}

\* Fractions with a positive denominator.
Over(n, d) == [num |-> n, den |-> d]
Leq(f, g) == f.num * g.den <= g.num * f.den
Lt(f, g) == f.num * g.den < g.num * f.den
LeastOf(fs) == CHOOSE f \in fs : \A g \in fs : Leq(f, g)

Refused == <<>>   \* a ValueError: no result

-----------------------------------------------------------------------------
(* False discovery rate.                                                   *)

\* The position of test i in the order of the p-values.
RankOf(p, i) ==
  Cardinality({j \in DOMAIN p : p[j] < p[i] \/ (p[j] = p[i] /\ j <= i)})

\* Faulty: the adjustment stops at its own rank.
AdjustedInRank(p, i) ==
  LET adjusted == Over(p[i] * Len(p), RankOf(p, i))
  IN IF Lt(Over(100, 1), adjusted) THEN Over(100, 1) ELSE adjusted

\* p * m / rank, the least of it and those of higher rank, at most 1.
Adjusted(p, i) ==
  LET adjusted == LeastOf({Over(p[j] * Len(p), RankOf(p, j)) :
                             j \in {k \in DOMAIN p : RankOf(p, k) >= RankOf(p, i)}})
  IN IF Lt(Over(100, 1), adjusted) THEN Over(100, 1) ELSE adjusted

BenjaminiHochberg(p) ==
  IF p = <<>> THEN Refused ELSE [i \in DOMAIN p |-> Adjusted(p, i)]

-----------------------------------------------------------------------------
(* One comparison.                                                         *)

SumOf(s) ==
  LET sum[n \in 0 .. Len(s)] == IF n = 0 THEN 0 ELSE sum[n - 1] + s[n]
  IN sum[Len(s)]
Differences(a, b) == [i \in DOMAIN a |-> a[i] - b[i]]
Squares(s) == [i \in DOMAIN s |-> s[i] * s[i]]

\* n - 1 times n times the variance.
Spread(s) == Len(s) * SumOf(Squares(s)) - SumOf(s) * SumOf(s)

\* Wins of A count two halves, ties one.
WinHalves(a, b) ==
  2 * Cardinality({i \in DOMAIN a : a[i] > b[i]})
    + Cardinality({i \in DOMAIN a : a[i] = b[i]})

\* The interval around halves/2 of n.
Wilson(halves, n) ==
  [centre |-> Over(halves + ZSquared, 2 * (n + ZSquared)),
   margin2 |-> Over(ZSquared * (halves * (2 * n - halves) + n * ZSquared),
                    4 * n * (n + ZSquared) * (n + ZSquared))]

\* x is in the interval.
Covers(interval, x) ==
  LET d == x.num * interval.centre.den - interval.centre.num * x.den
      w == x.den * interval.centre.den
  IN Leq(Over(d * d, w * w), interval.margin2)

Sign(x) == IF x > 0 THEN 1 ELSE IF x < 0 THEN -1 ELSE 0

\* The effect over the variance of the differences: none when they do not vary.
PairedEffect(a, b) ==
  LET d == Differences(a, b)
      n == Len(a)
  IN IF Spread(d) = 0 THEN [sign |-> 0, square |-> Over(0, 1)]
     ELSE [sign |-> Sign(SumOf(d)),
           square |-> Over(SumOf(d) * SumOf(d) * (n - 1), n * Spread(d))]

\* With the variances of the branches pooled, for independent samples.
PooledEffect(a, b) ==
  LET n == Len(a)
      m == SumOf(a) - SumOf(b)
      s == Spread(a) + Spread(b)
  IN IF s = 0 THEN [sign |-> 0, square |-> Over(0, 1)]
     ELSE [sign |-> Sign(m), square |-> Over(2 * (n - 1) * m * m, n * s)]

\* The p-value: 1 or 0 where the statistic is undefined, else the test's.
PairedP(a, b, given) ==
  LET d == Differences(a, b)
  IN IF Spread(d) # 0 THEN given ELSE IF SumOf(d) = 0 THEN 100 ELSE 0

WelchP(a, b, given) ==
  IF Spread(a) # 0 \/ Spread(b) # 0 THEN given
  ELSE IF SumOf(a) = SumOf(b) THEN 100 ELSE 0

\* The square of the least effect that n samples detect.
LeastEffectSquared(n, paired) == Over((IF paired THEN 1 ELSE 2) * PowerSquared, 100 * n)

\* The samples per branch for an effect of d tenths: the least n with
\* n >= 2 (z_alpha + z_power)^2 / d^2, at least 2.
PowerAnalysis(d) ==
  IF d = 0 THEN Refused ELSE Max({2, (2 * PowerSquared + d * d - 1) \div (d * d)})

ValidPair(a, b) == Len(a) = Len(b) /\ Len(a) >= 2

Analyze(a, b, paired, given, alpha) ==
  LET p == IF paired THEN PairedP(a, b, given) ELSE WelchP(a, b, given)
  IN [wins |-> WinHalves(a, b),
      interval |-> Wilson(WinHalves(a, b), Len(a)),
      p |-> p,
      adjusted |-> Over(p, 1),
      effect |-> IF paired THEN PairedEffect(a, b) ELSE PooledEffect(a, b),
      significant |-> p < alpha,
      n |-> Len(a),
      least |-> LeastEffectSquared(Len(a), paired)]

\* The comparisons judged by their adjusted p-values.
Corrected(base, adjusted, alpha) ==
  [i \in DOMAIN base |->
     [base[i] EXCEPT !.adjusted = adjusted[i],
                     !.significant = Lt(adjusted[i], Over(alpha, 1))]]

\* The p-values of all comparisons are corrected together.
CorrectedTogether(base, alpha) ==
  Corrected(base, BenjaminiHochberg([i \in DOMAIN base |-> base[i].p]), alpha)

AnalyzeBatch(pairs, paired, given, alpha) ==
  CorrectedTogether(
    [i \in DOMAIN pairs |-> Analyze(pairs[i][1], pairs[i][2], paired, given[i], alpha)],
    alpha)

\* POST /api/statistics/analyze: a batch goes before a single pair, which is not
\* corrected; what is not valid is refused.
AnalyzeScores(single, pairs, given, alpha) ==
  LET asked == IF pairs # <<>> THEN pairs ELSE single
  IN IF asked = <<>> \/ \E i \in DOMAIN asked : ~ValidPair(asked[i][1], asked[i][2])
     THEN Refused
     ELSE IF pairs # <<>> THEN AnalyzeBatch(pairs, TRUE, given, alpha)
     ELSE <<Analyze(single[1][1], single[1][2], TRUE, given[1], alpha)>>

\* Cohen's thresholds 0.2, 0.5 and 0.8.
EffectMagnitude(effect) ==
  IF Lt(effect.square, Over(4, 100)) THEN "negligible"
  ELSE IF Lt(effect.square, Over(25, 100)) THEN "small"
  ELSE IF Lt(effect.square, Over(64, 100)) THEN "medium" ELSE "large"

\* What the prose says, in English and in Arabic alike.
PlainEnglish(r) ==
  [magnitude |-> EffectMagnitude(r.effect),
   favours |-> IF r.effect.sign >= 0 THEN "A" ELSE "B",
   significant |-> r.significant,
   powered |-> Leq(r.least, r.effect.square)]

-----------------------------------------------------------------------------
(* Properties, of the inputs.                                              *)

\* The step-up procedure of Benjamini and Hochberg for a level alpha: reject every
\* p up to the largest whose rank k has p * m / k below alpha.
Rejected(p, alpha) ==
  LET below == {k \in 1 .. Len(p) :
        \E i \in DOMAIN p : RankOf(p, i) = k /\ p[i] * Len(p) < alpha * k}
  IN {i \in DOMAIN p : \E k \in below : RankOf(p, i) <= k}

\* Comparing the adjusted p-values with alpha is the step-up procedure; they keep
\* the order of the raw ones, equal ones stay equal, and none gets smaller.
StepUp(p, alpha) ==
  LET q == BenjaminiHochberg(p)
  IN /\ {i \in DOMAIN p : Lt(q[i], Over(alpha, 1))} = Rejected(p, alpha)
     /\ \A i, j \in DOMAIN p : p[i] <= p[j] => Leq(q[i], q[j])
     /\ \A i \in DOMAIN p : Leq(Over(p[i], 1), q[i]) /\ Leq(q[i], Over(100, 1))

\* The results of a comparison and of the same one with its branches swapped.
Mirrored(ab, ba) ==
  /\ ab.wins + ba.wins = 2 * ab.n
  /\ Covers(ab.interval, Over(ab.wins, 2 * ab.n))
  /\ ab.interval.margin2 = ba.interval.margin2
  /\ ab.interval.centre.num + ba.interval.centre.num = ab.interval.centre.den
  /\ ab.effect.sign = -ba.effect.sign /\ ab.effect.square = ba.effect.square
  /\ ab.p = ba.p /\ ab.significant = ba.significant
  /\ PlainEnglish(ab).magnitude = PlainEnglish(ba).magnitude
  /\ ab.effect.sign # 0 => PlainEnglish(ab).favours # PlainEnglish(ba).favours

\* Swapping baseline and challenger gives the complementary win rate, the opposite
\* effect and the same significance; the win rate lies in its own interval.
SummaryMirrors(a, b, paired, given, alpha) ==
  Mirrored(Analyze(a, b, paired, given, alpha), Analyze(b, a, paired, given, alpha))

\* What a comparison gives beside its judgement.
Unjudged(r) == [r EXCEPT !.adjusted = 0, !.significant = FALSE]

\* A batch gives each comparison, in the order asked, the result it has alone but
\* for the correction; it rejects what the step-up procedure rejects of the raw
\* p-values, and a batch of one is the single comparison.
InOrder(batch, alone, alpha) ==
  IF \E i \in DOMAIN alone : alone[i] = Refused THEN batch = Refused
  ELSE /\ {i \in DOMAIN alone : batch[i].significant}
            = Rejected([i \in DOMAIN alone |-> alone[i][1].p], alpha)
       /\ \A i \in DOMAIN alone :
            /\ batch[i].significant => alone[i][1].significant
            /\ Len(alone) = 1 => batch[i].significant = alone[i][1].significant
            /\ Unjudged(batch[i]) = Unjudged(alone[i][1])

BatchInOrder(pairs, given, alpha) ==
  InOrder(AnalyzeScores(<<>>, pairs, given, alpha),
          [i \in DOMAIN pairs |-> AnalyzeScores(<<pairs[i]>>, <<>>, <<given[i]>>, alpha)],
          alpha)

\* The sample size for an effect of d tenths detects it, and one less does not.
PowerInverse(d) ==
  LET n == PowerAnalysis(d)
      Detects(m) == Leq(LeastEffectSquared(m, FALSE), Over(d * d, 100))
  IN Detects(n) /\ (n > 2 => ~Detects(n - 1))
=============================================================================
