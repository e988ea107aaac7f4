------------------------------ MODULE Evaluators -------------------------------
(***************************************************************************)
(* Automatic judgements of outputs: core/evaluators.py, of one output and  *)
(* of two against each other, and core/finance_evaluators.py, of figures,  *)
(* groups and paraphrases.                                                 *)
(*                                                                         *)
(* Scores are percentages.  A text is the sequence of its words; what a    *)
(* parser, the regex engine or the model behind an API makes of it is      *)
(* given.                                                                  *)
(***************************************************************************)
EXTENDS Statistics, Integers, FiniteSets, SequencesExt

Result(passed, score) == [passed |-> passed, score |-> score]
Failed == Result(FALSE, 0)
Tie == Result(FALSE, 50)   \* of a judgement that could not be made
Raises == Result(FALSE, -1)

Clamp(score) == Min({Max({score, 0}), 100})

-----------------------------------------------------------------------------
(* Dispatch: registered maps the names of a registry to what the function  *)
(* called returns.                                                         *)

PairwiseNames == {"pairwise_preference", "pairwise_conciseness",
                  "pairwise_expected_match", "pairwise_unknown"}

\* run_evaluators: an unknown name fails unless it is a pairwise one's, and so does
\* an evaluator that raises; the others still run.
RunEvaluators(names, registered) ==
  LET Answer(name) ==
        IF name \in DOMAIN registered
        THEN <<[name |-> name, result |->
               IF registered[name] = Raises THEN Failed ELSE registered[name]]>>
        ELSE IF name \in PairwiseNames THEN <<>>
        ELSE <<[name |-> name, result |-> Failed]>>
  IN FlattenSeq([i \in DOMAIN names |-> Answer(names[i])])

\* run_pairwise_evaluators: an unknown name is skipped, one that raises is a tie.
RunPairwise(names, registered) ==
  LET Answer(name) ==
        IF name \in DOMAIN registered
        THEN <<[name |-> name, result |->
               IF registered[name] = Raises THEN Tie ELSE registered[name]]>>
        ELSE <<>>
  IN FlattenSeq([i \in DOMAIN names |-> Answer(names[i])])

-----------------------------------------------------------------------------
(* Evaluators of one output.                                               *)

\* json: the output parses; check: "none" without a schema, else what validating
\* says: "valid", "mismatch", or "absent" without the library.
JsonSchema(json, check) ==
  IF ~json THEN Failed
  ELSE CASE check = "absent" -> Result(TRUE, 80)
         [] check = "mismatch" -> Result(FALSE, 30)
         [] OTHER -> Result(TRUE, 100)

\* search: "none" without a pattern, "invalid", "timeout", "found" or "missing".
RegexMatch(search) == IF search = "found" THEN Result(TRUE, 100) ELSE Failed

\* folded: what lower() makes of a word.
Cased(text, sensitive, folded) ==
  IF sensitive THEN text ELSE [i \in DOMAIN text |-> folded[text[i]]]

ExactMatch(text, expected, sensitive, folded) ==
  IF Cased(text, sensitive, folded) = Cased(expected, sensitive, folded)
  THEN Result(TRUE, 100) ELSE Failed

ContainsPart(text, part, sensitive, folded) ==
  LET t == Cased(text, sensitive, folded)
      p == Cased(part, sensitive, folded)
  IN IF \E i \in 1 .. Len(t) + 1 - Len(p) : SubSeq(t, i, i + Len(p) - 1) = p
     THEN Result(TRUE, 100) ELSE Failed

\* One percent off for each percent over the limit.
MaxLength(length, limit) ==
  IF length <= limit THEN Result(TRUE, 100)
  ELSE IF limit = 0 THEN Raises
  ELSE Result(FALSE, Clamp(100 - (100 * (length - limit)) \div limit))

LatencyCheck(latency, limit) == IF latency <= limit THEN Result(TRUE, 100) ELSE Failed

\* The score on the first line of the answer, "fails" without a key, after three
\* attempts, or without a number.
LlmEvaluate(answer) ==
  IF answer = -1 THEN Failed ELSE Result(Clamp(answer) >= 50, Clamp(answer))

-----------------------------------------------------------------------------
(* Evaluators of two outputs: above 50 prefers A, below it B.              *)

\* The judge's answer names one of the two labels, or neither.
Confidence == {"high", "medium", "low"}
NoAnswer == [winner |-> "none", confidence |-> "none"]

\* Whatever does not name A counts as an answer for B.
ParseWinner(answer) ==
  LET margin == CASE answer.confidence = "high" -> 40
                  [] answer.confidence = "low" -> 10
                  [] OTHER -> 25
  IN IF answer.winner = "A" THEN 50 + margin ELSE 50 - margin

\* The judge is shown two texts and says which of them is better, in its opinion of
\* the first and the second: the labels A and B are the prompt's.
Ask(judge, first, second, label) ==
  LET opinion == judge[<<first, second>>]
  IN IF opinion = NoAnswer THEN NoAnswer
     ELSE [winner |-> IF opinion.winner = "first" THEN label
                      ELSE IF opinion.winner = "second"
                           THEN (IF label = "A" THEN "B" ELSE "A")
                      ELSE "none",
           confidence |-> opinion.confidence]

\* Faulty: the second answer is read as if it were about the first order.
PairwisePreferenceUnswapped(judge, a, b, debias) ==
  LET one == Ask(judge, a, b, "A")
      two == Ask(judge, b, a, "A")
  IN IF one = NoAnswer THEN Tie
     ELSE IF ~debias \/ two = NoAnswer THEN Result(TRUE, ParseWinner(one))
     ELSE Result(TRUE, (ParseWinner(one) + ParseWinner(two)) \div 2)

\* Asked twice, the second time in the other order; the first answer stands alone
\* when the second call fails.
PairwisePreference(judge, a, b, debias) ==
  LET one == Ask(judge, a, b, "A")
      two == Ask(judge, b, a, "B")
      score1 == ParseWinner(one)
      score2 == IF two = NoAnswer THEN score1 ELSE ParseWinner(two)
  IN IF one = NoAnswer THEN Tie
     ELSE IF ~debias THEN Result(TRUE, score1)
     ELSE Result(TRUE, (score1 + score2) \div 2)

\* The share of the other's words, in hundredths.
Share(mine, theirs) == IF mine + theirs = 0 THEN 50 ELSE (100 * mine) \div (mine + theirs)

PairwiseConciseness(a, b) == Result(TRUE, Share(Len(b), Len(a)))

Overlap(text, expected) == Cardinality(ToSet(text) \intersect ToSet(expected))

PairwiseExpectedMatch(a, b, expected) ==
  IF expected = <<>> THEN Tie
  ELSE Result(TRUE, Share(Overlap(a, expected), Overlap(b, expected)))

-----------------------------------------------------------------------------
(* Finance evaluators.  A figure has a value and a kind; NaN is left out.  *)

Abs(x) == IF x < 0 THEN -x ELSE x

\* Within tolerance (in hundredths) of a source figure, relative to that one.
MatchesSource(value, source, tolerance) ==
  \E i \in DOMAIN source : 100 * Abs(value - source[i].value) <= tolerance * Abs(source[i].value)

Unreconciled(source, output, tolerance) ==
  FlattenSeq([i \in DOMAIN output |->
    IF MatchesSource(output[i].value, source, tolerance) THEN <<>> ELSE <<output[i]>>])

\* The score as flagged of total.
NumericalFidelity(source, output, tolerance) ==
  LET flagged == Unreconciled(source, output, tolerance)
  IN [flagged |-> flagged,
      total |-> Len(output),
      score |-> IF output = <<>> THEN 100
                ELSE (100 * (Len(output) - Len(flagged))) \div Len(output),
      faithful |-> flagged = <<>>]

\* threshold in tenths; "inf" is a ratio that nothing bounds.
BiasDisparity(scores, threshold) ==
  LET values == {scores[g] : g \in DOMAIN scores}
      most == Max(values)
      least == Min(values)
  IN IF Cardinality(DOMAIN scores) < 2 THEN [passes |-> FALSE, refused |-> TRUE]
     ELSE [passes |-> IF least <= 0 THEN most <= 0 ELSE 10 * most <= threshold * least,
           refused |-> FALSE]

\* cv <= threshold (in hundredths), by squares: the variance over the mean's square.
Consistent(scores, threshold) ==
  LET n == Len(scores)
      sum == SumOf(scores)
      spread == Spread(scores)
  IN IF sum = 0 THEN spread = 0
     ELSE 10000 * n * spread <= threshold * threshold * (n - 1) * sum * sum

-----------------------------------------------------------------------------
(* Properties, of the inputs.                                              *)

\* A configured list is run once against each output and once against the pair:
\* every name is answered, in its order, in exactly one of the two, except a
\* pairwise name nobody registered, and whatever raises takes no other's result.
EachAnsweredOnce(names, single, pairwise) ==
  LET alone == RunEvaluators(names, single)
      paired == RunPairwise(names, pairwise)
      Of(results) == [i \in DOMAIN results |-> results[i].name]
      Among(S) == FlattenSeq([i \in DOMAIN names |->
                    IF names[i] \in S THEN <<names[i]>> ELSE <<>>])
  IN /\ Of(alone) = Among(ToSet(names) \ PairwiseNames)
     /\ Of(paired) = Among(DOMAIN pairwise)
     /\ \A r \in ToSet(alone) \union ToSet(paired) : r.result.score \in 0 .. 100

\* A verdict is a percentage; what passes has at least half of it, what has all of
\* it passes.
Sound(r) ==
  r = Raises \/ (r.score \in 0 .. 100 /\ (r.passed => r.score >= 50)
                                      /\ (r.score = 100 => r.passed))

\* The evaluators of one output agree: what is equal contains, what matches with the
\* case matches without it, and passing goes with a high score in each of them.
VerdictsAgree(text, other, folded, length, limit, answer) ==
  /\ \A sensitive \in BOOLEAN :
       ExactMatch(text, other, sensitive, folded).passed =>
         ContainsPart(text, other, sensitive, folded).passed
  /\ ExactMatch(text, other, TRUE, folded).passed =>
       ExactMatch(text, other, FALSE, folded).passed
  /\ ContainsPart(text, other, TRUE, folded).passed =>
       ContainsPart(text, other, FALSE, folded).passed
  /\ \A json \in BOOLEAN, check \in {"none", "valid", "mismatch", "absent"} :
       Sound(JsonSchema(json, check))
  /\ \A search \in {"none", "invalid", "timeout", "found", "missing"} :
       Sound(RegexMatch(search))
  /\ Sound(MaxLength(length, limit)) /\ Sound(LatencyCheck(length, limit))
  /\ Sound(LlmEvaluate(answer))

\* Judging (b, a) is judging (a, b) from the other side, for a judge that always
\* answers: its preference for a position, whatever it is, cancels out, and only
\* what it says of the texts remains.
SwapMirrors(judge, a, b) ==
  LET answered == NoAnswer \notin {judge[<<a, b>>], judge[<<b, a>>]}
      ab == PairwisePreference(judge, a, b, TRUE).score
      ba == PairwisePreference(judge, b, a, TRUE).score
      named == {judge[<<a, b>>].winner, judge[<<b, a>>].winner} \subseteq {"first", "second"}
  IN answered /\ named =>
       /\ 2 * 100 - 2 * ab - 2 * ba \in 0 .. 2
       /\ judge[<<a, b>>] = judge[<<b, a>>] => ab = 50
       /\ judge[<<a, b>>].winner # judge[<<b, a>>].winner =>
            (ab > 50 <=> judge[<<a, b>>].winner = "first")

\* The shares of two outputs add up to the whole, and a shorter text, or one that
\* has more of the expected words, is not the one that is worse.
SharesMirror(a, b, expected) ==
  LET Whole(x, y) == 99 <= x.score + y.score /\ x.score + y.score <= 100
  IN /\ Whole(PairwiseConciseness(a, b), PairwiseConciseness(b, a))
     /\ Whole(PairwiseExpectedMatch(a, b, expected), PairwiseExpectedMatch(b, a, expected))
     /\ Len(a) <= Len(b) => PairwiseConciseness(a, b).score >= 50
     /\ ToSet(expected) \subseteq ToSet(a) => PairwiseExpectedMatch(a, b, expected).score >= 50

\* A figure is flagged unless the source has one close to it; a longer source never
\* flags more, and the order of the figures in it does not matter.
FidelityGrows(source, more, output, tolerance) ==
  LET r == NumericalFidelity(source, output, tolerance)
      s == NumericalFidelity(more \o source, output, tolerance)
  IN /\ ToSet(s.flagged) \subseteq ToSet(r.flagged)
     /\ r.faithful <=> r.score = 100
     /\ NumericalFidelity(source, source, tolerance).faithful
     /\ s = NumericalFidelity(source \o more, output, tolerance)

\* Groups pass exactly if no one of them scores more than the threshold times
\* another, where that can be said: with no score above zero they pass, with one
\* above zero and one not they never do.
DisparityIsPairwise(scores, threshold) ==
  LET r == BiasDisparity(scores, threshold)
      within == \A g, h \in DOMAIN scores : 10 * scores[g] <= threshold * scores[h]
  IN ~r.refused =>
       /\ (\A g \in DOMAIN scores : scores[g] > 0) => (r.passes <=> within)
       /\ (\A g \in DOMAIN scores : scores[g] <= 0) => r.passes
       /\ (\E g, h \in DOMAIN scores : scores[g] > 0 /\ scores[h] <= 0) => ~r.passes

\* Paraphrases that score alike are consistent at any threshold, and scaling all
\* scores changes nothing.
ConsistencyScales(scores, threshold) ==
  /\ Cardinality(ToSet(scores)) = 1 => Consistent(scores, threshold)
  /\ Consistent(scores, threshold) <=>
       Consistent([i \in DOMAIN scores |-> -2 * scores[i]], threshold)
=============================================================================
