----------------------------- MODULE MCAlgorithms ------------------------------
(***************************************************************************)
(* The pure algorithms on bounded inputs: a state is a question, chosen in *)
(* two steps, and the invariants are what the answers must satisfy.        *)
(***************************************************************************)
EXTENDS Trajectories, Statistics, Evaluators, Compliance, SqlDialect, Dashboards

VARIABLES part, left, right, given, chosen

vars == <<part, left, right, given, chosen>>

SeqUpTo(S, n) == UNION {[1 .. k -> S] : k \in 0 .. n}

-----------------------------------------------------------------------------
(* Inputs.                                                                 *)

Steps == {"plan", "search", "book"}

Event(id, parents, types, outs, costs) ==
  {[id |-> id, parent |-> p, type |-> t, name |-> t, out |-> o,
    latency |-> n, tokens |-> 1, cost |-> 2 - n] :
      p \in parents, t \in types, o \in outs, n \in costs}

\* Traces for the walk: any parents, also missing ones (9), later ones and cycles.
Forests ==
  {<<e, f, g>> : e \in Event(1, 0 .. 3, {"tool_call"}, {"u"}, {1}),
                 f \in Event(2, 0 .. 3, {"reasoning"}, {"u"}, {1}),
                 g \in Event(3, {0, 1, 2, 3, 9}, {"tool_call"}, {"u"}, {1})}

Alone == Event(1, {0, 9}, {"tool_call", "reasoning"}, {"", "u"}, {0, 1})
Opening == Event(1, {0}, {"tool_call"}, {"", "u"}, {0, 1})
Following == Event(2, {0, 1, 9}, {"tool_call", "reasoning"}, {"", "v"}, {1})
Runs == {<<>>} \union {<<e>> : e \in Alone}
               \union {<<e, f>> : e \in Opening, f \in Following}

PValues == {0, 1, 2, 3, 5, 50, 99}

\* Pairs of score lists, some of them refused.
ScorePairs ==
  {<< <<0, 1>>, <<1, 1>> >>, << <<0, 1>>, <<1, 2>> >>, << <<1, 1>>, <<1, 1>> >>,
   << <<2, 0>>, <<1, 1>> >>, << <<1>>, <<1>> >>, << <<1, 2>>, <<1>> >>}

Words == {"one", "ONE", "two"}
Lower == [w \in Words |-> IF w = "ONE" THEN "one" ELSE w]

Opinions == {NoAnswer}
  \union [winner : {"first", "second", "none"}, confidence : Confidence]

Listed == {"json_schema", "bogus", "pairwise_preference", "pairwise_unknown"}
Outcomes == {Raises, Result(TRUE, 100), Result(FALSE, 30)}

Figures == [value : {-2, 0, 1, 100, 101}, kind : {"currency"}]

Silent == [stats |-> <<>>, groups |-> "none", checks |-> <<>>, decisions |-> <<>>]
Good == [significant |-> TRUE, powered |-> TRUE]
Weak == [significant |-> FALSE, powered |-> FALSE]
Bodies == {Silent} \union
  [stats : {<<>>, <<Good>>, <<Good, Weak>>}, groups : {"one", "pass", "fail"},
   checks : {<<>>, <<TRUE, FALSE>>}, decisions : {<<>>, <<"A", "A", "B">>}]

EmptyRun == [comparisons |-> <<>>, decisions |-> <<>>]
LinkedRuns == {EmptyRun} \union
  [comparisons : {<<"grounded">>, <<"ungrounded", "empty", "ungrounded">>},
   decisions : {<<>>, <<"B">>}]
Models ==
  [present : {Requirements["cbuae"].artifacts \union Requirements["sr_26_2"].artifacts,
              Requirements["sr_26_2"].artifacts \ {"outcome_analysis"}},
   overdue : BOOLEAN, regimes : {{}, {"cbuae", "sr_26_2"}},
   groups : {"none", "one", "pass", "fail"},
   runs : {<<>>} \union {<<r>> : r \in LinkedRuns}]

\* Rows of comparisons: decided ones may have lost their decision.
CompRows ==
  {[evalRun |-> e, decided |-> d, score |-> x, choice |-> c, review |-> r,
    a |-> 1, b |-> b] :
      e \in {"e1", "e2"}, d \in {TRUE}, x \in {NULL, 20, 99, 100}, c \in {"none", "A", "both"},
      r \in {"pending", "reviewed", "skipped"}, b \in {1}}
  \union
  {[evalRun |-> e, decided |-> FALSE, score |-> 20, choice |-> "none", review |-> r,
    a |-> 1, b |-> b] :
      e \in {"e1", "none"}, r \in {"assigned", "skipped"}, b \in {2, 3}}

\* Branches 1 and 2 are of run 1, which is in an eval run, branch 3 is of run 2.
BranchRun == <<1, 1, 2>>
Prices == [m \in {"priced"} |-> 2]
StepRows ==
  LET made == {[run |-> BranchRun[b], branch |-> b, model |-> m, tokens |-> n, cost |-> NULL] :
                 b \in 1 .. 3, m \in {"priced", "other"}, n \in 0 .. 2}
  IN {SaveStepOutput(s, Prices) : s \in made} \union {BatchSaveStepOutput(s) : s \in made}
ComparedPairs ==
  {[evalRun |-> e, decided |-> FALSE, score |-> NULL, choice |-> "none",
    review |-> "pending", a |-> 1, b |-> b] : e \in {"e1", "none"}, b \in {2, 3}}

CaseRows == [label : {"l1", "l2"}, workflow : {"w1", "w2"}]
PerformanceRows ==
  {[label |-> l, workflow |-> w, score |-> 20, choice |-> c] :
     l \in {"l1", "l2"}, w \in {"w1", "w2"}, c \in {"none", "B"}}
  \union {[label |-> "l1", workflow |-> "w2", score |-> NULL, choice |-> "A"]}

Segments ==
  [kind : {"bare"}, body : {<<"x">>, <<" ">>, <<"?">>, <<"%">>, <<"x", "?">>}]
  \union [kind : {"squote"},
          body : {<<>>, <<";">>, <<"?">>, <<"%">>, <<"'", "'", ";">>, <<"\"">>, <<"$", "$">>}]
  \union [kind : {"dquote"}, body : {<<";">>, <<"'">>, <<"?">>}]
Bodied ==
  [kind : {"dollar"}, body : {<<";">>, <<"'">>, <<"$", "x", "$", ";">>}]
  \union [kind : {"tagged"}, body : {<<";">>, <<"\"", ";">>, <<"$", "$", ";">>}]
Statements == {<<>>} \union {<<s>> : s \in Segments \union Bodied}

-----------------------------------------------------------------------------

Init ==
  /\ right = 0 /\ given = 0 /\ chosen = FALSE
  /\ \/ part = "sequences" /\ left \in SeqUpTo(Steps, 3)
     \/ part = "walk" /\ left \in Forests
     \/ part = "runs" /\ left \in Runs
     \/ part = "tests" /\ left \in UNION {[1 .. n -> PValues] : n \in 1 .. 4}
     \/ part = "scores" /\ left \in UNION {[1 .. n -> 0 .. 2] : n \in 2 .. 4}
     \/ part = "batch" /\ left \in UNION {[1 .. n -> ScorePairs] : n \in 1 .. 3}
     \/ part = "size" /\ left \in 1 .. 40
     \/ part = "texts" /\ left \in SeqUpTo(Words, 2)
     \/ part = "judge" /\ left \in [{<<1, 2>>, <<2, 1>>} -> Opinions]
     \/ part = "list" /\ left \in SeqUpTo(Listed, 3)
     \/ part = "figures" /\ left \in SeqUpTo(Figures, 2)
     \/ part = "groups" /\ left \in [1 .. 3 -> -1 .. 4] \union [1 .. 1 -> 0 .. 1]
     \/ part = "paraphrases" /\ left \in UNION {[1 .. n -> -1 .. 6] : n \in 2 .. 3}
     \/ part = "memo" /\ left \in Models
     \/ part = "board" /\ left \in SeqUpTo(CompRows, 2)
     \/ part = "costs" /\ left \in SeqUpTo(StepRows, 2)
     \/ part = "corpus" /\ left \in SeqUpTo(CaseRows, 3)
     \/ part = "script" /\ left \in SeqUpTo(Segments \union Bodied, 2)
     \/ part = "statement" /\ left \in SeqUpTo(Segments, 3)

\* The rest of the question.
Choose(p, rights, givens) ==
  /\ part = p
  /\ ~chosen /\ chosen' = TRUE
  /\ right' \in rights /\ given' \in givens
  /\ UNCHANGED <<part, left>>

Next ==
  \/ Choose("sequences", SeqUpTo(Steps, 3), {0})
  \/ Choose("walk", {0}, {0})
  \/ Choose("runs", Runs, {JudgeDivergence(3), EmbeddingDivergence(-10, TRUE)})
  \/ Choose("tests", {0}, {2, 5, 10})
  \/ part = "scores" /\ Choose("scores", [DOMAIN left -> 0 .. 2], {3, 50})
  \/ part = "batch" /\ Choose("batch", [DOMAIN left -> {1, 3, 60}], {5})
  \/ Choose("size", {0}, {0})
  \/ Choose("texts", SeqUpTo(Words, 3), SeqUpTo(Words, 2))
  \/ Choose("judge", {0}, {0})
  \/ Choose("list", [{"json_schema"} -> Outcomes], [{"pairwise_preference"} -> Outcomes])
  \/ Choose("figures", SeqUpTo(Figures, 2), {0, 1, 2})
  \/ Choose("groups", {10, 12, 20}, {0})
  \/ Choose("paraphrases", {15, 50}, {0})
  \/ Choose("memo", Bodies, {"cbuae", "sr_26_2"})
  \/ Choose("board", {0}, {0})
  \/ Choose("costs", SeqUpTo(ComparedPairs, 2), {<<"e1", "none">>, <<"e1", "e1">>})
  \/ Choose("corpus", SeqUpTo(PerformanceRows, 2), {0, 1, 2})
  \/ Choose("script", Statements, Statements)
  \/ Choose("statement", {0}, {0})

-----------------------------------------------------------------------------

Asked(p) == chosen /\ part = p

\* Comparing B with A is comparing A with B seen from the other side: trajectory
\* scores, win rates and effects, a judge's verdicts and the shares of the
\* deterministic comparisons (core/trajectory_comparator.py, core/evaluators.py,
\* core/statistical_analyzer.py).
ComparisonsMirror ==
  /\ Asked("runs") => ComparisonMirrors(left, right, given)
  /\ Asked("scores") =>
       \A paired \in BOOLEAN : SummaryMirrors(left, right, paired, given, 5)
  /\ Asked("judge") => SwapMirrors(left, 1, 2)
  /\ Asked("texts") => SharesMirror(left, right, given)

\* What is computed by tables, running minima and tolerances is what its definition
\* says: edit distance, the events of a walk, the step-up correction, sample sizes,
\* figures not in the source, disparity and consistency.
MeasuresAreExact ==
  /\ Asked("sequences") => DistanceIsLeast(left, right)
  /\ Asked("walk") => WalkIsWhole(left)
  /\ Asked("tests") => StepUp(left, given)
  /\ Asked("batch") => BatchInOrder(left, right, given)
  /\ Asked("size") => PowerInverse(left)
  /\ Asked("figures") => \A f \in Figures : FidelityGrows(left, <<f>>, right, given)
  /\ Asked("groups") => DisparityIsPairwise(left, right)
  /\ Asked("paraphrases") => ConsistencyScales(left, right)

\* Every configured evaluator answers once, with a verdict that fits its score, and
\* a memo's findings, sections, history row and coverage page agree, whatever runs
\* are linked; the pages that count the same rows agree, too (core/evaluators.py,
\* core/compliance_reporter.py, core/store_impl/evalruns.py, stats.py, flywheel.py).
ReportsAgree ==
  /\ Asked("list") => EachAnsweredOnce(left, right, given)
  /\ Asked("texts") =>
       \A n \in {0, 3, 10}, answer \in {-1, 49, 50, 120} :
         VerdictsAgree(left, right, Lower, n, 3, answer)
  /\ Asked("memo") =>
       /\ MemoIsConsistent(left, given, right)
       /\ \A run \in LinkedRuns : LinkingKeeps(left, run, given, right)
  /\ Asked("board") => \A e \in {"e1", "e2"} :
       BoardsAgree(EvalRunStats(left, <<>>, e), BatchEvalRunStats(left, {"e1", "e2"})[e],
                   ReviewStats(left, e), {left[i] : i \in RowsOf(left, e)})
  /\ Asked("costs") => CostsAgree(left, right, given, "e1")
  /\ Asked("corpus") => CorpusIsOwn(left, right, given)

\* SQL reaches PostgreSQL as it was written: scripts as their statements, and
\* statements with a parameter for each placeholder (core/store_impl/base.py).
SqlIsKept ==
  /\ Asked("script") => SplitRestores(<<left, right, given>>)
  /\ Asked("statement") => TranslationRestores(left)
=============================================================================
