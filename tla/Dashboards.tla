------------------------------ MODULE Dashboards -------------------------------
(***************************************************************************)
(* What the pages count: the progress of eval runs (core/store_impl/       *)
(* evalruns.py), of their review (collaboration.py), what runs cost        *)
(* (stats.py, branches.py) and the record of a test case (flywheel.py).    *)
(* Each page has queries of its own over the same rows.                    *)
(*                                                                         *)
(* Scores are percentages, prices are per token; tokens_output and the     *)
(* confidence of decisions, which are counted alike, are left out.         *)
(***************************************************************************)
EXTENDS Integers, FiniteSets, SequencesExt

NULL == -1   \* of a score or a cost

SumOver(f) == FoldFunction(+, 0, f)

\* The elements of s that are in A, in the order of s.
Kept(s, A) == FlattenSeq([n \in DOMAIN s |-> IF s[n] \in A THEN <<s[n]>> ELSE <<>>])

\* AVG and sum / len skip NULL; the average as sum and count.
Average(scores) == [sum |-> SumOver(scores), n |-> Cardinality(DOMAIN scores)]

-----------------------------------------------------------------------------
(* Eval runs.                                                              *)

DecisionChoices == {"A", "B", "neither", "both"}

RowsOf(comps, e) == {i \in DOMAIN comps : comps[i].evalRun = e}

ScoresOf(comps, rows) ==
  [i \in {j \in rows : comps[j].score # NULL} |-> comps[i].score]

Bucket(score) == Min({(5 * score) \div 100, 4})

\* The tokens of a branch count for each comparison it is in.
TokensOf(comps, rows, steps, side) ==
  LET joined == {ik \in rows \X DOMAIN steps : comps[ik[1]][side] = steps[ik[2]].branch}
  IN SumOver([ik \in joined |-> steps[ik[2]].tokens])

\* The page of one eval run.
EvalRunStats(comps, steps, e) ==
  LET rows == RowsOf(comps, e)
      scores == ScoresOf(comps, rows)
      decided == Cardinality({i \in rows : comps[i].decided})
  IN [total |-> Cardinality(rows), decided |-> decided,
      pending |-> Cardinality(rows) - decided, average |-> Average(scores),
      buckets |-> [b \in 0 .. 4 |-> Cardinality({i \in DOMAIN scores : Bucket(scores[i]) = b})],
      choices |-> [c \in DecisionChoices |-> Cardinality({i \in rows : comps[i].choice = c})],
      tokens |-> [s \in {"a", "b"} |-> TokensOf(comps, rows, steps, s)]]

\* The list of eval runs: grouped rows, and zeros for those without any.
BatchEvalRunStats(comps, asked) ==
  LET grouped == {comps[i].evalRun : i \in DOMAIN comps} \intersect asked
      Of(e) == RowsOf(comps, e)
      decided == [e \in grouped |->
                    SumOver([i \in Of(e) |-> IF comps[i].decided THEN 1 ELSE 0])]
  IN [e \in asked |->
        IF e \in grouped
        THEN [total |-> Cardinality(Of(e)), decided |-> decided[e],
              pending |-> Cardinality(Of(e)) - decided[e],
              average |-> Average(ScoresOf(comps, Of(e)))]
        ELSE [total |-> 0, decided |-> 0, pending |-> 0, average |-> Average(<<>>)]]

\* Comparisons that are skipped are in the total only.
ReviewStats(comps, e) ==
  LET In(status) == Cardinality({i \in RowsOf(comps, e) : comps[i].review = status})
  IN [total |-> Cardinality(RowsOf(comps, e)), reviewed |-> In("reviewed"),
      assigned |-> In("assigned"), pending |-> In("pending")]

-----------------------------------------------------------------------------
(* Costs.                                                                  *)

\* A step saved by itself is priced if its model is; steps saved in a batch, as the
\* SDK does, are not.
SaveStepOutput(step, prices) ==
  [step EXCEPT !.cost = IF step.tokens = 0 \/ step.model \notin DOMAIN prices THEN NULL
                        ELSE step.tokens * prices[step.model]]
BatchSaveStepOutput(step) == [step EXCEPT !.cost = NULL]

CostOf(steps, rows) ==
  SumOver([k \in rows |-> IF steps[k].cost = NULL THEN 0 ELSE steps[k].cost])

\* Grouped by branch and model; the totals are those of the groups.
CostBreakdown(steps, rows) ==
  LET groups == {<<steps[k].branch, steps[k].model>> : k \in rows}
      branches == [g \in groups |->
        LET mine == {k \in rows : g = <<steps[k].branch, steps[k].model>>}
        IN [cost |-> CostOf(steps, mine), steps |-> Cardinality(mine),
            tokens |-> SumOver([k \in mine |-> steps[k].tokens])]]
  IN [branches |-> branches,
      cost |-> SumOver([g \in groups |-> branches[g].cost]),
      tokens |-> SumOver([g \in groups |-> branches[g].tokens])]

\* The steps of a comparison, of a run, of an eval run.
ComparisonSteps(steps, comp) == {k \in DOMAIN steps : steps[k].branch \in {comp.a, comp.b}}
RunSteps(steps, r) == {k \in DOMAIN steps : steps[k].run = r}
EvalRunSteps(steps, evalOf, e) == {k \in DOMAIN steps : evalOf[steps[k].run] = e}

-----------------------------------------------------------------------------
(* Test cases.                                                             *)

AnyWorkflow == "any"

PerformanceStats(rows, label, workflow) ==
  LET mine == {i \in DOMAIN rows : /\ rows[i].label = label
                                   /\ workflow \in {AnyWorkflow, rows[i].workflow}}
      scored == {i \in mine : rows[i].score # NULL}
  IN [runs |-> Cardinality(mine),
      average |-> Average([i \in scored |-> rows[i].score]),
      choices |-> [c \in DecisionChoices |-> Cardinality({i \in mine : rows[i].choice = c})]]

\* The cases of a workflow, or all, whose label was run often enough in any
\* workflow.  The record of a label is looked up once, for the workflow of the first
\* case that has it.
ExportTestCaseCorpus(cases, rows, workflow, minRuns) ==
  LET Often(i) == PerformanceStats(rows, cases[i].label, AnyWorkflow).runs >= minRuns
      asked == {i \in DOMAIN cases : workflow \in {AnyWorkflow, cases[i].workflow} /\ Often(i)}
      lines == Kept([i \in DOMAIN cases |-> i], asked)
      First(i) == Min({j \in ToSet(lines) : cases[j].label = cases[i].label})
  IN [n \in DOMAIN lines |->
        [case |-> lines[n],
         performance |-> PerformanceStats(rows, cases[lines[n]].label,
                                          cases[First(lines[n])].workflow)]]

-----------------------------------------------------------------------------
(* Properties, of the rows.                                                *)

\* The pages of one eval run, of the list and of the review count the same
\* comparisons; each score is in one bucket, and each decision has one choice.
BoardsAgree(one, listed, review, rows) ==
  /\ \A f \in DOMAIN listed : one[f] = listed[f]
  /\ review.total = one.total
  /\ review.reviewed + review.assigned + review.pending <= review.total
  /\ SumOver(one.buckets) = one.average.n
  /\ (\A c \in rows : c.decided <=> c.choice # "none") => SumOver(one.choices) = one.decided

\* An eval run costs what its runs cost, however the cost of each is divided among
\* branches and models, and the tokens on its page are those of its comparisons.
CostsAgree(steps, comps, evalOf, e) ==
  LET whole == CostBreakdown(steps, EvalRunSteps(steps, evalOf, e))
      runs == [r \in {x \in DOMAIN evalOf : evalOf[x] = e} |->
                 CostBreakdown(steps, RunSteps(steps, r))]
      compared == [i \in RowsOf(comps, e) |->
                     CostBreakdown(steps, ComparisonSteps(steps, comps[i]))]
      tokens == EvalRunStats(comps, steps, e).tokens
  IN /\ whole.cost = SumOver([r \in DOMAIN runs |-> runs[r].cost])
     /\ whole.tokens = SumOver([r \in DOMAIN runs |-> runs[r].tokens])
     /\ (\A i \in DOMAIN comps : comps[i].a # comps[i].b) =>
          tokens.a + tokens.b = SumOver([i \in DOMAIN compared |-> compared[i].tokens])

\* A line of a workflow's corpus has the record of the case in that workflow, and
\* the corpus of everything has the same lines as long as no two workflows have a
\* case with the same label.
CorpusIsOwn(cases, rows, minRuns) ==
  LET everything == ExportTestCaseCorpus(cases, rows, AnyWorkflow, minRuns)
      Own(line) == line.performance =
        PerformanceStats(rows, cases[line.case].label, cases[line.case].workflow)
      distinct == \A i, j \in DOMAIN cases : cases[i].label = cases[j].label =>
                    cases[i].workflow = cases[j].workflow
  IN \A w \in {cases[i].workflow : i \in DOMAIN cases} :
       LET mine == ExportTestCaseCorpus(cases, rows, w, minRuns)
       IN /\ \A line \in ToSet(mine) : Own(line)
          /\ distinct =>
               mine = Kept(everything, {line \in ToSet(everything) : cases[line.case].workflow = w})
=============================================================================
