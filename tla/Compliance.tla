------------------------------ MODULE Compliance -------------------------------
(***************************************************************************)
(* Validation memos: what a framework requires (core/regulatory_           *)
(* frameworks.py), the evidence a request brings or a model's linked runs  *)
(* give (backend/routes/compliance.py), and the memo made of them          *)
(* (core/compliance_reporter.py), with the coverage page of                *)
(* backend/routes/regulatory.py.                                           *)
(*                                                                         *)
(* A statistical result is the pair of what the memo looks at, a bias or   *)
(* fidelity result is whether it passes, a decision is its choice.  Prose, *)
(* in either language, and the layout of the document are left out.        *)
(***************************************************************************)
EXTENDS Integers, FiniteSets, SequencesExt

CONSTANT EvidenceLimit   \* decisions, and comparisons, read of one run (1000)

ASSUME ComplianceAssumption == EvidenceLimit \in Nat \ {0}

Requires(cycle, bias, oversight, artifacts) ==
  [cycle |-> cycle, bias |-> bias, oversight |-> oversight, artifacts |-> artifacts]

\* What each regime asks for: a revalidation within so many days, bias tests, human
\* oversight, and artifacts on file.
LocalRequirements ==
  [cbuae_mms |-> Requires(365, FALSE, TRUE,
     {"model_inventory_record", "model_materiality_tiering", "conceptual_soundness_review",
      "independent_validation_report", "ongoing_monitoring_report", "outcome_analysis",
      "data_management_framework", "governance_record", "validation_memo"}),
   cbuae |-> Requires(365, TRUE, TRUE,
     {"governance_record", "bias_fairness_assessment", "transparency_record",
      "human_oversight_evidence", "data_privacy_record", "validation_memo"}),
   uae_enabling_tech |-> Requires(365, FALSE, TRUE,
     {"governance_record", "model_inventory_record", "independent_validation_report",
      "technical_documentation", "transparency_record", "data_privacy_record",
      "human_oversight_evidence", "validation_memo"})]

ForeignRequirements ==
  [eu_ai_act |-> Requires(365, TRUE, TRUE,
     {"conformity_assessment", "ce_marking_evidence", "technical_documentation",
      "bias_fairness_assessment", "human_oversight_evidence", "outcome_analysis",
      "validation_memo"}),
   sr_26_2 |-> Requires(365, FALSE, TRUE,
     {"conceptual_soundness_review", "outcome_analysis", "ongoing_monitoring_report",
      "human_oversight_evidence", "validation_memo"}),
   pra_ss1_23 |-> Requires(365, FALSE, TRUE,
     {"supervisory_evidence_pack", "conceptual_soundness_review", "outcome_analysis",
      "ongoing_monitoring_report", "human_oversight_evidence", "validation_memo"})]

Regimes == DOMAIN LocalRequirements \union DOMAIN ForeignRequirements

Requirements ==
  [f \in Regimes |-> IF f \in DOMAIN LocalRequirements
                     THEN LocalRequirements[f] ELSE ForeignRequirements[f]]

-----------------------------------------------------------------------------
(* Evidence.                                                               *)

NoEvidence == [stats |-> <<>>, bias |-> <<>>, fidelity |-> <<>>, decisions |-> <<>>]

\* list_decisions and list_comparisons stop at the limit.
FirstOf(s) == SubSeq(s, 1, Min({Len(s), EvidenceLimit}))

\* groups: "none", "one" group, or groups that "pass" or "fail" the threshold; one
\* group alone is an error.
BiasOf(groups) == IF groups = "none" THEN <<>> ELSE <<groups = "pass">>

BuildEvidence(body) ==
  [stats |-> body.stats, bias |-> BiasOf(body.groups), fidelity |-> body.checks,
   decisions |-> FirstOf(body.decisions)]

\* Bias tests and checks that were made, statistics or decisions that were found.
EvidenceIsEmpty(e) == e = NoEvidence

\* A comparison of a linked run, as the outputs of its branches compare: grounded or
\* not, or "empty" when one has none.
FidelityOf(run) ==
  LET read == FirstOf(run.comparisons)
  IN FlattenSeq([i \in DOMAIN read |->
       IF read[i] = "empty" THEN <<>> ELSE <<read[i] = "grounded">>])

\* Faulty: the newest run speaks for all.
BuildFromNewest(runs, groups) ==
  IF runs = <<>> THEN NoEvidence
  ELSE [stats |-> <<>>, bias |-> IF groups = "one" THEN <<>> ELSE BiasOf(groups),
        fidelity |-> FidelityOf(runs[1]), decisions |-> FirstOf(runs[1].decisions)]

\* All linked runs, newest first, and the model's observed group scores if there are
\* two; a model without runs has no evidence, not even these.
BuildFromModel(runs, groups) ==
  IF runs = <<>> THEN NoEvidence
  ELSE [stats |-> <<>>,
        bias |-> IF groups = "one" THEN <<>> ELSE BiasOf(groups),
        fidelity |-> FlattenSeq([i \in DOMAIN runs |-> FidelityOf(runs[i])]),
        decisions |-> FlattenSeq([i \in DOMAIN runs |-> FirstOf(runs[i].decisions)])]

\* What the request brings, or what is linked if it brings nothing at all.
EvidenceFor(model, body) ==
  IF EvidenceIsEmpty(BuildEvidence(body))
  THEN BuildFromModel(model.runs, model.groups) ELSE BuildEvidence(body)

-----------------------------------------------------------------------------
(* Findings and memo.                                                      *)

MissingOf(model, regime) == Requirements[regime].artifacts \ model.present

AFinding(severity, category) == [severity |-> severity, category |-> category]

\* One finding for each of n things, as a sequence.
ForEach(n, finding) == [i \in 1 .. n |-> finding]
Count(s, Test(_)) == Cardinality({i \in DOMAIN s : Test(s[i])})
When(condition, finding) == ForEach(IF condition THEN 1 ELSE 0, finding)

GenerateFindings(model, regime, e) ==
  LET r == Requirements[regime]
      found ==
        FlattenSeq([i \in DOMAIN e.stats |->
            When(~e.stats[i].significant, AFinding("MEDIUM", "Statistical significance"))
              \o When(~e.stats[i].powered, AFinding("LOW", "Statistical power"))])
          \o When(r.bias /\ e.bias = <<>>, AFinding("HIGH", "Bias & fairness"))
          \o ForEach(Count(e.bias, LAMBDA passes : ~passes), AFinding("HIGH", "Bias & fairness"))
          \o ForEach(Count(e.fidelity, LAMBDA faithful : ~faithful),
                   AFinding("HIGH", "Numerical fidelity"))
          \o When(r.oversight /\ e.decisions = <<>>, AFinding("MEDIUM", "Human oversight"))
          \o ForEach(Cardinality(MissingOf(model, regime)),
                   AFinding("MEDIUM", "Regulatory coverage"))
          \o When(model.overdue, AFinding("MEDIUM", "Revalidation"))
  IN IF found = <<>> THEN <<AFinding("INFO", "Overall")>> ELSE found

\* None when there was nothing to assess.
OverallPass(results) ==
  IF results = <<>> THEN "none"
  ELSE IF \A i \in DOMAIN results : results[i] THEN "pass" ELSE "fail"

SummarizeDecisions(decisions) ==
  [total |-> Len(decisions),
   choices |-> [c \in ToSet(decisions) |-> Count(decisions, LAMBDA d : d = c)]]

BuildValidationMemo(model, regime, e) ==
  [comparisons |-> Len(e.stats),
   bias |-> OverallPass(e.bias),
   fidelity |-> OverallPass(e.fidelity),
   review |-> SummarizeDecisions(e.decisions),
   artifacts |-> [a \in Requirements[regime].artifacts |->
                    IF a \in model.present THEN "PRESENT" ELSE "MISSING"],
   complete |-> MissingOf(model, regime) = {},
   findings |-> GenerateFindings(model, regime, e)]

\* The answer and the row of the history; the document is rendered from a memo that
\* is built a second time, from the same evidence.
GenerateReport(model, known, regime, body, format) ==
  IF body.groups = "one" THEN [status |-> 400]
  ELSE IF ~known THEN [status |-> 404]
  ELSE LET memo == BuildValidationMemo(model, regime, EvidenceFor(model, body))
       IN [status |-> 200, memo |-> memo,
           record |-> [regime |-> regime, findings |-> Len(memo.findings),
                       complete |-> memo.complete, format |-> format]]

\* The coverage page: for each regime the model is under, what is on file.
ModelCoverage(model) ==
  [regimes |-> [f \in model.regimes |->
      [present |-> Requirements[f].artifacts \intersect model.present,
       missing |-> MissingOf(model, f),
       complete |-> Requirements[f].artifacts \subseteq model.present]],
   overall |-> \A f \in model.regimes : Requirements[f].artifacts \subseteq model.present]

-----------------------------------------------------------------------------
(* Properties, of a model, a regime and a request.                         *)

\* What stands between this model and a clean memo, whatever was supplied.
Problems(model, regime, e) ==
  LET r == Requirements[regime]
  IN \/ \E i \in DOMAIN e.stats : ~e.stats[i].significant \/ ~e.stats[i].powered
     \/ r.bias /\ e.bias = <<>>
     \/ FALSE \in ToSet(e.bias) \union ToSet(e.fidelity)
     \/ r.oversight /\ e.decisions = <<>>
     \/ ~(r.artifacts \subseteq model.present)
     \/ model.overdue

\* A memo gives the all-clear exactly when nothing stands in its way, and its
\* history row, its sections and the coverage page say the same as its findings.
MemoIsConsistent(model, regime, body) ==
  LET report == GenerateReport(model, TRUE, regime, body, "json")
      e == EvidenceFor(model, body)
      categories == {report.memo.findings[i].category : i \in DOMAIN report.memo.findings}
  IN report.status = 200 =>
       /\ "Overall" \in categories <=> ~Problems(model, regime, e)
       /\ "Overall" \in categories => report.record.findings = 1
       /\ report.record.complete <=> "Regulatory coverage" \notin categories
       /\ report.memo.bias = "fail" => "Bias & fairness" \in categories
       /\ report.memo.fidelity = "fail" <=> "Numerical fidelity" \in categories
       /\ (report.memo.review.total = 0 /\ Requirements[regime].oversight)
            <=> "Human oversight" \in categories
       /\ regime \in model.regimes =>
            (ModelCoverage(model).regimes[regime].complete <=> report.record.complete)
       /\ ModelCoverage(model).overall <=>
            \A f \in model.regimes :
              GenerateReport(model, TRUE, f, body, "json").record.complete

\* "linking a newer, empty run would blank the memo": evidence is gathered from
\* every linked run, so linking one more takes no failed check and no decision away,
\* and linking an empty one changes nothing.
LinkingKeeps(model, run, regime, body) ==
  LET Linked(m) == BuildFromModel(m.runs, m.groups)
      before == Linked(model)
      after == Linked([model EXCEPT !.runs = <<run>> \o @])
      Fails(e) == Count(e.fidelity, LAMBDA faithful : ~faithful)
  IN /\ Fails(after) >= Fails(before)
     /\ Len(after.decisions) >= Len(before.decisions)
     /\ run.comparisons = <<>> /\ run.decisions = <<>> /\ model.runs # <<>> =>
          GenerateReport([model EXCEPT !.runs = <<run>> \o @], TRUE, regime, body, "docx")
            = GenerateReport(model, TRUE, regime, body, "docx")
=============================================================================
