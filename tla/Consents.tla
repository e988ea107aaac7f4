------------------------------ MODULE Consents --------------------------------
(***************************************************************************)
(* Consents to share data, and the export of decisions that asks for them  *)
(* while it is streamed (core/store_impl/flywheel.py,                      *)
(* backend/routes/settings.py).                                            *)
(*                                                                         *)
(* A decision is its workflow: texts, scores, reviewers and their profiles *)
(* are left out.  Time counts steps of the clock that consents expire by.  *)
(***************************************************************************)
EXTENDS Server, Sequences

CONSTANTS
  Exporter,        \* threads that export
  CorpusWorkflow,  \* workflows with decisions
  ConsentId,       \* consents that may be given
  MaxDecisions,    \* bound: decisions with a winner
  CorpusHorizon    \* bound: the last instant

ASSUME ConsentsAssumption ==
  /\ IsFiniteSet(Exporter) /\ IsFiniteSet(CorpusWorkflow) /\ IsFiniteSet(ConsentId)
  /\ {MaxDecisions, CorpusHorizon} \subseteq Nat

VARIABLES
  decided,      \* the workflow of each decision, in their order
  consents,     \* rows of data_consent
  corpusNow,    \* the clock
  exportReq,    \* the exporters
  inForce       \* history: workflows with a consent at some instant of the export

consentVars == <<decided, consents, corpusNow, exportReq, inForce>>

-----------------------------------------------------------------------------

Consent ==
  [scope: {"global", "workflow"},
   workflow: CorpusWorkflow,
   kind: {"training_data", "other"},
   expires: 0 .. CorpusHorizon + 1,   \* CorpusHorizon + 1 is never
   active: BOOLEAN]

\* A consent that was not given.
NotGiven == [scope |-> "none"]

ConsentsTypeOK ==
  /\ decided \in Seq(CorpusWorkflow) /\ Len(decided) <= MaxDecisions
  /\ consents \in [ConsentId -> Consent \union {NotGiven}]
  /\ corpusNow \in 0 .. CorpusHorizon
  /\ exportReq \in [Exporter -> {Idle} \union
       [pc: {"export"}, todo: Seq(CorpusWorkflow),
        asked: SUBSET CorpusWorkflow,    \* keys of consent_cache ...
        granted: SUBSET CorpusWorkflow,  \* ... that are True
        sent: SUBSET CorpusWorkflow]]    \* workflows of the lines sent
  /\ inForce \in [Exporter -> SUBSET CorpusWorkflow]

ConsentsInit ==
  /\ decided = <<>>
  /\ consents = [i \in ConsentId |-> NotGiven]
  /\ corpusNow = 0
  /\ exportReq = [t \in Exporter |-> Idle]
  /\ inForce = [t \in Exporter |-> {}]

-----------------------------------------------------------------------------
\* An unexpired, active consent of this kind is in force for workflow w.
InForce(rows, now, w) ==
  \E i \in ConsentId :
    /\ rows[i] # NotGiven
    /\ rows[i].active /\ rows[i].kind = "training_data"
    /\ rows[i].expires >= now
    /\ rows[i].scope = "global" \/ rows[i].workflow = w

\* What an export that is going on may rely on after this step.
Observe ==
  inForce' = [t \in Exporter |->
    IF exportReq[t].pc # "export" THEN {}
    ELSE inForce[t] \union {w \in CorpusWorkflow : InForce(consents', corpusNow', w)}]

\* grant_consent: the scope is "global" unless the caller says otherwise.
GrantConsent(i, row) ==
  /\ consents[i] = NotGiven
  /\ row.active
  /\ consents' = [consents EXCEPT ![i] = row]
  /\ UNCHANGED <<decided, corpusNow, exportReq>>
  /\ Observe

\* revoke_consent
RevokeConsent(i) ==
  /\ consents[i] # NotGiven
  /\ consents' = [consents EXCEPT ![i].active = FALSE]
  /\ UNCHANGED <<decided, corpusNow, exportReq>>
  /\ Observe

ConsentTick ==
  /\ corpusNow < CorpusHorizon
  /\ corpusNow' = corpusNow + 1
  /\ UNCHANGED <<decided, consents, exportReq>>
  /\ Observe

\* A decision that prefers one of the branches is stored.
StoreDecision(w) ==
  /\ Len(decided) < MaxDecisions
  /\ decided' = Append(decided, w)
  /\ UNCHANGED <<consents, corpusNow, exportReq, inForce>>

-----------------------------------------------------------------------------
(* export_preference_corpus_jsonl with require_consent *)

\* Faulty: a consent that was revoked counts as long as it has not expired.
ListWithRevoked(w) ==
  {i \in ConsentId :
     /\ consents[i] # NotGiven
     /\ consents[i].scope = "global" \/ consents[i].workflow = w
     /\ corpusNow <= consents[i].expires}

\* list_consents of active consents for a workflow.
ListConsents(w) ==
  {i \in ConsentId :
     /\ consents[i] # NotGiven
     /\ consents[i].active
     /\ consents[i].scope = "global" \/ consents[i].workflow = w
     /\ corpusNow <= consents[i].expires}

HasConsent(w) == \E i \in ListConsents(w) : consents[i].kind = "training_data"

\* The decisions are read at once, newest first.
StartExport(t) ==
  /\ exportReq[t] = Idle
  /\ decided # <<>>
  /\ exportReq' = [exportReq EXCEPT ![t] =
       [pc |-> "export", asked |-> {}, granted |-> {}, sent |-> {},
        todo |-> [i \in DOMAIN decided |-> decided[Len(decided) + 1 - i]]]]
  /\ inForce' = [inForce EXCEPT ![t] =
       {w \in CorpusWorkflow : InForce(consents, corpusNow, w)}]
  /\ UNCHANGED <<decided, consents, corpusNow>>

\* The next line; a workflow's consent is asked for once in an export.
ExportLine(t) ==
  LET q == exportReq[t]
      w == Head(q.todo)
      granted == IF w \in q.asked THEN q.granted
                 ELSE q.granted \union (IF HasConsent(w) THEN {w} ELSE {}) IN
  /\ At(exportReq, t, "export")
  /\ q.todo # <<>>
  /\ exportReq' = [exportReq EXCEPT ![t] =
       [pc |-> "export", asked |-> q.asked \union {w}, granted |-> granted,
        sent |-> q.sent \union ({w} \intersect granted), todo |-> Tail(q.todo)]]
  /\ UNCHANGED <<decided, consents, corpusNow, inForce>>

\* The stream is finished, or the client has gone.
EndExport(t) ==
  /\ At(exportReq, t, "export")
  /\ exportReq' = [exportReq EXCEPT ![t] = Idle]
  /\ inForce' = [inForce EXCEPT ![t] = {}]
  /\ UNCHANGED <<decided, consents, corpusNow>>

ConsentsNext ==
  \/ \E t \in Exporter : StartExport(t) \/ ExportLine(t) \/ EndExport(t)
  \/ \E i \in ConsentId :
       \/ \E row \in Consent : GrantConsent(i, row)
       \/ RevokeConsent(i)
  \/ \E w \in CorpusWorkflow : StoreDecision(w)
  \/ ConsentTick

ConsentsSpec == ConsentsInit /\ [][ConsentsNext]_consentVars

-----------------------------------------------------------------------------

\* An export sends no decision of a workflow that had no consent in force at any
\* instant since the export began: what was revoked or expired before is not sent.
ConsentHonoured ==
  \A t \in Exporter : exportReq[t].pc = "export" => exportReq[t].sent \subseteq inForce[t]
=============================================================================
