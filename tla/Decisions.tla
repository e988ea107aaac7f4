----------------------------- MODULE Decisions ------------------------------
(***************************************************************************)
(* Human decisions on comparisons: POST and PATCH                          *)
(* /api/comparisons/{id}/decide (backend/routes/comparisons.py) over       *)
(* create_decision and update_decision (core/store_impl/decisions.py).     *)
(*                                                                         *)
(* The handlers run in threads.  Each database call is a transaction of    *)
(* its own: the read of the comparison, the insert with its counters, the  *)
(* performance corpus, the audit entry.  A decision is named after the     *)
(* request that created it.                                                *)
(***************************************************************************)
EXTENDS Naturals, FiniteSets

CONSTANTS
  Comp,        \* comparisons of one workflow
  LabelOf,     \* the test case and eval run of a comparison
  Post,        \* POST requests
  Patch,       \* PATCH requests
  Choice,      \* DecisionChoice
  Nobody,      \* comparisons.decision_id before a decision, and no choice
  Faults,      \* whether a database call may raise
  MaxCrashes   \* bound: crashes of the server process

ASSUME DecisionsAssumption ==
  /\ IsFiniteSet(Post)
  /\ Post \intersect Patch = {}
  /\ Nobody \notin Post \union Choice
  /\ DOMAIN LabelOf = Comp
  /\ Faults \in BOOLEAN
  /\ MaxCrashes \in Nat

Request == Post \union Patch

Label == {LabelOf[c] : c \in Comp}

VARIABLES
  exists,     \* whether the workflow, and with it its comparisons, exists
  decidedBy,  \* comparisons.decided and decision_id
  decision,   \* the rows of table decisions
  count,      \* workflows.decision_count
  corpus,     \* test_case_performance.decision_choice of each label
  audit,      \* requests with an audit entry
  req,        \* the requests and how far they are
  crashes     \* crashes so far

vars == <<exists, decidedBy, decision, count, corpus, audit, req, crashes>>

-----------------------------------------------------------------------------

\* HTTP statuses and the calls still to come.
Answer == {"created", "edited", "conflict", "refused", "missing", "error"}

Pending == {"create", "corpus", "audit", "edit"}

Idle == [pc |-> "idle"]

ReqRec ==
  {Idle} \union
  [pc: Pending \union Answer \union {"dead"}, comp: Comp, choice: Choice,
   target: Post \union {Nobody}]

NoRow == [comp |-> Nobody]

DecisionRec == {NoRow} \union [comp: Comp, choice: Choice, edited: BOOLEAN]

Stored == {d \in Post : decision[d] # NoRow}

TypeOK ==
  /\ exists \in BOOLEAN
  /\ decidedBy \in [Comp -> Post \union {Nobody}]
  /\ decision \in [Post -> DecisionRec]
  /\ count \in Nat
  /\ corpus \in [Label -> Choice \union {Nobody}]
  /\ audit \subseteq Post
  /\ req \in [Request -> ReqRec]
  /\ crashes \in 0..MaxCrashes

Init ==
  /\ exists = TRUE
  /\ decidedBy = [c \in Comp |-> Nobody]
  /\ decision = [d \in Post |-> NoRow]
  /\ count = 0
  /\ corpus = [l \in Label |-> Nobody]
  /\ audit = {}
  /\ req = [r \in Request |-> Idle]
  /\ crashes = 0

db == <<exists, decidedBy, decision, count, corpus, audit>>

Goto(r, pc) == req' = [req EXCEPT ![r].pc = pc]

-----------------------------------------------------------------------------
(* POST /api/comparisons/{id}/decide                                       *)

\* db.get_comparison: 404, 409, or on to the insert.
PostRead(r, c, ch) ==
  /\ req[r] = Idle
  /\ req' = [req EXCEPT ![r] =
       [pc |-> IF ~exists THEN "missing"
               ELSE IF decidedBy[c] # Nobody THEN "conflict" ELSE "create",
        comp |-> c, choice |-> ch, target |-> Nobody]]
  /\ UNCHANGED <<db, crashes>>

\* Faulty: without foreign keys the row is inserted for a deleted comparison.
InsertUnchecked(r) ==
  LET c == req[r].comp IN
  /\ decision' = [decision EXCEPT ![r] =
                    [comp |-> c, choice |-> req[r].choice, edited |-> FALSE]]
  /\ decidedBy' = IF exists THEN [decidedBy EXCEPT ![c] = r] ELSE decidedBy
  /\ count' = IF exists THEN count + 1 ELSE count
  /\ Goto(r, "corpus")

\* Faulty: the counter counts only a comparison's first decision.
InsertCountOnce(r) ==
  LET c == req[r].comp IN
  IF exists
  THEN /\ decision' = [decision EXCEPT ![r] =
                         [comp |-> c, choice |-> req[r].choice, edited |-> FALSE]]
       /\ decidedBy' = [decidedBy EXCEPT ![c] = r]
       /\ count' = IF decidedBy[c] = Nobody THEN count + 1 ELSE count
       /\ Goto(r, "corpus")
  ELSE /\ Goto(r, "error")
       /\ UNCHANGED <<decidedBy, decision, count>>

\* Faulty: the comparison is marked, and the row is left to a later transaction.
MarkOnly(r) ==
  LET c == req[r].comp IN
  /\ decidedBy' = IF exists THEN [decidedBy EXCEPT ![c] = r] ELSE decidedBy
  /\ Goto(r, "corpus")
  /\ UNCHANGED <<decision, count>>

\* Faulty: the arguments of the UPDATE are swapped.
InsertSwapped(r) ==
  LET c == req[r].comp IN
  /\ decision' = [decision EXCEPT ![r] =
                    [comp |-> c, choice |-> req[r].choice, edited |-> FALSE]]
  /\ decidedBy' = [decidedBy EXCEPT ![c] = c]
  /\ count' = count + 1
  /\ Goto(r, "corpus")

\* One transaction: the row, the comparison's pointer, the workflow's counter.
\* The foreign key refuses a comparison that is gone.
Insert(r) ==
  LET c == req[r].comp IN
  IF exists
  THEN /\ decision' = [decision EXCEPT ![r] =
                         [comp |-> c, choice |-> req[r].choice, edited |-> FALSE]]
       /\ decidedBy' = [decidedBy EXCEPT ![c] = r]
       /\ count' = count + 1
       /\ Goto(r, "corpus")
  ELSE /\ Goto(r, "error")
       /\ UNCHANGED <<decidedBy, decision, count>>

Create(r) ==
  /\ req[r].pc = "create"
  /\ Insert(r)
  /\ UNCHANGED <<exists, corpus, audit, crashes>>

\* record_test_case_performance, whose exceptions are only logged.
Corpus(r) ==
  /\ req[r].pc = "corpus"
  /\ \/ corpus' = [corpus EXCEPT ![LabelOf[req[r].comp]] = req[r].choice]
     \/ Faults /\ UNCHANGED corpus
  /\ Goto(r, "audit")
  /\ UNCHANGED <<exists, decidedBy, decision, count, audit, crashes>>

\* add_audit_log, whose exceptions are swallowed; then 201.
Audit(r) ==
  /\ req[r].pc = "audit"
  /\ \/ audit' = audit \union {r}
     \/ Faults /\ UNCHANGED audit
  /\ Goto(r, "created")
  /\ UNCHANGED <<exists, decidedBy, decision, count, corpus, crashes>>

-----------------------------------------------------------------------------
(* PATCH /api/comparisons/{id}/decide                                      *)

\* db.get_comparison: 404, 400, or on to the update of the decision it names.
PatchRead(r, c, ch) ==
  /\ req[r] = Idle
  /\ req' = [req EXCEPT ![r] =
       [pc |-> IF ~exists THEN "missing"
               ELSE IF decidedBy[c] = Nobody THEN "refused" ELSE "edit",
        comp |-> c, choice |-> ch, target |-> decidedBy[c]]]
  /\ UNCHANGED <<db, crashes>>

\* UPDATE decisions ... WHERE id=?
Rewrite(d, c, ch) ==
  decision' = IF decision[d] = NoRow THEN decision
              ELSE [decision EXCEPT ![d].choice = ch, ![d].edited = TRUE]

\* 404 when the decision is gone.
Edit(r) ==
  /\ req[r].pc = "edit"
  /\ Rewrite(req[r].target, req[r].comp, req[r].choice)
  /\ Goto(r, IF decision'[req[r].target] = NoRow THEN "missing" ELSE "edited")
  /\ UNCHANGED <<exists, decidedBy, count, corpus, audit, crashes>>

-----------------------------------------------------------------------------

\* A database call outside the best-effort parts raises: 500.
Fail(r) ==
  /\ Faults
  /\ req[r].pc \in {"create", "edit"}
  /\ Goto(r, "error")
  /\ UNCHANGED <<db, crashes>>

\* DELETE of the workflow cascades to its comparisons and their decisions.
DeleteWorkflow ==
  /\ exists
  /\ exists' = FALSE
  /\ decidedBy' = [c \in Comp |-> Nobody]
  /\ decision' = [d \in Post |-> NoRow]
  /\ count' = 0
  /\ UNCHANGED <<corpus, audit, req, crashes>>

Crash ==
  /\ crashes < MaxCrashes
  /\ \E r \in Request : req[r].pc \in Pending
  /\ req' = [r \in Request |->
               IF req[r].pc \in Pending THEN [req[r] EXCEPT !.pc = "dead"] ELSE req[r]]
  /\ crashes' = crashes + 1
  /\ UNCHANGED db

Next ==
  \/ \E r \in Post, c \in Comp, ch \in Choice : PostRead(r, c, ch)
  \/ \E r \in Post : Create(r) \/ Corpus(r) \/ Audit(r)
  \/ \E r \in Patch, c \in Comp, ch \in Choice : PatchRead(r, c, ch)
  \/ \E r \in Patch : Edit(r)
  \/ \E r \in Request : Fail(r)
  \/ DeleteWorkflow
  \/ Crash

Spec == Init /\ [][Next]_vars

-----------------------------------------------------------------------------
(* Properties.                                                             *)

\* The decision a comparison points to exists and is about that comparison, so
\* the joins of the eval run's statistics lose no decided comparison.
PointerSound ==
  \A c \in Comp : decidedBy[c] # Nobody =>
    decidedBy[c] \in Stored /\ decision[decidedBy[c]].comp = c

\* workflows.decision_count is the number of rows, whatever the handlers that
\* insert at the same time and fail between their calls.
CountExact == count = Cardinality(Stored)

\* Nothing of a deleted workflow comes back through a request that read it before.
NoGhosts == ~exists => Stored = {} /\ \A c \in Comp : decidedBy[c] = Nobody

\* A decision that was answered, or that the audit log tells of, survives crashes
\* and everything the other requests do.
AcknowledgedIsStored ==
  \A r \in Post : exists /\ (req[r].pc = "created" \/ r \in audit) =>
    r \in Stored /\ decision[r].comp = req[r].comp

\* "Already decided - use PATCH to update" (record_decision): a comparison has at
\* most one decision.
OneDecision ==
  \A d, e \in Stored : decision[d].comp = decision[e].comp => d = e
=============================================================================
