--------------------------- MODULE DecisionsProofs ---------------------------
(***************************************************************************)
(* Theorems about decisions, for every value of the constants.             *)
(***************************************************************************)
EXTENDS Decisions, FiniteSetTheorems, TLAPS

-----------------------------------------------------------------------------
(* The inductive invariant.                                                *)

\* How far a request is that has inserted its decision, and that may have done so.
After == {"corpus", "audit", "created"}

\* A POST that has inserted its decision finds it as long as the workflow exists,
\* and so does the audit log.
InsertedIsStored ==
  \A r \in Post : exists /\ (req[r].pc \in After \/ r \in audit) =>
    r \in Stored /\ decision[r].comp = req[r].comp

\* Only a POST that came to its insert has a decision or an audit entry: the name
\* of a decision is not given a second time.
StoredIsInserted ==
  \A r \in Post : r \in Stored \union audit => req[r].pc \in After \union {"dead"}

\* A PATCH updates a decision that a POST made.
EditHasTarget == \A r \in Patch : req[r].pc = "edit" => req[r].target \in Post

DecisionInv ==
  /\ TypeOK
  /\ PointerSound /\ CountExact /\ NoGhosts
  /\ InsertedIsStored /\ StoredIsInserted /\ EditHasTarget

-----------------------------------------------------------------------------
(* Lemmas. *)

Pc == Pending \union Answer \union {"dead"}

\* A request that has begun may go on to any state but the first.
LEMMA MoveType ==
  ASSUME NEW q \in ReqRec, q # Idle, NEW p \in Pc
  PROVE  /\ [q EXCEPT !.pc = p] \in ReqRec
         /\ [q EXCEPT !.pc = p].pc = p
         /\ [q EXCEPT !.pc = p].comp = q.comp
         /\ [q EXCEPT !.pc = p].target = q.target
         /\ q.pc \in Pc /\ q.comp \in Comp /\ q.choice \in Choice
         /\ q.target \in Post \union {Nobody}
BY DEF ReqRec, Pc

LEMMA Moved ==
  ASSUME TypeOK, NEW r \in Request, req[r] # Idle, NEW p \in Pc, Goto(r, p)
  PROVE  /\ req' \in [Request -> ReqRec]
         /\ req'[r].pc = p /\ req'[r].comp = req[r].comp
         /\ req'[r].target = req[r].target
         /\ \A q \in Request \ {r} : req'[q] = req[q]
<1>1. req[r] \in ReqRec
  BY DEF TypeOK
<1>2. req' = [req EXCEPT ![r] = [req[r] EXCEPT !.pc = p]]
  BY DEF Goto
<1> QED
  BY <1>1, <1>2, MoveType DEF TypeOK

\* A request that has a pc other than the first has begun.
LEMMA Begun ==
  ASSUME TypeOK, NEW r \in Request, req[r].pc # "idle"
  PROVE  /\ req[r] # Idle
         /\ req[r].comp \in Comp /\ req[r].choice \in Choice
         /\ req[r].target \in Post \union {Nobody}
         /\ req[r].pc \in Pc
<1>1. req[r] \in ReqRec /\ req[r] # Idle
  BY DEF TypeOK, Idle
<1> QED
  BY <1>1 DEF ReqRec, Pc

LEMMA StoredFinite ==
  /\ IsFiniteSet(Stored)
  /\ Cardinality(Stored) \in Nat
BY DecisionsAssumption, FS_Subset, FS_CardinalityType DEF Stored

\* The rows and the requests that a step leaves alone.
LEMMA SameStored ==
  ASSUME decision' = decision
  PROVE  Stored' = Stored
BY DEF Stored

-----------------------------------------------------------------------------
(* The steps. *)

LEMMA DecisionInit == Init => DecisionInv
<1> SUFFICES ASSUME Init PROVE DecisionInv
  OBVIOUS
<1>1. TypeOK
  BY DecisionsAssumption DEF Init, TypeOK, ReqRec, DecisionRec
<1>2. Stored = {}
  BY DEF Init, Stored
<1>3. CountExact
  BY <1>2, FS_EmptySet DEF Init, CountExact
<1> QED
  BY <1>1, <1>2, <1>3 DEF Init, DecisionInv, PointerSound, NoGhosts, InsertedIsStored,
     StoredIsInserted, EditHasTarget, Idle, After, Request

\* A request begins: the tables stay, and it has not inserted anything.
LEMMA BeginStep ==
  ASSUME DecisionInv, UNCHANGED <<db, crashes>>, NEW r \in Request, req[r] = Idle,
         NEW c \in Comp, NEW ch \in Choice, NEW t \in Post \union {Nobody},
         NEW p \in {"missing", "conflict", "refused", "create", "edit"},
         req' = [req EXCEPT ![r] = [pc |-> p, comp |-> c, choice |-> ch, target |-> t]],
         r \in Patch /\ p = "edit" => t \in Post
  PROVE  DecisionInv'
<1>1. TypeOK' /\ Stored' = Stored
  BY SameStored DEF DecisionInv, TypeOK, db, ReqRec, Pending, Answer
<1>2. r \notin Stored \union audit \/ r \notin Post
  BY DEF DecisionInv, StoredIsInserted, Idle, After
<1>3. /\ req'[r].pc = p /\ req'[r].target = t
      /\ \A q \in Request \ {r} : req'[q] = req[q]
  BY DEF DecisionInv, TypeOK
<1>4. InsertedIsStored' /\ StoredIsInserted' /\ EditHasTarget'
  BY <1>1, <1>2, <1>3 DEF DecisionInv, InsertedIsStored, StoredIsInserted, EditHasTarget,
     After, db, Request
<1> QED
  BY <1>1, <1>4 DEF DecisionInv, PointerSound, CountExact, NoGhosts, db

\* A request goes on without a change of the tables that its state speaks of.
LEMMA GoOnStep ==
  ASSUME DecisionInv, UNCHANGED <<exists, decidedBy, decision, count, crashes>>,
         NEW r \in Request, NEW p \in Pc \ {"edit"}, Goto(r, p), req[r].pc # "idle",
         corpus' \in [Label -> Choice \union {Nobody}],
         req[r].pc # "dead",
         r \in Post /\ p \in After => req[r].pc \in After,
         r \in Post => (req[r].pc \in After => p \in After \union {"dead"}),
         audit' = audit \/ (audit' = audit \union {r} /\ r \in Post /\ p \in After)
  PROVE  DecisionInv'
<1>1. req[r] # Idle
  BY Begun DEF DecisionInv
<1>2. /\ req' \in [Request -> ReqRec]
      /\ req'[r].pc = p /\ req'[r].comp = req[r].comp
      /\ \A q \in Request \ {r} : req'[q] = req[q]
  BY <1>1, Moved DEF DecisionInv
<1>3. TypeOK' /\ Stored' = Stored
  BY <1>2, SameStored DEF DecisionInv, TypeOK
<1>4. InsertedIsStored'
  BY <1>2, <1>3 DEF DecisionInv, InsertedIsStored, Request
<1>5. StoredIsInserted'
  BY <1>2, <1>3 DEF DecisionInv, StoredIsInserted, Request, After
<1>6. EditHasTarget'
  BY <1>2 DEF DecisionInv, EditHasTarget, Request
<1> QED
  BY <1>3, <1>4, <1>5, <1>6 DEF DecisionInv, PointerSound, CountExact, NoGhosts

LEMMA CreateStep ==
  ASSUME DecisionInv, NEW r \in Post, Create(r)
  PROVE  DecisionInv'
<1> USE DEF DecisionInv
<1>1. /\ r \in Request /\ req[r] # Idle /\ req[r].comp \in Comp /\ req[r].choice \in Choice
  BY Begun DEF Create, Request
<1>2. CASE ~exists
  BY <1>2, GoOnStep DEF Create, Insert, Pc, Answer, Pending, After, Request, TypeOK
<1>3. CASE exists
  <2> DEFINE row == [comp |-> req[r].comp, choice |-> req[r].choice, edited |-> FALSE]
  <2>1. /\ decision' = [decision EXCEPT ![r] = row]
        /\ decidedBy' = [decidedBy EXCEPT ![req[r].comp] = r]
        /\ count' = count + 1
        /\ Goto(r, "corpus")
        /\ UNCHANGED <<exists, corpus, audit, crashes>>
    BY <1>3 DEF Create, Insert
  <2>2. /\ req' \in [Request -> ReqRec]
        /\ req'[r].pc = "corpus" /\ req'[r].comp = req[r].comp
        /\ \A q \in Request \ {r} : req'[q] = req[q]
    BY <1>1, <2>1, Moved DEF Pc, Pending
  <2>3. row \in DecisionRec /\ row # NoRow
    <3>1. row \in DecisionRec
      BY <1>1 DEF DecisionRec
    <3>2. DOMAIN row # DOMAIN NoRow
      <4>1. "choice" \in DOMAIN row
        OBVIOUS
      <4>2. "choice" \notin DOMAIN NoRow
        BY DEF NoRow
      <4> QED
        BY <4>1, <4>2
    <3> QED
      BY <3>1, <3>2
  <2>4. TypeOK'
    BY <1>1, <2>1, <2>2, <2>3 DEF TypeOK
  <2>5. r \notin Stored
    BY DEF Create, StoredIsInserted, After
  <2>6. Stored' = Stored \union {r}
    BY <2>1, <2>3 DEF Stored, TypeOK
  <2>7. PointerSound'
    BY <1>1, <2>1, <2>3, <2>5, <2>6 DEF PointerSound, TypeOK
  <2>8. CountExact'
    BY <2>1, <2>5, <2>6, StoredFinite, FS_AddElement DEF CountExact
  <2>9. NoGhosts'
    BY <1>3, <2>1 DEF NoGhosts
  <2>10. InsertedIsStored' /\ StoredIsInserted' /\ EditHasTarget'
    BY <1>1, <1>3, <2>1, <2>2, <2>5, <2>6, DecisionsAssumption
       DEF InsertedIsStored, StoredIsInserted, EditHasTarget, After, Request, TypeOK
  <2> QED
    BY <2>4, <2>7, <2>8, <2>9, <2>10
<1> QED
  BY <1>2, <1>3

LEMMA CorpusStep ==
  ASSUME DecisionInv, NEW r \in Post, Corpus(r)
  PROVE  DecisionInv'
<1>1. req[r].comp \in Comp /\ req[r].choice \in Choice /\ r \in Request
  BY Begun DEF DecisionInv, Corpus, Request
<1>2. corpus' \in [Label -> Choice \union {Nobody}]
  BY <1>1 DEF DecisionInv, Corpus, TypeOK, Label
<1> QED
  BY <1>1, <1>2, GoOnStep DEF Corpus, Pc, Pending, After

LEMMA AuditStep ==
  ASSUME DecisionInv, NEW r \in Post, Audit(r)
  PROVE  DecisionInv'
BY GoOnStep DEF DecisionInv, TypeOK, Audit, Pc, Answer, After, Request

LEMMA EditStep ==
  ASSUME DecisionInv, NEW r \in Patch, Edit(r)
  PROVE  DecisionInv'
<1> USE DEF DecisionInv
<1> DEFINE d == req[r].target
           p == IF decision'[d] = NoRow THEN "missing" ELSE "edited"
<1>1. /\ r \in Request /\ req[r] # Idle /\ req[r].choice \in Choice
      /\ d \in Post /\ r \notin Post
  BY Begun, DecisionsAssumption DEF Edit, Request, EditHasTarget
<1>2. Goto(r, p) /\ p \in Pc \ {"edit"} /\ UNCHANGED <<exists, decidedBy, count, corpus, audit, crashes>>
  BY DEF Edit, Pc, Answer
<1>3. CASE decision[d] = NoRow
  <2>1. decision' = decision
    BY <1>3 DEF Edit, Rewrite
  <2> QED
    BY <1>1, <1>2, <2>1, GoOnStep DEF Edit, TypeOK
<1>4. CASE decision[d] # NoRow
  <2>1. decision' = [decision EXCEPT ![d].choice = req[r].choice, ![d].edited = TRUE]
    BY <1>4 DEF Edit, Rewrite
  <2>2. decision[d] \in [comp: Comp, choice: Choice, edited: BOOLEAN]
    BY <1>1, <1>4 DEF TypeOK, DecisionRec
  <2>3. /\ decision' \in [Post -> DecisionRec]
        /\ decision'[d].comp = decision[d].comp
        /\ decision'[d] \in [comp: Comp, choice: Choice, edited: BOOLEAN]
        /\ \A e \in Post \ {d} : decision'[e] = decision[e]
    BY <1>1, <2>1, <2>2 DEF TypeOK, DecisionRec
  <2>4. decision'[d] # NoRow
    <3>1. "choice" \in DOMAIN decision'[d]
      BY <2>3
    <3>2. "choice" \notin DOMAIN NoRow
      BY DEF NoRow
    <3> QED
      BY <3>1, <3>2
  <2>5. Stored' = Stored
    BY <1>1, <1>4, <2>3, <2>4 DEF Stored
  <2>6. /\ req' \in [Request -> ReqRec]
        /\ req'[r].pc = p
        /\ \A q \in Request \ {r} : req'[q] = req[q]
    BY <1>1, <1>2, Moved
  <2>7. TypeOK'
    BY <1>2, <2>3, <2>6 DEF TypeOK
  <2>8. PointerSound' /\ CountExact' /\ NoGhosts'
    BY <1>2, <2>3, <2>5 DEF PointerSound, CountExact, NoGhosts, TypeOK
  <2>9. InsertedIsStored' /\ StoredIsInserted' /\ EditHasTarget'
    BY <1>1, <1>2, <2>3, <2>5, <2>6
       DEF InsertedIsStored, StoredIsInserted, EditHasTarget, After, Request
  <2> QED
    BY <2>7, <2>8, <2>9
<1> QED
  BY <1>3, <1>4

LEMMA DeleteStep ==
  ASSUME DecisionInv, DeleteWorkflow
  PROVE  DecisionInv'
<1>1. TypeOK' /\ Stored' = {}
  BY DEF DecisionInv, DeleteWorkflow, TypeOK, DecisionRec, Stored
<1>2. CountExact'
  BY <1>1, FS_EmptySet DEF DeleteWorkflow, CountExact
<1> QED
  BY <1>1, <1>2 DEF DecisionInv, DeleteWorkflow, PointerSound, NoGhosts, InsertedIsStored,
     StoredIsInserted, EditHasTarget

LEMMA CrashStep ==
  ASSUME DecisionInv, Crash
  PROVE  DecisionInv'
<1> USE DEF DecisionInv
<1>1. \A r \in Request : req'[r] = IF req[r].pc \in Pending
                                   THEN [req[r] EXCEPT !.pc = "dead"] ELSE req[r]
  BY DEF Crash
<1>2. ASSUME NEW r \in Request
      PROVE  /\ req'[r] \in ReqRec
             /\ req[r].pc \in Pending => req'[r].pc = "dead" /\ req'[r].comp = req[r].comp
             /\ req[r].pc \notin Pending => req'[r] = req[r]
  <2>1. req[r] \in ReqRec
    BY DEF TypeOK
  <2>2. CASE req[r].pc \in Pending
    <3>1. req[r] # Idle /\ "dead" \in Pc
      BY <2>2 DEF Pending, Idle, Pc
    <3>2. req'[r] = [req[r] EXCEPT !.pc = "dead"]
      BY <1>1, <2>2
    <3>3. req'[r] \in ReqRec /\ req'[r].pc = "dead" /\ req'[r].comp = req[r].comp
      BY <2>1, <3>1, <3>2, MoveType
    <3> QED
      BY <2>2, <3>3
  <2> QED
    BY <1>1, <2>1, <2>2
<1>3. crashes' \in 0..MaxCrashes
  BY DecisionsAssumption DEF Crash, TypeOK
<1>4. TypeOK' /\ Stored' = Stored
  BY <1>2, <1>3, SameStored DEF Crash, TypeOK, db
<1>5. InsertedIsStored' /\ StoredIsInserted' /\ EditHasTarget'
  BY <1>2, <1>4 DEF Crash, db, InsertedIsStored, StoredIsInserted, EditHasTarget, After,
     Pending, Request
<1> QED
  BY <1>4, <1>5 DEF Crash, db, PointerSound, CountExact, NoGhosts

LEMMA DecisionStep == DecisionInv /\ [Next]_vars => DecisionInv'
<1> SUFFICES ASSUME DecisionInv, [Next]_vars PROVE DecisionInv'
  OBVIOUS
<1>1. ASSUME NEW r \in Post, NEW c \in Comp, NEW ch \in Choice, PostRead(r, c, ch)
      PROVE  DecisionInv'
  <2> DEFINE p == IF ~exists THEN "missing"
                  ELSE IF decidedBy[c] # Nobody THEN "conflict" ELSE "create"
  <2>1. p \in {"missing", "conflict", "refused", "create", "edit"} /\ p # "edit"
    OBVIOUS
  <2>2. /\ req[r] = Idle /\ UNCHANGED <<db, crashes>>
        /\ req' = [req EXCEPT ![r] = [pc |-> p, comp |-> c, choice |-> ch, target |-> Nobody]]
    BY <1>1 DEF PostRead
  <2>3. r \in Request
    BY DEF Request
  <2> HIDE DEF p
  <2> QED
    BY <2>1, <2>2, <2>3, BeginStep
<1>2. ASSUME NEW r \in Patch, NEW c \in Comp, NEW ch \in Choice, PatchRead(r, c, ch)
      PROVE  DecisionInv'
  <2> DEFINE p == IF ~exists THEN "missing"
                  ELSE IF decidedBy[c] = Nobody THEN "refused" ELSE "edit"
  <2>1. /\ p \in {"missing", "conflict", "refused", "create", "edit"}
        /\ p = "edit" => decidedBy[c] \in Post
        /\ decidedBy[c] \in Post \union {Nobody}
    BY DEF DecisionInv, TypeOK
  <2>2. /\ req[r] = Idle /\ UNCHANGED <<db, crashes>>
        /\ req' = [req EXCEPT ![r] =
             [pc |-> p, comp |-> c, choice |-> ch, target |-> decidedBy[c]]]
    BY <1>2 DEF PatchRead
  <2>3. r \in Request
    BY DEF Request
  <2> HIDE DEF p
  <2> QED
    BY <2>1, <2>2, <2>3, BeginStep
<1>3. ASSUME NEW r \in Request, Fail(r)
      PROVE  DecisionInv'
  BY <1>3, GoOnStep DEF Fail, DecisionInv, TypeOK, db, Pc, Answer, After
<1>4. CASE UNCHANGED vars
  BY <1>4, SameStored DEF vars, DecisionInv, TypeOK, PointerSound, CountExact, NoGhosts,
     InsertedIsStored, StoredIsInserted, EditHasTarget
<1> QED
  BY <1>1, <1>2, <1>3, <1>4, CreateStep, CorpusStep, AuditStep, EditStep, DeleteStep,
     CrashStep DEF Next

-----------------------------------------------------------------------------
(* The theorems. *)

LEMMA DecisionInvariant == Spec => []DecisionInv
BY DecisionInit, DecisionStep, PTL DEF Spec

\* The decision model stays within its types, whatever requests overlap and fail.
THEOREM TypeCorrect == Spec => []TypeOK
BY DecisionInvariant, PTL DEF DecisionInv

\* The decision a comparison points to is there and is its own
\* (create_decision, update_decision, the cascade of delete_workflow).
THEOREM PointersSound == Spec => []PointerSound
BY DecisionInvariant, PTL DEF DecisionInv

\* The workflow's counter is the number of its decisions (create_decision).
THEOREM CounterExact == Spec => []CountExact
BY DecisionInvariant, PTL DEF DecisionInv

\* A deleted workflow stays empty, although requests that read it earlier go on.
THEOREM DeletedStaysEmpty == Spec => []NoGhosts
BY DecisionInvariant, PTL DEF DecisionInv

\* What was answered or audited is stored, through crashes and other requests.
THEOREM AcknowledgedStored == Spec => []AcknowledgedIsStored
<1>1. DecisionInv => AcknowledgedIsStored
  BY DEF DecisionInv, InsertedIsStored, AcknowledgedIsStored, After
<1> QED
  BY <1>1, DecisionInvariant, PTL

=============================================================================
