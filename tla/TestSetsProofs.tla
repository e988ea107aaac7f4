--------------------------- MODULE TestSetsProofs ---------------------------
(***************************************************************************)
(* Theorems about test sets, for every value of the constants.             *)
(***************************************************************************)
EXTENDS TestSets, FiniteSetTheorems, TLAPS

-----------------------------------------------------------------------------
(* Steps that only move a request.                                         *)

Pc == {"look", "begin", "dead"} \union InTx \union Answer

\* Every state of a request but the first.
LEMMA MoveType ==
  ASSUME NEW q \in ReqRec, q.pc # "idle", NEW p \in Pc
  PROVE  /\ [q EXCEPT !.pc = p] \in ReqRec
         /\ [q EXCEPT !.pc = p].pc = p
         /\ [q EXCEPT !.pc = p].op = q.op
         /\ [q EXCEPT !.pc = p].set = q.set
         /\ [q EXCEPT !.pc = p].late = q.late
         /\ [q EXCEPT !.pc = p].copy = q.copy
         /\ q.op \in Op /\ q.set \in SetId /\ q.case \in Case /\ q.copy \in SUBSET Case
<1>1. q \in [pc: Pc, op: Op, set: SetId, case: Case, copy: SUBSET Case, late: BOOLEAN]
  BY DEF ReqRec, Idle, Pc
<1> QED
  BY <1>1 DEF ReqRec, Pc

LEMMA CopyType ==
  ASSUME NEW q \in ReqRec, q.pc # "idle", NEW k \in SUBSET Case
  PROVE  [q EXCEPT !.pc = "copied", !.copy = k] \in ReqRec
<1>1. q \in [pc: Pc, op: Op, set: SetId, case: Case, copy: SUBSET Case, late: BOOLEAN]
  BY DEF ReqRec, Idle, Pc
<1>2. "copied" \in Pc
  BY DEF Pc, InTx
<1>3. [q EXCEPT !.pc = "copied", !.copy = k] \in
        [pc: Pc, op: Op, set: SetId, case: Case, copy: SUBSET Case, late: BOOLEAN]
  BY <1>1, <1>2
<1> QED
  BY <1>3 DEF ReqRec, Pc

LEMMA MoveAll ==
  ASSUME TypeOK, NEW r \in Request, req[r].pc # "idle", NEW p \in Pc, Goto(r, p)
  PROVE  /\ req' \in [Request -> ReqRec]
         /\ req'[r].pc = p
         /\ \A q \in Request \ {r} : req'[q] = req[q]
<1>1. req[r] \in ReqRec
  BY DEF TypeOK
<1>2. req' = [req EXCEPT ![r] = [req[r] EXCEPT !.pc = p]]
  BY DEF Goto
<1> QED
  BY <1>1, <1>2, MoveType DEF TypeOK

-----------------------------------------------------------------------------
(* Type correctness and the conservation of connections.                   *)

Txs == {r \in Request : req[r].pc \in InTx}

ConnInv == TypeOK /\ ConnectionsConserved

LEMMA TxsFinite ==
  /\ IsFiniteSet(Txs)
  /\ Cardinality(Txs) \in Nat
BY TestSetsAssumption, FS_Subset, FS_CardinalityType DEF Txs

LEMMA CapacityType == Capacity \in Nat \ {0}
BY TestSetsAssumption DEF Capacity

\* A transaction that ends gives back what it took.
LEMMA CloseConserves ==
  ASSUME ConnInv, NEW r \in Request, req[r].pc \in InTx,
         NEW p \in Answer, Close(r, p), backend' = backend
  PROVE  /\ ConnectionsConserved'
         /\ free' \in 0..Capacity'
         /\ req' \in [Request -> ReqRec]
         /\ req'[r].pc = p
         /\ \A q \in Request \ {r} : req'[q] = req[q]
<1>1. p \in Pc /\ req[r].pc # "idle" /\ p \notin InTx
  BY DEF Pc, Answer, InTx
<1>2. /\ req' \in [Request -> ReqRec]
      /\ req'[r].pc = p
      /\ \A q \in Request \ {r} : req'[q] = req[q]
  BY <1>1, MoveAll DEF Close, ConnInv
<1>3. r \in Txs /\ Txs' = Txs \ {r}
  BY <1>1, <1>2 DEF Txs
<1>4. Cardinality(Txs') = Cardinality(Txs) - 1
  BY <1>3, TxsFinite, FS_RemoveElement
<1>5. Cardinality(Txs) \in Nat /\ Cardinality(Txs') \in Nat
  BY <1>3, <1>4, TxsFinite, FS_RemoveElement, FS_CardinalityType
<1>6. free + Cardinality(Txs) = Capacity /\ free \in Nat
  BY DEF ConnInv, TypeOK, ConnectionsConserved, Txs
<1>7. Capacity' = Capacity /\ free' = free + 1
  BY DEF Capacity, Close
<1>8. free' + Cardinality(Txs') = Capacity'
  BY <1>4, <1>5, <1>6, <1>7
<1> QED
  BY <1>2, <1>5, <1>6, <1>7, <1>8, CapacityType DEF ConnectionsConserved, Txs

\* A step that leaves the set of transactions alone.
LEMMA SameConserves ==
  ASSUME ConnInv, Txs' = Txs, free' = free, backend' = backend
  PROVE  ConnectionsConserved' /\ free' \in 0..Capacity'
BY DEF ConnInv, TypeOK, ConnectionsConserved, Txs, Capacity

LEMMA MoveConserves ==
  ASSUME ConnInv, NEW r \in Request, req[r].pc # "idle", NEW p \in Pc, Goto(r, p),
         req[r].pc \in InTx <=> p \in InTx, free' = free, backend' = backend
  PROVE  /\ ConnectionsConserved'
         /\ free' \in 0..Capacity'
         /\ req' \in [Request -> ReqRec]
<1>1. /\ req' \in [Request -> ReqRec]
      /\ req'[r].pc = p
      /\ \A q \in Request \ {r} : req'[q] = req[q]
  BY MoveAll DEF ConnInv
<1>2. Txs' = Txs
  BY <1>1 DEF Txs
<1> QED
  BY <1>1, <1>2, SameConserves

\* Serving a request keeps types and connections.
LEMMA ServeConserves ==
  ASSUME ConnInv, NEW r \in Request, Serve(r)
  PROVE  ConnInv'
<1> USE DEF ConnInv
<1>1. CASE Look(r)
  <2>1. PICK p \in {Verdict(req[r].op, req[r].set), "error"} : Goto(r, p)
    BY <1>1 DEF Look
  <2>2. p \in {"begin", "missing", "conflict", "error"}
    BY <2>1 DEF Verdict
  <2>3. p \in Pc /\ p \notin InTx /\ req[r].pc = "look" /\ "look" \notin InTx
    BY <2>2, <1>1 DEF Pc, Answer, InTx, Look
  <2>4. ConnectionsConserved' /\ req' \in [Request -> ReqRec] /\ free' \in 0..Capacity'
    BY <1>1, <2>1, <2>3, MoveConserves DEF Look
  <2> QED
    BY <1>1, <2>4 DEF Look, TypeOK, tables
<1>2. CASE Open(r)
  <2>1. req[r].pc = "begin" /\ "begin" \notin InTx /\ "error" \notin InTx /\ "tx" \in InTx
        /\ "error" \in Pc /\ "tx" \in Pc
    BY <1>2 DEF Open, Pc, Answer, InTx
  <2>2. CASE PoolExhausted /\ Goto(r, "error") /\ UNCHANGED free
    <3>1. ConnectionsConserved' /\ req' \in [Request -> ReqRec] /\ free' \in 0..Capacity'
      BY <1>2, <2>1, <2>2, MoveConserves DEF Open
    <3> QED
      BY <1>2, <3>1 DEF Open, TypeOK, tables
  <2>3. CASE HasConn /\ free' = free - 1 /\ Goto(r, "tx")
    <3>1. /\ req' \in [Request -> ReqRec]
          /\ req'[r].pc = "tx"
          /\ \A q \in Request \ {r} : req'[q] = req[q]
      BY <2>1, <2>3, MoveAll
    <3>2. r \notin Txs /\ Txs' = Txs \union {r}
      BY <2>1, <3>1 DEF Txs
    <3>3. Cardinality(Txs') = Cardinality(Txs) + 1
      BY <3>2, TxsFinite, FS_AddElement
    <3>4. Capacity' = Capacity
      BY <1>2 DEF Open, Capacity
    <3>5. free + Cardinality(Txs) = Capacity /\ free \in 0..Capacity /\ free > 0
      BY <2>3 DEF TypeOK, ConnectionsConserved, Txs, HasConn
    <3>6. free' + Cardinality(Txs') = Capacity' /\ free' \in 0..Capacity'
      BY <2>3, <3>3, <3>4, <3>5, TxsFinite, CapacityType
    <3> QED
      BY <1>2, <3>1, <3>6 DEF Open, TypeOK, tables, ConnectionsConserved, Txs
  <2> QED
    BY <1>2, <2>2, <2>3 DEF Open
<1>3. CASE Write(r)
  <2>1. req[r].pc \in InTx /\ backend' = backend
    BY <1>3 DEF Write, InTx
  <2>2. PICK p \in {"done", "error"} : Close(r, p)
    BY <1>3 DEF Write, InsertCases, InsertSet, RemoveCase, DropSet, Freeze
  <2>3. p \in Answer
    BY DEF Answer
  <2>4. ConnectionsConserved' /\ req' \in [Request -> ReqRec] /\ free' \in 0..Capacity'
    BY <2>1, <2>2, <2>3, CloseConserves
  <2>5. req[r].set \in SetId /\ NewCases(r) \subseteq Case /\ r \in SetId
    <3>1. req[r] \in ReqRec /\ req[r].pc # "idle" /\ "tx" \in Pc
      BY <1>3 DEF Write, TypeOK, Pc, InTx
    <3>2. req[r].set \in SetId
      BY <3>1, MoveType
    <3>3. <<r, 1>> \in Case /\ <<r, 2>> \in Case
      BY DEF Case
    <3> QED
      BY <3>2, <3>3 DEF NewCases, SetId
  <2>6. present' \subseteq SetId /\ frozen' \subseteq present'
        /\ cases' \in [SetId -> SUBSET Case]
    <3>1. CASE InsertCases(r)
      BY <2>5, <3>1 DEF InsertCases, TypeOK
    <3>2. CASE InsertSet(r)
      BY <2>5, <3>2 DEF InsertSet, TypeOK
    <3>3. CASE RemoveCase(r)
      BY <2>5, <3>3 DEF RemoveCase, TypeOK
    <3>4. CASE DropSet(r)
      BY <2>5, <3>4 DEF DropSet, TypeOK
    <3>5. CASE Freeze(r)
      BY <2>5, <3>5 DEF Freeze, TypeOK
    <3> QED
      BY <1>3, <3>1, <3>2, <3>3, <3>4, <3>5 DEF Write
  <2> QED
    BY <1>3, <2>4, <2>6 DEF Write, TypeOK
<1>4. CASE InsertVersion(r)
  <2>1. req[r].pc = "tx" /\ "tx" \in InTx /\ "nested" \in InTx /\ "nested" \in Pc
    BY <1>4 DEF InsertVersion, Pc, InTx
  <2>2. ConnectionsConserved' /\ req' \in [Request -> ReqRec] /\ free' \in 0..Capacity'
    BY <1>4, <2>1, MoveConserves DEF InsertVersion
  <2> QED
    BY <1>4, <2>2 DEF InsertVersion, TypeOK, tables
<1>5. CASE CopyCases(r)
  <2>1. req[r].pc = "nested" /\ "nested" \in InTx /\ "copied" \in InTx /\ "error" \in Answer
    BY <1>5 DEF CopyCases, InTx, Answer
  <2>2. CASE PoolExhausted /\ Close(r, "error")
    <3>1. ConnectionsConserved' /\ req' \in [Request -> ReqRec] /\ free' \in 0..Capacity'
      BY <1>5, <2>1, <2>2, CloseConserves DEF CopyCases
    <3> QED
      BY <1>5, <3>1 DEF CopyCases, TypeOK, tables
  <2>3. CASE /\ HasConn
             /\ req' = [req EXCEPT ![r].pc = "copied", ![r].copy = cases[req[r].set]]
             /\ UNCHANGED free
    <3>1. req[r] \in ReqRec /\ req[r].pc # "idle"
      BY <2>1 DEF TypeOK
    <3>2. cases[req[r].set] \in SUBSET Case
      BY <2>1, <3>1, MoveType DEF TypeOK, Pc
    <3>3. req' = [req EXCEPT ![r] = [req[r] EXCEPT !.pc = "copied", !.copy = cases[req[r].set]]]
      BY <2>3
    <3>4. [req[r] EXCEPT !.pc = "copied", !.copy = cases[req[r].set]] \in ReqRec
      BY <2>1, <3>1, <3>2, CopyType
    <3>5. req' \in [Request -> ReqRec]
      BY <3>3, <3>4 DEF TypeOK
    <3>6. \A q \in Request : req'[q].pc \in InTx <=> req[q].pc \in InTx
      BY <2>1, <3>1, <3>3 DEF TypeOK, ReqRec, Idle
    <3>7. ConnectionsConserved' /\ free' \in 0..Capacity'
      BY <1>5, <2>3, <3>6, SameConserves DEF Txs, CopyCases
    <3> QED
      BY <1>5, <3>5, <3>7 DEF CopyCases, TypeOK, tables
  <2> QED
    BY <1>5, <2>2, <2>3 DEF CopyCases
<1>6. CASE CommitVersion(r)
  <2>1. req[r].pc = "copied" /\ "copied" \in InTx /\ "done" \in Answer /\ req[r] \in ReqRec
    BY <1>6 DEF CommitVersion, InTx, Answer, TypeOK
  <2>2. ConnectionsConserved' /\ req' \in [Request -> ReqRec] /\ free' \in 0..Capacity'
    BY <1>6, <2>1, CloseConserves DEF CommitVersion
  <2>3. req[r].copy \in SUBSET Case /\ r \in SetId
    BY <2>1, MoveType DEF SetId, Pc
  <2> QED
    BY <1>6, <2>2, <2>3 DEF CommitVersion, TypeOK
<1> QED
  BY <1>1, <1>2, <1>3, <1>4, <1>5, <1>6 DEF Serve

LEMMA ConnInit == Init => ConnInv
<1> SUFFICES ASSUME Init PROVE ConnInv
  OBVIOUS
<1>1. TypeOK
  <2>1. Idle \in ReqRec
    BY DEF ReqRec
  <2>2. req \in [Request -> ReqRec]
    BY <2>1 DEF Init
  <2>3. free \in 0..Capacity /\ faults \in 0..MaxFaults /\ crashes \in 0..MaxCrashes
    BY CapacityType, TestSetsAssumption DEF Init
  <2>4. cases \in [SetId -> SUBSET Case]
    BY DEF Init
  <2>5. present \subseteq SetId /\ frozen \subseteq present
    BY DEF Init, SetId
  <2> QED
    BY <2>2, <2>3, <2>4, <2>5 DEF Init, TypeOK
<1>2. Txs = {} /\ Cardinality(Txs) = 0
  BY FS_EmptySet DEF Init, Txs, Idle, InTx
<1> QED
  BY <1>1, <1>2, CapacityType DEF Init, ConnInv, ConnectionsConserved, Txs

LEMMA ConnStep ==
  ASSUME ConnInv, [Next]_vars
  PROVE  ConnInv'
<1> USE DEF ConnInv
<1>1. ASSUME NEW r \in Request, NEW op \in Op, NEW s \in SetId, NEW k \in Case,
             Arrive(r, op, s, k)
      PROVE  ConnInv'
  <2> DEFINE q == [pc |-> IF op \in {"add", "remove", "version"} THEN "look" ELSE "begin",
                   op |-> op, set |-> s, case |-> k, copy |-> {}, late |-> s \in frozen]
  <2>1. req' = [req EXCEPT ![r] = q] /\ req[r] = Idle
    BY <1>1 DEF Arrive
  <2>2. (s \in frozen) \in BOOLEAN
    OBVIOUS
  <2>3. q \in ReqRec /\ q.pc \notin InTx
    BY <2>2 DEF ReqRec, InTx
  <2>4. req' \in [Request -> ReqRec]
    BY <2>1, <2>3 DEF TypeOK
  <2>5. Txs' = Txs
    BY <2>1, <2>3 DEF Txs, TypeOK, Idle, InTx
  <2>6. ConnectionsConserved' /\ free' \in 0..Capacity'
    BY <1>1, <2>5, SameConserves DEF Arrive
  <2> QED
    BY <1>1, <2>4, <2>6 DEF Arrive, TypeOK, tables
<1>2. ASSUME NEW r \in Request, Raise(r)
      PROVE  ConnInv'
  <2>1. "error" \in Answer
    BY DEF Answer
  <2>2. ConnectionsConserved' /\ req' \in [Request -> ReqRec] /\ free' \in 0..Capacity'
    BY <1>2, <2>1, CloseConserves DEF Raise
  <2> QED
    BY <1>2, <2>2, TestSetsAssumption DEF Raise, TypeOK, tables
<1>3. CASE Crash
  <2>1. \A r \in Waiting : [req[r] EXCEPT !.pc = "dead"] \in ReqRec
                           /\ [req[r] EXCEPT !.pc = "dead"].pc = "dead"
    <3> SUFFICES ASSUME NEW r \in Waiting
                 PROVE  [req[r] EXCEPT !.pc = "dead"] \in ReqRec
                        /\ [req[r] EXCEPT !.pc = "dead"].pc = "dead"
      OBVIOUS
    <3>1. req[r] \in ReqRec /\ req[r].pc # "idle" /\ "dead" \in Pc
      BY DEF Waiting, TypeOK, InTx, Pc
    <3> QED
      BY <3>1, MoveType
  <2>2. req' \in [Request -> ReqRec]
    BY <1>3, <2>1 DEF Crash, TypeOK
  <2>3. \A r \in Request : req'[r].pc \notin InTx
    BY <1>3, <2>1 DEF Crash, Waiting, InTx
  <2>4. Txs' = {} /\ Cardinality(Txs') = 0
    BY <2>3, FS_EmptySet DEF Txs
  <2>5. Capacity' = Capacity /\ free' = Capacity
    BY <1>3 DEF Crash, Capacity
  <2> QED
    BY <1>3, <2>2, <2>4, <2>5, CapacityType, TestSetsAssumption
    DEF Crash, TypeOK, tables, ConnectionsConserved, Txs
<1>4. CASE UNCHANGED vars
  BY <1>4 DEF vars, tables, TypeOK, ConnectionsConserved, Capacity
<1> QED
  BY <1>1, <1>2, <1>3, <1>4, ServeConserves DEF Next

\* The model of test sets stays within its types.
THEOREM TypeCorrect == Spec => []TypeOK
<1>1. ConnInv => TypeOK
  BY DEF ConnInv
<1> QED
  BY ConnInit, ConnStep, <1>1, PTL DEF Spec

\* Whatever raises, and whatever a crash cuts short, the write lock or the
\* connections of the pool (_SQLiteConn.connect, _PostgreSQLConn.connect) are each
\* free or held by one transaction.
THEOREM ConnectionsKept == Spec => []ConnectionsConserved
<1>1. ConnInv => ConnectionsConserved
  BY DEF ConnInv
<1> QED
  BY ConnInit, ConnStep, <1>1, PTL DEF Spec

-----------------------------------------------------------------------------
(* Cases and frozen sets.                                                  *)

Busy == {"look", "begin"} \union InTx

Finished == Answer \union {"dead"}

\* A set that was removed does not come back: its name is not given again.
Gone(s) == s \notin present /\ (s \in Request => req[s].pc \in Finished)

CreatedIsDone == \A r \in Request : r \in present => req[r].pc = "done"

\* An add or remove that came when its set was frozen has not looked yet, or the
\* set is gone.
LateIsHarmless ==
  \A r \in Request :
    /\ req[r].pc \in {"look", "begin", "tx"}
    /\ req[r].late
    /\ req[r].op \in {"add", "remove"}
    => \/ Gone(req[r].set)
       \/ req[r].pc = "look" /\ req[r].set \in frozen

CaseInv == ConnInv /\ NoOrphanCases /\ CreatedIsDone /\ LateIsHarmless

\* A step of one request changes nothing of another, and of its own only where it is.
LEMMA OneRequest ==
  ASSUME TypeOK, NEW q \in Request, Serve(q) \/ Raise(q)
  PROVE  /\ req[q].pc \in Busy
         /\ \A r \in Request \ {q} : req'[r] = req[r]
         /\ req'[q].op = req[q].op
         /\ req'[q].set = req[q].set
         /\ req'[q].late = req[q].late
         /\ backend' = backend
<1>1. req[q].pc \in Busy /\ backend' = backend
  BY DEF Serve, Look, Open, Write, InsertVersion, CopyCases, CommitVersion, Raise, Busy,
         InTx
<1>2. req[q] \in ReqRec /\ req[q].pc # "idle"
  BY <1>1 DEF TypeOK, Busy, InTx
<1>3. req[q] \in [pc: Pc, op: Op, set: SetId, case: Case, copy: SUBSET Case, late: BOOLEAN]
  BY <1>2 DEF ReqRec, Idle, Pc
<1>4. CASE \E p \in Pc : Goto(q, p)
  BY <1>1, <1>3, <1>4 DEF Goto, TypeOK
<1>5. CASE req' = [req EXCEPT ![q].pc = "copied", ![q].copy = cases[req[q].set]]
  <2>1. req' = [req EXCEPT ![q] = [req[q] EXCEPT !.pc = "copied",
                                                 !.copy = cases[req[q].set]]]
    BY <1>5
  <2> QED
    BY <1>1, <1>3, <2>1 DEF TypeOK
<1>6. Verdict(req[q].op, req[q].set) \in Pc /\ "error" \in Pc /\ "done" \in Pc
      /\ "tx" \in Pc /\ "nested" \in Pc
  BY DEF Verdict, Pc, Answer, InTx
<1>7. Goto(q, Verdict(req[q].op, req[q].set)) \/ Goto(q, "error") \/ Goto(q, "done")
      \/ Goto(q, "tx") \/ Goto(q, "nested")
      \/ req' = [req EXCEPT ![q].pc = "copied", ![q].copy = cases[req[q].set]]
  BY DEF Serve, Look, Open, Write, InsertCases, InsertSet, RemoveCase, DropSet, Freeze,
         InsertVersion, CopyCases, CommitVersion, Raise, Close
<1> QED
  BY <1>4, <1>5, <1>6, <1>7

\* What a step does to the tables.
LEMMA TableSteps ==
  ASSUME TypeOK, NEW q \in Request, Serve(q) \/ Raise(q)
  PROVE  \/ UNCHANGED tables
         \/ req[q].pc = "tx" /\ InsertCases(q)
         \/ req[q].pc = "tx" /\ InsertSet(q)
         \/ req[q].pc = "tx" /\ RemoveCase(q)
         \/ req[q].pc = "tx" /\ DropSet(q)
         \/ req[q].pc = "tx" /\ Freeze(q)
         \/ CommitVersion(q)
BY DEF Serve, Look, Open, Write, InsertVersion, CopyCases, Raise

\* Closing a transaction.
LEMMA CloseMoves ==
  ASSUME TypeOK, NEW q \in Request, req[q].pc \in InTx, NEW p \in Answer, Close(q, p)
  PROVE  req'[q].pc = p
<1>1. req[q].pc # "idle" /\ p \in Pc
  BY DEF InTx, Pc
<1> QED
  BY <1>1, MoveAll DEF Close

\* A request that finished stays as it is.
LEMMA FinishedStays ==
  ASSUME TypeOK, [Next]_vars, NEW r \in Request, req[r].pc \in Finished
  PROVE  req'[r] = req[r]
<1>1. req[r] # Idle /\ req[r].pc \notin Busy /\ r \notin Waiting
  BY DEF Finished, Answer, Idle, Busy, InTx, Waiting
<1>2. ASSUME NEW q \in Request, NEW op \in Op, NEW s \in SetId, NEW k \in Case,
             Arrive(q, op, s, k)
      PROVE  req'[r] = req[r]
  BY <1>1, <1>2 DEF Arrive, TypeOK
<1>3. ASSUME NEW q \in Request, Serve(q) \/ Raise(q)
      PROVE  req'[r] = req[r]
  <2>1. q # r
    BY <1>1, <1>3, OneRequest
  <2> QED
    BY <1>3, <2>1, OneRequest
<1>4. CASE Crash
  BY <1>1, <1>4 DEF Crash, TypeOK
<1>5. CASE UNCHANGED vars
  BY <1>5 DEF vars
<1> QED
  BY <1>2, <1>3, <1>4, <1>5 DEF Next

\* Cases are inserted into sets that are there, and a removed set takes its cases along.
LEMMA OrphansStep ==
  ASSUME CaseInv, [Next]_vars
  PROVE  NoOrphanCases'
<1> USE DEF CaseInv, ConnInv
<1>1. CASE UNCHANGED tables
  BY <1>1 DEF tables, NoOrphanCases
<1>2. ASSUME NEW q \in Request, Serve(q) \/ Raise(q)
      PROVE  NoOrphanCases'
  <2>1. req[q].pc = "tx" => req[q].set \in SetId
    BY MoveType DEF TypeOK, Pc, InTx
  <2>2. CASE req[q].pc = "tx" /\ InsertCases(q)
    BY <2>1, <2>2 DEF InsertCases, NoOrphanCases, TypeOK
  <2>3. CASE req[q].pc = "tx" /\ InsertSet(q)
    BY <2>3 DEF InsertSet, NoOrphanCases
  <2>4. CASE req[q].pc = "tx" /\ RemoveCase(q)
    BY <2>1, <2>4 DEF RemoveCase, NoOrphanCases, TypeOK
  <2>5. CASE req[q].pc = "tx" /\ DropSet(q)
    BY <2>1, <2>5 DEF DropSet, NoOrphanCases, TypeOK
  <2>6. CASE req[q].pc = "tx" /\ Freeze(q)
    BY <2>6 DEF Freeze, NoOrphanCases
  <2>7. CASE CommitVersion(q)
    BY <2>7 DEF CommitVersion, NoOrphanCases, TypeOK
  <2> QED
    BY <1>1, <1>2, <2>2, <2>3, <2>4, <2>5, <2>6, <2>7, TableSteps
<1>3. ASSUME NEW q \in Request, NEW op \in Op, NEW s \in SetId, NEW k \in Case,
             Arrive(q, op, s, k)
      PROVE  UNCHANGED tables
  BY <1>3 DEF Arrive
<1>4. Crash \/ UNCHANGED vars => UNCHANGED tables
  BY DEF Crash, vars
<1> QED
  BY <1>1, <1>2, <1>3, <1>4 DEF Next

\* A set is created by the step that finishes its request.
LEMMA CreatedStep ==
  ASSUME CaseInv, [Next]_vars
  PROVE  CreatedIsDone'
<1> USE DEF CaseInv, ConnInv
<1>1. ASSUME NEW r \in Request, r \in present
      PROVE  req'[r].pc = "done"
  BY <1>1, FinishedStays DEF CreatedIsDone, Finished, Answer
<1>2. CASE present' \subseteq present
  BY <1>1, <1>2 DEF CreatedIsDone
<1>3. ASSUME NEW q \in Request, Serve(q) \/ Raise(q)
      PROVE  CreatedIsDone'
  <2>1. CASE req[q].pc = "tx" /\ InsertSet(q)
    <3>1. req'[q].pc = "done"
      BY <2>1, CloseMoves DEF InsertSet, InTx, Answer
    <3> QED
      BY <1>1, <2>1, <3>1 DEF InsertSet, CreatedIsDone
  <2>2. CASE CommitVersion(q)
    <3>1. req'[q].pc = "done"
      BY <2>2, CloseMoves DEF CommitVersion, InTx, Answer
    <3> QED
      BY <1>1, <2>2, <3>1 DEF CommitVersion, CreatedIsDone
  <2>3. \/ req[q].pc = "tx" /\ InsertSet(q)
        \/ CommitVersion(q)
        \/ present' \subseteq present
    BY <1>3, TableSteps DEF tables, InsertCases, RemoveCase, DropSet, Freeze
  <2> QED
    BY <1>2, <2>1, <2>2, <2>3
<1>4. ASSUME NEW q \in Request, NEW op \in Op, NEW s \in SetId, NEW k \in Case,
             Arrive(q, op, s, k)
      PROVE  present' = present
  BY <1>4 DEF Arrive, tables
<1>5. Crash \/ UNCHANGED vars => present' = present
  BY DEF Crash, vars, tables
<1> QED
  BY <1>2, <1>3, <1>4, <1>5 DEF Next

\* The name of a removed set is not given again.
LEMMA GoneStays ==
  ASSUME CaseInv, [Next]_vars, NEW s \in SetId, Gone(s)
  PROVE  Gone(s)'
<1> USE DEF CaseInv, ConnInv
<1>1. s \in Request => req'[s] = req[s]
  BY FinishedStays DEF Gone
<1>2. s \in Request => req[s].pc \notin InTx
  BY DEF Gone, Finished, Answer, InTx
<1>3. ASSUME NEW q \in Request, Serve(q) \/ Raise(q)
      PROVE  s \notin present'
  <2>1. \/ req[q].pc = "tx" /\ InsertSet(q)
        \/ CommitVersion(q)
        \/ present' \subseteq present
    BY <1>3, TableSteps DEF tables, InsertCases, RemoveCase, DropSet, Freeze
  <2>2. present' \subseteq present \/ (req[q].pc \in InTx /\ present' = present \union {q})
    BY <2>1 DEF InsertSet, CommitVersion, InTx
  <2> QED
    BY <1>2, <2>2 DEF Gone
<1>4. ASSUME NEW q \in Request, NEW op \in Op, NEW t \in SetId, NEW k \in Case,
             Arrive(q, op, t, k)
      PROVE  present' = present
  BY <1>4 DEF Arrive, tables
<1>5. Crash \/ UNCHANGED vars => present' = present
  BY DEF Crash, vars, tables
<1>6. s \notin present'
  BY <1>3, <1>4, <1>5 DEF Next, Gone
<1> QED
  BY <1>1, <1>6 DEF Gone

\* Nothing unfreezes a set but its removal.
LEMMA FrozenOrGone ==
  ASSUME CaseInv, [Next]_vars, NEW s \in frozen
  PROVE  s \in frozen' \/ Gone(s)'
<1> USE DEF CaseInv, ConnInv
<1>1. s \in present /\ s \in SetId
  BY DEF TypeOK
<1>2. s \in Request => req[s].pc \in Finished
  BY <1>1 DEF CreatedIsDone, Finished, Answer
<1>3. s \in Request => req'[s] = req[s]
  BY <1>2, FinishedStays
<1>4. ASSUME NEW q \in Request, Serve(q) \/ Raise(q)
      PROVE  s \in frozen' \/ s \notin present'
  BY <1>4, TableSteps
  DEF tables, InsertCases, InsertSet, RemoveCase, DropSet, Freeze, CommitVersion
<1>5. ASSUME NEW q \in Request, NEW op \in Op, NEW t \in SetId, NEW k \in Case,
             Arrive(q, op, t, k)
      PROVE  frozen' = frozen
  BY <1>5 DEF Arrive, tables
<1>6. Crash \/ UNCHANGED vars => frozen' = frozen
  BY DEF Crash, vars, tables
<1>7. s \in frozen' \/ s \notin present'
  BY <1>4, <1>5, <1>6 DEF Next
<1> QED
  BY <1>2, <1>3, <1>7 DEF Gone

\* A request that goes on after the look at its set did not find it frozen.
LEMMA LateStep ==
  ASSUME CaseInv, [Next]_vars
  PROVE  LateIsHarmless'
<1> USE DEF CaseInv, ConnInv
<1> SUFFICES ASSUME NEW r \in Request,
                    req'[r].pc \in {"look", "begin", "tx"},
                    req'[r].late,
                    req'[r].op \in {"add", "remove"}
             PROVE  \/ Gone(req[r].set)'
                    \/ req'[r].pc = "look" /\ req'[r].set \in frozen'
  BY DEF LateIsHarmless
<1>1. ASSUME NEW q \in ReqRec, q.pc # "idle"
      PROVE  q.set \in SetId
  BY <1>1, MoveType DEF Pc
<1>2. CASE req'[r] = req[r]
  <2>1. req[r] \in ReqRec /\ req[r].pc # "idle"
    BY <1>2 DEF TypeOK
  <2>2. req[r].set \in SetId
    BY <1>1, <2>1
  <2>3. CASE Gone(req[r].set)
    <3>1. PICK s \in SetId : s = req[r].set
      BY <2>2
    <3>2. Gone(s)'
      BY <2>3, <3>1, GoneStays
    <3> QED
      BY <1>2, <3>1, <3>2 DEF Gone
  <2>4. CASE req[r].pc = "look" /\ req[r].set \in frozen
    <3>1. PICK s \in frozen : s = req[r].set
      BY <2>4
    <3>2. s \in frozen' \/ Gone(s)'
      BY FrozenOrGone
    <3> QED
      BY <1>2, <2>4, <3>1, <3>2 DEF Gone
  <2> QED
    BY <1>2, <2>3, <2>4 DEF LateIsHarmless
<1>3. CASE Serve(r) \/ Raise(r)
  <2>1. /\ req'[r].op = req[r].op
        /\ req'[r].set = req[r].set
        /\ req'[r].late = req[r].late
        /\ req[r].pc \in Busy
    BY <1>3, OneRequest
  <2>2. req[r] \in ReqRec /\ req[r].pc # "idle"
    BY <2>1 DEF TypeOK, Busy, InTx
  <2>3. CASE Look(r)
    <3>1. ASSUME NEW p \in Pc, Goto(r, p)
          PROVE  req'[r].pc = p
      BY <2>2, <3>1, MoveAll
    <3>2. req'[r].pc \in {Verdict(req[r].op, req[r].set), "error"}
      BY <2>3, <3>1 DEF Look, Verdict, Pc, Answer
    <3>3. Verdict(req[r].op, req[r].set) = "begin"
      BY <3>2 DEF Verdict
    <3>4. req[r].set \notin frozen
      BY <2>1, <3>3 DEF Verdict
    <3>5. Gone(req[r].set)
      BY <2>1, <2>3, <3>4 DEF LateIsHarmless, Look
    <3>6. PICK s \in SetId : s = req[r].set
      BY <1>1, <2>2
    <3>7. Gone(s)'
      BY <3>5, <3>6, GoneStays
    <3> QED
      BY <2>1, <3>6, <3>7 DEF Gone
  <2>4. CASE Open(r)
    <3>1. Gone(req[r].set)
      BY <2>1, <2>4 DEF LateIsHarmless, Open
    <3>2. PICK s \in SetId : s = req[r].set
      BY <1>1, <2>2
    <3>3. Gone(s)'
      BY <3>1, <3>2, GoneStays
    <3> QED
      BY <2>1, <3>2, <3>3 DEF Gone
  <2>5. CASE Write(r) \/ InsertVersion(r) \/ CopyCases(r) \/ CommitVersion(r) \/ Raise(r)
    <3>1. req[r].pc \in InTx
      BY <2>5 DEF Write, InsertVersion, CopyCases, CommitVersion, Raise, InTx
    <3>2. CASE Goto(r, "nested")
      BY <2>2, <3>2, MoveAll DEF Pc, InTx
    <3>3. CASE Close(r, "done") \/ Close(r, "error")
      BY <3>1, <3>3, CloseMoves DEF Answer
    <3>4. CASE req' = [req EXCEPT ![r].pc = "copied", ![r].copy = cases[req[r].set]]
      <4>1. req[r] \in [pc: Pc, op: Op, set: SetId, case: Case, copy: SUBSET Case,
                        late: BOOLEAN]
        BY <2>2 DEF ReqRec, Idle, Pc
      <4>2. req' = [req EXCEPT ![r] = [req[r] EXCEPT !.pc = "copied",
                                                     !.copy = cases[req[r].set]]]
        BY <3>4
      <4> QED
        BY <4>1, <4>2 DEF TypeOK
    <3> QED
      BY <2>5, <3>2, <3>3, <3>4
      DEF Write, InsertCases, InsertSet, RemoveCase, DropSet, Freeze, InsertVersion,
          CopyCases, CommitVersion, Raise
  <2> QED
    BY <1>3, <2>3, <2>4, <2>5 DEF Serve
<1>4. ASSUME NEW op \in Op, NEW s \in SetId, NEW k \in Case, Arrive(r, op, s, k)
      PROVE  req'[r].pc = "look" /\ req'[r].set \in frozen'
  <2>1. req'[r] = [pc |-> IF op \in {"add", "remove", "version"} THEN "look" ELSE "begin",
                   op |-> op, set |-> s, case |-> k, copy |-> {}, late |-> s \in frozen]
    BY <1>4 DEF Arrive, TypeOK
  <2>2. op \in {"add", "remove"}
    BY <2>1
  <2>3. s \in frozen
    <3> SUFFICES ASSUME s \notin frozen PROVE FALSE
      OBVIOUS
    <3>1. (s \in frozen) = FALSE
      OBVIOUS
    <3>2. req'[r] = [pc |-> IF op \in {"add", "remove", "version"} THEN "look" ELSE "begin",
                     op |-> op, set |-> s, case |-> k, copy |-> {}, late |-> FALSE]
      BY <2>1, <3>1
    <3> QED
      BY <3>2
  <2> QED
    BY <1>4, <2>1, <2>2, <2>3 DEF Arrive, tables
<1>5. CASE Crash
  <2>1. r \in Waiting => req'[r].pc = "dead"
    <3>1. r \in Waiting => req[r] \in ReqRec /\ req[r].pc # "idle" /\ "dead" \in Pc
      BY DEF Waiting, TypeOK, InTx, Pc
    <3> QED
      BY <1>5, <3>1, MoveType DEF Crash
  <2>2. r \notin Waiting => req'[r] = req[r]
    BY <1>5 DEF Crash
  <2> QED
    BY <1>2, <2>1, <2>2
<1>6. ASSUME NEW q \in Request, q # r, Serve(q) \/ Raise(q)
      PROVE  req'[r] = req[r]
  BY <1>6, OneRequest
<1>7. ASSUME NEW q \in Request, q # r, NEW op \in Op, NEW s \in SetId, NEW k \in Case,
             Arrive(q, op, s, k)
      PROVE  req'[r] = req[r]
  BY <1>7 DEF Arrive, TypeOK
<1>8. UNCHANGED vars => req'[r] = req[r]
  BY DEF vars
<1> QED
  BY <1>2, <1>3, <1>4, <1>5, <1>6, <1>7, <1>8 DEF Next

LEMMA CaseInit == Init => CaseInv
<1> SUFFICES ASSUME Init PROVE CaseInv
  OBVIOUS
<1>1. NoOrphanCases
  BY DEF Init, NoOrphanCases
<1>2. CreatedIsDone
  BY TestSetsAssumption DEF Init, CreatedIsDone
<1>3. LateIsHarmless
  BY DEF Init, LateIsHarmless, Idle
<1> QED
  BY <1>1, <1>2, <1>3, ConnInit DEF CaseInv

LEMMA CaseStep ==
  ASSUME CaseInv, [Next]_vars
  PROVE  CaseInv'
BY ConnStep, OrphansStep, CreatedStep, LateStep DEF CaseInv

LEMMA CasesKept == Spec => []CaseInv
BY CaseInit, CaseStep, PTL DEF Spec

\* add_test_case and bulk_add_test_cases insert in transactions that never read
\* the set; delete_test_set runs between their look and their insert.  No case
\* is left without its set.
THEOREM NoOrphans == Spec => []NoOrphanCases
<1>1. CaseInv => NoOrphanCases
  BY DEF CaseInv
<1> QED
  BY CasesKept, <1>1, PTL

\* A frozen set changes only through a bulk add, which does not look at the
\* flag, or through a request that came before the freeze.
THEOREM FrozenSetsKept == Spec => FrozenKept
<1>1. ASSUME CaseInv, [Next]_vars, NEW s \in frozen \intersect frozen', cases'[s] # cases[s]
      PROVE  \E r \in Request :
               /\ req[r].pc = "tx" /\ req'[r].pc = "done" /\ req[r].set = s
               /\ req[r].op = "bulk" \/ ~req[r].late
  <2> USE <1>1 DEF CaseInv, ConnInv
  <2>1. s \in present /\ s \in SetId /\ ~Gone(s)
    BY DEF TypeOK, Gone
  <2>2. PICK q \in Request : Serve(q) \/ Raise(q)
    BY DEF Next, Arrive, Crash, vars, tables
  <2>3. req[q] \in ReqRec
    BY DEF TypeOK
  <2>4. CASE req[q].pc = "tx" /\ (InsertCases(q) \/ RemoveCase(q))
    <3>1. req[q].set = s
      BY <2>4 DEF InsertCases, RemoveCase, TypeOK
    <3>2. Close(q, "done")
      BY <2>1, <2>4, <3>1 DEF InsertCases, RemoveCase
    <3>3. req'[q].pc = "done"
      BY <2>4, <3>2, CloseMoves DEF Answer, InTx
    <3>4. req[q].op \in {"add", "bulk", "remove"}
      BY <2>4 DEF InsertCases, RemoveCase
    <3>5. req[q].op = "bulk" \/ ~req[q].late
      BY <2>1, <2>4, <3>1, <3>4 DEF LateIsHarmless
    <3> QED
      BY <2>4, <3>1, <3>3, <3>5
  <2>5. CASE req[q].pc = "tx" /\ DropSet(q)
    BY <2>5 DEF DropSet, TypeOK
  <2>6. CASE CommitVersion(q)
    <3>1. s = q
      BY <2>6 DEF CommitVersion, TypeOK
    <3> QED
      BY <2>1, <2>6, <3>1 DEF CommitVersion, CreatedIsDone
  <2> QED
    BY <2>2, <2>4, <2>5, <2>6, TableSteps DEF tables, InsertSet, Freeze
<1>2. CaseInv /\ [Next]_vars =>
        [\A s \in frozen \intersect frozen' : cases'[s] # cases[s] =>
           \E r \in Request :
             /\ req[r].pc = "tx" /\ req'[r].pc = "done" /\ req[r].set = s
             /\ req[r].op = "bulk" \/ ~req[r].late]_vars
  BY <1>1
<1> QED
  BY CasesKept, <1>2, PTL DEF Spec, FrozenKept
=============================================================================
