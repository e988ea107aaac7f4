----------------------------- MODULE Performance ------------------------------
(***************************************************************************)
(* What a test case's past runs showed (core/store_impl/flywheel.py): one  *)
(* row for a label and an eval run, found and then updated or inserted by  *)
(* one transaction, first for the comparison and then for its decision.    *)
(*                                                                         *)
(* The score, the confidence and the comparison's id, which are written    *)
(* together with or like the choice, are left out.                         *)
(***************************************************************************)
EXTENDS Databases, Sequences

CONSTANTS
  CaseRun,   \* pairs of a test case's label and an eval run
  MaxRows    \* bound: performance rows

ASSUME PerformanceAssumption == IsFiniteSet(CaseRun) /\ MaxRows \in Nat

VARIABLES
  performance,  \* rows of test_case_performance, in the order of their commits
  lastChoice,   \* history: the choice committed last for a case
  recordReq     \* the threads

perfVars == <<backend, performance, lastChoice, recordReq>>

NoChoice == ""   \* NULL

\* decision_choice of a row.
CaseChoice == {NoChoice, "A", "B"}

PerformanceTypeOK ==
  /\ backend \in Backends
  /\ performance \in Seq([of: CaseRun, choice: CaseChoice])
  /\ Len(performance) <= MaxRows
  /\ lastChoice \in [CaseRun -> CaseChoice]
  /\ recordReq \in [Thread -> {Idle} \union
       [pc: {"record"}, of: CaseRun, choice: CaseChoice, row: 0 .. MaxRows]]

PerformanceInit ==
  /\ backend \in Backends
  /\ performance = <<>>
  /\ lastChoice = [k \in CaseRun |-> NoChoice]
  /\ recordReq = [t \in Thread |-> Idle]

-----------------------------------------------------------------------------

Recording == {t \in Thread : recordReq[t] # Idle}

RowsOf(k) == {i \in DOMAIN performance : performance[i].of = k}

\* A comparison is recorded with no choice, a decision with one.  The transaction
\* starts by looking for a row of the case: any of them.
BeginRecord(t, k, choice) ==
  /\ recordReq[t] = Idle
  /\ MayOpen(Recording)
  /\ Len(performance) + Cardinality(Recording) < MaxRows
  /\ \E row \in IF RowsOf(k) = {} THEN {0} ELSE RowsOf(k) :
       recordReq' = [recordReq EXCEPT ![t] =
         [pc |-> "record", of |-> k, choice |-> choice, row |-> row]]
  /\ UNCHANGED <<backend, performance, lastChoice>>

\* Faulty: the column is written, whatever was given.
WriteAlways(old, choice) == choice

\* The choice of an existing row: None leaves it as it is.
WriteChoice(old, choice) == IF choice = NoChoice THEN old ELSE choice

\* The row found is updated, or a new one inserted; commit.
WriteRow(t) ==
  LET q == recordReq[t] IN
  /\ At(recordReq, t, "record")
  /\ performance' =
       IF q.row = 0 THEN Append(performance, [of |-> q.of, choice |-> q.choice])
       ELSE [performance EXCEPT ![q.row].choice = WriteChoice(@, q.choice)]
  /\ lastChoice' = IF q.choice = NoChoice THEN lastChoice
                   ELSE [lastChoice EXCEPT ![q.of] = q.choice]
  /\ recordReq' = [recordReq EXCEPT ![t] = Idle]
  /\ UNCHANGED backend

\* An exception is logged and dropped: the comparison or decision stays.
DropRecord(t) ==
  /\ At(recordReq, t, "record")
  /\ recordReq' = [recordReq EXCEPT ![t] = Idle]
  /\ UNCHANGED <<backend, performance, lastChoice>>

PerformanceNext ==
  \E t \in Thread :
    \/ \E k \in CaseRun, choice \in CaseChoice : BeginRecord(t, k, choice)
    \/ WriteRow(t) \/ DropRecord(t)

PerformanceSpec == PerformanceInit /\ [][PerformanceNext]_perfVars

-----------------------------------------------------------------------------

\* The choice committed last for a case of an eval run is on one of its rows: a
\* second comparison of the same label, or a record that overlaps on PostgreSQL
\* and leaves a second row, does not take it away.
ChoiceKept ==
  \A k \in CaseRun :
    lastChoice[k] # NoChoice => \E i \in RowsOf(k) : performance[i].choice = lastChoice[k]
=============================================================================
