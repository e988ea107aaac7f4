------------------------------ MODULE TestSets -------------------------------
(***************************************************************************)
(* Test sets (core/store_impl/testsets.py, backend/routes/test_sets.py)    *)
(* over the connections of the store (core/store_impl/base.py): on SQLite  *)
(* one write connection behind a lock that its holder cannot take again,   *)
(* on PostgreSQL a pool that raises when it is empty.  Routes run in       *)
(* threads.  A short read is one step; a transaction that writes is opened *)
(* and closed by steps of its own.                                         *)
(*                                                                         *)
(* A set or case is named after the request that created it.  Names,       *)
(* version numbers and the contents of cases are left out.                 *)
(***************************************************************************)
EXTENDS Naturals, FiniteSets

CONSTANTS
  Request,    \* requests
  Base,       \* test sets at the start
  Backends,   \* the databases the server may run on
  Offered,    \* the operations in use on each of them
  PoolSize,   \* connections of the PostgreSQL pool
  MaxFaults,  \* bound: transactions that raise
  MaxCrashes  \* bound: crashes of the server process

Op == {"create", "add", "bulk", "remove", "drop", "freeze", "version"}

ASSUME TestSetsAssumption ==
  /\ IsFiniteSet(Request)
  /\ Base \intersect Request = {}
  /\ Backends \subseteq {"sqlite", "postgresql"}
  /\ Offered \in [Backends -> SUBSET Op]
  /\ PoolSize \in Nat \ {0}
  /\ MaxFaults \in Nat
  /\ MaxCrashes \in Nat

VARIABLES
  backend,   \* the database
  present,   \* rows of test_sets
  frozen,    \* those with is_frozen
  cases,     \* the cases of each set
  req,       \* the requests and how far they are
  free,      \* the lock, or connections left in the pool
  faults,    \* transactions that raised so far
  crashes    \* crashes so far

tables == <<present, frozen, cases>>

vars == <<backend, tables, req, free, faults, crashes>>

-----------------------------------------------------------------------------

SetId == Base \union Request

\* A single add inserts the first of a request's cases, a bulk add both.
Case == Request \X {1, 2}

Capacity == IF backend = "sqlite" THEN 1 ELSE PoolSize

Idle == [pc |-> "idle"]

\* In a transaction of its own.
InTx == {"tx", "nested", "copied"}

Answer == {"done", "conflict", "missing", "error"}

ReqRec ==
  {Idle} \union
  [pc: {"look", "begin", "dead"} \union InTx \union Answer,
   op: Op, set: SetId,
   case: Case,          \* what a remove names
   copy: SUBSET Case,   \* what a version read
   late: BOOLEAN]       \* history: the set was frozen when the request arrived

TypeOK ==
  /\ backend \in Backends
  /\ present \subseteq SetId
  /\ frozen \subseteq present
  /\ cases \in [SetId -> SUBSET Case]
  /\ req \in [Request -> ReqRec]
  /\ free \in 0..Capacity
  /\ faults \in 0..MaxFaults
  /\ crashes \in 0..MaxCrashes

Init ==
  /\ backend \in Backends
  /\ present = Base
  /\ frozen = {}
  /\ cases = [s \in SetId |-> {}]
  /\ req = [r \in Request |-> Idle]
  /\ free = Capacity
  /\ faults = 0
  /\ crashes = 0

Goto(r, pc) == req' = [req EXCEPT ![r].pc = pc]

-----------------------------------------------------------------------------
(* Connections.                                                            *)

\* A connection is left.  On SQLite a thread without one waits ...
HasConn == free > 0

\* ... on PostgreSQL getconn raises, and the request fails.
PoolExhausted == ~HasConn /\ backend = "postgresql"

\* Faulty: the connection is kept when the transaction raises.
CloseOnSuccess(r, pc) ==
  /\ Goto(r, pc)
  /\ free' = IF pc = "error" THEN free ELSE free + 1

\* Leaving "with self._conn()", by commit or rollback.
Close(r, pc) ==
  /\ Goto(r, pc)
  /\ free' = free + 1

-----------------------------------------------------------------------------

\* A client names sets and cases it has seen.
Arrive(r, op, s, k) ==
  /\ req[r] = Idle
  /\ op \in Offered[backend]
  /\ s \in IF op = "create" THEN {r} ELSE present \union Base
  /\ k \in IF op = "remove" THEN cases[s] ELSE {<<r, 1>>}
  /\ req' = [req EXCEPT ![r] =
       [pc |-> IF op \in {"add", "remove", "version"} THEN "look" ELSE "begin",
        op |-> op, set |-> s, case |-> k, copy |-> {}, late |-> s \in frozen]]
  /\ UNCHANGED <<backend, tables, free, faults, crashes>>

\* Faulty: only adds are refused.
VerdictForAdds(op, s) ==
  IF op = "version"
  THEN IF s \in present THEN "begin" ELSE "missing"
  ELSE IF s \in frozen /\ op = "add" THEN "conflict" ELSE "begin"

\* What get_test_set found: 409 for a frozen set, 404 for a missing original.
Verdict(op, s) ==
  IF op = "version"
  THEN IF s \in present THEN "begin" ELSE "missing"
  ELSE IF s \in frozen THEN "conflict" ELSE "begin"

\* get_test_set before the transaction that writes.
Look(r) ==
  /\ req[r].pc = "look"
  /\ \/ HasConn /\ Goto(r, Verdict(req[r].op, req[r].set))
     \/ PoolExhausted /\ Goto(r, "error")
  /\ UNCHANGED <<backend, tables, free, faults, crashes>>

Open(r) ==
  /\ req[r].pc = "begin"
  /\ \/ HasConn /\ free' = free - 1 /\ Goto(r, "tx")
     \/ PoolExhausted /\ Goto(r, "error") /\ UNCHANGED free
  /\ UNCHANGED <<backend, tables, faults, crashes>>

NewCases(r) ==
  IF req[r].op = "bulk" THEN {<<r, 1>>, <<r, 2>>} ELSE {<<r, 1>>}

\* Faulty: a connection without PRAGMA foreign_keys.
InsertCasesUnchecked(r) ==
  /\ req[r].op \in {"add", "bulk"}
  /\ cases' = [cases EXCEPT ![req[r].set] = @ \union NewCases(r)]
  /\ Close(r, "done")
  /\ UNCHANGED <<present, frozen>>

\* The foreign key refuses cases of a set that is gone.
InsertCases(r) ==
  /\ req[r].op \in {"add", "bulk"}
  /\ IF req[r].set \in present
     THEN /\ cases' = [cases EXCEPT ![req[r].set] = @ \union NewCases(r)]
          /\ Close(r, "done")
     ELSE /\ UNCHANGED cases
          /\ Close(r, "error")
  /\ UNCHANGED <<present, frozen>>

InsertSet(r) ==
  /\ req[r].op = "create"
  /\ present' = present \union {r}
  /\ Close(r, "done")
  /\ UNCHANGED <<frozen, cases>>

RemoveCase(r) ==
  /\ req[r].op = "remove"
  /\ cases' = [cases EXCEPT ![req[r].set] = @ \ {req[r].case}]
  /\ Close(r, "done")
  /\ UNCHANGED <<present, frozen>>

\* Faulty: the flag is kept apart from the row.
DropSetKeepsFlag(r) ==
  /\ req[r].op = "drop"
  /\ present' = present \ {req[r].set}
  /\ cases' = [cases EXCEPT ![req[r].set] = {}]
  /\ Close(r, "done")
  /\ UNCHANGED frozen

\* DELETE cascades to the cases.
DropSet(r) ==
  /\ req[r].op = "drop"
  /\ present' = present \ {req[r].set}
  /\ frozen' = frozen \ {req[r].set}
  /\ cases' = [cases EXCEPT ![req[r].set] = {}]
  /\ Close(r, "done")

\* freeze_test_set, which no route calls.
Freeze(r) ==
  /\ req[r].op = "freeze"
  /\ frozen' = frozen \union ({req[r].set} \intersect present)
  /\ Close(r, "done")
  /\ UNCHANGED <<present, cases>>

Write(r) ==
  /\ req[r].pc = "tx"
  /\ InsertCases(r) \/ InsertSet(r) \/ RemoveCase(r) \/ DropSet(r) \/ Freeze(r)
  /\ UNCHANGED <<backend, faults, crashes>>

-----------------------------------------------------------------------------
(* create_test_set_version.                                                *)

\* The row of the new set; it is not visible before the commit.
InsertVersion(r) ==
  /\ req[r].pc = "tx"
  /\ req[r].op = "version"
  /\ Goto(r, "nested")
  /\ UNCHANGED <<backend, tables, free, faults, crashes>>

\* list_test_cases asks for a connection while the transaction holds its own.
CopyCases(r) ==
  /\ req[r].pc = "nested"
  /\ \/ /\ HasConn
        /\ req' = [req EXCEPT ![r].pc = "copied", ![r].copy = cases[req[r].set]]
        /\ UNCHANGED free
     \/ PoolExhausted /\ Close(r, "error")
  /\ UNCHANGED <<backend, tables, faults, crashes>>

CommitVersion(r) ==
  /\ req[r].pc = "copied"
  /\ present' = present \union {r}
  /\ cases' = [cases EXCEPT ![r] = req[r].copy]
  /\ Close(r, "done")
  /\ UNCHANGED <<backend, frozen, faults, crashes>>

-----------------------------------------------------------------------------

\* A statement raises: rollback, and 500.
Raise(r) ==
  /\ faults < MaxFaults
  /\ req[r].pc \in InTx
  /\ Close(r, "error")
  /\ faults' = faults + 1
  /\ UNCHANGED <<backend, tables, crashes>>

Waiting == {r \in Request : req[r].pc \in {"look", "begin"} \union InTx}

Crash ==
  /\ crashes < MaxCrashes
  /\ Waiting # {}
  /\ req' = [r \in Request |->
               IF r \in Waiting THEN [req[r] EXCEPT !.pc = "dead"] ELSE req[r]]
  /\ free' = Capacity
  /\ crashes' = crashes + 1
  /\ UNCHANGED <<backend, tables, faults>>

Serve(r) ==
  \/ Look(r)
  \/ Open(r)
  \/ Write(r)
  \/ InsertVersion(r)
  \/ CopyCases(r)
  \/ CommitVersion(r)

Next ==
  \/ \E r \in Request, op \in Op, s \in SetId, k \in Case : Arrive(r, op, s, k)
  \/ \E r \in Request : Serve(r) \/ Raise(r)
  \/ Crash

Spec == Init /\ [][Next]_vars

\* Threads run, and a free lock is handed to one that waits for it.
Fairness == \A r \in Request : WF_vars(Serve(r))

FairSpec == Spec /\ Fairness

-----------------------------------------------------------------------------
(* Properties.                                                             *)

\* Whatever raises inside a transaction, the lock or connection comes back:
\* each is free or held by one transaction.
ConnectionsConserved ==
  free + Cardinality({r \in Request : req[r].pc \in InTx}) = Capacity

\* No case outlives its set, although cases are inserted by transactions that
\* read the set before, or not at all.
NoOrphanCases == \A s \in SetId : cases[s] # {} => s \in present

\* A frozen set changes only through a bulk add, or through a request that came
\* before the freeze: its check and its write are two transactions.
FrozenKept ==
  [][\A s \in frozen \intersect frozen' : cases'[s] # cases[s] =>
       \E r \in Request :
         /\ req[r].pc = "tx" /\ req'[r].pc = "done" /\ req[r].set = s
         /\ req[r].op = "bulk" \/ ~req[r].late]_vars

\* "A server must never hang on the DB" (base.py): every request is answered,
\* unless the process dies.
EveryRequestAnswered ==
  \A r \in Request : r \in Waiting ~> r \notin Waiting
=============================================================================
