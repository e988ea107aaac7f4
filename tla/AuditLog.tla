------------------------------ MODULE AuditLog ------------------------------
(***************************************************************************)
(* The audit log (core/store_impl/audit.py): operations commit their own   *)
(* change and then append one entry, best effort.  Every entry carries a   *)
(* hash over its content and the hash of the entry before it;              *)
(* verify_audit_chain recomputes them in the order of seq.                 *)
(*                                                                         *)
(* A hash is modelled by what it determines: the contents of its entry and *)
(* of all entries before it.  Two hashes are equal when those are.         *)
(***************************************************************************)
EXTENDS Naturals, FiniteSets, Sequences

CONSTANTS
  Op,              \* supervisory mutations: keys, models, decisions, memos, prunes
  Legacy,          \* entries written before the log was chained, oldest first
  Altered,         \* a content no operation wrote
  Backends,        \* the databases the server may run on
  TailAlterations, \* whether the newest entry may be deleted or moved
  MaxAlterations,  \* bound: changes made to the table outside the program
  MaxFaults,       \* bound: appends that raise
  MaxCrashes       \* bound: crashes of the server process

ASSUME AuditAssumption ==
  /\ Legacy \in Seq(Op)
  /\ \A i, j \in DOMAIN Legacy : Legacy[i] = Legacy[j] => i = j
  /\ Altered \notin Op
  /\ Backends \subseteq {"sqlite", "postgresql"}
  /\ TailAlterations \in BOOLEAN
  /\ MaxAlterations \in Nat
  /\ MaxFaults \in Nat
  /\ MaxCrashes \in Nat

VARIABLES
  backend,     \* the database: SQLite's write lock or PostgreSQL's READ COMMITTED
  pc,          \* how far the request of each operation is
  head,        \* the head of the log its transaction read
  log,         \* the table audit_log in the order of seq
  committed,   \* operations whose own change is in the database
  appended,    \* history: the entries the program inserted, in that order
  alterations, \* changes made outside the program so far
  faults,      \* appends that raised so far
  crashes      \* crashes so far

bounds == <<alterations, faults, crashes>>

vars == <<backend, pc, head, log, committed, appended, bounds>>

-----------------------------------------------------------------------------

Members(s) == {s[i] : i \in DOMAIN s}

Genesis == <<>>

\* _audit_entry_hash
Hash(prev, body) == Append(prev, body)

NoHead == [seq |-> 0, hash |-> Genesis]

Entry(h, body) ==
  [seq |-> h.seq + 1, body |-> body, prev |-> h.hash, hash |-> Hash(h.hash, body)]

\* Faulty: ORDER BY seq ASC.
OldestHead(rows) ==
  IF rows = <<>> THEN NoHead ELSE [seq |-> rows[1].seq, hash |-> rows[1].hash]

\* SELECT seq, entry_hash ... ORDER BY seq DESC LIMIT 1
HeadOf(rows) ==
  IF rows = <<>> THEN NoHead
  ELSE [seq |-> rows[Len(rows)].seq, hash |-> rows[Len(rows)].hash]

\* The migration chains the rows it finds in the order of their timestamps.
Backfill(bodies) ==
  [i \in 1..Len(bodies) |->
     Entry([seq |-> i - 1, hash |-> SubSeq(bodies, 1, i - 1)], bodies[i])]

Body == Op \union {Altered}

HeadRec == [seq: Nat, hash: Seq(Body)]

Row == [seq: Nat, body: Body, prev: Seq(Body), hash: Seq(Body)]

TypeOK ==
  /\ backend \in Backends
  /\ pc \in [Op -> {"idle", "append", "insert", "done", "dead"}]
  /\ head \in [Op -> HeadRec]
  /\ log \in Seq(Row)
  /\ committed \subseteq Op
  /\ appended \in Seq(Op)
  /\ alterations \in 0..MaxAlterations
  /\ faults \in 0..MaxFaults
  /\ crashes \in 0..MaxCrashes

Init ==
  /\ backend \in Backends
  /\ pc = [o \in Op |-> IF o \in Members(Legacy) THEN "done" ELSE "idle"]
  /\ head = [o \in Op |-> NoHead]
  /\ log = Backfill(Legacy)
  /\ committed = Members(Legacy)
  /\ appended = Legacy
  /\ alterations = 0
  /\ faults = 0
  /\ crashes = 0

-----------------------------------------------------------------------------
(* A request: its own change, then the audit entry.                        *)

\* Faulty: the entry is written before the change it tells of.
CommitLater(o) ==
  /\ pc[o] = "idle"
  /\ pc' = [pc EXCEPT ![o] = "append"]
  /\ UNCHANGED <<backend, head, log, committed, appended, bounds>>

Commit(o) ==
  /\ pc[o] = "idle"
  /\ pc' = [pc EXCEPT ![o] = "append"]
  /\ committed' = committed \union {o}
  /\ UNCHANGED <<backend, head, log, appended, bounds>>

\* The row takes its place in the order of seq.
Place(rows, row) ==
  LET k == Cardinality({i \in DOMAIN rows : rows[i].seq < row.seq})
  IN  SubSeq(rows, 1, k) \o <<row>> \o SubSeq(rows, k + 1, Len(rows))

\* Faulty: no unique index on seq.
StoreUnindexed(o, h) ==
  /\ log' = Append(log, Entry(h, o))
  /\ appended' = Append(appended, o)

\* INSERT under the unique index on seq: a taken seq raises, and the request
\* goes on without an entry.
Store(o, h) ==
  IF \E i \in DOMAIN log : log[i].seq = h.seq + 1
  THEN UNCHANGED <<log, appended>>
  ELSE /\ log' = Place(log, Entry(h, o))
       /\ appended' = Append(appended, o)

\* SQLite: the SELECT and the INSERT under the write lock.
AppendLocked(o) ==
  /\ backend = "sqlite"
  /\ pc[o] = "append"
  /\ Store(o, HeadOf(log))
  /\ pc' = [pc EXCEPT ![o] = "done"]
  /\ UNCHANGED <<backend, head, committed, bounds>>

\* PostgreSQL: the SELECT takes no lock that another append waits for.
ReadHead(o) ==
  /\ backend = "postgresql"
  /\ pc[o] = "append"
  /\ head' = [head EXCEPT ![o] = HeadOf(log)]
  /\ pc' = [pc EXCEPT ![o] = "insert"]
  /\ UNCHANGED <<backend, log, committed, appended, bounds>>

Insert(o) ==
  /\ pc[o] = "insert"
  /\ Store(o, head[o])
  /\ pc' = [pc EXCEPT ![o] = "done"]
  /\ UNCHANGED <<backend, head, committed, bounds>>

\* Faulty: the exception of the append fails the request.
RaiseEntry(o) ==
  /\ faults < MaxFaults
  /\ pc[o] \in {"append", "insert"}
  /\ pc' = [pc EXCEPT ![o] = "error"]
  /\ faults' = faults + 1
  /\ UNCHANGED <<backend, head, log, committed, appended, alterations, crashes>>

\* "auditing must not fail the request": the exception is swallowed.
LoseEntry(o) ==
  /\ faults < MaxFaults
  /\ pc[o] \in {"append", "insert"}
  /\ pc' = [pc EXCEPT ![o] = "done"]
  /\ faults' = faults + 1
  /\ UNCHANGED <<backend, head, log, committed, appended, alterations, crashes>>

\* The requests under way are lost with the process.
Crash ==
  /\ crashes < MaxCrashes
  /\ \E o \in Op : pc[o] \in {"append", "insert"}
  /\ pc' = [o \in Op |-> IF pc[o] \in {"append", "insert"} THEN "dead" ELSE pc[o]]
  /\ crashes' = crashes + 1
  /\ UNCHANGED <<backend, head, log, committed, appended, alterations, faults>>

-----------------------------------------------------------------------------
(* Changes to the table from outside the program.                          *)

\* The rows that may be deleted or moved.
Movable(i) == i \in DOMAIN log /\ (i < Len(log) \/ TailAlterations)

Change(rows) ==
  /\ alterations < MaxAlterations
  /\ log' = rows
  /\ alterations' = alterations + 1
  /\ UNCHANGED <<backend, pc, head, committed, appended, faults, crashes>>

EditRow(i) ==
  /\ i \in DOMAIN log
  /\ Change([log EXCEPT ![i].body = Altered])

DeleteRow(i) ==
  /\ Movable(i)
  /\ Change(SubSeq(log, 1, i - 1) \o SubSeq(log, i + 1, Len(log)))

\* Two rows exchange their seq.
SwapRows(i, j) ==
  /\ Movable(i) /\ Movable(j) /\ i < j
  /\ Change([log EXCEPT ![i] = [log[j] EXCEPT !.seq = log[i].seq],
                        ![j] = [log[i] EXCEPT !.seq = log[j].seq]])

-----------------------------------------------------------------------------

Request(o) ==
  Commit(o) \/ AppendLocked(o) \/ ReadHead(o) \/ Insert(o) \/ LoseEntry(o)

OutOfBand ==
  \/ \E i \in DOMAIN log : EditRow(i)
  \/ \E i \in DOMAIN log : DeleteRow(i)
  \/ \E i, j \in DOMAIN log : SwapRows(i, j)

Next ==
  \/ \E o \in Op : Request(o)
  \/ Crash
  \/ OutOfBand

Spec == Init /\ [][Next]_vars

-----------------------------------------------------------------------------
(* verify_audit_chain.                                                     *)

\* Faulty: the linkage to the entry before is not compared.
VerifiesAlone(i) == log[i].hash = Hash(log[i].prev, log[i].body)

\* Row i continues the chain of the row before it.
Verifies(i) ==
  /\ log[i].prev = IF i = 1 THEN Genesis ELSE log[i - 1].hash
  /\ log[i].hash = Hash(log[i].prev, log[i].body)

\* The rows verified before the first break.
Checked == {i \in DOMAIN log : \A j \in 1..i : Verifies(j)}

VerifyOk == Checked = DOMAIN log

Bodies == [i \in DOMAIN log |-> log[i].body]

-----------------------------------------------------------------------------
(* Properties.                                                             *)

\* A log nobody touched verifies, whatever appends interleave, fail or are cut
\* by a crash, and its seq has no gap: verify_audit_chain raises no false alarm.
UntouchedVerifies ==
  alterations = 0 => VerifyOk /\ \A i \in DOMAIN log : log[i].seq = i

\* "Any out-of-band edit, delete, or reorder of a supervisory record is detected
\* here" (verify_audit_chain): a log that verifies is what the program wrote,
\* and the program's later appends do not heal it.
AlterationDetected == VerifyOk => Bodies = appended

\* No entry tells of an operation that did not happen, and none tells twice.
EntriesAreTrue ==
  /\ Members(appended) \subseteq committed
  /\ \A i, j \in DOMAIN appended : appended[i] = appended[j] => i = j

Unlogged == {o \in Op : pc[o] = "done" /\ o \notin Members(appended)}

\* Under SQLite's write lock no append ever meets the unique index: an operation
\* that was answered without its entry is one whose append raised.
LossIsFault == backend = "sqlite" => Cardinality(Unlogged) <= faults

\* "append-only audit_log recording API-key, model-inventory, and validation-memo
\* mutations" (CHANGELOG.md): an operation that was answered has its entry.
AnsweredIsAudited == Unlogged = {}
=============================================================================
