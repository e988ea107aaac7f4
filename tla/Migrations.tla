----------------------------- MODULE Migrations ------------------------------
(***************************************************************************)
(* The versioned migrations of core/store_impl/base.py, run by every       *)
(* server process that starts on the database.  A migration is a list of   *)
(* statements, each of which adds one item (a column, or a table with IF   *)
(* NOT EXISTS), and ends by recording its version.  On PostgreSQL it is    *)
(* one transaction; on SQLite the sqlite3 module commits each DDL          *)
(* statement by itself.                                                    *)
(***************************************************************************)
EXTENDS Naturals, FiniteSets, Sequences

CONSTANTS
  Process,      \* server processes
  Statements,   \* Statements[v]: how many statements migration v has
  IsColumn,     \* the items added by _add_column, which asks before it adds
  BaseItems,    \* the items that the CREATE TABLEs of _init have already
  MaxStarts     \* bound: starts of processes

Version == DOMAIN Statements

Item == {<<v, i>> : v \in Version, i \in 1..9}

ItemsOf(v) == {<<v, i>> : i \in 1..Statements[v]}

ASSUME MigrationsAssumption ==
  /\ IsFiniteSet(Process)
  /\ Statements \in Seq(1..9)
  /\ IsColumn \subseteq Item
  /\ BaseItems \subseteq Item
  /\ MaxStarts \in Nat

VARIABLES
  dialect,    \* "sqlite" or "postgresql"
  schema,     \* items of the database, committed
  recorded,   \* rows of schema_version
  process,    \* the processes and how far they are
  starts      \* starts so far

migrationVars == <<dialect, schema, recorded, process, starts>>

-----------------------------------------------------------------------------

Down == [pc |-> "down"]

ProcessRec ==
  [pc: {"down", "current", "up", "failed"}] \union
  [pc: {"ask", "add", "record", "tolerate"},
   version: Version, next: 1..10,   \* the statement that is next
   pending: SUBSET Item,            \* items this transaction has added
   poisoned: BOOLEAN]               \* a statement of the transaction has failed

MigrationsTypeOK ==
  /\ dialect \in {"sqlite", "postgresql"}
  /\ schema \subseteq Item
  /\ recorded \subseteq Version
  /\ process \in [Process -> ProcessRec]
  /\ starts \in 0..MaxStarts

MigrationsInit ==
  /\ dialect \in {"sqlite", "postgresql"}
  /\ schema = BaseItems
  /\ recorded = {}
  /\ process = [p \in Process |-> Down]
  /\ starts = 0

-----------------------------------------------------------------------------

Migrating(p) == process[p].pc \in {"ask", "add", "record", "tolerate"}

\* The next migration after a version, or the end of them.
From(v) ==
  IF v + 1 \in Version
  THEN [pc |-> "ask", version |-> v + 1, next |-> 1, pending |-> {}, poisoned |-> FALSE]
  ELSE [pc |-> "up"]

Become(p, rec) == process' = [process EXCEPT ![p] = rec]

\* The next statement of the migration, or the record of its version.
Advance(p, added, poisoned) ==
  LET q == process[p] IN
    Become(p, [q EXCEPT !.pc = IF q.next = Statements[q.version] THEN "record" ELSE "ask",
                        !.next = @ + 1,
                        !.pending = @ \union added,
                        !.poisoned = poisoned])

\* An item of another transaction that is still open: a statement waits for it.
PendingElsewhere(p, item) ==
  \E o \in Process \ {p} : Migrating(o) /\ item \in process[o].pending

StartProcess(p) ==
  /\ process[p].pc \in {"down", "failed"}
  /\ starts < MaxStarts
  /\ starts' = starts + 1
  /\ Become(p, [pc |-> "current"])
  /\ UNCHANGED <<dialect, schema, recorded>>

\* MAX(version) of schema_version.
ReadVersion(p) ==
  /\ process[p].pc = "current"
  /\ Become(p, From(IF recorded = {} THEN 0
                    ELSE CHOOSE v \in recorded : \A w \in recorded : w <= v))
  /\ UNCHANGED <<dialect, schema, recorded, starts>>

\* A statement in a transaction that has failed raises, and so does _migrate.
PoisonedFails(p) ==
  /\ process[p].pc \in {"ask", "record"}
  /\ process[p].poisoned
  /\ Become(p, [pc |-> "failed"])
  /\ UNCHANGED <<dialect, schema, recorded, starts>>

\* Whether the item is there: _column_exists, and IF NOT EXISTS.
AskItem(p) ==
  LET q == process[p]
      item == <<q.version, q.next>>
  IN
  /\ q.pc = "ask" /\ ~q.poisoned
  /\ IF item \in schema \union q.pending
     THEN Advance(p, {}, FALSE)
     ELSE Become(p, [q EXCEPT !.pc = "add"])
  /\ UNCHANGED <<dialect, schema, recorded, starts>>

\* ALTER TABLE and CREATE TABLE.  An item that another process has added since it
\* was asked for: _add_column swallows the error, which leaves PostgreSQL's
\* transaction failed; a CREATE's goes to _migrate.
AddItem(p) ==
  LET q == process[p]
      item == <<q.version, q.next>>
  IN
  /\ q.pc = "add"
  /\ ~PendingElsewhere(p, item)
  /\ \/ /\ item \notin schema
        /\ IF dialect = "sqlite"
           THEN schema' = schema \union {item} /\ Advance(p, {}, FALSE)
           ELSE Advance(p, {item}, FALSE) /\ UNCHANGED schema
     \/ /\ item \in schema
        /\ IF item \in IsColumn
           THEN Advance(p, {}, dialect = "postgresql")
           ELSE IF dialect = "sqlite" THEN Advance(p, {}, FALSE)
           ELSE Become(p, [q EXCEPT !.pc = "tolerate", !.pending = {}])
        /\ UNCHANGED schema
  /\ UNCHANGED <<dialect, recorded, starts>>

\* Faulty: the version is recorded in a transaction of its own, before the one of
\* the migration commits.
RecordEarly(p) ==
  LET q == process[p] IN
  /\ q.pc = "record" /\ ~q.poisoned
  /\ \/ /\ q.version \notin recorded
        /\ recorded' = recorded \union {q.version}
        /\ UNCHANGED <<schema, process>>
     \/ /\ q.version \in recorded
        /\ schema' = schema \union q.pending
        /\ Become(p, From(q.version))
        /\ UNCHANGED recorded
  /\ UNCHANGED <<dialect, starts>>

\* The version's row, and the commit.  When the row is there already: PostgreSQL
\* says that the key "already exists" and everything is rolled back, SQLite's
\* "UNIQUE constraint failed" is not among the messages that are tolerated.
RecordVersion(p) ==
  LET q == process[p] IN
  /\ q.pc = "record" /\ ~q.poisoned
  /\ \/ /\ q.version \notin recorded
        /\ recorded' = recorded \union {q.version}
        /\ schema' = schema \union q.pending
        /\ Become(p, From(q.version))
     \/ /\ q.version \in recorded
        /\ Become(p, IF dialect = "sqlite" THEN [pc |-> "failed"]
                     ELSE [q EXCEPT !.pc = "tolerate", !.pending = {}])
        /\ UNCHANGED <<schema, recorded>>
  /\ UNCHANGED <<dialect, starts>>

\* "Record it as applied so we don't retry."
Tolerate(p) ==
  /\ process[p].pc = "tolerate"
  /\ recorded' = recorded \union {process[p].version}
  /\ Become(p, From(process[p].version))
  /\ UNCHANGED <<dialect, schema, starts>>

\* The process dies: PostgreSQL rolls its transaction back.
KillProcess(p) ==
  /\ process[p].pc \notin {"down", "failed"}
  /\ Become(p, Down)
  /\ UNCHANGED <<dialect, schema, recorded, starts>>

MigrationsNext ==
  \E p \in Process :
    \/ StartProcess(p) \/ ReadVersion(p) \/ PoisonedFails(p) \/ AskItem(p)
    \/ AddItem(p) \/ RecordVersion(p) \/ Tolerate(p) \/ KillProcess(p)

MigrationsSpec == MigrationsInit /\ [][MigrationsNext]_migrationVars

-----------------------------------------------------------------------------

\* "Each migration ... runs exactly once in order" (base.py): the recorded
\* versions have no gap and all of their items, whatever processes start or die
\* meanwhile and although an error that mentions an existing item counts as
\* success.
RecordedIsApplied ==
  \A v \in recorded : ItemsOf(v) \subseteq schema /\ 1..v \subseteq recorded
=============================================================================
