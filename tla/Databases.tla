----------------------------- MODULE Databases -------------------------------
(***************************************************************************)
(* Transactions of the store (core/store_impl/base.py).  On SQLite there   *)
(* is one write connection behind a lock: transactions that write run one  *)
(* after another.  On PostgreSQL they overlap; each statement sees what is *)
(* committed, and waits for a row that another transaction has written.    *)
(***************************************************************************)
EXTENDS Server

CONSTANT Backends   \* the databases the server may run on

ASSUME DatabasesAssumption == Backends \subseteq {"sqlite", "postgresql"}

VARIABLE backend

\* A thread may open a transaction when these are open.
MayOpen(open) == backend = "postgresql" \/ open = {}
=============================================================================
