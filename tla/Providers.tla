----------------------------- MODULE Providers -------------------------------
(***************************************************************************)
(* LLM providers (core/store_impl/providers.py, backend/routes/            *)
(* providers.py): the rows, and which of them is the default.  Each        *)
(* operation is one transaction of several statements; two that overlap on *)
(* PostgreSQL do not see each other's.                                     *)
(*                                                                         *)
(* Names, addresses and keys are left out, and so is created_at: the       *)
(* oldest remaining provider is any of them.                               *)
(***************************************************************************)
EXTENDS Databases

CONSTANT ProviderId   \* providers that may come to exist

ASSUME ProvidersAssumption == IsFiniteSet(ProviderId)

VARIABLES
  providers,    \* rows of llm_providers
  default,      \* those with is_default = 1
  legacy,       \* settings still has openai_api_key
  providerReq,  \* the threads
  overlapped    \* history: two transactions have been open at once

providerVars == <<backend, providers, default, legacy, providerReq, overlapped>>

ProviderReqRec ==
  {Idle} \union
  [pc: {"count", "insert", "write", "remove"},
   id: ProviderId,
   flag: BOOLEAN,              \* is_default of the row to write
   cleared: SUBSET ProviderId, \* rows this transaction has set to 0 ...
   promoted: SUBSET ProviderId]\* ... and to 1

ProvidersTypeOK ==
  /\ backend \in Backends
  /\ providers \subseteq ProviderId
  /\ default \subseteq providers
  /\ legacy \in BOOLEAN
  /\ providerReq \in [Thread -> ProviderReqRec]
  /\ overlapped \in BOOLEAN

ProvidersInit ==
  /\ backend \in Backends
  /\ providers = {}
  /\ default = {}
  /\ legacy = TRUE
  /\ providerReq = [t \in Thread |-> Idle]
  /\ overlapped = FALSE

-----------------------------------------------------------------------------

InProviderTx == {t \in Thread : providerReq[t] # Idle}

\* Rows that a transaction other than t's has written: t waits for them.
LockedFor(t) ==
  UNION {providerReq[u].cleared \union providerReq[u].promoted :
           u \in InProviderTx \ {t}}

Begin(t, pc, id, flag, cleared, promoted) ==
  /\ providerReq[t] = Idle
  /\ MayOpen(InProviderTx)
  /\ (cleared \union promoted) \intersect LockedFor(t) = {}
  /\ overlapped' = (overlapped \/ InProviderTx # {})
  /\ providerReq' = [providerReq EXCEPT ![t] =
       [pc |-> pc, id |-> id, flag |-> flag, cleared |-> cleared, promoted |-> promoted]]
  /\ UNCHANGED <<backend, providers, default, legacy>>

\* The rows after t's transaction, if nothing but its updates was in it.
Updated(t) ==
  (default \ providerReq[t].cleared) \union (providerReq[t].promoted \intersect providers)

Commit(t) == providerReq' = [providerReq EXCEPT ![t] = Idle]

-----------------------------------------------------------------------------

\* create_provider clears the other defaults first.
CreateProvider(t, id, flag) ==
  Begin(t, "count", id, flag, IF flag THEN providers ELSE {}, {})

\* The first provider is the default in any case.
CountProviders(t) ==
  /\ At(providerReq, t, "count")
  /\ providerReq' = [providerReq EXCEPT
       ![t].pc = "insert", ![t].flag = @ \/ providers = {}]
  /\ UNCHANGED <<backend, providers, default, legacy, overlapped>>

InsertProvider(t) ==
  LET q == providerReq[t] IN
  /\ At(providerReq, t, "insert")
  /\ q.id \notin providers
  /\ providers' = providers \union {q.id}
  /\ default' = Updated(t) \union (IF q.flag THEN {q.id} ELSE {})
  /\ Commit(t)
  /\ UNCHANGED <<backend, legacy, overlapped>>

\* update_provider reads the row and, to make it the default, clears the others;
\* is_default = FALSE changes nothing.
UpdateProvider(t, id, flag) ==
  /\ id \in providers
  /\ Begin(t, "write", id, flag \/ id \in default, IF flag THEN providers ELSE {}, {})

\* Every column is written back, is_default as it was read.
WriteProvider(t) ==
  LET q == providerReq[t] IN
  /\ At(providerReq, t, "write")
  /\ q.id \notin LockedFor(t)
  /\ default' = IF q.flag THEN Updated(t) \union ({q.id} \intersect providers)
                ELSE Updated(t) \ {q.id}
  /\ Commit(t)
  /\ UNCHANGED <<backend, providers, legacy, overlapped>>

\* Faulty: nobody is promoted.
DeleteProviderOnly(t, id) ==
  /\ id \in providers
  /\ Begin(t, "remove", id, FALSE, {}, {})

\* delete_provider promotes another one when it deletes the default.
DeleteProvider(t, id) ==
  /\ id \in providers
  /\ IF id \in default /\ providers # {id}
     THEN \E heir \in providers \ {id} : Begin(t, "remove", id, FALSE, {}, {heir})
     ELSE Begin(t, "remove", id, FALSE, {}, {})

RemoveProvider(t) ==
  LET q == providerReq[t] IN
  /\ At(providerReq, t, "remove")
  /\ q.id \notin LockedFor(t)
  /\ providers' = providers \ {q.id}
  /\ default' = Updated(t) \ {q.id}
  /\ Commit(t)
  /\ UNCHANGED <<backend, legacy, overlapped>>

\* migrate_legacy_provider, before every list: the key in the settings becomes a
\* provider whenever there is none, also when the last one has just been deleted.
MigrateLegacy(t, id) ==
  /\ legacy
  /\ providers = {}
  /\ Begin(t, "insert", id, TRUE, {}, {})

\* The settings' key is entered or removed (backend/routes/settings.py).
SetLegacy ==
  /\ legacy' = ~legacy
  /\ UNCHANGED <<backend, providers, default, providerReq, overlapped>>

\* A statement raises, PostgreSQL breaks a deadlock, or the process dies.
RollBack(t) ==
  /\ providerReq[t] # Idle
  /\ Commit(t)
  /\ UNCHANGED <<backend, providers, default, legacy, overlapped>>

ProvidersNext ==
  \/ \E t \in Thread, id \in ProviderId, flag \in BOOLEAN :
       \/ id \notin providers /\ CreateProvider(t, id, flag)
       \/ UpdateProvider(t, id, flag)
  \/ \E t \in Thread, id \in ProviderId :
       DeleteProvider(t, id) \/ (id \notin providers /\ MigrateLegacy(t, id))
  \/ \E t \in Thread :
       CountProviders(t) \/ InsertProvider(t) \/ WriteProvider(t)
       \/ RemoveProvider(t) \/ RollBack(t)
  \/ SetLegacy

ProvidersSpec == ProvidersInit /\ [][ProvidersNext]_providerVars

-----------------------------------------------------------------------------

\* As long as no two transactions have overlapped -- on SQLite they cannot --
\* every sequence of requests leaves exactly one default among the providers.
OneDefault ==
  ~overlapped /\ providers # {} => Cardinality(default) = 1
=============================================================================
