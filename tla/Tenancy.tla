------------------------------- MODULE Tenancy -------------------------------
(***************************************************************************)
(* Workspaces of organisations (ee/multitenancy.py, ee/workspace_router    *)
(* .py): each has a PostgreSQL schema of its own, named after it, and a    *)
(* row in the registry.  The router of a server process caches which       *)
(* organisation a workspace belongs to; deleting it does not tell the      *)
(* router.  A search_path that names a schema which is gone is legal: its  *)
(* queries go to the public schema.                                        *)
(*                                                                         *)
(* Members, roles, sandboxes, the tables of a schema and the best-effort   *)
(* audit entries are left out.  A workspace is its slug: two names may     *)
(* give one.                                                               *)
(***************************************************************************)
EXTENDS Server, Sequences, SequencesExt

CONSTANTS
  Org,        \* organisations
  Slug,       \* ids of workspaces
  RouterMax   \* _CACHE_MAX

ASSUME TenancyAssumption ==
  /\ IsFiniteSet(Org) /\ IsFiniteSet(Slug)
  /\ RouterMax \in Nat /\ RouterMax >= 2

VARIABLES
  registry,   \* rows of workspaces
  schemas,    \* whose data the schema of a slug holds
  routes,     \* the router's cache, in the order of insertion
  tenantReq   \* the threads

tenancyVars == <<registry, schemas, routes, tenantReq>>

-----------------------------------------------------------------------------

\* A slug without a row, a slug without a schema.
NoWorkspace == [state |-> "none"]
NoSchema == [of |-> {}]

Registered == [state: {"active", "deleted"}, org: Org]

Route == [slug: Slug, org: Org]

TenancyTypeOK ==
  /\ registry \in [Slug -> Registered \union {NoWorkspace}]
  /\ schemas \in [Slug -> [of: {{o} : o \in Org} \union {{}}]]
  /\ routes \in Seq(Route) /\ Len(routes) <= RouterMax
  /\ tenantReq \in [Thread -> {Idle} \union
       [pc: {"create", "register", "query", "open", "reading"}, slug: Slug, org: Org]
       \union [pc: {"fill"}, slug: Slug, org: Org, found: Org]]

TenancyInit ==
  /\ registry = [s \in Slug |-> NoWorkspace]
  /\ schemas = [s \in Slug |-> NoSchema]
  /\ routes = <<>>
  /\ tenantReq = [t \in Thread |-> Idle]

Proceed(t, pc) == tenantReq' = [tenantReq EXCEPT ![t].pc = pc]

Leave(t) == tenantReq' = [tenantReq EXCEPT ![t] = Idle]

Belongs(s, o) == registry[s] # NoWorkspace /\ registry[s].org = o

-----------------------------------------------------------------------------
(* WorkspaceProvisioner *)

\* create_workspace: refused at once when the organisation has or had the slug.
BeginCreate(t, s, o) ==
  /\ tenantReq[t] = Idle
  /\ ~ Belongs(s, o)
  /\ tenantReq' = [tenantReq EXCEPT ![t] = [pc |-> "create", slug |-> s, org |-> o]]
  /\ UNCHANGED <<registry, schemas, routes>>

\* CREATE SCHEMA IF NOT EXISTS waits for a transaction that is creating the schema.
CreateSchema(t) ==
  /\ At(tenantReq, t, "create")
  /\ ~ \E u \in Thread :
         At(tenantReq, u, "register") /\ tenantReq[u].slug = tenantReq[t].slug
  /\ Proceed(t, "register")
  /\ UNCHANGED <<registry, schemas, routes>>

\* Faulty: the id of a deleted workspace may be taken again.
MayRegisterAgain(s) == registry[s] = NoWorkspace \/ registry[s].state = "deleted"

\* The primary key of workspaces: a deleted one keeps its row.
MayRegister(s) == registry[s] = NoWorkspace

\* The row is inserted and all is committed, or the transaction fails as a whole.
Register(t) ==
  LET q == tenantReq[t] IN
  /\ At(tenantReq, t, "register")
  /\ IF MayRegister(q.slug)
     THEN /\ registry' = [registry EXCEPT ![q.slug] = [state |-> "active", org |-> q.org]]
          /\ schemas' = [schemas EXCEPT ![q.slug] = IF @ = NoSchema THEN [of |-> {q.org}] ELSE @]
     ELSE UNCHANGED <<registry, schemas>>
  /\ Leave(t)
  /\ UNCHANGED routes

\* delete_workspace: the schema is renamed, which fails when there is none, and
\* the row is marked, in one transaction.
DeleteWorkspace(s, o) ==
  /\ Belongs(s, o)
  /\ schemas[s] # NoSchema
  /\ schemas' = [schemas EXCEPT ![s] = NoSchema]
  /\ registry' = [registry EXCEPT ![s].state = "deleted"]
  /\ UNCHANGED <<routes, tenantReq>>

-----------------------------------------------------------------------------
(* WorkspaceRouter *)

Cached(s) == {i \in DOMAIN routes : routes[i].slug = s}

\* scoped_connection: the workspace is looked up, first in the cache; one of
\* another organisation is refused.
Scoped(t, s, o) ==
  /\ tenantReq[t] = Idle
  /\ \A i \in Cached(s) : routes[i].org = o
  /\ tenantReq' = [tenantReq EXCEPT ![t] =
       [pc |-> IF Cached(s) = {} THEN "query" ELSE "open", slug |-> s, org |-> o]]
  /\ UNCHANGED <<registry, schemas, routes>>

\* A miss asks the registry; a workspace that is not there, or deleted, is refused.
QueryRegistry(t) ==
  LET q == tenantReq[t]
      row == registry[q.slug] IN
  /\ At(tenantReq, t, "query")
  /\ IF row # NoWorkspace /\ row.state = "active"
     THEN tenantReq' = [tenantReq EXCEPT ![t] =
            [pc |-> "fill", slug |-> q.slug, org |-> q.org, found |-> row.org]]
     ELSE Leave(t)
  /\ UNCHANGED <<registry, schemas, routes>>

\* The oldest half goes when the cache is full.
Evicted == IF Len(routes) >= RouterMax
           THEN SubSeq(routes, RouterMax \div 2 + 1, Len(routes)) ELSE routes

\* A key that is there keeps its place; no key is there twice.
Insert(cache, entry) ==
  IF \E i \in DOMAIN cache : cache[i].slug = entry.slug
  THEN [i \in DOMAIN cache |-> IF cache[i].slug = entry.slug THEN entry ELSE cache[i]]
  ELSE Append(cache, entry)

\* What was found is cached, then the organisations are compared.
FillRoute(t) ==
  LET q == tenantReq[t] IN
  /\ At(tenantReq, t, "fill")
  /\ routes' = Insert(Evicted, [slug |-> q.slug, org |-> q.found])
  /\ tenantReq' = [tenantReq EXCEPT ![t] =
       IF q.found = q.org THEN [pc |-> "open", slug |-> q.slug, org |-> q.org] ELSE Idle]
  /\ UNCHANGED <<registry, schemas>>

\* SET search_path TO the schema; the caller reads and writes until it lets go.
OpenScoped(t) ==
  /\ At(tenantReq, t, "open")
  /\ Proceed(t, "reading")
  /\ UNCHANGED <<registry, schemas, routes>>

\* The connection returns to the pool with the public search_path, or the request
\* or its database fails.
CloseScoped(t) ==
  /\ tenantReq[t] # Idle
  /\ Leave(t)
  /\ UNCHANGED <<registry, schemas, routes>>

\* invalidate_cache, which no handler calls.
InvalidateRoute(s) ==
  /\ \E i \in Cached(s) : routes' = RemoveAt(routes, i)
  /\ UNCHANGED <<registry, schemas, tenantReq>>

TenancyNext ==
  \/ \E t \in Thread :
       \/ \E s \in Slug, o \in Org : BeginCreate(t, s, o) \/ Scoped(t, s, o)
       \/ CreateSchema(t) \/ Register(t)
       \/ QueryRegistry(t) \/ FillRoute(t) \/ OpenScoped(t) \/ CloseScoped(t)
  \/ \E s \in Slug : InvalidateRoute(s) \/ \E o \in Org : DeleteWorkspace(s, o)

TenancySpec == TenancyInit /\ [][TenancyNext]_tenancyVars

-----------------------------------------------------------------------------

\* A connection opened for an organisation never reads a schema with another's
\* data, however old the router's answer is: it finds its own or, after the
\* workspace was deleted, none.
TenantsApart ==
  \A t \in Thread :
    At(tenantReq, t, "reading") => schemas[tenantReq[t].slug].of \subseteq {tenantReq[t].org}
=============================================================================
