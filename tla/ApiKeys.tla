------------------------------ MODULE ApiKeys --------------------------------
(***************************************************************************)
(* API keys (core/store_impl/apikeys.py, backend/routes/keys.py) and the   *)
(* authorisation of requests by them (backend/deps.py).  A verification    *)
(* reads the clock, then the database, and only then fills a cache that    *)
(* a revocation does not touch.                                            *)
(*                                                                         *)
(* The hash of a key, its upgrade and last_used_at are left out.           *)
(***************************************************************************)
EXTENDS Server, Sequences, SequencesExt

CONSTANTS
  KeyId,          \* keys that may come to exist
  VerifyTTL,      \* _VERIFY_TTL, in ticks
  VerifyMax,      \* _VERIFY_CACHE_MAX
  KeyHorizon,     \* bound: the last instant of the clock
  AskedRoles,     \* the roles that clients ask for
  RequireUiAuth   \* config.REQUIRE_UI_AUTH

Role == {"viewer", "reviewer", "admin"}

ASSUME ApiKeysAssumption ==
  /\ IsFiniteSet(KeyId)
  /\ VerifyTTL \in Nat
  /\ KeyHorizon \in Nat
  /\ VerifyMax \in Nat \ {0}
  /\ AskedRoles \subseteq Role
  /\ RequireUiAuth \in BOOLEAN

VARIABLES
  keys,        \* rows of api_keys
  revokedAt,   \* history: when a key was revoked
  verified,    \* _verify_cache, oldest entry first
  keyTime,     \* the clock
  keyReq       \* the threads

keyVars == <<keys, revokedAt, verified, keyTime, keyReq>>

-----------------------------------------------------------------------------

NoKey == "no key"

RoleRank(role) ==
  CASE role = "viewer" -> 1 [] role = "reviewer" -> 2 [] role = "admin" -> 3

KeyTime == 0..KeyHorizon

Row == [state: {"active", "revoked"}, role: Role] \union {[state |-> "none"]}

ActiveKeys == {k \in KeyId : keys[k].state = "active"}

Issued == {k \in KeyId : keys[k].state # "none"}

\* What a request is for: to write through the SDK (a route that reads ends after
\* the first verification), to mint a key, to revoke one.
KeyOp == {"write", "create", "revoke"}

Argument == Role \union KeyId \union {NoKey}

ArgumentOf(op) ==
  CASE op = "create" -> AskedRoles [] op = "revoke" -> KeyId [] OTHER -> {NoKey}

KeyReqRec ==
  {Idle} \union
  [pc: {"list", "verify", "query", "fill", "insert", "update"},
   op: KeyOp \union {"audit"},
   key: KeyId \union {NoKey},   \* X-API-Key
   arg: Argument,               \* the role to grant, or the key to revoke
   again: BOOLEAN,              \* the first of two verifications is over
   stamp: KeyTime,                 \* now_ts
   found: BOOLEAN]              \* an active row matched

Entry == [key: KeyId, until: 0..(KeyHorizon + VerifyTTL), granted: BOOLEAN]

KeysTypeOK ==
  /\ keys \in [KeyId -> Row]
  /\ revokedAt \in [KeyId -> KeyTime]
  /\ verified \in Seq(Entry) /\ Len(verified) <= VerifyMax
  /\ keyTime \in KeyTime
  /\ keyReq \in [Thread -> KeyReqRec]

KeysInit ==
  /\ keys = [k \in KeyId |-> [state |-> "none"]]
  /\ revokedAt = [k \in KeyId |-> 0]
  /\ verified = <<>>
  /\ keyTime = 0
  /\ keyReq = [t \in Thread |-> Idle]

-----------------------------------------------------------------------------

ContinueKey(t, pc) ==
  keyReq' = [keyReq EXCEPT ![t] = [@ EXCEPT !.pc = pc, !.stamp = 0, !.found = FALSE]]

Respond(t) == keyReq' = [keyReq EXCEPT ![t] = Idle]

\* A client holds keys it was given.  Without one the SDK's routes answer 401 at
\* once, the administrative ones only under REQUIRE_UI_AUTH.
KeyArrive(t, op, k, arg) ==
  /\ keyReq[t] = Idle
  /\ k \in Issued \union {NoKey}
  /\ arg \in ArgumentOf(op)
  /\ k = NoKey => op = "create" \/ (op = "revoke" /\ ~RequireUiAuth)
  /\ keyReq' = [keyReq EXCEPT ![t] =
       [pc |-> IF op = "create" THEN "list"
               ELSE IF k = NoKey THEN "update" ELSE "verify",
        op |-> op, key |-> k, arg |-> arg,
        again |-> FALSE, stamp |-> 0, found |-> FALSE]]
  /\ UNCHANGED <<keys, revokedAt, verified, keyTime>>

\* create_key: without active keys the request is the bootstrap, and what it
\* mints is an admin.
ListKeys(t) ==
  /\ At(keyReq, t, "list")
  /\ IF ActiveKeys = {}
     THEN keyReq' = [keyReq EXCEPT ![t].pc = "insert", ![t].arg = "admin"]
     ELSE IF keyReq[t].key = NoKey THEN Respond(t) ELSE ContinueKey(t, "verify")
  /\ UNCHANGED <<keys, revokedAt, verified, keyTime>>

\* What follows a verification: 401, 403, the handler's write, or the second
\* verification of require_key_write, whose None is not looked for.
Decide(t, granted) ==
  LET q == keyReq[t]
      Ranks(min) == RoleRank(keys[q.key].role) >= RoleRank(min)
  IN IF ~granted
     THEN Respond(t)
     ELSE CASE q.op = "write" /\ ~q.again ->
                 keyReq' = [keyReq EXCEPT ![t] =
                   [q EXCEPT !.pc = "verify", !.again = TRUE,
                             !.stamp = 0, !.found = FALSE]]
            [] q.op = "create" /\ Ranks("admin") -> ContinueKey(t, "insert")
            [] q.op = "revoke" /\ Ranks("admin") -> ContinueKey(t, "update")
            [] OTHER -> Respond(t)

CachedFor(k) ==
  {i \in DOMAIN verified : verified[i].key = k /\ verified[i].until > keyTime}

\* The clock and the cache.
LookUp(t) ==
  /\ At(keyReq, t, "verify")
  /\ \/ \E i \in CachedFor(keyReq[t].key) : Decide(t, verified[i].granted)
     \/ /\ CachedFor(keyReq[t].key) = {}
        /\ keyReq' = [keyReq EXCEPT ![t].pc = "query", ![t].stamp = keyTime]
  /\ UNCHANGED <<keys, revokedAt, verified, keyTime>>

\* The rows with is_active = 1.
Query(t) ==
  /\ At(keyReq, t, "query")
  /\ keyReq' = [keyReq EXCEPT ![t].pc = "fill",
                              ![t].found = keyReq[t].key \in ActiveKeys]
  /\ UNCHANGED <<keys, revokedAt, verified, keyTime>>

\* The entries of the other keys; a key has one entry at most.
OthersThan(k) ==
  IF \E i \in DOMAIN verified : verified[i].key = k
  THEN RemoveAt(verified, CHOOSE i \in DOMAIN verified : verified[i].key = k)
  ELSE verified

\* Faulty: the oldest entry is not dropped.
CachePutUnbounded(entry) == Append(OthersThan(entry.key), entry)

\* _cache_put: the entry becomes the newest, the oldest go beyond the bound.
CachePut(entry) ==
  LET long == Append(OthersThan(entry.key), entry)
  IN IF Len(long) > VerifyMax THEN Tail(long) ELSE long

\* Faulty: the entry lives for a minute from the time it is filled.
FillFromNow(t) ==
  /\ At(keyReq, t, "fill")
  /\ verified' = CachePut([key |-> keyReq[t].key,
                           until |-> keyTime + VerifyTTL,
                           granted |-> keyReq[t].found])
  /\ Decide(t, keyReq[t].found)
  /\ UNCHANGED <<keys, revokedAt, keyTime>>

\* The entry lives for a minute from the time before the database was read.
Fill(t) ==
  /\ At(keyReq, t, "fill")
  /\ verified' = CachePut([key |-> keyReq[t].key,
                           until |-> keyReq[t].stamp + VerifyTTL,
                           granted |-> keyReq[t].found])
  /\ Decide(t, keyReq[t].found)
  /\ UNCHANGED <<keys, revokedAt, keyTime>>

\* principal: once more the key is verified, to name the actor of the audit entry,
\* which is AuditLog's.
NameActor(t) ==
  IF keyReq[t].key = NoKey THEN Respond(t)
  ELSE keyReq' = [keyReq EXCEPT ![t].pc = "verify", ![t].op = "audit", ![t].arg = NoKey]

\* create_api_key.
InsertKey(t, k) ==
  /\ At(keyReq, t, "insert")
  /\ keys[k].state = "none"
  /\ keys' = [keys EXCEPT ![k] = [state |-> "active", role |-> keyReq[t].arg]]
  /\ NameActor(t)
  /\ UNCHANGED <<revokedAt, verified, keyTime>>

\* revoke_api_key; a key that is no longer active keeps its time.
RevokeKey(t) ==
  /\ At(keyReq, t, "update")
  /\ LET k == keyReq[t].arg IN
       IF k \in ActiveKeys
       THEN /\ keys' = [keys EXCEPT ![k].state = "revoked"]
            /\ revokedAt' = [revokedAt EXCEPT ![k] = keyTime]
       ELSE UNCHANGED <<keys, revokedAt>>
  /\ NameActor(t)
  /\ UNCHANGED <<verified, keyTime>>

KeyTick ==
  /\ keyTime < KeyHorizon
  /\ keyTime' = keyTime + 1
  /\ UNCHANGED <<keys, revokedAt, verified, keyReq>>

\* The process dies and is started again: its memory is gone.
KeyRestart ==
  /\ verified' = <<>>
  /\ keyReq' = [t \in Thread |-> Idle]
  /\ UNCHANGED <<keys, revokedAt, keyTime>>

KeysNext ==
  \/ \E t \in Thread, op \in KeyOp, k \in KeyId \union {NoKey},
        arg \in Argument : KeyArrive(t, op, k, arg)
  \/ \E t \in Thread :
       \/ ListKeys(t) \/ LookUp(t) \/ Query(t) \/ Fill(t) \/ RevokeKey(t)
       \/ \E k \in KeyId : InsertKey(t, k)
  \/ KeyTick
  \/ KeyRestart

KeysSpec == KeysInit /\ [][KeysNext]_keyVars

-----------------------------------------------------------------------------
(* Properties.                                                             *)

\* A revoked key is honoured for one TTL at most, also when a verification that
\* read the row before the revocation fills the cache after it.
RevocationHolds ==
  \A i \in DOMAIN verified :
    LET e == verified[i] IN
      e.granted => \/ e.key \in ActiveKeys
                   \/ e.until <= revokedAt[e.key] + VerifyTTL
=============================================================================
