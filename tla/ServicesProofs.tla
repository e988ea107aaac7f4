---------------------------- MODULE ServicesProofs -----------------------------
(***************************************************************************)
(* Theorems about the parts of the server that keep state of their own:    *)
(* API keys, rate limits and the workspaces of organisations; reviews, the *)
(* model inventory, consents, the performance database and the providers;  *)
(* for every value of the constants.                                       *)
(***************************************************************************)
EXTENDS ApiKeys, RateLimit, Tenancy, Reviews, Inventory, Consents, Performance, Providers,
        Integers, SequenceTheorems, FiniteSetTheorems, WellFoundedInduction, TLAPS

-----------------------------------------------------------------------------
(* Sequences.  What a cache promises of its entries is said as their type: *)
(* the cache is a sequence of entries that are as they should be.          *)

LEMMA SeqMonotone ==
  ASSUME NEW S, NEW T, S \subseteq T, NEW s \in Seq(S)
  PROVE  s \in Seq(T)
<1>1. s \in [1..Len(s) -> S] /\ Len(s) \in Nat
  BY LenProperties
<1>2. s \in [1..Len(s) -> T]
  BY <1>1
<1> QED
  BY <1>1, <1>2, SeqDef

LEMMA RemoveAtType ==
  ASSUME NEW S, NEW s \in Seq(S), NEW i \in DOMAIN s
  PROVE  RemoveAt(s, i) \in Seq(S) /\ Len(RemoveAt(s, i)) = Len(s) - 1
<1> DEFINE n == Len(s)
           a == SubSeq(s, 1, i - 1)
           c == SubSeq(s, i + 1, n)
<1>1. n \in Nat /\ i \in 1..n /\ \A j \in 1..n : s[j] \in S
  BY LenProperties, ElementOfSeq
<1>2. a \in Seq(S) /\ Len(a) = i - 1
  <2>1. 1 \in Int /\ i - 1 \in Int /\ \A j \in 1..(i - 1) : s[j] \in S
    BY <1>1
  <2>2. a \in Seq(S) /\ Len(a) = IF 1 <= i - 1 THEN i - 1 - 1 + 1 ELSE 0
    BY <2>1, SubSeqProperties
  <2> QED
    BY <1>1, <2>2
<1>3. c \in Seq(S) /\ Len(c) = n - i
  <2>1. i + 1 \in Int /\ n \in Int /\ \A j \in (i + 1)..n : s[j] \in S
    BY <1>1
  <2>2. c \in Seq(S) /\ Len(c) = IF i + 1 <= n THEN n - (i + 1) + 1 ELSE 0
    BY <2>1, SubSeqProperties
  <2> QED
    BY <1>1, <2>2
<1>4. RemoveAt(s, i) = a \o c
  BY DEF RemoveAt
<1> HIDE DEF a, c, n
<1>5. a \o c \in Seq(S) /\ Len(a \o c) = Len(a) + Len(c)
  BY <1>2, <1>3, ConcatProperties
<1> QED
  BY <1>1, <1>2, <1>3, <1>4, <1>5 DEF n

-----------------------------------------------------------------------------
(* API keys: the inductive invariant.                                      *)

\* An entry as it should be: no entry outlives the present by more than one TTL,
\* and one that grants access was read before its key was revoked.
TimelyEntry ==
  {e \in Entry :
     /\ e.until <= keyTime + VerifyTTL
     /\ e.granted => \/ e.key \in ActiveKeys
                     \/ e.until <= revokedAt[e.key] + VerifyTTL}

CacheTimely == verified \in Seq(TimelyEntry)

\* A thread that verifies a key took the time before it read the row; one that will
\* insert a key has the role to give it.
SoundThread ==
  {q \in KeyReqRec :
     q # Idle =>
       /\ q.pc \in {"verify", "query", "fill"} => q.key \in KeyId
       /\ q.pc \in {"query", "fill"} => q.stamp <= keyTime
       /\ q.pc = "fill" /\ q.found =>
            q.key \in ActiveKeys \/ q.stamp <= revokedAt[q.key]
       /\ q.pc \in {"list", "insert"} => q.op = "create"
       /\ q.op = "create" => q.arg \in Role}

ThreadsSound == \A t \in Thread : keyReq[t] \in SoundThread

KeysInv == KeysTypeOK /\ CacheTimely /\ ThreadsSound

-----------------------------------------------------------------------------
(* Lemmas. *)

Pc == {"list", "verify", "query", "fill", "insert", "update"}

\* A request under way.
Begun == [pc: Pc, op: KeyOp \union {"audit"}, key: KeyId \union {NoKey},
          arg: Argument, again: BOOLEAN, stamp: KeyTime, found: BOOLEAN]

LEMMA BegunIsKeyReq == KeyReqRec = {Idle} \union Begun /\ Idle \notin Begun
BY DEF KeyReqRec, Begun, Pc, Idle

\* A thread that is at a statement has a request.
LEMMA KeyThread ==
  ASSUME KeysInv, NEW t \in Thread, keyReq[t].pc # "idle"
  PROVE  keyReq[t] \in Begun /\ keyReq[t] \in SoundThread /\ keyReq[t] # Idle
<1>1. keyReq[t] \in KeyReqRec /\ keyReq[t] # Idle
  BY DEF KeysInv, KeysTypeOK, Idle
<1> QED
  BY <1>1, BegunIsKeyReq DEF KeysInv, ThreadsSound

\* One thread moves and fills the cache at most.
LEMMA KeyThreadMoves ==
  ASSUME KeysInv, NEW t \in Thread, NEW q \in SoundThread,
         keyReq' = [keyReq EXCEPT ![t] = q],
         UNCHANGED <<keys, revokedAt, keyTime>>,
         verified' \in Seq(TimelyEntry), Len(verified') <= VerifyMax
  PROVE  KeysInv'
<1>1. SoundThread' = SoundThread /\ TimelyEntry' = TimelyEntry
  BY DEF SoundThread, TimelyEntry, ActiveKeys
<1>2. keyReq' \in [Thread -> KeyReqRec] /\ \A u \in Thread : keyReq'[u] \in SoundThread
  BY DEF KeysInv, KeysTypeOK, ThreadsSound, SoundThread
<1>3. TimelyEntry \subseteq Entry
  BY DEF TimelyEntry
<1>4. verified' \in Seq(Entry)
  BY <1>3, SeqMonotone
<1> QED
  BY <1>1, <1>2, <1>4 DEF KeysInv, KeysTypeOK, ThreadsSound, CacheTimely

\* The cache that is not touched.
LEMMA CacheAsItIs ==
  ASSUME KeysInv, verified' = verified
  PROVE  verified' \in Seq(TimelyEntry) /\ Len(verified') <= VerifyMax
BY DEF KeysInv, KeysTypeOK, CacheTimely

\* A request that goes on without an answer of the database.
LEMMA GoesOn ==
  ASSUME NEW q \in Begun, q \in SoundThread, keyTime \in KeyTime, NEW pc \in Pc,
         pc \in {"verify", "query", "fill"} => q.key \in KeyId,
         pc \in {"list", "insert"} => q.op = "create"
  PROVE  [q EXCEPT !.pc = pc, !.stamp = 0, !.found = FALSE] \in SoundThread
<1> DEFINE r == [q EXCEPT !.pc = pc, !.stamp = 0, !.found = FALSE]
<1>1. 0 \in KeyTime /\ 0 <= keyTime
  BY ApiKeysAssumption DEF KeyTime
<1>2. r \in Begun
  BY <1>1 DEF Begun
<1>3. r.pc = pc /\ r.stamp = 0 /\ r.found = FALSE /\ r.key = q.key /\ r.op = q.op
      /\ r.arg = q.arg
  BY DEF Begun
<1>4. q # Idle /\ r # Idle /\ r \in KeyReqRec
  BY <1>2, BegunIsKeyReq
<1>5. q.op = "create" => q.arg \in Role
  BY <1>4 DEF SoundThread
<1> HIDE DEF r
<1> QED
  BY <1>1, <1>3, <1>4, <1>5 DEF SoundThread, r

LEMMA IdleIsSound == Idle \in SoundThread
BY BegunIsKeyReq DEF SoundThread

\* After a verification the request goes on as it may.
LEMMA DecideSound ==
  ASSUME KeysInv, NEW t \in Thread, keyReq[t].pc \in {"verify", "fill"},
         NEW verdict, Decide(t, verdict)
  PROVE  \E q \in SoundThread : keyReq' = [keyReq EXCEPT ![t] = q]
<1> DEFINE q == keyReq[t]
           on(pc) == [q EXCEPT !.pc = pc, !.stamp = 0, !.found = FALSE]
<1>1. q \in Begun /\ q \in SoundThread /\ q # Idle /\ keyTime \in KeyTime
  BY KeyThread DEF KeysInv, KeysTypeOK
<1>2. q.key \in KeyId
  BY <1>1 DEF SoundThread
<1>3. \/ Respond(t)
      \/ q.op = "write" /\ keyReq' = [keyReq EXCEPT ![t] =
           [q EXCEPT !.pc = "verify", !.again = TRUE, !.stamp = 0, !.found = FALSE]]
      \/ q.op = "create" /\ ContinueKey(t, "insert")
      \/ q.op = "revoke" /\ ContinueKey(t, "update")
  BY <1>1 DEF Decide
<1>4. CASE Respond(t)
  BY <1>4, IdleIsSound DEF Respond
<1>5. CASE q.op = "write" /\ keyReq' = [keyReq EXCEPT ![t] =
           [q EXCEPT !.pc = "verify", !.again = TRUE, !.stamp = 0, !.found = FALSE]]
  <2> DEFINE p == [q EXCEPT !.again = TRUE]
             r == [q EXCEPT !.pc = "verify", !.again = TRUE, !.stamp = 0, !.found = FALSE]
  <2>1. p \in Begun /\ p.key = q.key /\ p.op = q.op /\ p.arg = q.arg /\ p.pc = q.pc
        /\ p.stamp = q.stamp /\ p.found = q.found
    BY <1>1 DEF Begun
  <2>2. p \in SoundThread
    BY <1>1, <2>1, BegunIsKeyReq DEF SoundThread
  <2>3. r = [p EXCEPT !.pc = "verify", !.stamp = 0, !.found = FALSE]
    BY <1>1 DEF Begun
  <2> HIDE DEF p, r, q
  <2>4. [p EXCEPT !.pc = "verify", !.stamp = 0, !.found = FALSE] \in SoundThread
    BY <1>1, <1>2, <2>1, <2>2, GoesOn DEF Pc
  <2> QED
    BY <1>5, <2>3, <2>4 DEF r
<1>6. CASE q.op = "create" /\ ContinueKey(t, "insert")
  <2>1. on("insert") \in SoundThread
    <3> HIDE DEF q
    <3> QED
      BY <1>1, <1>6, GoesOn DEF Pc
  <2> QED
    BY <1>6, <2>1 DEF ContinueKey
<1>7. CASE q.op = "revoke" /\ ContinueKey(t, "update")
  <2>1. on("update") \in SoundThread
    <3> HIDE DEF q
    <3> QED
      BY <1>1, <1>7, GoesOn DEF Pc
  <2> QED
    BY <1>7, <2>1 DEF ContinueKey
<1> QED
  BY <1>3, <1>4, <1>5, <1>6, <1>7

\* Naming the actor begins another verification or ends the request.
LEMMA NameActorSound ==
  ASSUME KeysInv, NEW t \in Thread, keyReq[t].pc # "idle", NameActor(t)
  PROVE  \E q \in SoundThread : q.pc \in {"idle", "verify"} /\ keyReq' = [keyReq EXCEPT ![t] = q]
<1>1. keyReq[t] \in Begun /\ keyReq[t] # Idle
  BY KeyThread
<1>2. CASE keyReq[t].key = NoKey
  BY <1>2, IdleIsSound DEF NameActor, Respond, Idle
<1>3. CASE keyReq[t].key # NoKey
  <2> DEFINE q == [keyReq[t] EXCEPT !.pc = "verify", !.op = "audit", !.arg = NoKey]
  <2>1. keyReq' = [keyReq EXCEPT ![t] = q]
    BY <1>3 DEF NameActor
  <2>2. /\ q \in Begun /\ q.pc = "verify" /\ q.op = "audit" /\ q.key \in KeyId
    BY <1>1, <1>3 DEF Begun, Pc, Argument
  <2> HIDE DEF q
  <2>3. q \in SoundThread
    BY <2>2, BegunIsKeyReq DEF SoundThread
  <2> QED
    BY <2>1, <2>2, <2>3
<1> QED
  BY <1>2, <1>3

\* An entry that is as it should be joins the cache.
LEMMA CachePutSound ==
  ASSUME KeysInv, NEW e \in TimelyEntry
  PROVE  CachePut(e) \in Seq(TimelyEntry) /\ Len(CachePut(e)) <= VerifyMax
<1>1. verified \in Seq(TimelyEntry) /\ Len(verified) <= VerifyMax /\ Len(verified) \in Nat
      /\ VerifyMax \in Nat
  BY ApiKeysAssumption, LenProperties DEF KeysInv, KeysTypeOK, CacheTimely
<1>2. OthersThan(e.key) \in Seq(TimelyEntry) /\ Len(OthersThan(e.key)) <= VerifyMax
  <2>1. CASE \E i \in DOMAIN verified : verified[i].key = e.key
    <3>1. PICK i \in DOMAIN verified : OthersThan(e.key) = RemoveAt(verified, i)
      BY <2>1 DEF OthersThan
    <3> QED
      BY <1>1, <3>1, RemoveAtType
  <2>2. CASE ~ \E i \in DOMAIN verified : verified[i].key = e.key
    BY <1>1, <2>2 DEF OthersThan
  <2> QED
    BY <2>1, <2>2
<1> DEFINE long == Append(OthersThan(e.key), e)
<1>3. /\ long \in Seq(TimelyEntry) /\ long # <<>>
      /\ Len(long) = Len(OthersThan(e.key)) + 1 /\ Len(OthersThan(e.key)) \in Nat
  BY <1>2, AppendProperties, LenProperties
<1> HIDE DEF long
<1>4. Tail(long) \in Seq(TimelyEntry) /\ Len(Tail(long)) = Len(long) - 1
  BY <1>3, HeadTailProperties
<1>5. CachePut(e) = IF Len(long) > VerifyMax THEN Tail(long) ELSE long
  BY DEF CachePut, long
<1>6. Len(long) \in Nat /\ Len(long) <= VerifyMax + 1
  BY <1>1, <1>2, <1>3
<1> QED
  BY <1>1, <1>3, <1>4, <1>5, <1>6

\* When time passes, a key is inserted or a key is revoked, what was as it should
\* be still is.
LEMMA WorldMoves ==
  ASSUME KeysInv, keyTime' \in KeyTime, keyTime <= keyTime',
         revokedAt' \in [KeyId -> KeyTime],
         \A k \in ActiveKeys : k \in ActiveKeys' \/ revokedAt'[k] = keyTime,
         \A k \in KeyId \ ActiveKeys : revokedAt'[k] = revokedAt[k]
  PROVE  SoundThread \subseteq SoundThread' /\ TimelyEntry \subseteq TimelyEntry'
<1>1. /\ keyTime \in Nat /\ keyTime' \in Nat /\ VerifyTTL \in Nat
      /\ \A k \in KeyId : revokedAt[k] \in Nat /\ revokedAt'[k] \in Nat
  BY ApiKeysAssumption DEF KeysInv, KeysTypeOK, KeyTime
<1>2. ASSUME NEW q \in SoundThread PROVE q \in SoundThread'
  <2>1. CASE q = Idle
    BY <2>1, BegunIsKeyReq DEF SoundThread
  <2>2. CASE q # Idle
    <3>1. q \in Begun
      BY <2>2, BegunIsKeyReq DEF SoundThread
    <3>2. q.stamp \in Nat
      BY <3>1, ApiKeysAssumption DEF Begun, KeyTime
    <3>3. q.pc \in {"query", "fill"} => q.stamp <= keyTime'
      BY <1>1, <2>2, <3>2 DEF SoundThread
    <3>4. ASSUME q.pc = "fill", q.found
          PROVE  q.key \in ActiveKeys' \/ q.stamp <= revokedAt'[q.key]
      <4>1. /\ q.key \in KeyId /\ q.stamp <= keyTime
            /\ q.key \in ActiveKeys \/ q.stamp <= revokedAt[q.key]
        BY <2>2, <3>4 DEF SoundThread
      <4> QED
        BY <1>1, <4>1
    <3> QED
      BY <2>2, <3>3, <3>4 DEF SoundThread
  <2> QED
    BY <2>1, <2>2
<1>3. ASSUME NEW e \in TimelyEntry PROVE e \in TimelyEntry'
  <2>1. e \in Entry /\ e.key \in KeyId /\ e.until \in Nat /\ e.until <= keyTime + VerifyTTL
    BY ApiKeysAssumption DEF TimelyEntry, Entry
  <2>2. e.until <= keyTime' + VerifyTTL
    BY <1>1, <2>1
  <2>3. ASSUME e.granted
        PROVE  e.key \in ActiveKeys' \/ e.until <= revokedAt'[e.key] + VerifyTTL
    BY <1>1, <2>1, <2>3 DEF TimelyEntry
  <2> QED
    BY <2>1, <2>2, <2>3 DEF TimelyEntry
<1> QED
  BY <1>2, <1>3

\* A thread that changes the rows, and leaves the cache alone.
LEMMA KeyRowsMove ==
  ASSUME KeysInv, NEW t \in Thread, keyReq[t].pc # "idle", NameActor(t),
         verified' = verified, keyTime' = keyTime,
         keys' \in [KeyId -> Row], revokedAt' \in [KeyId -> KeyTime],
         SoundThread \subseteq SoundThread', TimelyEntry \subseteq TimelyEntry'
  PROVE  KeysInv'
<1>1. PICK q \in SoundThread : keyReq' = [keyReq EXCEPT ![t] = q]
  BY NameActorSound
<1>2. keyReq' \in [Thread -> KeyReqRec] /\ \A u \in Thread : keyReq'[u] \in SoundThread'
  BY <1>1 DEF KeysInv, KeysTypeOK, ThreadsSound, SoundThread
<1>3. verified' \in Seq(TimelyEntry')
  BY SeqMonotone DEF KeysInv, CacheTimely
<1> QED
  BY <1>2, <1>3 DEF KeysInv, KeysTypeOK, ThreadsSound, CacheTimely

LEMMA KeysInit1 == KeysInit => KeysInv
<1> SUFFICES ASSUME KeysInit PROVE KeysInv
  OBVIOUS
<1>1. 0 \in KeyTime /\ VerifyMax \in Nat
  BY ApiKeysAssumption DEF KeyTime
<1>2. verified \in Seq(TimelyEntry) /\ verified \in Seq(Entry) /\ Len(verified) <= VerifyMax
  BY <1>1, EmptySeq DEF KeysInit
<1>3. keyReq \in [Thread -> KeyReqRec] /\ \A t \in Thread : keyReq[t] \in SoundThread
  BY IdleIsSound DEF KeysInit, KeyReqRec
<1> QED
  BY <1>1, <1>2, <1>3 DEF KeysInit, KeysInv, KeysTypeOK, CacheTimely, ThreadsSound, Row

LEMMA KeysStep ==
  ASSUME KeysInv, [KeysNext]_keyVars
  PROVE  KeysInv'
<1>0. keyTime \in KeyTime /\ keyTime \in Nat /\ VerifyTTL \in Nat /\ 0 \in KeyTime
      /\ \A k \in KeyId : revokedAt[k] \in KeyTime
  BY ApiKeysAssumption DEF KeysInv, KeysTypeOK, KeyTime
<1>1. ASSUME NEW t \in Thread, NEW op \in KeyOp, NEW k \in KeyId \union {NoKey},
             NEW arg \in Argument, KeyArrive(t, op, k, arg)
      PROVE  KeysInv'
  <2> DEFINE q == [pc |-> IF op = "create" THEN "list"
                          ELSE IF k = NoKey THEN "update" ELSE "verify",
                   op |-> op, key |-> k, arg |-> arg,
                   again |-> FALSE, stamp |-> 0, found |-> FALSE]
  <2>1. keyReq' = [keyReq EXCEPT ![t] = q] /\ verified' = verified
        /\ UNCHANGED <<keys, revokedAt, keyTime>> /\ arg \in ArgumentOf(op)
    BY <1>1 DEF KeyArrive
  <2>2. q \in Begun /\ q.op = op /\ q.arg = arg /\ q.key = k /\ q.stamp = 0
        /\ q.found = FALSE /\ q.pc \in {"list", "update", "verify"}
        /\ (q.pc = "list" => op = "create") /\ (q.pc = "verify" => k # NoKey)
    BY <1>0 DEF Begun, Pc
  <2> HIDE DEF q
  <2>3. op = "create" => arg \in Role
    BY <2>1, ApiKeysAssumption DEF ArgumentOf
  <2>4. q \in SoundThread
    BY <1>0, <2>2, <2>3, BegunIsKeyReq DEF SoundThread
  <2> QED
    BY <2>1, <2>4, KeyThreadMoves, CacheAsItIs
<1>2. ASSUME NEW t \in Thread, ListKeys(t)
      PROVE  KeysInv'
  <2>1. keyReq[t].pc = "list" /\ verified' = verified /\ UNCHANGED <<keys, revokedAt, keyTime>>
    BY <1>2 DEF ListKeys, At
  <2>2. keyReq[t] \in Begun /\ keyReq[t] \in SoundThread /\ keyReq[t] # Idle
        /\ keyReq[t].op = "create"
    BY <2>1, KeyThread DEF SoundThread
  <2>3. \E q \in SoundThread : keyReq' = [keyReq EXCEPT ![t] = q]
    <3>1. CASE ActiveKeys = {}
      <4> DEFINE q == [keyReq[t] EXCEPT !.pc = "insert", !.arg = "admin"]
      <4>1. keyReq' = [keyReq EXCEPT ![t] = q]
        BY <1>2, <3>1 DEF ListKeys
      <4>2. q \in Begun /\ q.pc = "insert" /\ q.op = "create" /\ q.arg \in Role
        BY <2>2 DEF Begun, Pc, Argument, Role
      <4> HIDE DEF q
      <4>3. q \in SoundThread
        BY <4>2, BegunIsKeyReq DEF SoundThread
      <4> QED
        BY <4>1, <4>3
    <3>2. CASE ActiveKeys # {} /\ keyReq[t].key = NoKey
      BY <1>2, <3>2, IdleIsSound DEF ListKeys, Respond
    <3>3. CASE ActiveKeys # {} /\ keyReq[t].key # NoKey
      <4>1. ContinueKey(t, "verify")
        BY <1>2, <3>3 DEF ListKeys
      <4>2. keyReq[t].key \in KeyId
        BY <2>2, <3>3 DEF Begun
      <4>3. [keyReq[t] EXCEPT !.pc = "verify", !.stamp = 0, !.found = FALSE] \in SoundThread
        BY <1>0, <2>2, <4>2, GoesOn DEF Pc
      <4> QED
        BY <4>1, <4>3 DEF ContinueKey
    <3> QED
      BY <3>1, <3>2, <3>3
  <2> QED
    BY <2>1, <2>3, KeyThreadMoves, CacheAsItIs
<1>3. ASSUME NEW t \in Thread, LookUp(t)
      PROVE  KeysInv'
  <2>1. keyReq[t].pc = "verify" /\ verified' = verified /\ UNCHANGED <<keys, revokedAt, keyTime>>
    BY <1>3 DEF LookUp, At
  <2>2. keyReq[t] \in Begun /\ keyReq[t] \in SoundThread /\ keyReq[t] # Idle
    BY <2>1, KeyThread
  <2>3. \E q \in SoundThread : keyReq' = [keyReq EXCEPT ![t] = q]
    <3>1. CASE \E i \in CachedFor(keyReq[t].key) : Decide(t, verified[i].granted)
      BY <2>1, <3>1, DecideSound
    <3>2. CASE keyReq' = [keyReq EXCEPT ![t].pc = "query", ![t].stamp = keyTime]
      <4> DEFINE q == [keyReq[t] EXCEPT !.pc = "query", !.stamp = keyTime]
      <4>1. keyReq' = [keyReq EXCEPT ![t] = q]
        BY <3>2
      <4>2. /\ q \in Begun /\ q.pc = "query" /\ q.stamp = keyTime /\ q.key = keyReq[t].key
            /\ q.op = keyReq[t].op /\ q.arg = keyReq[t].arg
        BY <1>0, <2>2 DEF Begun, Pc
      <4> HIDE DEF q
      <4>3. q \in SoundThread
        BY <1>0, <2>1, <2>2, <4>2, BegunIsKeyReq DEF SoundThread
      <4> QED
        BY <4>1, <4>3
    <3> QED
      BY <1>3, <3>1, <3>2 DEF LookUp
  <2> QED
    BY <2>1, <2>3, KeyThreadMoves, CacheAsItIs
<1>4. ASSUME NEW t \in Thread, Query(t)
      PROVE  KeysInv'
  <2>1. keyReq[t].pc = "query" /\ verified' = verified /\ UNCHANGED <<keys, revokedAt, keyTime>>
    BY <1>4 DEF Query, At
  <2>2. keyReq[t] \in Begun /\ keyReq[t] \in SoundThread /\ keyReq[t] # Idle
    BY <2>1, KeyThread
  <2> DEFINE b == (keyReq[t].key \in ActiveKeys)
             q == [keyReq[t] EXCEPT !.pc = "fill", !.found = b]
  <2>3. keyReq' = [keyReq EXCEPT ![t] = q]
    BY <1>4 DEF Query
  <2>4. /\ q \in Begun /\ q.pc = "fill" /\ q.stamp = keyReq[t].stamp /\ q.key = keyReq[t].key
        /\ q.op = keyReq[t].op /\ q.arg = keyReq[t].arg
        /\ q.found = b
    <3>1. b \in BOOLEAN
      OBVIOUS
    <3> HIDE DEF b
    <3> QED
      BY <2>2, <3>1 DEF Begun, Pc
  <2> HIDE DEF q
  <2>5. q \in SoundThread
    BY <2>1, <2>2, <2>4, BegunIsKeyReq DEF SoundThread
  <2> QED
    BY <2>1, <2>3, <2>5, KeyThreadMoves, CacheAsItIs
<1>5. ASSUME NEW t \in Thread, Fill(t)
      PROVE  KeysInv'
  <2> DEFINE e == [key |-> keyReq[t].key, until |-> keyReq[t].stamp + VerifyTTL,
                   granted |-> keyReq[t].found]
  <2>1. keyReq[t].pc = "fill" /\ verified' = CachePut(e) /\ Decide(t, keyReq[t].found)
        /\ UNCHANGED <<keys, revokedAt, keyTime>>
    BY <1>5 DEF Fill, At
  <2>2. keyReq[t] \in Begun /\ keyReq[t] \in SoundThread /\ keyReq[t] # Idle
    BY <2>1, KeyThread
  <2>3. /\ keyReq[t].key \in KeyId /\ keyReq[t].stamp \in KeyTime /\ keyReq[t].found \in BOOLEAN
        /\ keyReq[t].stamp <= keyTime
        /\ keyReq[t].found => \/ keyReq[t].key \in ActiveKeys
                              \/ keyReq[t].stamp <= revokedAt[keyReq[t].key]
    BY <2>1, <2>2 DEF SoundThread, Begun
  <2>4. keyReq[t].stamp + VerifyTTL \in 0..(KeyHorizon + VerifyTTL)
    BY <1>0, <2>3, ApiKeysAssumption DEF KeyTime
  <2>5. e \in Entry /\ e.until = keyReq[t].stamp + VerifyTTL /\ e.key = keyReq[t].key
        /\ e.granted = keyReq[t].found
    BY <2>3, <2>4 DEF Entry
  <2>6. e.until <= keyTime + VerifyTTL
    BY <1>0, <2>3, <2>5 DEF KeyTime
  <2>7. e.granted => \/ e.key \in ActiveKeys
                     \/ e.until <= revokedAt[e.key] + VerifyTTL
    BY <1>0, <2>3, <2>5 DEF KeyTime
  <2> HIDE DEF e
  <2>8. e \in TimelyEntry
    BY <2>5, <2>6, <2>7 DEF TimelyEntry
  <2>9. verified' \in Seq(TimelyEntry) /\ Len(verified') <= VerifyMax
    BY <2>1, <2>8, CachePutSound
  <2>10. \E q \in SoundThread : keyReq' = [keyReq EXCEPT ![t] = q]
    BY <2>1, DecideSound
  <2> QED
    BY <2>1, <2>9, <2>10, KeyThreadMoves
<1>6. ASSUME NEW t \in Thread, RevokeKey(t)
      PROVE  KeysInv'
  <2>1. keyReq[t].pc # "idle" /\ NameActor(t) /\ verified' = verified /\ keyTime' = keyTime
    BY <1>6 DEF RevokeKey, At
  <2>2. CASE keyReq[t].arg \in ActiveKeys
    <3> DEFINE k == keyReq[t].arg
    <3>1. /\ k \in KeyId /\ k \in ActiveKeys /\ keys[k].state = "active" /\ keys[k] \in Row
          /\ keys' = [keys EXCEPT ![k] = [keys[k] EXCEPT !.state = "revoked"]]
          /\ revokedAt' = [revokedAt EXCEPT ![k] = keyTime]
      BY <1>6, <2>2 DEF RevokeKey, ActiveKeys, KeysInv, KeysTypeOK
    <3> HIDE DEF k
    <3>2. [keys[k] EXCEPT !.state = "revoked"] \in Row
      BY <3>1 DEF Row
    <3>3. keys' \in [KeyId -> Row] /\ revokedAt' \in [KeyId -> KeyTime]
      BY <1>0, <3>1, <3>2 DEF KeysInv, KeysTypeOK
    <3>4. \A x \in ActiveKeys : x \in ActiveKeys' \/ revokedAt'[x] = keyTime
      BY <3>1 DEF ActiveKeys, KeysInv, KeysTypeOK
    <3>5. \A x \in KeyId \ ActiveKeys : revokedAt'[x] = revokedAt[x]
      BY <3>1 DEF KeysInv, KeysTypeOK
    <3>6. SoundThread \subseteq SoundThread' /\ TimelyEntry \subseteq TimelyEntry'
      BY <1>0, <2>1, <3>3, <3>4, <3>5, WorldMoves
    <3> QED
      BY <2>1, <3>3, <3>6, KeyRowsMove
  <2>3. CASE keyReq[t].arg \notin ActiveKeys
    <3>1. UNCHANGED <<keys, revokedAt, keyTime>>
      BY <1>6, <2>3 DEF RevokeKey
    <3>2. \E q \in SoundThread : keyReq' = [keyReq EXCEPT ![t] = q]
      BY <2>1, NameActorSound
    <3> QED
      BY <2>1, <3>1, <3>2, KeyThreadMoves, CacheAsItIs
  <2> QED
    BY <2>2, <2>3
<1>7. ASSUME NEW t \in Thread, NEW k \in KeyId, InsertKey(t, k)
      PROVE  KeysInv'
  <2>1. keyReq[t].pc = "insert" /\ NameActor(t) /\ verified' = verified /\ keyTime' = keyTime
        /\ revokedAt' = revokedAt /\ keys[k].state = "none"
        /\ keys' = [keys EXCEPT ![k] = [state |-> "active", role |-> keyReq[t].arg]]
    BY <1>7 DEF InsertKey, At
  <2>2. keyReq[t].arg \in Role
    BY <2>1, KeyThread DEF SoundThread
  <2>3. keys' \in [KeyId -> Row] /\ revokedAt' \in [KeyId -> KeyTime]
    BY <2>1, <2>2 DEF KeysInv, KeysTypeOK, Row
  <2>4. ActiveKeys \subseteq ActiveKeys'
    BY <2>1 DEF ActiveKeys, KeysInv, KeysTypeOK
  <2>5. SoundThread \subseteq SoundThread' /\ TimelyEntry \subseteq TimelyEntry'
    BY <1>0, <2>1, <2>3, <2>4, WorldMoves
  <2> QED
    BY <2>1, <2>3, <2>5, KeyRowsMove
<1>8. CASE KeyTick
  <2>1. keyTime' \in KeyTime /\ keyTime <= keyTime' /\ UNCHANGED <<keys, revokedAt, verified, keyReq>>
    BY <1>0, <1>8, ApiKeysAssumption DEF KeyTick, KeyTime
  <2>2. revokedAt' \in [KeyId -> KeyTime] /\ ActiveKeys' = ActiveKeys
    BY <2>1 DEF KeysInv, KeysTypeOK, ActiveKeys
  <2>3. SoundThread \subseteq SoundThread' /\ TimelyEntry \subseteq TimelyEntry'
    BY <2>1, <2>2, WorldMoves
  <2>4. verified' \in Seq(TimelyEntry')
    BY <2>1, <2>3, SeqMonotone DEF KeysInv, CacheTimely
  <2> QED
    BY <2>1, <2>3, <2>4 DEF KeysInv, KeysTypeOK, ThreadsSound, CacheTimely
<1>9. CASE KeyRestart
  <2>1. UNCHANGED <<keys, revokedAt, keyTime>> /\ verified' = <<>>
        /\ keyReq' = [t \in Thread |-> Idle]
    BY <1>9 DEF KeyRestart
  <2>2. verified' \in Seq(TimelyEntry') /\ verified' \in Seq(Entry) /\ Len(verified') <= VerifyMax
    BY <2>1, EmptySeq, ApiKeysAssumption
  <2>3. Idle \in SoundThread'
    BY BegunIsKeyReq DEF SoundThread
  <2> QED
    BY <2>1, <2>2, <2>3, BegunIsKeyReq DEF KeysInv, KeysTypeOK, ThreadsSound, CacheTimely
<1>10. CASE UNCHANGED keyVars
  BY <1>10 DEF keyVars, KeysInv, KeysTypeOK, CacheTimely, ThreadsSound, SoundThread,
               TimelyEntry, ActiveKeys
<1> QED
  BY <1>1, <1>2, <1>3, <1>4, <1>5, <1>6, <1>7, <1>8, <1>9, <1>10 DEF KeysNext

LEMMA KeysInvariant == KeysSpec => []KeysInv
BY KeysInit1, KeysStep, PTL DEF KeysSpec

\* API keys stay within their types, whatever verifications, revocations and restarts
\* overlap; the cache of verifications stays within its bound.
THEOREM KeysTypeCorrect == KeysSpec => []KeysTypeOK
BY KeysInvariant, PTL DEF KeysInv

\* A revoked key is honoured for one TTL at most (verify_api_key, revoke_api_key).
THEOREM RevocationBounded == KeysSpec => []RevocationHolds
<1>1. KeysInv => RevocationHolds
  <2> SUFFICES ASSUME KeysInv, NEW i \in DOMAIN verified
               PROVE  verified[i].granted =>
                        \/ verified[i].key \in ActiveKeys
                        \/ verified[i].until <= revokedAt[verified[i].key] + VerifyTTL
    BY DEF RevocationHolds
  <2>1. verified[i] \in TimelyEntry
    BY LenProperties, ElementOfSeq DEF KeysInv, CacheTimely
  <2> QED
    BY <2>1 DEF TimelyEntry
<1> QED
  BY <1>1, KeysInvariant, PTL

-----------------------------------------------------------------------------
(* Workspaces: the inductive invariant.                                    *)

\* A workspace stays with the organisation that had it first, also when it is
\* deleted; its schema holds that organisation's data or is not there.
SchemasOwned ==
  \A s \in Slug :
    /\ registry[s] = NoWorkspace => schemas[s] = NoSchema
    /\ registry[s] # NoWorkspace => schemas[s] \in {NoSchema, [of |-> {registry[s].org}]}

\* The router's answers may be old, but they name the owner.
TrueRoute == {r \in Route : Belongs(r.slug, r.org)}

RoutesTrue == routes \in Seq(TrueRoute)

TenantRec ==
  [pc: {"create", "register", "query", "open", "reading"}, slug: Slug, org: Org]
  \union [pc: {"fill"}, slug: Slug, org: Org, found: Org]

\* What a thread was told about a workspace holds.
SoundTenant ==
  {q \in {Idle} \union TenantRec :
     /\ q.pc = "fill" => Belongs(q.slug, q.found)
     /\ q.pc \in {"open", "reading"} => Belongs(q.slug, q.org)}

TenantsSound == \A t \in Thread : tenantReq[t] \in SoundTenant

TenancyInv == TenancyTypeOK /\ SchemasOwned /\ RoutesTrue /\ TenantsSound

\* A thread moves, and fills the router's cache at most.
LEMMA TenantMoves ==
  ASSUME TenancyInv, NEW t \in Thread, NEW q \in SoundTenant,
         tenantReq' = [tenantReq EXCEPT ![t] = q],
         UNCHANGED <<registry, schemas>>,
         routes' \in Seq(TrueRoute), Len(routes') <= RouterMax
  PROVE  TenancyInv'
<1>1. SoundTenant' = SoundTenant /\ TrueRoute' = TrueRoute
  BY DEF SoundTenant, TrueRoute, Belongs
<1>2. tenantReq' \in [Thread -> {Idle} \union TenantRec]
      /\ \A u \in Thread : tenantReq'[u] \in SoundTenant
  BY DEF TenancyInv, TenancyTypeOK, TenantsSound, SoundTenant, TenantRec
<1>3. routes' \in Seq(Route)
  BY SeqMonotone DEF TrueRoute
<1> QED
  BY <1>1, <1>2, <1>3
  DEF TenancyInv, TenancyTypeOK, SchemasOwned, RoutesTrue, TenantsSound, TenantRec

LEMMA RoutesAsTheyAre ==
  ASSUME TenancyInv, routes' = routes
  PROVE  routes' \in Seq(TrueRoute) /\ Len(routes') <= RouterMax
BY DEF TenancyInv, TenancyTypeOK, RoutesTrue

LEMMA IdleTenant == Idle \in SoundTenant
BY DEF SoundTenant, Idle

\* When rows are inserted or deleted, what the router and the threads were told
\* about a workspace still holds.
LEMMA RegistryMoves ==
  ASSUME TenancyInv, \A s \in Slug, o \in Org : Belongs(s, o) => Belongs(s, o)'
  PROVE  SoundTenant \subseteq SoundTenant' /\ TrueRoute \subseteq TrueRoute'
<1>1. ASSUME NEW q \in SoundTenant PROVE q \in SoundTenant'
  <2>1. q.pc \in {"open", "reading"} => q.slug \in Slug /\ q.org \in Org
    BY DEF SoundTenant, TenantRec, Idle
  <2>2. q.pc = "fill" => q.slug \in Slug /\ q.found \in Org
    BY DEF SoundTenant, TenantRec, Idle
  <2> QED
    BY <2>1, <2>2 DEF SoundTenant
<1>2. ASSUME NEW r \in TrueRoute PROVE r \in TrueRoute'
  BY DEF TrueRoute, Route
<1> QED
  BY <1>1, <1>2

\* What is inserted into the router's cache is one more answer.
LEMMA FilledRoutes ==
  ASSUME TenancyInv, NEW e \in TrueRoute
  PROVE  Insert(Evicted, e) \in Seq(TrueRoute) /\ Len(Insert(Evicted, e)) <= RouterMax
<1> DEFINE h == RouterMax \div 2
           n == Len(routes)
           kept == Evicted
<1>1. routes \in Seq(TrueRoute) /\ n \in Nat /\ n <= RouterMax /\ RouterMax \in Nat
      /\ \A i \in 1..n : routes[i] \in TrueRoute
  BY TenancyAssumption, LenProperties, ElementOfSeq DEF TenancyInv, TenancyTypeOK, RoutesTrue
<1>2. h \in Nat /\ 1 <= h /\ h <= RouterMax
  BY TenancyAssumption
<1> HIDE DEF h
<1>3. kept \in Seq(TrueRoute) /\ Len(kept) < RouterMax
  <2>1. CASE n >= RouterMax
    <3>1. kept = SubSeq(routes, h + 1, n)
      BY <2>1 DEF Evicted, h
    <3>2. h + 1 \in Int /\ n \in Int /\ \A i \in (h + 1)..n : routes[i] \in TrueRoute
      BY <1>1, <1>2
    <3>3. /\ SubSeq(routes, h + 1, n) \in Seq(TrueRoute)
          /\ Len(SubSeq(routes, h + 1, n)) = IF h + 1 <= n THEN n - (h + 1) + 1 ELSE 0
      BY <3>2, SubSeqProperties
    <3> HIDE DEF kept
    <3> QED
      BY <1>1, <1>2, <3>1, <3>3
  <2>2. CASE ~(n >= RouterMax)
    BY <1>1, <2>2 DEF Evicted
  <2> QED
    BY <2>1, <2>2
<1> HIDE DEF kept
<1>4. Len(kept) \in Nat /\ DOMAIN kept = 1..Len(kept) /\ \A i \in DOMAIN kept : kept[i] \in TrueRoute
  BY <1>3, LenProperties, ElementOfSeq
<1>5. CASE \E i \in DOMAIN kept : kept[i].slug = e.slug
  <2> DEFINE new == [i \in DOMAIN kept |-> IF kept[i].slug = e.slug THEN e ELSE kept[i]]
  <2>1. Insert(kept, e) = new
    BY <1>5 DEF Insert
  <2>2. new \in [1..Len(kept) -> TrueRoute] /\ DOMAIN new = 1..Len(kept)
    BY <1>4
  <2> HIDE DEF new
  <2>3. new \in Seq(TrueRoute) /\ Len(new) = Len(kept)
    BY <1>4, <2>2, SeqDef, LenProperties
  <2> QED
    BY <1>1, <1>3, <1>4, <2>1, <2>3 DEF kept
<1>6. CASE ~ \E i \in DOMAIN kept : kept[i].slug = e.slug
  <2>1. Insert(kept, e) = Append(kept, e)
    BY <1>6 DEF Insert
  <2>2. Append(kept, e) \in Seq(TrueRoute) /\ Len(Append(kept, e)) = Len(kept) + 1
    BY <1>3, AppendProperties
  <2> QED
    BY <1>1, <1>3, <1>4, <2>1, <2>2 DEF kept
<1> QED
  BY <1>5, <1>6

LEMMA TenancyInit1 == TenancyInit => TenancyInv
<1> SUFFICES ASSUME TenancyInit PROVE TenancyInv
  OBVIOUS
<1>1. routes \in Seq(TrueRoute) /\ routes \in Seq(Route) /\ Len(routes) <= RouterMax
  BY EmptySeq, TenancyAssumption DEF TenancyInit
<1> QED
  BY <1>1, IdleTenant
  DEF TenancyInit, TenancyInv, TenancyTypeOK, SchemasOwned, RoutesTrue, TenantsSound, NoSchema

LEMMA TenancyStep ==
  ASSUME TenancyInv, [TenancyNext]_tenancyVars
  PROVE  TenancyInv'
<1>0. /\ \A t \in Thread : tenantReq[t] \in {Idle} \union TenantRec
      /\ \A t \in Thread : tenantReq[t] \in SoundTenant
      /\ \A s \in Slug : registry[s] \in Registered \union {NoWorkspace}
  BY DEF TenancyInv, TenancyTypeOK, TenantsSound, TenantRec
<1>1. ASSUME NEW t \in Thread, NEW s \in Slug, NEW o \in Org, BeginCreate(t, s, o)
      PROVE  TenancyInv'
  <2> DEFINE q == [pc |-> "create", slug |-> s, org |-> o]
  <2>1. q \in TenantRec /\ q.pc = "create"
    BY DEF TenantRec
  <2>2. q \in SoundTenant
    BY <2>1 DEF SoundTenant
  <2> QED
    BY <1>1, <2>2, TenantMoves, RoutesAsTheyAre DEF BeginCreate
<1>2. ASSUME NEW t \in Thread, NEW s \in Slug, NEW o \in Org, Scoped(t, s, o)
      PROVE  TenancyInv'
  <2>1. CASE Cached(s) = {}
    <3> DEFINE q == [pc |-> "query", slug |-> s, org |-> o]
    <3>1. q \in TenantRec /\ q.pc = "query"
      BY DEF TenantRec
    <3>2. q \in SoundTenant
      BY <3>1 DEF SoundTenant
    <3> QED
      BY <1>2, <2>1, <3>2, TenantMoves, RoutesAsTheyAre DEF Scoped
  <2>2. CASE Cached(s) # {}
    <3> DEFINE q == [pc |-> "open", slug |-> s, org |-> o]
    <3>1. PICK i \in DOMAIN routes : routes[i].slug = s /\ routes[i].org = o
      BY <1>2, <2>2 DEF Scoped, Cached
    <3>2. routes[i] \in TrueRoute
      BY LenProperties, ElementOfSeq DEF TenancyInv, RoutesTrue
    <3>3. Belongs(s, o)
      BY <3>1, <3>2 DEF TrueRoute
    <3>4. q \in TenantRec /\ q.pc = "open" /\ q.slug = s /\ q.org = o
      BY DEF TenantRec
    <3>5. q \in SoundTenant
      BY <3>3, <3>4 DEF SoundTenant
    <3> QED
      BY <1>2, <2>2, <3>5, TenantMoves, RoutesAsTheyAre DEF Scoped
  <2> QED
    BY <2>1, <2>2
<1>3. ASSUME NEW t \in Thread, CreateSchema(t)
      PROVE  TenancyInv'
  <2> DEFINE q == [tenantReq[t] EXCEPT !.pc = "register"]
  <2>1. tenantReq[t].pc = "create"
    BY <1>3 DEF CreateSchema, At
  <2>2. q \in TenantRec /\ q.pc = "register"
    BY <1>0, <2>1 DEF TenantRec, Idle
  <2>3. q \in SoundTenant
    BY <2>2 DEF SoundTenant
  <2>4. tenantReq' = [tenantReq EXCEPT ![t] = q]
    BY <1>3 DEF CreateSchema, Proceed
  <2> QED
    BY <1>3, <2>3, <2>4, TenantMoves, RoutesAsTheyAre DEF CreateSchema
<1>4. ASSUME NEW t \in Thread, Register(t)
      PROVE  TenancyInv'
  <2> DEFINE s == tenantReq[t].slug
             o == tenantReq[t].org
  <2>1. tenantReq' = [tenantReq EXCEPT ![t] = Idle] /\ routes' = routes
        /\ tenantReq[t].pc = "register"
    BY <1>4 DEF Register, Leave, At
  <2>2. s \in Slug /\ o \in Org
    BY <1>0, <2>1 DEF TenantRec, Idle
  <2>3. CASE ~MayRegister(s)
    BY <1>4, <2>1, <2>3, IdleTenant, TenantMoves, RoutesAsTheyAre DEF Register
  <2>4. CASE MayRegister(s)
    <3>1. /\ registry[s] = NoWorkspace /\ schemas[s] = NoSchema
          /\ registry' = [registry EXCEPT ![s] = [state |-> "active", org |-> o]]
          /\ schemas' = [schemas EXCEPT ![s] = [of |-> {o}]]
      BY <1>4, <2>2, <2>4 DEF Register, MayRegister, TenancyInv, SchemasOwned
    <3> DEFINE row == [state |-> "active", org |-> o]
               data == [of |-> {o}]
    <3>2. row \in Registered /\ row # NoWorkspace /\ row.org = o
      <4>1. DOMAIN row = {"state", "org"} /\ DOMAIN NoWorkspace = {"state"}
        BY DEF NoWorkspace
      <4>2. row # NoWorkspace
        BY <4>1
      <4> QED
        BY <2>2, <4>2 DEF Registered
    <3>3. data \in [of: {{x} : x \in Org} \union {{}}]
      BY <2>2
    <3> HIDE DEF s, o, row, data
    <3>4. registry' = [registry EXCEPT ![s] = row] /\ schemas' = [schemas EXCEPT ![s] = data]
      BY <3>1 DEF row, data
    <3>5. /\ registry' \in [Slug -> Registered \union {NoWorkspace}]
          /\ schemas' \in [Slug -> [of: {{x} : x \in Org} \union {{}}]]
      BY <2>2, <3>2, <3>3, <3>4 DEF TenancyInv, TenancyTypeOK
    <3>6. SchemasOwned'
      <4>1. \A x \in Slug : x # s => registry'[x] = registry[x] /\ schemas'[x] = schemas[x]
        BY <3>4 DEF TenancyInv, TenancyTypeOK
      <4>2. registry'[s] = row /\ schemas'[s] = [of |-> {registry'[s].org}]
        BY <2>2, <3>2, <3>4 DEF TenancyInv, TenancyTypeOK, data
      <4> QED
        BY <3>2, <4>1, <4>2 DEF SchemasOwned, TenancyInv
    <3>7. \A x \in Slug, y \in Org : Belongs(x, y) => Belongs(x, y)'
      BY <3>1, <3>4 DEF Belongs, TenancyInv, TenancyTypeOK
    <3>8. SoundTenant \subseteq SoundTenant' /\ TrueRoute \subseteq TrueRoute'
      BY <3>7, RegistryMoves
    <3>9. routes' \in Seq(TrueRoute') /\ routes' \in Seq(Route) /\ Len(routes') <= RouterMax
      BY <2>1, <3>8, SeqMonotone DEF TenancyInv, TenancyTypeOK, RoutesTrue
    <3>10. tenantReq' \in [Thread -> {Idle} \union TenantRec] /\ TenantsSound'
      BY <2>1, <3>8, IdleTenant DEF TenancyInv, TenancyTypeOK, TenantsSound, TenantRec
    <3> QED
      BY <3>5, <3>6, <3>9, <3>10 DEF TenancyInv, TenancyTypeOK, RoutesTrue, TenantRec
  <2> QED
    BY <2>3, <2>4
<1>5. ASSUME NEW t \in Thread, QueryRegistry(t)
      PROVE  TenancyInv'
  <2>1. tenantReq[t].pc = "query" /\ UNCHANGED <<registry, schemas>> /\ routes' = routes
    BY <1>5 DEF QueryRegistry, At
  <2> DEFINE s == tenantReq[t].slug
             o == tenantReq[t].org
  <2>2. s \in Slug /\ o \in Org
    BY <1>0, <2>1 DEF TenantRec, Idle
  <2>3. CASE registry[s] # NoWorkspace /\ registry[s].state = "active"
    <3> DEFINE q == [pc |-> "fill", slug |-> s, org |-> o, found |-> registry[s].org]
    <3>1. registry[s].org \in Org /\ Belongs(s, registry[s].org)
      BY <1>0, <2>2, <2>3 DEF Registered, Belongs
    <3>2. q \in TenantRec /\ q.pc = "fill" /\ q.slug = s /\ q.found = registry[s].org
      BY <2>2, <3>1 DEF TenantRec
    <3>3. q \in SoundTenant
      BY <3>1, <3>2 DEF SoundTenant
    <3> QED
      BY <1>5, <2>1, <2>3, <3>3, TenantMoves, RoutesAsTheyAre DEF QueryRegistry
  <2>4. CASE ~(registry[s] # NoWorkspace /\ registry[s].state = "active")
    BY <1>5, <2>1, <2>4, IdleTenant, TenantMoves, RoutesAsTheyAre DEF QueryRegistry, Leave
  <2> QED
    BY <2>3, <2>4
<1>6. ASSUME NEW t \in Thread, FillRoute(t)
      PROVE  TenancyInv'
  <2> DEFINE s == tenantReq[t].slug
             o == tenantReq[t].org
             found == tenantReq[t].found
             e == [slug |-> s, org |-> found]
  <2>1. /\ tenantReq[t].pc = "fill" /\ UNCHANGED <<registry, schemas>>
        /\ routes' = Insert(Evicted, e)
        /\ tenantReq' = [tenantReq EXCEPT ![t] =
             IF found = o THEN [pc |-> "open", slug |-> s, org |-> o] ELSE Idle]
    BY <1>6 DEF FillRoute, At
  <2>2. s \in Slug /\ o \in Org /\ found \in Org /\ Belongs(s, found)
    BY <1>0, <2>1 DEF TenantRec, Idle, SoundTenant
  <2>3. e \in TrueRoute
    BY <2>2 DEF TrueRoute, Route
  <2>4. routes' \in Seq(TrueRoute) /\ Len(routes') <= RouterMax
    BY <2>1, <2>3, FilledRoutes
  <2>5. (IF found = o THEN [pc |-> "open", slug |-> s, org |-> o] ELSE Idle) \in SoundTenant
    BY <2>2, IdleTenant DEF SoundTenant, TenantRec
  <2> QED
    BY <2>1, <2>4, <2>5, TenantMoves
<1>7. ASSUME NEW t \in Thread, OpenScoped(t)
      PROVE  TenancyInv'
  <2> DEFINE q == [tenantReq[t] EXCEPT !.pc = "reading"]
  <2>1. tenantReq[t].pc = "open"
    BY <1>7 DEF OpenScoped, At
  <2>2. q \in TenantRec /\ q.pc = "reading" /\ q.slug = tenantReq[t].slug /\ q.org = tenantReq[t].org
    BY <1>0, <2>1 DEF TenantRec, Idle
  <2>3. q \in SoundTenant
    BY <1>0, <2>1, <2>2 DEF SoundTenant
  <2>4. tenantReq' = [tenantReq EXCEPT ![t] = q]
    BY <1>7 DEF OpenScoped, Proceed
  <2> QED
    BY <1>7, <2>3, <2>4, TenantMoves, RoutesAsTheyAre DEF OpenScoped
<1>8. ASSUME NEW t \in Thread, CloseScoped(t)
      PROVE  TenancyInv'
  BY <1>8, IdleTenant, TenantMoves, RoutesAsTheyAre DEF CloseScoped, Leave
<1>9. ASSUME NEW s \in Slug, InvalidateRoute(s)
      PROVE  TenancyInv'
  <2>1. PICK i \in DOMAIN routes : routes' = RemoveAt(routes, i)
    BY <1>9 DEF InvalidateRoute, Cached
  <2>2. UNCHANGED <<registry, schemas, tenantReq>>
    BY <1>9 DEF InvalidateRoute
  <2>3. /\ routes' \in Seq(TrueRoute) /\ routes' \in Seq(Route)
        /\ Len(routes') = Len(routes) - 1 /\ Len(routes) \in Nat
    BY <2>1, RemoveAtType, LenProperties DEF TenancyInv, TenancyTypeOK, RoutesTrue
  <2>4. Len(routes') <= RouterMax
    BY <2>3, TenancyAssumption DEF TenancyInv, TenancyTypeOK
  <2>5. SoundTenant' = SoundTenant /\ TrueRoute' = TrueRoute
    BY <2>2 DEF SoundTenant, TrueRoute, Belongs
  <2> QED
    BY <2>2, <2>3, <2>4, <2>5
    DEF TenancyInv, TenancyTypeOK, SchemasOwned, RoutesTrue, TenantsSound
<1>10. ASSUME NEW s \in Slug, NEW o \in Org, DeleteWorkspace(s, o)
       PROVE  TenancyInv'
  <2>1. /\ registry[s] # NoWorkspace /\ registry[s].org = o
        /\ schemas' = [schemas EXCEPT ![s] = NoSchema]
        /\ registry' = [registry EXCEPT ![s] = [registry[s] EXCEPT !.state = "deleted"]]
        /\ UNCHANGED <<routes, tenantReq>>
    BY <1>10 DEF DeleteWorkspace, Belongs
  <2> DEFINE row == [registry[s] EXCEPT !.state = "deleted"]
  <2>2. row \in Registered /\ row # NoWorkspace /\ row.org = o
    <3>1. registry[s] \in Registered
      BY <1>0, <2>1
    <3>2. row \in Registered /\ row.org = o
      BY <2>1, <3>1 DEF Registered
    <3>3. DOMAIN row = {"state", "org"} /\ DOMAIN NoWorkspace = {"state"}
      BY <3>1 DEF Registered, NoWorkspace
    <3> QED
      BY <3>2, <3>3
  <2> HIDE DEF row
  <2>3. registry' = [registry EXCEPT ![s] = row]
    BY <2>1 DEF row
  <2>4. NoSchema \in [of: {{x} : x \in Org} \union {{}}]
    BY DEF NoSchema
  <2>5. /\ registry' \in [Slug -> Registered \union {NoWorkspace}]
        /\ schemas' \in [Slug -> [of: {{x} : x \in Org} \union {{}}]]
    BY <2>1, <2>2, <2>3, <2>4 DEF TenancyInv, TenancyTypeOK
  <2>6. SchemasOwned'
    <3>1. \A x \in Slug : x # s => registry'[x] = registry[x] /\ schemas'[x] = schemas[x]
      BY <2>1, <2>3 DEF TenancyInv, TenancyTypeOK
    <3>2. registry'[s] = row /\ schemas'[s] = NoSchema
      BY <2>1, <2>3 DEF TenancyInv, TenancyTypeOK
    <3> QED
      BY <2>2, <3>1, <3>2 DEF SchemasOwned, TenancyInv
  <2>7. \A x \in Slug, y \in Org : Belongs(x, y) => Belongs(x, y)'
    BY <2>1, <2>2, <2>3 DEF Belongs, TenancyInv, TenancyTypeOK
  <2>8. SoundTenant \subseteq SoundTenant' /\ TrueRoute \subseteq TrueRoute'
    BY <2>7, RegistryMoves
  <2>9. routes' \in Seq(TrueRoute')
    BY <2>1, <2>8, SeqMonotone DEF TenancyInv, RoutesTrue
  <2> QED
    BY <2>1, <2>5, <2>6, <2>8, <2>9 DEF TenancyInv, TenancyTypeOK, RoutesTrue, TenantsSound
<1>11. CASE UNCHANGED tenancyVars
  BY <1>11 DEF tenancyVars, TenancyInv, TenancyTypeOK, SchemasOwned, RoutesTrue, TenantsSound,
               SoundTenant, TrueRoute, Belongs
<1> QED
  BY <1>1, <1>2, <1>3, <1>4, <1>5, <1>6, <1>7, <1>8, <1>9, <1>10, <1>11 DEF TenancyNext

LEMMA TenancyInvariant == TenancySpec => []TenancyInv
BY TenancyInit1, TenancyStep, PTL DEF TenancySpec

\* The workspaces stay within their types and the router's cache within its bound.
THEOREM TenancyTypeCorrect == TenancySpec => []TenancyTypeOK
BY TenancyInvariant, PTL DEF TenancyInv

\* A connection opened for an organisation never reads another's data, however old
\* the router's answer is (WorkspaceRouter.scoped_connection, WorkspaceProvisioner).
THEOREM TenantsKeptApart == TenancySpec => []TenantsApart
<1>1. TenancyInv => TenantsApart
  <2> SUFFICES ASSUME TenancyInv, NEW t \in Thread, At(tenantReq, t, "reading")
               PROVE  schemas[tenantReq[t].slug].of \subseteq {tenantReq[t].org}
    BY DEF TenantsApart
  <2> DEFINE s == tenantReq[t].slug
             o == tenantReq[t].org
  <2>1. s \in Slug /\ registry[s] # NoWorkspace /\ registry[s].org = o
    BY DEF At, TenancyInv, TenantsSound, SoundTenant, TenantRec, Idle, Belongs
  <2>2. schemas[s] = NoSchema \/ schemas[s] = [of |-> {o}]
    BY <2>1 DEF TenancyInv, SchemasOwned
  <2>3. schemas[s].of = {} \/ schemas[s].of = {o}
    BY <2>2 DEF NoSchema
  <2> QED
    BY <2>3
<1> QED
  BY <1>1, TenancyInvariant, PTL
-----------------------------------------------------------------------------
(* Rate limits: windows and deques.                                        *)

\* The entries that are no older than an instant.
From(q, k) == {i \in DOMAIN q : q[i] >= k}

LEMMA RateConstants ==
  /\ RateWindow \in Nat \ {0} /\ RateLimit \in Nat \ {0} /\ MaxRateKeys \in Nat \ {0}
  /\ RateTrim \in Nat \ {0} /\ RateHorizon \in Nat /\ MaxRateRequests \in Nat
  /\ RateTime \subseteq Nat
BY RateLimitAssumption DEF RateTime

LEMMA LeastOf ==
  ASSUME NEW R \in SUBSET Nat, R # {}
  PROVE  Min(R) \in R /\ \A y \in R : Min(R) <= y
<1> DEFINE L == OpToRel(<, Nat)
<1>1. IsWellFoundedOn(L, Nat)
  BY NatLessThanWellFounded, Zenon
<1>2. \A n, m \in Nat : m < n => <<m, n>> \in L
  BY DEF OpToRel
<1> HIDE DEF L
<1>3. \E n \in R : \A m \in R : ~ (<<m, n>> \in L)
  BY <1>1, WFMin
<1>4. PICK n \in R : \A m \in R : ~ (m < n)
  BY <1>2, <1>3
<1>5. \A y \in R : n <= y
  BY <1>4
<1> QED
  BY <1>5 DEF Min

LEMMA FromFinite ==
  ASSUME NEW q \in Seq(RateTime), NEW k \in Int
  PROVE  /\ IsFiniteSet(From(q, k))
         /\ Cardinality(From(q, k)) \in Nat
         /\ Cardinality(From(q, k)) <= Len(q)
<1>1. Len(q) \in Nat /\ From(q, k) \subseteq 1..Len(q)
  BY DEF From
<1>2. IsFiniteSet(1..Len(q)) /\ Cardinality(1..Len(q)) = Len(q)
  <2>1. 1 \in Int /\ Len(q) \in Int /\ (IF 1 > Len(q) THEN 0 ELSE Len(q) - 1 + 1) = Len(q)
    BY <1>1
  <2> QED
    BY <2>1, FS_Interval
<1> QED
  BY <1>1, <1>2, FS_Subset, FS_CardinalityType

\* The deque drops nothing that a later window could count.
LEMMA RecentKeeps ==
  ASSUME NEW q \in Seq(RateTime), NEW now \in RateTime
  PROVE  /\ Recent(q, now) \in Seq(RateTime)
         /\ \A k \in Int : k + RateWindow >= now =>
              Cardinality(From(q, k)) <= Cardinality(From(Recent(q, now), k))
<1> DEFINE fresh == {i \in DOMAIN q : q[i] + RateWindow >= now}
           m == Min(fresh)
           r == SubSeq(q, m, Len(q))
<1>0. /\ Len(q) \in Nat /\ DOMAIN q = 1..Len(q)
      /\ \A i \in 1..Len(q) : q[i] \in RateTime
      /\ now \in Nat /\ RateWindow \in Nat
      /\ \A a \in RateTime : a \in Nat
  BY RateConstants
<1>1. CASE fresh = {}
  <2>1. Recent(q, now) = <<>>
    BY <1>1 DEF Recent
  <2>2. ASSUME NEW k \in Int, k + RateWindow >= now
        PROVE  Cardinality(From(q, k)) <= Cardinality(From(<<>>, k))
    <3>1. ASSUME NEW i \in DOMAIN q PROVE q[i] \in Nat /\ ~ (q[i] + RateWindow >= now)
      BY <1>0, <1>1
    <3>2. \A i \in DOMAIN q : ~ (q[i] >= k)
      BY <1>0, <2>2, <3>1
    <3>3. From(q, k) = {}
      BY <3>2 DEF From
    <3>4. <<>> \in Seq(RateTime)
      OBVIOUS
    <3>5. Cardinality(From(<<>>, k)) \in Nat
      BY <3>4, FromFinite
    <3>6. Cardinality(From(q, k)) = 0
      BY <3>3, FS_EmptySet
    <3> QED
      BY <3>5, <3>6
  <2> QED
    BY <2>1, <2>2
<1>2. CASE fresh # {}
  <2>1. fresh \subseteq 1..Len(q)
    BY <1>0
  <2>2. m \in fresh /\ \A i \in fresh : m <= i
    <3>1. fresh \in SUBSET Nat
      BY <1>0, <2>1
    <3> HIDE DEF fresh
    <3> QED
      BY <1>2, <3>1, LeastOf
  <2>3. Recent(q, now) = r
    BY <1>2 DEF Recent
  <2> HIDE DEF m, r
  <2>4. m \in 1..Len(q) /\ \A i \in 1..Len(q) : i < m => ~ (q[i] + RateWindow >= now)
    BY <1>0, <2>1, <2>2
  <2>5. /\ r \in Seq(RateTime) /\ Len(r) = Len(q) - m + 1
        /\ \A i \in 1..(Len(q) - m + 1) : r[i] = q[m + i - 1]
    <3>1. m \in Int /\ Len(q) \in Int /\ \A i \in m..Len(q) : q[i] \in RateTime
      BY <1>0, <2>4
    <3> QED
      BY <1>0, <2>4, <3>1, SubSeqProperties DEF r
  <2>6. ASSUME NEW k \in Int, k + RateWindow >= now
        PROVE  Cardinality(From(q, k)) <= Cardinality(From(r, k))
    <3> DEFINE f == [i \in From(q, k) |-> i - m + 1]
    <3>1. \A i \in From(q, k) : i \in 1..Len(q) /\ ~ (i < m) /\ q[i] >= k
      <4> SUFFICES ASSUME NEW i \in From(q, k) PROVE i \in 1..Len(q) /\ ~ (i < m) /\ q[i] >= k
        OBVIOUS
      <4>1. i \in 1..Len(q) /\ q[i] >= k /\ q[i] \in Nat
        BY <1>0 DEF From
      <4>2. q[i] + RateWindow >= now
        BY <1>0, <2>6, <4>1
      <4> QED
        BY <2>4, <4>1, <4>2
    <3>2. DOMAIN r = 1..(Len(q) - m + 1)
      BY <2>5
    <3>3. \A i \in From(q, k) : i - m + 1 \in From(r, k)
      <4> SUFFICES ASSUME NEW i \in From(q, k) PROVE i - m + 1 \in From(r, k)
        OBVIOUS
      <4>1. i - m + 1 \in 1..(Len(q) - m + 1) /\ m + (i - m + 1) - 1 = i
        BY <1>0, <2>4, <3>1
      <4>2. r[i - m + 1] = q[i]
        BY <2>5, <4>1
      <4> QED
        BY <3>1, <3>2, <4>1, <4>2 DEF From
    <3>4. f \in Injection(From(q, k), From(r, k))
      <4>1. f \in [From(q, k) -> From(r, k)]
        BY <3>3
      <4>2. \A i, j \in From(q, k) : f[i] = f[j] => i = j
        BY <1>0, <2>4, <3>1
      <4> QED
        BY <4>1, <4>2 DEF Injection, IsInjective
    <3> HIDE DEF f
    <3> QED
      BY <2>5, <3>4, FromFinite, FS_Injection
  <2> QED
    BY <2>3, <2>5, <2>6
<1> QED
  BY <1>1, <1>2

LEMMA FromAppend ==
  ASSUME NEW q \in Seq(RateTime), NEW a \in RateTime, NEW k \in Int
  PROVE  Cardinality(From(Append(q, a), k)) =
           Cardinality(From(q, k)) + (IF a >= k THEN 1 ELSE 0)
<1> DEFINE n == Len(q) + 1
<1>1. /\ Len(q) \in Nat /\ DOMAIN q = 1..Len(q)
      /\ DOMAIN Append(q, a) = 1..n
      /\ \A i \in 1..Len(q) : Append(q, a)[i] = q[i]
      /\ Append(q, a)[n] = a
  BY AppendProperties
<1>2. n \notin From(q, k)
  BY <1>1 DEF From
<1>3. CASE a >= k
  <2>1. From(Append(q, a), k) = From(q, k) \union {n}
    BY <1>1, <1>3 DEF From
  <2> QED
    BY <1>2, <1>3, <2>1, FromFinite, FS_AddElement
<1>4. CASE ~ (a >= k)
  <2>1. From(Append(q, a), k) = From(q, k)
    BY <1>1, <1>4 DEF From
  <2> QED
    BY <1>4, <2>1, FromFinite
<1> QED
  BY <1>3, <1>4

LEMMA WindowFrom ==
  ASSUME NEW q \in Seq(RateTime), NEW end \in RateTime
  PROVE  /\ IsFiniteSet(InWindow(q, end))
         /\ Cardinality(InWindow(q, end)) \in Nat
         /\ Cardinality(InWindow(q, end)) <= Cardinality(From(q, end - RateWindow + 1))
<1>1. end \in Nat /\ RateWindow \in Nat /\ end - RateWindow + 1 \in Int
  BY RateConstants
<1>2. InWindow(q, end) \subseteq From(q, end - RateWindow + 1)
  <2>1. ASSUME NEW i \in DOMAIN q PROVE q[i] \in Nat
    <3>1. q[i] \in RateTime
      BY ElementOfSeq, LenProperties
    <3> QED
      BY <3>1, RateConstants
  <2> QED
    BY <1>1, <2>1 DEF InWindow, From
<1> QED
  BY <1>1, <1>2, FromFinite, FS_Subset, FS_CardinalityType

\* A request that is noted leaves every window within the limit, if there was room
\* in what the counter still held.
LEMMA RoomForOne ==
  ASSUME NEW h \in Seq(RateTime), rateTime \in RateTime, NEW now \in RateTime,
         \A end \in RateTime : Cardinality(InWindow(h, end)) <= RateLimit,
         \A k \in Int : k + RateWindow > now => Cardinality(From(h, k)) < RateLimit
  PROVE  \A end \in RateTime : Cardinality(InWindow(Note(h, now), end)) <= RateLimit
<1> SUFFICES ASSUME NEW end \in RateTime
             PROVE  Cardinality(InWindow(Append(h, now), end)) <= RateLimit
  BY DEF Note
<1> DEFINE n == Len(h) + 1
<1>1. /\ Len(h) \in Nat /\ DOMAIN h = 1..Len(h)
      /\ DOMAIN Append(h, now) = 1..n
      /\ \A i \in 1..Len(h) : Append(h, now)[i] = h[i]
      /\ Append(h, now)[n] = now
  BY AppendProperties
<1>2. end \in Nat /\ now \in Nat /\ RateWindow \in Nat /\ RateLimit \in Nat
  BY RateConstants
<1>3. CASE now <= end /\ now + RateWindow > end
  <2>1. InWindow(Append(h, now), end) = InWindow(h, end) \union {n} /\ n \notin InWindow(h, end)
    BY <1>1, <1>3 DEF InWindow
  <2>2. Cardinality(InWindow(Append(h, now), end)) = Cardinality(InWindow(h, end)) + 1
    BY <2>1, WindowFrom, FS_AddElement
  <2>3. Cardinality(From(h, end - RateWindow + 1)) < RateLimit
    BY <1>2, <1>3
  <2>4. /\ Cardinality(InWindow(h, end)) \in Nat
        /\ Cardinality(InWindow(h, end)) <= Cardinality(From(h, end - RateWindow + 1))
    BY WindowFrom
  <2>5. Cardinality(From(h, end - RateWindow + 1)) \in Nat
    <3>1. end - RateWindow + 1 \in Int
      BY <1>2
    <3> QED
      BY <3>1, FromFinite
  <2> QED
    BY <1>2, <2>2, <2>3, <2>4, <2>5
<1>4. CASE ~ (now <= end /\ now + RateWindow > end)
  <2>1. InWindow(Append(h, now), end) = InWindow(h, end)
    BY <1>1, <1>4 DEF InWindow
  <2> QED
    BY <2>1
<1> QED
  BY <1>3, <1>4

LEMMA NoteFrom ==
  ASSUME NEW h \in Seq(RateTime), NEW now \in RateTime, NEW k \in Int
  PROVE  /\ Note(h, now) \in Seq(RateTime)
         /\ Cardinality(From(Note(h, now), k)) <=
              Cardinality(From(h, k)) + (IF now >= k THEN 1 ELSE 0)
<1>1. Append(h, now) \in Seq(RateTime)
  BY AppendProperties
<1>2. Cardinality(From(h, k)) \in Nat
  BY FromFinite
<1>3. CASE now = rateTime
  BY <1>1, <1>2, <1>3, FromAppend DEF Note
<1>4. CASE now # rateTime
  BY <1>2, <1>4 DEF Note
<1> QED
  BY <1>3, <1>4
-----------------------------------------------------------------------------
(* Rate limits: the inductive invariant.                                   *)

\* What a counter still holds covers all that it let pass in the windows to come.
CountersKeep ==
  \A k \in Int : k + RateWindow > rateTime =>
    /\ \A c \in Client :
         Cardinality(From(passed[c], k)) <= Cardinality({e \in shared[c] : e.at >= k})
    /\ \A b \in Bucket :
         Cardinality(From(granted[b], k)) <= Cardinality(From(times[b], k))

\* No counter by itself lets more than its limit pass in a window.
WindowsKept ==
  \A end \in RateTime :
    /\ \A c \in Client : Cardinality(InWindow(passed[c], end)) <= RateLimit
    /\ \A b \in Bucket : Cardinality(InWindow(granted[b], end)) <= RateLimit

\* A client has one bucket in the table at most, and each other that was made for
\* it was dropped from the table.
DropsCounted ==
  /\ \A b, d \in listed : owner[b] = owner[d] => b = d
  /\ \A c \in Client :
       /\ Cardinality(MadeFor(c)) <= 1 + forgotten[c]
       /\ ListedFor(c) = {} => Cardinality(MadeFor(c)) <= forgotten[c]

RateInv == RateTypeOK /\ CountersKeep /\ WindowsKept /\ DropsCounted

LEMMA RateFinite ==
  ASSUME RateTypeOK
  PROVE  /\ Len(owner) \in Nat /\ DOMAIN owner = 1..Len(owner)
         /\ IsFiniteSet(DOMAIN owner)
         /\ \A S \in SUBSET DOMAIN owner : IsFiniteSet(S) /\ Cardinality(S) \in Nat
         /\ \A c \in Client : \A S \in SUBSET shared[c] :
              IsFiniteSet(S) /\ Cardinality(S) \in Nat
<1>1. Len(owner) \in Nat /\ DOMAIN owner = 1..Len(owner)
  BY DEF RateTypeOK
<1>2. IsFiniteSet(DOMAIN owner)
  BY <1>1, FS_Interval
<1>3. ASSUME NEW c \in Client, NEW S \in SUBSET shared[c]
      PROVE  IsFiniteSet(S) /\ Cardinality(S) \in Nat
  <2> DEFINE E == [member: Member, at: RateTime]
  <2>1. IsFiniteSet(Member) /\ IsFiniteSet(RateTime)
    BY RateConstants, FS_Interval DEF Member, RateTime
  <2>2. IsFiniteSet(Member \X RateTime)
    BY <2>1, FS_Product
  <2> DEFINE f == [e \in E |-> <<e.member, e.at>>]
  <2>3. f \in Injection(E, Member \X RateTime)
    <3>1. f \in [E -> Member \X RateTime]
      OBVIOUS
    <3>2. \A a, b \in E : f[a] = f[b] => a = b
      OBVIOUS
    <3> QED
      BY <3>1, <3>2 DEF Injection, IsInjective
  <2>4. IsFiniteSet(E)
    BY <2>2, <2>3, FS_Injection
  <2>5. S \in SUBSET E
    BY DEF RateTypeOK
  <2> QED
    BY <2>4, <2>5, FS_Subset, FS_CardinalityType
<1> QED
  BY <1>1, <1>2, <1>3, FS_Subset, FS_CardinalityType

\* Trimming makes room for one more bucket.
LEMMA TrimRoom ==
  ASSUME RateTypeOK
  PROVE  Trimmed \subseteq listed /\ Cardinality(Trimmed) < MaxRateKeys
<1>1. /\ IsFiniteSet(listed) /\ Cardinality(listed) \in Nat
      /\ Cardinality(listed) <= MaxRateKeys /\ listed \subseteq Nat
  BY RateFinite DEF RateTypeOK
<1>2. CASE ~TableFull
  BY <1>1, <1>2, RateConstants DEF Trimmed, TableFull
<1>3. Swept \subseteq listed
  BY DEF Swept
<1>4. /\ IsFiniteSet(Swept) /\ Cardinality(Swept) \in Nat
      /\ Cardinality(Swept) <= Cardinality(listed)
  BY <1>1, <1>3, FS_Subset, FS_CardinalityType
<1>5. CASE TableFull /\ Cardinality(Swept) < MaxRateKeys
  BY <1>3, <1>5 DEF Trimmed
<1>6. CASE TableFull /\ ~ (Cardinality(Swept) < MaxRateKeys)
  <2> DEFINE m == Min(Swept)
  <2>1. Swept # {}
    BY <1>4, <1>6, FS_EmptySet, RateConstants
  <2>2. Swept \in SUBSET Nat
    BY <1>1, <1>3
  <2>3. m \in Swept /\ \A d \in Swept : m <= d
    BY <2>1, <2>2, LeastOf
  <2> HIDE DEF m
  <2>4. {d \in Swept : d < m} = {}
    <3>1. ASSUME NEW d \in Swept, d < m PROVE FALSE
      BY <2>2, <2>3, <3>1
    <3> QED
      BY <3>1
  <2>5. Cardinality({d \in Swept : d < m}) = 0
    BY <2>4, FS_EmptySet
  <2>6. Trimmed = {b \in Swept : Cardinality({d \in Swept : d < b}) >= RateTrim}
    BY <1>6 DEF Trimmed
  <2>7. m \notin Trimmed
    BY <2>5, <2>6, RateConstants
  <2>8. Trimmed \subseteq Swept \ {m}
    BY <2>6, <2>7
  <2>9. /\ IsFiniteSet(Swept \ {m})
        /\ Cardinality(Swept \ {m}) = Cardinality(Swept) - 1
    BY <1>4, <2>3, FS_RemoveElement
  <2>10. /\ Cardinality(Trimmed) <= Cardinality(Swept \ {m})
         /\ Cardinality(Trimmed) \in Nat
    BY <2>8, <2>9, FS_Subset, FS_CardinalityType
  <2> QED
    BY <1>1, <1>3, <1>4, <2>8, <2>9, <2>10, RateConstants
<1> QED
  BY <1>2, <1>5, <1>6

LEMMA RequestFields ==
  ASSUME RateTypeOK, NEW t \in Thread
  PROVE  /\ rateReq[t].pc = "pipe" =>
              rateReq[t].client \in Client /\ rateReq[t].since \in RateTime
         /\ rateReq[t].pc \in {"find", "make"} => rateReq[t].client \in Client
         /\ rateReq[t].pc = "append" =>
              rateReq[t].bucket \in Bucket /\ rateReq[t].since \in RateTime
<1>1. rateReq[t] \in RateRequest
  BY DEF RateTypeOK
<1> QED
  BY <1>1 DEF RateRequest, Idle

\* A thread's record of a listed bucket has its type.
LEMMA UseBucketType ==
  ASSUME RateTypeOK, NEW t \in Thread, NEW b \in Bucket, UseBucket(t, b)
  PROVE  rateReq' \in [Thread -> RateRequest]
<1>1. rateTime \in RateTime
  BY DEF RateTypeOK
<1>2. [pc |-> "append", bucket |-> b, since |-> rateTime] \in RateRequest
  BY <1>1 DEF RateRequest
<1> QED
  BY <1>2 DEF UseBucket, RateTypeOK

\* A step that counts nothing.
LEMMA NothingCounted ==
  ASSUME RateInv,
         UNCHANGED <<shared, owner, listed, times, passed, granted, forgotten>>,
         rateTime' \in RateTime, rateTime <= rateTime'
  PROVE  CountersKeep' /\ WindowsKept' /\ DropsCounted'
<1>1. rateTime \in Nat /\ rateTime' \in Nat /\ RateWindow \in Nat
  BY RateConstants DEF RateInv, RateTypeOK
<1>2. \A k \in Int : k + RateWindow > rateTime' => k + RateWindow > rateTime
  BY <1>1
<1>3. CountersKeep'
  BY <1>2 DEF RateInv, CountersKeep
<1>4. WindowsKept'
  BY DEF RateInv, WindowsKept
<1>5. DropsCounted'
  BY DEF RateInv, DropsCounted, MadeFor, ListedFor
<1> QED
  BY <1>3, <1>4, <1>5

LEMMA ListedBuckets ==
  ASSUME RateTypeOK, NEW c
  PROVE  ListedFor(c) \subseteq Bucket
<1>1. Len(owner) \in Nat /\ DOMAIN owner = 1..Len(owner) /\ Len(owner) <= MaxRateRequests
  BY RateFinite DEF RateTypeOK
<1> QED
  BY <1>1, RateConstants DEF RateTypeOK, ListedFor, Bucket

LEMMA ArriveStep ==
  ASSUME RateInv, NEW t \in Thread, NEW c \in Client, RateArrive(t, c)
  PROVE  RateInv'
<1>1. RateTypeOK
  BY DEF RateInv
<1>2. [pc |-> "pipe", client |-> c, since |-> rateTime] \in RateRequest
  BY <1>1 DEF RateRequest, RateTypeOK
<1>3. rateReq' \in [Thread -> RateRequest]
  BY <1>1, <1>2 DEF RateArrive, RateTypeOK
<1>4. rateAsked' \in 0..MaxRateRequests
  BY <1>1, RateConstants DEF RateArrive, RateTypeOK
<1>5. RateTypeOK'
  BY <1>1, <1>3, <1>4 DEF RateArrive, RateTypeOK
<1>6. rateTime' = rateTime /\ rateTime \in RateTime /\ rateTime <= rateTime
  BY <1>1, RateConstants DEF RateArrive, RateTypeOK
<1>7. CountersKeep' /\ WindowsKept' /\ DropsCounted'
  BY <1>6, NothingCounted DEF RateArrive
<1> QED
  BY <1>5, <1>7 DEF RateInv

LEMMA FindStep ==
  ASSUME RateInv, NEW t \in Thread, FindBucket(t)
  PROVE  RateInv'
<1>1. RateTypeOK
  BY DEF RateInv
<1> DEFINE c == rateReq[t].client
<1>2. c \in Client
  BY <1>1, RequestFields DEF FindBucket
<1>3. rateReq' \in [Thread -> RateRequest]
  <2>1. CASE ListedFor(c) = {}
    <3>1. [pc |-> "make", client |-> c] \in RateRequest
      BY <1>2 DEF RateRequest
    <3> QED
      BY <1>1, <2>1, <3>1 DEF FindBucket, RateTypeOK
  <2>2. CASE ListedFor(c) # {}
    <3>1. PICK b \in ListedFor(c) : UseBucket(t, b)
      BY <2>2 DEF FindBucket
    <3> QED
      BY <1>1, <3>1, ListedBuckets, UseBucketType
  <2> QED
    BY <2>1, <2>2
<1>4. RateTypeOK'
  BY <1>1, <1>3 DEF FindBucket, RateTypeOK
<1>5. rateTime' = rateTime /\ rateTime \in RateTime /\ rateTime <= rateTime
  BY <1>1, RateConstants DEF FindBucket, RateTypeOK
<1>6. CountersKeep' /\ WindowsKept' /\ DropsCounted'
  BY <1>5, NothingCounted DEF FindBucket
<1> QED
  BY <1>4, <1>6 DEF RateInv

LEMMA TickStep ==
  ASSUME RateInv, RateTick
  PROVE  RateInv'
<1>1. RateTypeOK
  BY DEF RateInv
<1>2. rateTime' \in RateTime /\ rateTime <= rateTime'
  BY <1>1, RateConstants DEF RateTick, RateTypeOK, RateTime
<1>3. RateTypeOK'
  BY <1>1, <1>2 DEF RateTick, RateTypeOK
<1>4. CountersKeep' /\ WindowsKept' /\ DropsCounted'
  BY <1>2, NothingCounted DEF RateTick
<1> QED
  BY <1>3, <1>4 DEF RateInv

LEMMA PipelineStep ==
  ASSUME RateInv, NEW t \in Thread, RunPipeline(t)
  PROVE  RateInv'
<1> DEFINE c == rateReq[t].client
<1>1. RateTypeOK /\ CountersKeep /\ WindowsKept /\ DropsCounted
  BY DEF RateInv
<1>2. c \in Client /\ rateReq[t].since \in RateTime /\ rateTime \in RateTime
  BY <1>1, RequestFields DEF RunPipeline, At, RateTypeOK
<1> DEFINE Kept(now) == {e \in shared[c] : e.at + RateWindow > now}
<1>3. PICK now \in rateReq[t].since..rateTime, m \in Member :
        LET kept == Kept(now)
            set == kept \union {[member |-> m, at |-> now]}
        IN
        /\ \A e \in kept : e.member # m
        /\ shared' = [shared EXCEPT ![c] = set]
        /\ \/ /\ rateReq' = [rateReq EXCEPT ![t] = Idle]
              /\ passed' = [passed EXCEPT ![c] =
                   IF Cardinality(set) <= RateLimit THEN Note(@, now) ELSE @]
           \/ /\ rateReq' = [rateReq EXCEPT ![t] = [pc |-> "find", client |-> c]]
              /\ UNCHANGED passed
  BY DEF RunPipeline, Members
<1> DEFINE kept == Kept(now)
           new == [member |-> m, at |-> now]
           set == kept \union {new}
           h == passed[c]
<1>4. /\ now \in RateTime /\ now \in Nat /\ now <= rateTime /\ rateTime \in Nat
      /\ RateWindow \in Nat /\ RateLimit \in Nat
  <2>1. rateReq[t].since \in Nat /\ rateTime \in Nat /\ rateTime <= RateHorizon
    BY <1>2, RateConstants DEF RateTime
  <2>2. now \in Nat /\ now <= rateTime
    BY <2>1
  <2> QED
    BY <2>1, <2>2, RateConstants DEF RateTime
<1>5. /\ shared[c] \in SUBSET [member: Member, at: RateTime] /\ h \in Seq(RateTime)
      /\ \A d \in Client : passed[d] \in Seq(RateTime)
  BY <1>1, <1>2 DEF RateTypeOK
<1>6. /\ kept \subseteq shared[c] /\ new \notin kept
      /\ new \in [member: Member, at: RateTime]
  BY <1>3, <1>4
<1>7. /\ IsFiniteSet(kept) /\ Cardinality(kept) \in Nat
      /\ Cardinality(set) = Cardinality(kept) + 1
  BY <1>1, <1>2, <1>6, RateFinite, FS_AddElement
<1>8. shared' = [shared EXCEPT ![c] = set]
  BY <1>3
<1>9. \/ passed' = [passed EXCEPT ![c] = Note(h, now)] /\ Cardinality(set) <= RateLimit
      \/ passed' = passed
  BY <1>1, <1>2, <1>3 DEF RateTypeOK
<1>10. \A e \in shared[c] : e.at \in Nat
  BY <1>5, RateConstants
<1> DEFINE After(S, k) == {e \in S : e.at >= k}
<1>11. ASSUME NEW k \in Int, k + RateWindow > now
       PROVE  After(shared[c], k) \subseteq kept
  BY <1>4, <1>10, <1>11
<1>12. ASSUME NEW k \in Int, k + RateWindow > now
       PROVE  /\ Cardinality(After(shared[c], k)) \in Nat
              /\ Cardinality(After(shared[c], k)) <= Cardinality(kept)
              /\ Cardinality(After(set, k)) =
                   Cardinality(After(shared[c], k)) + (IF now >= k THEN 1 ELSE 0)
  <2>1. After(shared[c], k) \subseteq kept
    BY <1>11, <1>12
  <2>2. /\ IsFiniteSet(After(shared[c], k)) /\ Cardinality(After(shared[c], k)) \in Nat
        /\ Cardinality(After(shared[c], k)) <= Cardinality(kept)
    BY <1>7, <2>1, FS_Subset, FS_CardinalityType
  <2>3. After(kept, k) = After(shared[c], k)
    BY <1>6, <2>1
  <2>4. new \notin After(shared[c], k)
    BY <1>6, <2>1
  <2>5. CASE now >= k
    <3>1. After(set, k) = After(shared[c], k) \union {new}
      BY <2>3, <2>5
    <3> QED
      BY <2>2, <2>4, <2>5, <3>1, FS_AddElement
  <2>6. CASE ~ (now >= k)
    <3>1. After(set, k) = After(shared[c], k)
      BY <2>3, <2>6
    <3> HIDE DEF After, set
    <3> QED
      BY <2>2, <2>6, <3>1
  <2> QED
    BY <2>2, <2>5, <2>6
<1>13. \A k \in Int : k + RateWindow > rateTime => k + RateWindow > now
  BY <1>4
<1>14. RateTypeOK'
  <2>1. shared' \in [Client -> SUBSET [member: Member, at: RateTime]]
    BY <1>1, <1>2, <1>5, <1>6, <1>8 DEF RateTypeOK
  <2>2. rateReq' \in [Thread -> RateRequest]
    <3>1. Idle \in RateRequest /\ [pc |-> "find", client |-> c] \in RateRequest
      BY <1>2 DEF RateRequest
    <3> QED
      BY <1>1, <1>3, <3>1 DEF RateTypeOK
  <2>3. Note(h, now) \in Seq(RateTime)
    BY <1>4, <1>5, NoteFrom
  <2>4. passed' \in [Client -> Seq(RateTime)]
    BY <1>1, <1>9, <2>3 DEF RateTypeOK
  <2> QED
    BY <1>1, <2>1, <2>2, <2>4 DEF RunPipeline, RateTypeOK
<1> HIDE DEF Kept, kept, new, set
<1>15. CountersKeep'
  <2> SUFFICES ASSUME NEW k \in Int, k + RateWindow > rateTime', NEW d \in Client
               PROVE  Cardinality(From(passed'[d], k)) <= Cardinality(After(shared'[d], k))
    BY <1>1 DEF CountersKeep, RunPipeline
  <2>1. k + RateWindow > rateTime /\ k + RateWindow > now
    BY <1>13 DEF RunPipeline
  <2>2. Cardinality(From(passed[d], k)) <= Cardinality(After(shared[d], k))
    BY <1>1, <2>1 DEF CountersKeep
  <2>3. CASE d # c
    <3>1. passed'[d] = passed[d] /\ shared'[d] = shared[d]
      BY <1>1, <1>8, <1>9, <2>3 DEF RateTypeOK
    <3> QED
      BY <2>2, <3>1
  <2>4. CASE d = c
    <3>1. shared'[c] = set
      BY <1>1, <1>2, <1>8 DEF RateTypeOK
    <3>2. Cardinality(From(h, k)) \in Nat
      BY <1>5, FromFinite
    <3>3. Cardinality(From(passed'[c], k)) <=
            Cardinality(From(h, k)) + (IF now >= k THEN 1 ELSE 0)
      <4>1. CASE passed' = passed
        BY <3>2, <4>1
      <4>2. CASE passed' = [passed EXCEPT ![c] = Note(h, now)]
        <5>1. passed'[c] = Note(h, now)
          BY <1>1, <1>2, <4>2 DEF RateTypeOK
        <5> QED
          BY <1>4, <1>5, <5>1, NoteFrom
      <4> QED
        BY <1>9, <4>1, <4>2
    <3>4. Cardinality(From(passed'[c], k)) \in Nat
      BY <1>2, <1>14, FromFinite DEF RateTypeOK
    <3>5. /\ Cardinality(After(shared[c], k)) \in Nat
          /\ Cardinality(After(set, k)) =
               Cardinality(After(shared[c], k)) + (IF now >= k THEN 1 ELSE 0)
      BY <1>12, <2>1
    <3> HIDE DEF h, c, After
    <3> QED
      BY <2>2, <2>4, <3>1, <3>2, <3>3, <3>4, <3>5 DEF h
  <2> QED
    BY <2>3, <2>4
<1>16. WindowsKept'
  <2>1. CASE passed' = passed
    BY <1>1, <2>1 DEF WindowsKept, RunPipeline
  <2>2. CASE passed' = [passed EXCEPT ![c] = Note(h, now)] /\ Cardinality(set) <= RateLimit
    <3>1. ASSUME NEW k \in Int, k + RateWindow > now, now = rateTime
          PROVE  Cardinality(From(h, k)) < RateLimit
      <4>1. Cardinality(From(h, k)) <= Cardinality(After(shared[c], k))
        BY <1>1, <1>2, <3>1 DEF CountersKeep
      <4>2. /\ Cardinality(After(shared[c], k)) \in Nat
            /\ Cardinality(After(shared[c], k)) <= Cardinality(kept)
        BY <1>12, <3>1
      <4>3. Cardinality(From(h, k)) \in Nat
        BY <1>5, FromFinite
      <4> HIDE DEF h, c, After
      <4> QED
        BY <1>4, <1>7, <2>2, <4>1, <4>2, <4>3
    <3>2. \A end \in RateTime : Cardinality(InWindow(h, end)) <= RateLimit
      BY <1>1, <1>2 DEF WindowsKept
    <3>3. \A end \in RateTime : Cardinality(InWindow(Note(h, now), end)) <= RateLimit
      <4>1. CASE now = rateTime
        <5> HIDE DEF h
        <5> QED
          BY <1>2, <1>4, <1>5, <3>1, <3>2, <4>1, RoomForOne
      <4>2. CASE now # rateTime
        BY <3>2, <4>2 DEF Note
      <4> QED
        BY <4>1, <4>2
    <3>4. /\ passed'[c] = Note(h, now)
          /\ \A d \in Client \ {c} : passed'[d] = passed[d]
      BY <1>1, <1>2, <2>2 DEF RateTypeOK
    <3> QED
      BY <1>1, <3>3, <3>4 DEF WindowsKept, RunPipeline
  <2> QED
    BY <1>9, <2>1, <2>2
<1>17. DropsCounted'
  BY <1>1 DEF DropsCounted, MadeFor, ListedFor, RunPipeline
<1> QED
  BY <1>14, <1>15, <1>16, <1>17 DEF RateInv

\* A deque that lost what is before a window that has begun.
LEMMA RecentCounts ==
  ASSUME RateTypeOK, NEW b \in Bucket, NEW now \in RateTime, now <= rateTime,
         NEW k \in Int, k + RateWindow > rateTime
  PROVE  /\ Recent(times[b], now) \in Seq(RateTime)
         /\ Cardinality(From(times[b], k)) <= Cardinality(From(Recent(times[b], now), k))
<1>1. times[b] \in Seq(RateTime) /\ rateTime \in Nat /\ now \in Nat /\ RateWindow \in Nat
  BY RateConstants DEF RateTypeOK
<1>2. k + RateWindow >= now
  BY <1>1
<1> QED
  BY <1>1, <1>2, RecentKeeps

LEMMA AppendStep ==
  ASSUME RateInv, NEW t \in Thread, AppendStamp(t)
  PROVE  RateInv'
<1> DEFINE b == rateReq[t].bucket
           h == granted[b]
<1>1. RateTypeOK /\ CountersKeep /\ WindowsKept /\ DropsCounted
  BY DEF RateInv
<1>2. b \in Bucket /\ rateReq[t].since \in RateTime /\ rateTime \in RateTime
  BY <1>1, RequestFields DEF AppendStamp, At, RateTypeOK
<1>3. PICK now \in rateReq[t].since..rateTime :
        LET recent == Recent(times[b], now) IN
        IF Len(recent) >= RateLimit
        THEN times' = [times EXCEPT ![b] = recent] /\ UNCHANGED granted
        ELSE /\ times' = [times EXCEPT ![b] = Append(recent, now)]
             /\ granted' = [granted EXCEPT ![b] = Note(@, now)]
  BY DEF AppendStamp
<1> DEFINE recent == Recent(times[b], now)
<1>4. /\ now \in RateTime /\ now \in Nat /\ now <= rateTime /\ rateTime \in Nat
      /\ RateWindow \in Nat /\ RateLimit \in Nat
  <2>1. rateReq[t].since \in Nat /\ rateTime \in Nat /\ rateTime <= RateHorizon
    BY <1>2, RateConstants DEF RateTime
  <2>2. now \in Nat /\ now <= rateTime
    BY <2>1
  <2> QED
    BY <2>1, <2>2, RateConstants DEF RateTime
<1>5. h \in Seq(RateTime) /\ times[b] \in Seq(RateTime) /\ recent \in Seq(RateTime)
  BY <1>1, <1>2, <1>4, RecentKeeps DEF RateTypeOK
<1>6. Len(recent) \in Nat /\ Append(recent, now) \in Seq(RateTime) /\ Note(h, now) \in Seq(RateTime)
  BY <1>4, <1>5, NoteFrom, AppendProperties
<1> HIDE DEF recent
<1>7. \/ times' = [times EXCEPT ![b] = recent] /\ granted' = granted
      \/ /\ Len(recent) < RateLimit
         /\ times' = [times EXCEPT ![b] = Append(recent, now)]
         /\ granted' = [granted EXCEPT ![b] = Note(h, now)]
  BY <1>1, <1>2, <1>3, <1>4, <1>6 DEF recent, RateTypeOK
<1>8. rateTime' = rateTime
  BY DEF AppendStamp
<1>9. RateTypeOK'
  <2>1. times' \in [Bucket -> Seq(RateTime)] /\ granted' \in [Bucket -> Seq(RateTime)]
    BY <1>1, <1>2, <1>5, <1>6, <1>7 DEF RateTypeOK
  <2>2. rateReq' \in [Thread -> RateRequest]
    BY <1>1 DEF AppendStamp, RateTypeOK, RateRequest
  <2> QED
    BY <1>1, <2>1, <2>2 DEF AppendStamp, RateTypeOK
<1>10. ASSUME NEW k \in Int, k + RateWindow > rateTime
       PROVE  /\ Cardinality(From(h, k)) \in Nat
              /\ Cardinality(From(recent, k)) \in Nat
              /\ Cardinality(From(recent, k)) <= Len(recent)
              /\ Cardinality(From(h, k)) <= Cardinality(From(recent, k))
  <2>1. Cardinality(From(h, k)) <= Cardinality(From(times[b], k))
    BY <1>1, <1>2, <1>10 DEF CountersKeep
  <2>2. Cardinality(From(times[b], k)) <= Cardinality(From(recent, k))
    BY <1>1, <1>2, <1>4, <1>10, RecentCounts DEF recent
  <2>3. /\ Cardinality(From(h, k)) \in Nat /\ Cardinality(From(times[b], k)) \in Nat
        /\ Cardinality(From(recent, k)) \in Nat
        /\ Cardinality(From(recent, k)) <= Len(recent)
    BY <1>5, FromFinite
  <2> HIDE DEF h, b
  <2> QED
    BY <2>1, <2>2, <2>3
<1>11. CountersKeep'
  <2> SUFFICES ASSUME NEW k \in Int, k + RateWindow > rateTime, NEW d \in Bucket
               PROVE  Cardinality(From(granted'[d], k)) <= Cardinality(From(times'[d], k))
    BY <1>1, <1>8 DEF CountersKeep, AppendStamp
  <2>1. CASE d # b
    BY <1>1, <1>7, <2>1 DEF CountersKeep, RateTypeOK
  <2>2. CASE d = b /\ granted' = granted /\ times' = [times EXCEPT ![b] = recent]
    <3>1. times'[d] = recent /\ granted'[d] = h
      BY <1>1, <1>2, <2>2 DEF RateTypeOK
    <3> QED
      BY <1>10, <3>1
  <2>3. CASE /\ d = b
             /\ times' = [times EXCEPT ![b] = Append(recent, now)]
             /\ granted' = [granted EXCEPT ![b] = Note(h, now)]
    <3>1. times'[d] = Append(recent, now) /\ granted'[d] = Note(h, now)
      BY <1>1, <1>2, <2>3 DEF RateTypeOK
    <3>2. Cardinality(From(Note(h, now), k)) <=
            Cardinality(From(h, k)) + (IF now >= k THEN 1 ELSE 0)
      BY <1>4, <1>5, NoteFrom
    <3>3. Cardinality(From(Append(recent, now), k)) =
            Cardinality(From(recent, k)) + (IF now >= k THEN 1 ELSE 0)
      BY <1>4, <1>5, FromAppend
    <3>4. Cardinality(From(Note(h, now), k)) \in Nat
      BY <1>6, FromFinite
    <3>5. /\ Cardinality(From(h, k)) \in Nat /\ Cardinality(From(recent, k)) \in Nat
          /\ Cardinality(From(h, k)) <= Cardinality(From(recent, k))
      BY <1>10
    <3> HIDE DEF h, b
    <3> QED
      BY <3>1, <3>2, <3>3, <3>4, <3>5
  <2> QED
    BY <1>7, <2>1, <2>2, <2>3
<1>12. WindowsKept'
  <2>1. CASE granted' = granted
    BY <1>1, <2>1 DEF WindowsKept, AppendStamp
  <2>2. CASE Len(recent) < RateLimit /\ granted' = [granted EXCEPT ![b] = Note(h, now)]
    <3>1. ASSUME NEW k \in Int, k + RateWindow > now, now = rateTime
          PROVE  Cardinality(From(h, k)) < RateLimit
      <4>1. /\ Cardinality(From(h, k)) \in Nat /\ Cardinality(From(recent, k)) \in Nat
            /\ Cardinality(From(recent, k)) <= Len(recent)
            /\ Cardinality(From(h, k)) <= Cardinality(From(recent, k))
        BY <1>10, <3>1
      <4> HIDE DEF h, b
      <4> QED
        BY <1>4, <1>6, <2>2, <4>1
    <3>2. \A end \in RateTime : Cardinality(InWindow(h, end)) <= RateLimit
      BY <1>1, <1>2 DEF WindowsKept
    <3>3. \A end \in RateTime : Cardinality(InWindow(Note(h, now), end)) <= RateLimit
      <4>1. CASE now = rateTime
        <5> HIDE DEF h
        <5> QED
          BY <1>2, <1>4, <1>5, <3>1, <3>2, <4>1, RoomForOne
      <4>2. CASE now # rateTime
        BY <3>2, <4>2 DEF Note
      <4> QED
        BY <4>1, <4>2
    <3>4. /\ granted'[b] = Note(h, now)
          /\ \A d \in Bucket \ {b} : granted'[d] = granted[d]
      BY <1>1, <1>2, <2>2 DEF RateTypeOK
    <3> QED
      BY <1>1, <3>3, <3>4 DEF WindowsKept, AppendStamp
  <2> QED
    BY <1>7, <2>1, <2>2
<1>13. DropsCounted'
  BY <1>1 DEF DropsCounted, MadeFor, ListedFor, AppendStamp
<1> QED
  BY <1>9, <1>11, <1>12, <1>13 DEF RateInv

LEMMA MakeStep ==
  ASSUME RateInv, NEW t \in Thread, MakeBucket(t)
  PROVE  RateInv'
<1> DEFINE c == rateReq[t].client
           b == Len(owner) + 1
<1>1. RateTypeOK /\ CountersKeep /\ WindowsKept /\ DropsCounted
  BY DEF RateInv
<1>2. c \in Client /\ rateTime \in RateTime
  BY <1>1, RequestFields DEF MakeBucket, At, RateTypeOK
<1>3. /\ Len(owner) \in Nat /\ DOMAIN owner = 1..Len(owner)
      /\ listed \subseteq DOMAIN owner /\ owner \in Seq(Client)
  BY <1>1, RateFinite DEF RateTypeOK
<1>4. CASE ListedFor(c) # {}
  <2>1. PICK d \in ListedFor(c) : UseBucket(t, d)
    BY <1>4 DEF MakeBucket
  <2>2. rateReq' \in [Thread -> RateRequest]
    BY <1>1, <2>1, ListedBuckets, UseBucketType
  <2>3. /\ UNCHANGED <<shared, owner, listed, times, passed, granted, forgotten>>
        /\ rateTime' = rateTime /\ rateAsked' = rateAsked
    BY <1>4 DEF MakeBucket
  <2>4. RateTypeOK'
    BY <1>1, <2>2, <2>3 DEF RateTypeOK
  <2>5. rateTime <= rateTime
    BY <1>2, RateConstants
  <2> QED
    BY <1>2, <2>3, <2>4, <2>5, NothingCounted DEF RateInv
<1>5. CASE ListedFor(c) = {}
  <2>1. /\ b <= MaxRateRequests
        /\ owner' = Append(owner, c) /\ listed' = Trimmed \union {b}
        /\ times' = [d \in Bucket |-> IF TableFull /\ d \in listed
                                      THEN Recent(times[d], rateTime) ELSE times[d]]
        /\ forgotten' = [x \in Client |-> IF ListedFor(x) \subseteq Trimmed
                                          THEN forgotten[x] ELSE forgotten[x] + 1]
        /\ UseBucket(t, b)
        /\ UNCHANGED <<shared, rateTime, rateAsked, passed, granted>>
    BY <1>5 DEF MakeBucket
  <2>2. Trimmed \subseteq listed /\ Cardinality(Trimmed) < MaxRateKeys
    BY <1>1, TrimRoom
  <2>3. /\ owner' \in Seq(Client) /\ Len(owner') = b
        /\ DOMAIN owner' = DOMAIN owner \union {b}
        /\ \A d \in DOMAIN owner : owner'[d] = owner[d]
        /\ owner'[b] = c
        /\ b \notin DOMAIN owner
    <3>1. /\ Append(owner, c) \in Seq(Client) /\ Len(Append(owner, c)) = b
          /\ \A d \in 1..Len(owner) : Append(owner, c)[d] = owner[d]
          /\ Append(owner, c)[b] = c
      BY <1>2, <1>3, AppendProperties
    <3>2. DOMAIN Append(owner, c) = 1..b
      BY <3>1
    <3> QED
      BY <1>3, <2>1, <3>1, <3>2
  <2>4. b \in Bucket
    BY <1>3, <2>1, RateConstants DEF Bucket
  <2>5. RateTypeOK'
    <3>1. /\ IsFiniteSet(Trimmed) /\ Cardinality(Trimmed) \in Nat
      BY <1>1, <1>3, <2>2, RateFinite
    <3>2. Cardinality(listed') <= MaxRateKeys
      <4>1. b \notin Trimmed
        BY <1>3, <2>2, <2>3
      <4>2. Cardinality(Trimmed \union {b}) = Cardinality(Trimmed) + 1
        BY <3>1, <4>1, FS_AddElement
      <4>3. MaxRateKeys \in Nat
        BY RateConstants
      <4>4. listed' = Trimmed \union {b}
        BY <2>1
      <4> QED
        BY <2>2, <3>1, <4>2, <4>3, <4>4
    <3>3. listed' \subseteq DOMAIN owner'
      BY <1>3, <2>1, <2>2, <2>3
    <3>4. times' \in [Bucket -> Seq(RateTime)]
      BY <1>1, <1>2, <2>1, RecentKeeps DEF RateTypeOK
    <3>5. forgotten' \in [Client -> Nat]
      BY <1>1, <2>1 DEF RateTypeOK
    <3>6. rateReq' \in [Thread -> RateRequest]
      BY <1>1, <2>1, <2>4, UseBucketType
    <3> QED
      BY <1>1, <2>1, <2>3, <3>2, <3>3, <3>4, <3>5, <3>6 DEF RateTypeOK
  <2>6. CountersKeep'
    <3> SUFFICES ASSUME NEW k \in Int, k + RateWindow > rateTime, NEW d \in Bucket
                 PROVE  Cardinality(From(granted[d], k)) <= Cardinality(From(times'[d], k))
      BY <1>1, <2>1 DEF CountersKeep
    <3>1. Cardinality(From(granted[d], k)) <= Cardinality(From(times[d], k))
      BY <1>1 DEF CountersKeep
    <3>2. times'[d] = times[d] \/ times'[d] = Recent(times[d], rateTime)
      BY <2>1
    <3>3. CASE times'[d] = times[d]
      BY <3>1, <3>3
    <3>4. CASE times'[d] = Recent(times[d], rateTime)
      <4>1. rateTime <= rateTime
        BY <1>2, RateConstants
      <4>2. /\ Recent(times[d], rateTime) \in Seq(RateTime)
            /\ Cardinality(From(times[d], k)) <=
                 Cardinality(From(Recent(times[d], rateTime), k))
        BY <1>1, <1>2, <4>1, RecentCounts
      <4>3. granted[d] \in Seq(RateTime) /\ times[d] \in Seq(RateTime)
        BY <1>1 DEF RateTypeOK
      <4>4. /\ Cardinality(From(granted[d], k)) \in Nat
            /\ Cardinality(From(times[d], k)) \in Nat
            /\ Cardinality(From(Recent(times[d], rateTime), k)) \in Nat
        BY <4>2, <4>3, FromFinite
      <4> QED
        BY <3>1, <3>4, <4>2, <4>4
    <3> QED
      BY <3>2, <3>3, <3>4
  <2>7. WindowsKept'
    BY <1>1, <2>1 DEF WindowsKept
  <2>8. DropsCounted'
    <3>1. ASSUME NEW d \in listed', NEW e \in listed', owner'[d] = owner'[e]
          PROVE  d = e
      <4>1. \A x \in Trimmed : x \in DOMAIN owner /\ owner'[x] = owner[x] /\ owner[x] # c
        BY <1>3, <1>5, <2>2, <2>3 DEF ListedFor
      <4> QED
        BY <1>1, <2>1, <2>2, <2>3, <3>1, <4>1 DEF DropsCounted
    <3>2. ASSUME NEW x \in Client
          PROVE  LET made == {d \in DOMAIN owner' : owner'[d] = x}
                     mine == {d \in listed' : owner'[d] = x}
                 IN  /\ Cardinality(made) <= 1 + forgotten'[x]
                     /\ mine = {} => Cardinality(made) <= forgotten'[x]
      <4> DEFINE made == {d \in DOMAIN owner' : owner'[d] = x}
                 mine == {d \in listed' : owner'[d] = x}
      <4>1. /\ IsFiniteSet(MadeFor(x)) /\ Cardinality(MadeFor(x)) \in Nat
            /\ forgotten[x] \in Nat
        BY <1>1, RateFinite DEF MadeFor, RateTypeOK
      <4>2. /\ Cardinality(MadeFor(x)) <= 1 + forgotten[x]
            /\ ListedFor(x) = {} => Cardinality(MadeFor(x)) <= forgotten[x]
        BY <1>1 DEF DropsCounted
      <4>3. CASE x = c
        <5>1. made = MadeFor(c) \union {b} /\ b \notin MadeFor(c)
          BY <2>3, <4>3 DEF MadeFor
        <5>2. b \in mine
          BY <2>1, <2>3, <4>3
        <5>3. Cardinality(made) = Cardinality(MadeFor(c)) + 1
          BY <4>1, <4>3, <5>1, FS_AddElement
        <5>4. forgotten'[c] = forgotten[c]
          BY <1>2, <1>5, <2>1
        <5> QED
          BY <1>5, <4>1, <4>2, <4>3, <5>2, <5>3, <5>4
      <4>4. CASE x # c
        <5>1. made = MadeFor(x)
          BY <2>3, <4>4 DEF MadeFor
        <5>2. CASE ListedFor(x) \subseteq Trimmed
          <6>1. forgotten'[x] = forgotten[x]
            BY <2>1, <5>2
          <6>2. mine = ListedFor(x)
            BY <1>3, <2>1, <2>2, <2>3, <4>4, <5>2 DEF ListedFor
          <6> QED
            BY <4>2, <5>1, <6>1, <6>2
        <5>3. CASE ~ (ListedFor(x) \subseteq Trimmed)
          <6>1. forgotten'[x] = forgotten[x] + 1
            BY <2>1, <5>3
          <6> QED
            BY <4>1, <4>2, <5>1, <6>1
        <5> QED
          BY <5>2, <5>3
      <4> QED
        BY <4>3, <4>4
    <3> QED
      BY <3>1, <3>2 DEF DropsCounted, MadeFor, ListedFor
  <2> QED
    BY <2>5, <2>6, <2>7, <2>8 DEF RateInv
<1> QED
  BY <1>4, <1>5

LEMMA RateStarts ==
  RateInit => RateInv
<1> SUFFICES ASSUME RateInit PROVE RateInv
  OBVIOUS
<1>1. Cardinality({}) = 0 /\ IsFiniteSet({})
  BY FS_EmptySet
<1>2. <<>> \in Seq(RateTime) /\ <<>> \in Seq(Client) /\ Len(<<>>) = 0 /\ DOMAIN <<>> = {}
  OBVIOUS
<1>3. RateTypeOK
  BY <1>1, <1>2, RateConstants DEF RateInit, RateTypeOK, RateTime, RateRequest
<1>4. \A k \in Int : From(<<>>, k) = {}
  BY <1>2 DEF From
<1>5. \A end \in RateTime : InWindow(<<>>, end) = {}
  BY <1>2 DEF InWindow
<1>6. CountersKeep
  <2>1. ASSUME NEW k \in Int, NEW c \in Client
        PROVE  Cardinality(From(passed[c], k)) <= Cardinality({e \in shared[c] : e.at >= k})
    <3>1. passed[c] = <<>> /\ {e \in shared[c] : e.at >= k} = {}
      BY DEF RateInit
    <3>2. From(passed[c], k) = {e \in shared[c] : e.at >= k}
      BY <1>4, <3>1
    <3>3. Cardinality(From(passed[c], k)) = 0
      BY <1>1, <3>1, <3>2
    <3> QED
      BY <3>2, <3>3
  <2>2. ASSUME NEW k \in Int, NEW b \in Bucket
        PROVE  Cardinality(From(granted[b], k)) <= Cardinality(From(times[b], k))
    <3>1. granted[b] = times[b] /\ times[b] = <<>>
      BY DEF RateInit
    <3>2. Cardinality(From(times[b], k)) = 0
      BY <1>1, <1>4, <3>1
    <3> QED
      BY <3>1, <3>2
  <2> QED
    BY <2>1, <2>2 DEF CountersKeep
<1>7. WindowsKept
  <2>1. \A end \in RateTime : Cardinality(InWindow(<<>>, end)) = 0
    BY <1>1, <1>5
  <2>2. 0 <= RateLimit
    BY RateConstants
  <2>3. /\ \A c \in Client : passed[c] = <<>>
        /\ \A b \in Bucket : granted[b] = <<>>
    BY DEF RateInit
  <2> QED
    BY <2>1, <2>2, <2>3 DEF WindowsKept
<1>8. DropsCounted
  <2>1. \A c \in Client : MadeFor(c) = {} /\ ListedFor(c) = {}
    BY <1>2 DEF RateInit, MadeFor, ListedFor
  <2> QED
    <3>1. listed = {} /\ \A c \in Client : forgotten[c] = 0
      BY DEF RateInit
    <3>2. \A c \in Client : Cardinality(MadeFor(c)) = 0
      BY <1>1, <2>1
    <3> QED
      BY <3>1, <3>2 DEF DropsCounted
<1> QED
  BY <1>3, <1>6, <1>7, <1>8 DEF RateInv

LEMMA RateSteps ==
  RateInv /\ [RateNext]_rateVars => RateInv'
<1> SUFFICES ASSUME RateInv, [RateNext]_rateVars PROVE RateInv'
  OBVIOUS
<1>1. ASSUME NEW t \in Thread, RateStep(t) PROVE RateInv'
  BY <1>1, ArriveStep, PipelineStep, FindStep, MakeStep, AppendStep DEF RateStep
<1>2. CASE RateTick
  BY <1>2, TickStep
<1>3. CASE UNCHANGED rateVars
  BY <1>3 DEF rateVars, RateInv, RateTypeOK, CountersKeep, WindowsKept, DropsCounted,
              MadeFor, ListedFor
<1> QED
  BY <1>1, <1>2, <1>3 DEF RateNext

\* So many sets of at most n elements, kept apart by what they belong to.
LEMMA PairsBounded ==
  ASSUME NEW S, IsFiniteSet(S), NEW n \in Nat, NEW w,
         \A b \in S : IsFiniteSet(w[b]) /\ Cardinality(w[b]) <= n
  PROVE  /\ Cardinality(UNION {{b} \X w[b] : b \in S}) \in Nat
         /\ Cardinality(UNION {{b} \X w[b] : b \in S}) <= Cardinality(S) * n
<1> DEFINE P == UNION {{b} \X w[b] : b \in S}
           Q == S \X (1..n)
           places(b) == Injection(w[b], 1..n)
<1>1. \A b \in S : places(b) # {}
  <2> SUFFICES ASSUME NEW b \in S PROVE \E g : g \in Injection(w[b], 1..n)
    OBVIOUS
  <2> DEFINE k == Cardinality(w[b])
  <2>1. k \in Nat /\ k <= n
    BY FS_CardinalityType
  <2>2. IsFiniteSet(1..k) /\ Cardinality(1..k) = k
    <3>1. 1 \in Int /\ k \in Int /\ (IF 1 > k THEN 0 ELSE k - 1 + 1) = k
      BY <2>1
    <3> QED
      BY <3>1, FS_Interval
  <2>3. PICK h : h \in Bijection(w[b], 1..k)
    BY <2>2, FS_SameCardinalityBij DEF ExistsBijection
  <2> HIDE DEF k
  <2>4. 1..k \subseteq 1..n
    BY <2>1
  <2>5. h \in Injection(w[b], 1..n)
    BY <2>3, <2>4 DEF Bijection, Injection, IsInjective
  <2> QED
    BY <2>5
<1> DEFINE at == [b \in S |-> CHOOSE g : g \in places(b)]
           f == [p \in P |-> <<p[1], at[p[1]][p[2]]>>]
<1>2. \A b \in S : at[b] \in Injection(w[b], 1..n)
  BY <1>1
<1> HIDE DEF at, places
<1>3. \A p \in P : p[1] \in S /\ p[2] \in w[p[1]] /\ p = <<p[1], p[2]>>
  OBVIOUS
<1>4. \A p \in P : at[p[1]][p[2]] \in 1..n
  BY <1>2, <1>3 DEF Injection
<1>5. f \in [P -> Q]
  BY <1>3, <1>4
<1>6. ASSUME NEW p \in P, NEW q \in P, f[p] = f[q] PROVE p = q
  <2>1. p[1] = q[1] /\ at[p[1]][p[2]] = at[p[1]][q[2]]
    BY <1>6
  <2>2. p[2] \in w[p[1]] /\ q[2] \in w[p[1]] /\ p[1] \in S
    BY <1>3, <2>1
  <2>3. p[2] = q[2]
    BY <1>2, <2>1, <2>2 DEF Injection, IsInjective
  <2> QED
    BY <1>3, <2>1, <2>3
<1>7. f \in Injection(P, Q)
  BY <1>5, <1>6 DEF Injection, IsInjective
<1>8. IsFiniteSet(1..n) /\ Cardinality(1..n) = n
  <2>1. 1 \in Int /\ n \in Int /\ (IF 1 > n THEN 0 ELSE n - 1 + 1) = n
    OBVIOUS
  <2> QED
    BY <2>1, FS_Interval
<1>9. IsFiniteSet(Q) /\ Cardinality(Q) = Cardinality(S) * n
  BY <1>8, FS_Product
<1> HIDE DEF f, P, Q
<1>10. IsFiniteSet(P) /\ Cardinality(P) <= Cardinality(Q)
  BY <1>7, <1>9, FS_Injection
<1> QED
  BY <1>9, <1>10, FS_CardinalityType DEF P

\* What every bucket counts, added over the buckets a client was given.
LEMMA CountersAdd ==
  ASSUME RateInv PROVE RateBounded
<1> SUFFICES ASSUME NEW c \in Client, NEW end \in RateTime
             PROVE  /\ Cardinality(InWindow(passed[c], end)) <= RateLimit
                    /\ Cardinality(UNION {{b} \X InWindow(granted[b], end) : b \in MadeFor(c)})
                         <= RateLimit * (1 + forgotten[c])
  BY DEF RateBounded
<1> DEFINE S == MadeFor(c)
           w == [b \in S |-> InWindow(granted[b], end)]
           pairs == UNION {{b} \X w[b] : b \in S}
<1>1. RateTypeOK /\ WindowsKept /\ DropsCounted
  BY DEF RateInv
<1>2. /\ IsFiniteSet(S) /\ Cardinality(S) \in Nat /\ S \subseteq Bucket
      /\ Cardinality(S) <= 1 + forgotten[c] /\ forgotten[c] \in Nat
  <2>1. /\ Len(owner) \in Nat /\ DOMAIN owner = 1..Len(owner)
        /\ Len(owner) <= MaxRateRequests
    BY <1>1, RateFinite DEF RateTypeOK
  <2>2. S \subseteq Bucket
    BY <2>1, RateConstants DEF MadeFor, Bucket
  <2>3. IsFiniteSet(S) /\ Cardinality(S) \in Nat
    BY <1>1, RateFinite DEF MadeFor
  <2> QED
    BY <1>1, <2>2, <2>3 DEF DropsCounted, RateTypeOK
<1>3. \A b \in S : IsFiniteSet(w[b]) /\ Cardinality(w[b]) <= RateLimit
  <2> SUFFICES ASSUME NEW b \in S
               PROVE  /\ IsFiniteSet(InWindow(granted[b], end))
                      /\ Cardinality(InWindow(granted[b], end)) <= RateLimit
    OBVIOUS
  <2>1. b \in Bucket /\ granted[b] \in Seq(RateTime)
    BY <1>1, <1>2 DEF RateTypeOK
  <2> QED
    BY <1>1, <2>1, WindowFrom DEF WindowsKept
<1>4. RateLimit \in Nat
  BY RateConstants
<1>5. pairs = UNION {{b} \X InWindow(granted[b], end) : b \in S}
  OBVIOUS
<1> HIDE DEF w
<1>6. Cardinality(pairs) \in Nat /\ Cardinality(pairs) <= Cardinality(S) * RateLimit
  BY <1>2, <1>3, <1>4, PairsBounded
<1> HIDE DEF pairs, S
<1>7. \A x, y, n \in Nat : x <= y => x * n <= n * y
  <2> SUFFICES ASSUME NEW x \in Nat, NEW y \in Nat, NEW n \in Nat, x <= y
               PROVE  x * n <= n * y
    OBVIOUS
  <2> QED
    BY Z3T(20)
<1>8. Cardinality(S) * RateLimit <= RateLimit * (1 + forgotten[c])
  <2>1. 1 + forgotten[c] \in Nat
    BY <1>2
  <2> QED
    BY <1>2, <1>4, <1>7, <2>1
<1>9. Cardinality(InWindow(passed[c], end)) <= RateLimit
  BY <1>1 DEF WindowsKept
<1>10. Cardinality(pairs) <= RateLimit * (1 + forgotten[c])
  <2>1. /\ Cardinality(S) * RateLimit \in Nat
        /\ RateLimit * (1 + forgotten[c]) \in Nat
    BY <1>2, <1>4
  <2> DEFINE x == Cardinality(S) * RateLimit
             y == RateLimit * (1 + forgotten[c])
  <2>2. Cardinality(pairs) <= x /\ x <= y /\ x \in Nat /\ y \in Nat
    BY <1>6, <1>8, <2>1
  <2> HIDE DEF x, y
  <2>3. Cardinality(pairs) <= y
    BY <1>6, <2>2
  <2> QED
    BY <2>3 DEF y
<1> QED
  BY <1>5, <1>9, <1>10 DEF S

\* deps.py lets a client past Redis at most RATE_LIMIT times in any window, and past
\* the process that often for every bucket the client was given, which are one more
\* than the times its bucket was swept or trimmed away: whatever the threads, the
\* size of the table and what is trimmed of it, and however often Redis fails.
THEOREM RateLimited == RateSpec => [](RateTypeOK /\ RateBounded)
<1>1. RateInv => RateTypeOK /\ RateBounded
  BY CountersAdd DEF RateInv
<1> QED
  BY <1>1, RateStarts, RateSteps, PTL DEF RateSpec

-----------------------------------------------------------------------------
(* Reviews: what is said of a comparison is inductive with the types. *)

ReviewsInv == ReviewsTypeOK /\ NothingForgotten

Assignment == [of: Comparison, status: AssignmentStatus]

\* What a thread may be doing.
Reviewing ==
  {Idle} \union [pc: {"bulk"}, todo: SUBSET Comparison]
         \union [pc: {"assign"}, of: Comparison]
         \union [pc: {"mark"}, of: Comparison]

LEMMA ReviewsShape ==
  ReviewsInv <=>
    /\ review \in [Comparison -> ReviewStatus \union {"deleted"}]
    /\ assignments \in Seq(Assignment)
    /\ Len(assignments) <= MaxAssignments
    /\ reviewReq \in [Thread -> Reviewing]
    /\ NothingForgotten
BY DEF ReviewsInv, ReviewsTypeOK, Assignment, Reviewing

\* What holds does not depend on what the threads are about to do.
LEMMA ReviewThreadMoves ==
  ASSUME ReviewsInv, UNCHANGED <<review, assignments>>,
         reviewReq' \in [Thread -> Reviewing]
  PROVE  ReviewsInv'
<1>1. NothingForgotten'
  BY DEF ReviewsInv, NothingForgotten, Existing, Queue
<1> QED
  BY <1>1, ReviewsShape DEF ReviewsInv, ReviewsTypeOK, ReviewStatus, AssignmentStatus,
     Reviewing

\* A new assignment is in the queue, whatever the comparison's status was.
LEMMA NewAssignment ==
  ASSUME ReviewsInv, NEW t \in Thread, NEW c \in Comparison, AssignReview(t, c)
  PROVE  ReviewsInv'
<1> DEFINE e == [of |-> c, status |-> "pending"]
<1>1. /\ e \in Assignment /\ assignments \in Seq(Assignment) /\ Len(assignments) \in Nat
      /\ MaxAssignments \in Nat /\ Len(assignments) < MaxAssignments
  BY ReviewsAssumption, ReviewsShape, LenProperties
     DEF Assignment, AssignmentStatus, AssignReview
<1>2. assignments' = Append(assignments, e)
  BY DEF AssignReview
<1> HIDE DEF e
<1>3. /\ assignments' \in Seq(Assignment) /\ Len(assignments') = Len(assignments) + 1
      /\ \A i \in 1..Len(assignments) : assignments'[i] = assignments[i]
      /\ assignments'[Len(assignments) + 1] = e
  BY <1>1, <1>2, AppendProperties
<1>4. /\ DOMAIN assignments = 1..Len(assignments)
      /\ DOMAIN assignments' = 1..(Len(assignments) + 1)
  BY <1>1, <1>3, LenProperties
<1>5. /\ review \in [Comparison -> ReviewStatus \union {"deleted"}]
      /\ review' \in [Comparison -> ReviewStatus \union {"deleted"}]
      /\ \A d \in Comparison : d # c => review'[d] = review[d]
      /\ review[c] = "deleted" => review'[c] = "deleted"
  BY ReviewsShape DEF AssignReview, SetReview, ReviewStatus, Existing
<1>6. reviewReq' \in [Thread -> Reviewing]
  <2> DEFINE q == IF reviewReq[t].pc = "bulk" /\ reviewReq[t].todo # {c}
                  THEN [pc |-> "bulk", todo |-> reviewReq[t].todo \ {c}] ELSE Idle
  <2>1. reviewReq[t] \in Reviewing /\ reviewReq \in [Thread -> Reviewing]
    BY ReviewsShape
  <2>2. q \in Reviewing
    BY <2>1 DEF Reviewing, Idle
  <2>3. reviewReq' = [reviewReq EXCEPT ![t] = q]
    BY DEF AssignReview
  <2> QED
    BY <2>1, <2>2, <2>3
<1>7. NothingForgotten'
  <2> SUFFICES ASSUME NEW d \in Existing',
                      ~ (review'[d] \in {"pending", "reviewed", "skipped"})
               PROVE  \E i \in Queue' : assignments'[i].of = d
    BY DEF NothingForgotten
  <2>1. CASE d = c
    <3>1. Len(assignments) + 1 \in DOMAIN assignments'
      BY <1>1, <1>4
    <3>2. assignments'[Len(assignments) + 1].of = c
          /\ assignments'[Len(assignments) + 1].status = "pending"
      BY <1>3 DEF e
    <3> QED
      BY <2>1, <3>1, <3>2 DEF Queue
  <2>2. CASE d # c
    <3>1. d \in Existing /\ d \in Comparison /\ review[d] = review'[d]
      BY <1>5, <2>2 DEF Existing
    <3>2. PICK i \in Queue : assignments[i].of = d
      BY <3>1 DEF ReviewsInv, NothingForgotten
    <3>3. i \in DOMAIN assignments' /\ assignments'[i] = assignments[i]
      BY <1>1, <1>3, <1>4 DEF Queue
    <3> QED
      BY <3>2, <3>3 DEF Queue
  <2> QED
    BY <2>1, <2>2
<1>8. Len(assignments') <= MaxAssignments
  BY <1>1, <1>3
<1> QED
  BY <1>3, <1>5, <1>6, <1>7, <1>8
     DEF ReviewsInv, ReviewsTypeOK, Assignment, Reviewing, AssignmentStatus, ReviewStatus

\* A status that leaves the queue takes the comparison's review status with it.
LEMMA StatusChanges ==
  ASSUME ReviewsInv, NEW i \in DOMAIN assignments, NEW s \in AssignmentStatus,
         UpdateAssignment(i, s)
  PROVE  ReviewsInv'
<1> DEFINE e == [assignments[i] EXCEPT !.status = s]
           c == assignments[i].of
<1>1. /\ assignments \in Seq(Assignment) /\ Len(assignments) \in Nat
      /\ i \in 1..Len(assignments) /\ assignments[i] \in Assignment
  BY ReviewsShape, LenProperties, ElementOfSeq
<1>2. e \in Assignment /\ e.of = c /\ e.status = s /\ c \in Comparison
  BY <1>1 DEF Assignment
<1>3. assignments' = [assignments EXCEPT ![i] = e]
  BY <1>1 DEF UpdateAssignment
<1> HIDE DEF e
<1>4. /\ assignments' \in Seq(Assignment) /\ Len(assignments') = Len(assignments)
      /\ \A j \in 1..Len(assignments) :
           assignments'[j] = IF j = i THEN e ELSE assignments[j]
  BY <1>1, <1>2, <1>3, ExceptSeq
<1>5. /\ DOMAIN assignments = 1..Len(assignments)
      /\ DOMAIN assignments' = 1..Len(assignments)
  BY <1>1, <1>4, LenProperties
<1>6. /\ review \in [Comparison -> ReviewStatus \union {"deleted"}]
      /\ review' \in [Comparison -> ReviewStatus \union {"deleted"}]
      /\ \A d \in Comparison : d # c => review'[d] = review[d]
      /\ review'[c] = IF review[c] = "deleted" THEN "deleted" ELSE Mirror(s)
  BY <1>2, ReviewsShape
     DEF UpdateAssignment, SetReview, ReviewStatus, AssignmentStatus, Existing, Mirror
<1>7. NothingForgotten'
  <2> SUFFICES ASSUME NEW d \in Existing',
                      ~ (review'[d] \in {"pending", "reviewed", "skipped"})
               PROVE  \E j \in Queue' : assignments'[j].of = d
    BY DEF NothingForgotten
  <2>1. CASE d = c
    <3>1. s = "in_review"
      BY <1>6, <2>1 DEF Mirror, AssignmentStatus, Existing
    <3>2. assignments'[i] = e
      BY <1>1, <1>4
    <3> QED
      BY <1>1, <1>2, <1>5, <2>1, <3>1, <3>2 DEF Queue
  <2>2. CASE d # c
    <3>1. d \in Existing /\ d \in Comparison /\ review[d] = review'[d]
      BY <1>6, <2>2 DEF Existing
    <3>2. PICK j \in Queue : assignments[j].of = d
      BY <3>1 DEF ReviewsInv, NothingForgotten
    <3>3. j \in DOMAIN assignments' /\ assignments'[j] = assignments[j]
      BY <1>4, <1>5, <2>2, <3>2 DEF Queue
    <3> QED
      BY <3>2, <3>3 DEF Queue
  <2> QED
    BY <2>1, <2>2
<1>8. reviewReq' = reviewReq
  BY DEF UpdateAssignment
<1> QED
  BY <1>4, <1>6, <1>7, <1>8, ReviewsShape
     DEF ReviewsInv, ReviewsTypeOK, Assignment, Reviewing, AssignmentStatus, ReviewStatus

LEMMA ReviewsInit1 == ReviewsInit => ReviewsInv
<1> SUFFICES ASSUME ReviewsInit PROVE ReviewsInv
  OBVIOUS
<1>1. assignments \in Seq(Assignment) /\ Len(assignments) <= MaxAssignments
  BY EmptySeq, ReviewsAssumption DEF ReviewsInit
<1>2. reviewReq \in [Thread -> Reviewing]
  BY DEF ReviewsInit, Reviewing
<1>3. NothingForgotten
  BY DEF ReviewsInit, NothingForgotten, Existing
<1> QED
  BY <1>1, <1>2, <1>3, ReviewsShape DEF ReviewsInit, ReviewStatus

LEMMA ReviewsStep == ReviewsInv /\ [ReviewsNext]_reviewVars => ReviewsInv'
<1> SUFFICES ASSUME ReviewsInv, [ReviewsNext]_reviewVars PROVE ReviewsInv'
  OBVIOUS
<1>0. reviewReq \in [Thread -> Reviewing]
  BY ReviewsShape
<1>1. ASSUME NEW t \in Thread, AssignOne(t) PROVE ReviewsInv'
  <2>1. reviewReq[t] \in Reviewing /\ reviewReq[t].pc = "assign"
    BY <1>0, <1>1 DEF AssignOne, At
  <2>2. reviewReq[t].of \in Comparison
    BY <2>1 DEF Reviewing, Idle
  <2> QED
    BY <1>1, <2>2, NewAssignment DEF AssignOne
<1>2. ASSUME NEW t \in Thread, NEW c \in Comparison, AssignNext(t, c) PROVE ReviewsInv'
  BY <1>2, NewAssignment DEF AssignNext
<1>3. ASSUME NEW t \in Thread, ListPending(t) PROVE ReviewsInv'
  <2>1. UNCHANGED <<review, assignments>> /\ reviewReq' \in [Thread -> Reviewing]
    BY <1>0, <1>3 DEF ListPending, Reviewing
  <2> QED
    BY <2>1, ReviewThreadMoves
<1>4. ASSUME NEW t \in Thread, NEW c \in Comparison, RequestAssign(t, c) PROVE ReviewsInv'
  <2>1. UNCHANGED <<review, assignments>> /\ reviewReq' \in [Thread -> Reviewing]
    BY <1>0, <1>4 DEF RequestAssign, Reviewing
  <2> QED
    BY <2>1, ReviewThreadMoves
<1>5. ASSUME NEW t \in Thread, AbandonReview(t) PROVE ReviewsInv'
  <2>1. UNCHANGED <<review, assignments>> /\ reviewReq' \in [Thread -> Reviewing]
    BY <1>0, <1>5 DEF AbandonReview, Reviewing
  <2> QED
    BY <2>1, ReviewThreadMoves
<1>6. ASSUME NEW i \in DOMAIN assignments, NEW s \in AssignmentStatus, UpdateAssignment(i, s)
      PROVE  ReviewsInv'
  BY <1>6, StatusChanges
<1>7. ASSUME NEW c \in Comparison, DeleteReviewed(c) PROVE ReviewsInv'
  <2>1. /\ review' \in [Comparison -> ReviewStatus \union {"deleted"}]
        /\ UNCHANGED <<assignments, reviewReq>>
        /\ \A d \in Comparison : d # c => review'[d] = review[d]
        /\ review'[c] = "deleted"
    BY <1>7, ReviewsShape DEF DeleteReviewed
  <2>2. \A d \in Existing' : d \in Existing /\ d # c /\ review'[d] = review[d]
    BY <2>1 DEF Existing
  <2>3. NothingForgotten'
    <3> SUFFICES ASSUME NEW d \in Existing',
                        ~ (review'[d] \in {"pending", "reviewed", "skipped"})
                 PROVE  \E i \in Queue' : assignments'[i].of = d
      BY DEF NothingForgotten
    <3>1. PICK i \in Queue : assignments[i].of = d
      BY <2>2 DEF ReviewsInv, NothingForgotten
    <3> QED
      BY <2>1, <3>1 DEF Queue
  <2> QED
    BY <2>1, <2>3, ReviewsShape
       DEF ReviewsInv, ReviewsTypeOK, Assignment, Reviewing, AssignmentStatus, ReviewStatus
<1>8. CASE UNCHANGED reviewVars
  BY <1>8, <1>0, ReviewThreadMoves DEF reviewVars
<1> QED
  BY <1>1, <1>2, <1>3, <1>4, <1>5, <1>6, <1>7, <1>8 DEF ReviewsNext

\* Every comparison that nobody has reviewed or skipped is in the queue of a reviewer
\* or left for the next bulk assignment, whatever assignments overlap or end early.
THEOREM ReviewsKept == ReviewsSpec => [](ReviewsTypeOK /\ NothingForgotten)
<1>1. ReviewsInv => ReviewsTypeOK /\ NothingForgotten
  BY DEF ReviewsInv
<1> QED
  BY <1>1, ReviewsInit1, ReviewsStep, PTL DEF ReviewsSpec

-----------------------------------------------------------------------------
(* Inventory: what the due date of a record says. *)

\* A due date that no client has given is derived from the validation and the
\* frameworks that the record names.
TrueRecord == {r \in Record : ~ r.given => r.due = NextDue(r.validated, r.basis)}

\* A thread writes the whole of such a record.
TrueRequest ==
  {Idle} \union [pc: {"insert", "write"}, id: ModelId, record: TrueRecord]
         \union [pc: {"delete"}, id: ModelId, existed: BOOLEAN]

InventoryInv ==
  /\ inventory \in [ModelId -> TrueRecord \union {Absent}]
  /\ inventoryReq \in [Thread -> TrueRequest]

LEMMA NextDueType ==
  ASSUME NEW v \in Dates, NEW fs \in Portfolio
  PROVE  NextDue(v, fs) \in DueDates
<1>1. CASE v = Never
  BY <1>1 DEF NextDue, DueDates, Dates
<1>2. CASE v # Never
  BY <1>2 DEF DueDates, Dates
<1> QED
  BY <1>1, <1>2

LEMMA TrueRecordIs ==
  ASSUME NEW fs \in Portfolio, NEW v \in Dates, NEW d \in DueDates,
         NEW s \in {"ACTIVE", "RETIRED"}, NEW g \in BOOLEAN, NEW b \in Portfolio,
         ~ g => d = NextDue(v, b)
  PROVE  [frameworks |-> fs, validated |-> v, due |-> d, status |-> s,
          given |-> g, basis |-> b] \in TrueRecord
BY DEF TrueRecord, Record

LEMMA GivenIs ==
  ASSUME NEW S, NEW field \in {{}} \union {{x} : x \in S}, NEW old
  PROVE  /\ field = {} => Given(field, old) = old
         /\ field # {} => Given(field, old) \in S
<1>1. CASE field = {}
  BY <1>1 DEF Given
<1>2. CASE field # {}
  <2>1. PICK x \in S : field = {x}
    BY <1>2
  <2>2. (CHOOSE y \in field : TRUE) = x
    BY <2>1
  <2> QED
    BY <1>2, <2>1, <2>2 DEF Given
<1> QED
  BY <1>1, <1>2

\* A patch derives the due date, is given it, or leaves everything that it depends on.
LEMMA PatchKeepsTrue ==
  ASSUME NEW r \in TrueRecord, NEW p \in Patch
  PROVE  Patched(r, p) \in TrueRecord
<1> DEFINE fs == Given(p.frameworks, r.frameworks)
           v == Given(p.validated, r.validated)
           s == Given(p.status, r.status)
           derive == p.validated # {} /\ p.due = {}
           d == IF derive THEN NextDue(v, fs) ELSE Given(p.due, r.due)
           g == IF derive THEN FALSE ELSE r.given \/ p.due # {}
           b == IF derive THEN fs ELSE r.basis
<1>1. /\ r.frameworks \in Portfolio /\ r.validated \in Dates /\ r.due \in DueDates
      /\ r.status \in {"ACTIVE", "RETIRED"} /\ r.given \in BOOLEAN /\ r.basis \in Portfolio
      /\ ~ r.given => r.due = NextDue(r.validated, r.basis)
  BY DEF TrueRecord, Record
<1>2. /\ p.frameworks \in {{}} \union {{x} : x \in Portfolio}
      /\ p.validated \in {{}} \union {{x} : x \in Dates}
      /\ p.due \in {{}} \union {{x} : x \in Dates}
      /\ p.status \in {{}} \union {{x} : x \in {"ACTIVE", "RETIRED"}}
  <2>1. p.status \in {{}, {"ACTIVE"}, {"RETIRED"}}
    BY DEF Patch
  <2> QED
    BY <2>1 DEF Patch
<1>3. fs \in Portfolio
  BY <1>1, <1>2, GivenIs
<1>4. v \in Dates /\ (p.validated = {} => v = r.validated)
  BY <1>1, <1>2, GivenIs
<1>5. s \in {"ACTIVE", "RETIRED"}
  BY <1>1, <1>2, GivenIs
<1>6. Given(p.due, r.due) \in DueDates /\ (p.due = {} => Given(p.due, r.due) = r.due)
  BY <1>1, <1>2, GivenIs DEF DueDates
<1>7. Patched(r, p) = [frameworks |-> fs, validated |-> v, due |-> d, status |-> s,
                       given |-> g, basis |-> b]
  BY DEF Patched
<1> HIDE DEF fs, v, s
<1>8. d \in DueDates /\ g \in BOOLEAN /\ b \in Portfolio
  BY <1>1, <1>3, <1>4, <1>6, NextDueType
<1>9. ~ g => d = NextDue(v, b)
  BY <1>1, <1>4, <1>6
<1> HIDE DEF d, g, b
<1> QED
  BY <1>3, <1>4, <1>5, <1>7, <1>8, <1>9, TrueRecordIs

LEMMA InventoryInit1 == InventoryInit => InventoryInv
BY DEF InventoryInit, InventoryInv, TrueRequest

LEMMA InventoryStep == InventoryInv /\ [InventoryNext]_inventoryVars => InventoryInv'
<1> SUFFICES ASSUME InventoryInv, [InventoryNext]_inventoryVars PROVE InventoryInv'
  OBVIOUS
<1>0. /\ inventory \in [ModelId -> TrueRecord \union {Absent}]
      /\ inventoryReq \in [Thread -> TrueRequest] /\ Idle \in TrueRequest
  BY DEF InventoryInv, TrueRequest
<1>1. ASSUME NEW t \in Thread, NEW m \in ModelId, NEW fs \in Portfolio, NEW v \in Dates,
             NEW e \in Dates, RequestAdd(t, m, fs, v, e)
      PROVE  InventoryInv'
  <2> DEFINE d == IF e = Never THEN NextDue(v, fs) ELSE e
             g == (e # Never)
             r == [frameworks |-> fs, validated |-> v, due |-> d, status |-> "ACTIVE",
                   given |-> g, basis |-> fs]
  <2>1. d \in DueDates /\ g \in BOOLEAN /\ (~ g => d = NextDue(v, fs))
    BY NextDueType DEF DueDates
  <2>2. /\ inventoryReq' = [inventoryReq EXCEPT ![t] = [pc |-> "insert", id |-> m, record |-> r]]
        /\ inventory' = inventory
    BY <1>1 DEF RequestAdd
  <2> HIDE DEF d, g
  <2>3. r \in TrueRecord
    BY <2>1, TrueRecordIs
  <2> HIDE DEF r
  <2> QED
    BY <1>0, <2>2, <2>3 DEF InventoryInv, TrueRequest
<1>2. ASSUME NEW t \in Thread, NEW m \in ModelId, NEW p \in Body, RequestUpdate(t, m, p)
      PROVE  InventoryInv'
  <2>1. inventory[m] \in TrueRecord /\ p \in Patch
    BY <1>0, <1>2 DEF RequestUpdate, Body
  <2>2. Patched(inventory[m], p) \in TrueRecord
    BY <2>1, PatchKeepsTrue
  <2>3. /\ inventoryReq' = [inventoryReq EXCEPT ![t] =
             [pc |-> "write", id |-> m, record |-> Patched(inventory[m], p)]]
        /\ inventory' = inventory
    BY <1>2 DEF RequestUpdate
  <2> QED
    BY <1>0, <2>2, <2>3 DEF InventoryInv, TrueRequest
<1>3. ASSUME NEW t \in Thread, NEW m \in ModelId, RequestDelete(t, m)
      PROVE  InventoryInv'
  <2> DEFINE b == (inventory[m] # Absent)
  <2>1. b \in BOOLEAN
    OBVIOUS
  <2>2. /\ inventoryReq' = [inventoryReq EXCEPT ![t] = [pc |-> "delete", id |-> m, existed |-> b]]
        /\ inventory' = inventory
    BY <1>3 DEF RequestDelete
  <2> HIDE DEF b
  <2> QED
    BY <1>0, <2>1, <2>2 DEF InventoryInv, TrueRequest
<1>4. ASSUME NEW t \in Thread, inventoryReq[t].pc \in {"insert", "write"},
             inventory' = inventory \/ inventory' =
               [inventory EXCEPT ![inventoryReq[t].id] = inventoryReq[t].record],
             InventoryRespond(t)
      PROVE  InventoryInv'
  <2>1. inventoryReq[t].id \in ModelId /\ inventoryReq[t].record \in TrueRecord
    <3>1. inventoryReq[t] \in TrueRequest
      BY <1>0
    <3> QED
      BY <1>4, <3>1 DEF TrueRequest, Idle
  <2> QED
    BY <1>0, <1>4, <2>1 DEF InventoryInv, InventoryRespond
<1>5. ASSUME NEW t \in Thread, InsertModel(t) PROVE InventoryInv'
  BY <1>4, <1>5 DEF InsertModel, At
<1>6. ASSUME NEW t \in Thread, WriteModel(t) PROVE InventoryInv'
  BY <1>4, <1>6 DEF WriteModel, At
<1>7. ASSUME NEW t \in Thread, DeleteModel(t) PROVE InventoryInv'
  BY <1>0, <1>7 DEF DeleteModel, InventoryInv, InventoryRespond
<1>8. ASSUME NEW t \in Thread, AbandonInventory(t) PROVE InventoryInv'
  BY <1>0, <1>8 DEF AbandonInventory, InventoryInv, InventoryRespond
<1>9. CASE UNCHANGED inventoryVars
  BY <1>9 DEF inventoryVars, InventoryInv
<1> QED
  BY <1>1, <1>2, <1>3, <1>5, <1>6, <1>7, <1>8, <1>9 DEF InventoryNext

\* An active model whose due date no client has set is on the list of due
\* revalidations exactly when its frameworks' shortest cycle is over or it was never
\* validated, however patches overlap.
THEOREM RevalidationListed == InventorySpec => [](InventoryTypeOK /\ OverdueIsListed)
<1>1. InventoryInv => InventoryTypeOK
  BY DEF InventoryInv, InventoryTypeOK, InventoryReqRec, TrueRequest, TrueRecord
<1>2. InventoryInv => OverdueIsListed
  <2> SUFFICES ASSUME InventoryInv, NEW m \in ModelId, NEW day \in Validated,
                      inventory[m] # Absent, inventory[m].status = "ACTIVE",
                      ~ inventory[m].given
               PROVE  (m \in DueForRevalidation(day, 1)) <=>
                        LET due == NextDue(inventory[m].validated, inventory[m].basis)
                        IN  due = Never \/ due <= day + 1
    BY DEF OverdueIsListed
  <2>1. inventory[m].due = NextDue(inventory[m].validated, inventory[m].basis)
    BY DEF InventoryInv, TrueRecord
  <2> QED
    BY <2>1 DEF DueForRevalidation
<1> QED
  BY <1>1, <1>2, InventoryInit1, InventoryStep, PTL DEF InventorySpec

-----------------------------------------------------------------------------
(* Consents: what an export may rely on. *)

\* An export under way.
Exporting ==
  [pc: {"export"}, todo: Seq(CorpusWorkflow), asked: SUBSET CorpusWorkflow,
   granted: SUBSET CorpusWorkflow, sent: SUBSET CorpusWorkflow]

\* Everything that was granted or sent had a consent at some instant of the export,
\* and what is in force now counts as such an instant.
ExportsHonest ==
  \A t \in Exporter : exportReq[t] # Idle =>
    /\ exportReq[t].granted \subseteq inForce[t]
    /\ exportReq[t].sent \subseteq inForce[t]
    /\ \A w \in CorpusWorkflow : InForce(consents, corpusNow, w) => w \in inForce[t]

ConsentsInv == ConsentsTypeOK /\ ExportsHonest

LEMMA ExporterThread ==
  ASSUME ConsentsTypeOK, NEW t \in Exporter
  PROVE  /\ exportReq[t] = Idle \/ exportReq[t] \in Exporting
         /\ exportReq[t] # Idle <=> exportReq[t].pc = "export"
BY DEF ConsentsTypeOK, Exporting, Idle

\* The rows or the clock change, and every export observes it.
LEMMA ConsentsObserved ==
  ASSUME ConsentsInv, UNCHANGED <<decided, exportReq>>, Observe,
         consents' \in [ConsentId -> Consent \union {NotGiven}],
         corpusNow' \in 0..CorpusHorizon
  PROVE  ConsentsInv'
<1>1. /\ inForce' \in [Exporter -> SUBSET CorpusWorkflow]
      /\ \A t \in Exporter : exportReq[t].pc = "export" =>
           inForce'[t] = inForce[t] \union
             {w \in CorpusWorkflow : InForce(consents', corpusNow', w)}
  BY DEF Observe, ConsentsInv, ConsentsTypeOK
<1>2. ConsentsTypeOK'
  BY <1>1 DEF ConsentsInv, ConsentsTypeOK, Consent
<1>3. ExportsHonest'
  <2> SUFFICES ASSUME NEW t \in Exporter, exportReq'[t] # Idle
               PROVE  /\ exportReq'[t].granted \subseteq inForce'[t]
                      /\ exportReq'[t].sent \subseteq inForce'[t]
                      /\ \A w \in CorpusWorkflow :
                           InForce(consents', corpusNow', w) => w \in inForce'[t]
    BY DEF ExportsHonest, InForce
  <2>1. exportReq[t] # Idle /\ exportReq[t].pc = "export" /\ exportReq'[t] = exportReq[t]
    BY ExporterThread DEF ConsentsInv
  <2>2. exportReq[t].granted \subseteq inForce[t] /\ exportReq[t].sent \subseteq inForce[t]
    BY <2>1 DEF ConsentsInv, ExportsHonest
  <2> QED
    BY <1>1, <2>1, <2>2
<1> QED
  BY <1>2, <1>3 DEF ConsentsInv

\* One export moves.
LEMMA ExporterMoves ==
  ASSUME ConsentsInv, UNCHANGED <<consents, corpusNow>>,
         decided' \in Seq(CorpusWorkflow), Len(decided') <= MaxDecisions,
         NEW t \in Exporter, NEW q \in Exporting \union {Idle}, NEW fs \in SUBSET CorpusWorkflow,
         exportReq' = [exportReq EXCEPT ![t] = q], inForce' = [inForce EXCEPT ![t] = fs],
         q # Idle => /\ q.granted \subseteq fs /\ q.sent \subseteq fs
                     /\ \A w \in CorpusWorkflow : InForce(consents, corpusNow, w) => w \in fs
  PROVE  ConsentsInv'
<1>1. ConsentsTypeOK'
  BY DEF ConsentsInv, ConsentsTypeOK, Exporting, Consent
<1>2. ExportsHonest'
  <2> SUFFICES ASSUME NEW u \in Exporter, exportReq'[u] # Idle
               PROVE  /\ exportReq'[u].granted \subseteq inForce'[u]
                      /\ exportReq'[u].sent \subseteq inForce'[u]
                      /\ \A w \in CorpusWorkflow :
                           InForce(consents, corpusNow, w) => w \in inForce'[u]
    BY DEF ExportsHonest, InForce
  <2>1. CASE u = t
    BY <2>1 DEF ConsentsInv, ConsentsTypeOK
  <2>2. CASE u # t
    BY <2>2 DEF ConsentsInv, ConsentsTypeOK, ExportsHonest
  <2> QED
    BY <2>1, <2>2
<1> QED
  BY <1>1, <1>2 DEF ConsentsInv

\* A consent that the export is told of is in force.
LEMMA HasConsentIsInForce ==
  ASSUME NEW w, HasConsent(w), consents \in [ConsentId -> Consent \union {NotGiven}],
         corpusNow \in 0..CorpusHorizon
  PROVE  InForce(consents, corpusNow, w)
<1>1. PICK i \in ListConsents(w) : consents[i].kind = "training_data"
  BY DEF HasConsent
<1>2. /\ i \in ConsentId /\ consents[i] # NotGiven /\ consents[i].active
      /\ consents[i].scope = "global" \/ consents[i].workflow = w
      /\ corpusNow <= consents[i].expires
  BY <1>1 DEF ListConsents
<1>3. consents[i].expires \in Nat /\ corpusNow \in Nat
  BY <1>2, ConsentsAssumption DEF Consent
<1> QED
  BY <1>1, <1>2, <1>3 DEF InForce

LEMMA ConsentsInit1 == ConsentsInit => ConsentsInv
<1> SUFFICES ASSUME ConsentsInit PROVE ConsentsInv
  OBVIOUS
<1>1. decided \in Seq(CorpusWorkflow) /\ Len(decided) <= MaxDecisions
  BY EmptySeq, ConsentsAssumption DEF ConsentsInit
<1>2. 0 \in 0..CorpusHorizon
  BY ConsentsAssumption
<1> QED
  BY <1>1, <1>2 DEF ConsentsInit, ConsentsInv, ConsentsTypeOK, ExportsHonest

LEMMA ConsentsStep == ConsentsInv /\ [ConsentsNext]_consentVars => ConsentsInv'
<1> SUFFICES ASSUME ConsentsInv, [ConsentsNext]_consentVars PROVE ConsentsInv'
  OBVIOUS
<1>0. /\ decided \in Seq(CorpusWorkflow) /\ Len(decided) <= MaxDecisions
      /\ Len(decided) \in Nat /\ MaxDecisions \in Nat /\ CorpusHorizon \in Nat
      /\ consents \in [ConsentId -> Consent \union {NotGiven}]
      /\ corpusNow \in 0..CorpusHorizon /\ inForce \in [Exporter -> SUBSET CorpusWorkflow]
  BY ConsentsAssumption, LenProperties DEF ConsentsInv, ConsentsTypeOK
<1>1. ASSUME NEW t \in Exporter, StartExport(t) PROVE ConsentsInv'
  <2> DEFINE todo == [i \in DOMAIN decided |-> decided[Len(decided) + 1 - i]]
             q == [pc |-> "export", asked |-> {}, granted |-> {}, sent |-> {}, todo |-> todo]
             fs == {w \in CorpusWorkflow : InForce(consents, corpusNow, w)}
  <2>1. todo \in Seq(CorpusWorkflow)
    <3>1. /\ DOMAIN decided = 1..Len(decided)
          /\ \A i \in 1..Len(decided) : decided[Len(decided) + 1 - i] \in CorpusWorkflow
      BY <1>0, LenProperties, ElementOfSeq
    <3>2. PICK n \in Nat : n = Len(decided)
      BY <1>0
    <3>3. todo = [i \in 1..n |-> decided[n + 1 - i]]
      BY <3>1, <3>2
    <3>4. \A i \in 1..n : decided[n + 1 - i] \in CorpusWorkflow
      BY <3>1, <3>2
    <3> HIDE DEF todo
    <3> QED
      BY <3>3, <3>4, IsASeq
  <2>2. /\ exportReq' = [exportReq EXCEPT ![t] = q] /\ inForce' = [inForce EXCEPT ![t] = fs]
        /\ UNCHANGED <<decided, consents, corpusNow>>
    BY <1>1 DEF StartExport
  <2> HIDE DEF todo
  <2>3. q \in Exporting /\ q.granted = {} /\ q.sent = {}
    BY <2>1 DEF Exporting
  <2>4. fs \in SUBSET CorpusWorkflow
        /\ \A w \in CorpusWorkflow : InForce(consents, corpusNow, w) => w \in fs
    OBVIOUS
  <2> HIDE DEF q, fs
  <2> QED
    BY <1>0, <2>2, <2>3, <2>4, ExporterMoves
<1>2. ASSUME NEW t \in Exporter, ExportLine(t) PROVE ConsentsInv'
  <2>1. exportReq[t] # Idle /\ exportReq[t] \in Exporting /\ exportReq[t].todo # <<>>
    BY <1>2, ExporterThread DEF ExportLine, At, ConsentsInv, Idle
  <2> DEFINE p == exportReq[t]
             w == Head(p.todo)
             given == IF w \in p.asked THEN p.granted
                      ELSE p.granted \union (IF HasConsent(w) THEN {w} ELSE {})
             sent == p.sent \union ({w} \intersect given)
             asked == p.asked \union {w}
             todo == Tail(p.todo)
             q == [pc |-> "export", asked |-> asked, granted |-> given,
                   sent |-> sent, todo |-> todo]
  <2>2. /\ exportReq' = [exportReq EXCEPT ![t] = q]
        /\ UNCHANGED <<decided, consents, corpusNow, inForce>>
    BY <1>2 DEF ExportLine
  <2>3. w \in CorpusWorkflow /\ todo \in Seq(CorpusWorkflow)
    BY <2>1, HeadTailProperties DEF Exporting
  <2>4. /\ p.granted \subseteq inForce[t] /\ p.sent \subseteq inForce[t]
        /\ \A x \in CorpusWorkflow : InForce(consents, corpusNow, x) => x \in inForce[t]
    BY <2>1 DEF ConsentsInv, ExportsHonest
  <2> HIDE DEF w
  <2>5. HasConsent(w) => w \in inForce[t]
    BY <1>0, <2>3, <2>4, HasConsentIsInForce
  <2>6. given \subseteq inForce[t] /\ given \subseteq CorpusWorkflow
    BY <1>0, <2>4, <2>5
  <2> HIDE DEF given
  <2>7. sent \subseteq inForce[t] /\ sent \subseteq CorpusWorkflow
    BY <1>0, <2>4, <2>6
  <2>8. asked \subseteq CorpusWorkflow
    BY <2>1, <2>3 DEF Exporting
  <2> HIDE DEF sent, asked, todo
  <2>9. q \in Exporting /\ q.granted = given /\ q.sent = sent
    BY <2>3, <2>6, <2>7, <2>8 DEF Exporting
  <2>10. inForce' = [inForce EXCEPT ![t] = inForce[t]] /\ inForce[t] \in SUBSET CorpusWorkflow
    BY <1>0, <2>2
  <2> HIDE DEF q
  <2> QED
    BY <1>0, <2>2, <2>4, <2>6, <2>7, <2>9, <2>10, ExporterMoves
<1>3. ASSUME NEW t \in Exporter, EndExport(t) PROVE ConsentsInv'
  <2>1. /\ exportReq' = [exportReq EXCEPT ![t] = Idle] /\ inForce' = [inForce EXCEPT ![t] = {}]
        /\ UNCHANGED <<decided, consents, corpusNow>>
    BY <1>3 DEF EndExport
  <2>2. Idle \in Exporting \union {Idle} /\ {} \in SUBSET CorpusWorkflow
    OBVIOUS
  <2> QED
    BY <1>0, <2>1, <2>2, ExporterMoves, Zenon
<1>4. ASSUME NEW i \in ConsentId, NEW row \in Consent, GrantConsent(i, row) PROVE ConsentsInv'
  BY <1>0, <1>4, ConsentsObserved DEF GrantConsent
<1>5. ASSUME NEW i \in ConsentId, RevokeConsent(i) PROVE ConsentsInv'
  <2>1. consents' \in [ConsentId -> Consent \union {NotGiven}]
    BY <1>0, <1>5 DEF RevokeConsent, Consent
  <2> QED
    BY <1>0, <1>5, <2>1, ConsentsObserved DEF RevokeConsent
<1>6. ASSUME NEW w \in CorpusWorkflow, StoreDecision(w) PROVE ConsentsInv'
  <2>1. decided' \in Seq(CorpusWorkflow) /\ Len(decided') <= MaxDecisions
    BY <1>0, <1>6, AppendProperties DEF StoreDecision
  <2> QED
    BY <1>6, <2>1
       DEF StoreDecision, ConsentsInv, ConsentsTypeOK, ExportsHonest, Consent, InForce
<1>7. ASSUME ConsentTick PROVE ConsentsInv'
  <2>1. corpusNow' \in 0..CorpusHorizon
    BY <1>0, <1>7 DEF ConsentTick
  <2> QED
    BY <1>0, <1>7, <2>1, ConsentsObserved DEF ConsentTick
<1>8. CASE UNCHANGED consentVars
  BY <1>8 DEF consentVars, ConsentsInv, ConsentsTypeOK, ExportsHonest, Consent, InForce
<1> QED
  BY <1>1, <1>2, <1>3, <1>4, <1>5, <1>6, <1>7, <1>8 DEF ConsentsNext

\* An export sends no decision of a workflow that had no consent in force at any
\* instant since it began, however consents are given, revoked and expire meanwhile.
THEOREM ConsentsRespected == ConsentsSpec => [](ConsentsTypeOK /\ ConsentHonoured)
<1>1. ConsentsInv => ConsentsTypeOK /\ ConsentHonoured
  <2> SUFFICES ASSUME ConsentsInv, NEW t \in Exporter, exportReq[t].pc = "export"
               PROVE  exportReq[t].sent \subseteq inForce[t]
    BY DEF ConsentHonoured, ConsentsInv
  <2> QED
    BY ExporterThread DEF ConsentsInv, ExportsHonest
<1> QED
  BY <1>1, ConsentsInit1, ConsentsStep, PTL DEF ConsentsSpec

-----------------------------------------------------------------------------
(* Performance rows. *)

Recorded == [of: CaseRun, choice: CaseChoice]

\* A transaction that records.
RecordTx == [pc: {"record"}, of: CaseRun, choice: CaseChoice, row: 0 .. MaxRows]

\* Every transaction may still insert a row.
RoomForAll == Len(performance) + Cardinality(Recording) <= MaxRows

\* No row moves or goes: the one that a transaction has found is still its case's.
FoundRows ==
  \A t \in Recording :
    recordReq[t].row # 0 => recordReq[t].row \in RowsOf(recordReq[t].of)

PerformanceInv == PerformanceTypeOK /\ RoomForAll /\ FoundRows /\ ChoiceKept

LEMMA PerformanceShape ==
  PerformanceTypeOK <=>
    /\ backend \in Backends
    /\ performance \in Seq(Recorded)
    /\ Len(performance) <= MaxRows
    /\ lastChoice \in [CaseRun -> CaseChoice]
    /\ recordReq \in [Thread -> {Idle} \union RecordTx]
BY DEF PerformanceTypeOK, Recorded, RecordTx

LEMMA RecordingFinite == IsFiniteSet(Recording) /\ Cardinality(Recording) \in Nat
<1>1. Recording \subseteq Thread
  BY DEF Recording
<1> QED
  BY <1>1, ServerAssumption, FS_Subset, FS_CardinalityType

\* A transaction ends.
LEMMA RecordEnds ==
  ASSUME PerformanceTypeOK, NEW t \in Recording, recordReq' = [recordReq EXCEPT ![t] = Idle]
  PROVE  /\ Recording' = Recording \ {t}
         /\ Cardinality(Recording') + 1 = Cardinality(Recording)
         /\ Cardinality(Recording') \in Nat
         /\ \A u \in Recording' : u \in Recording /\ u # t /\ recordReq'[u] = recordReq[u]
<1>1. /\ Recording' = Recording \ {t}
      /\ \A u \in Recording' : u \in Recording /\ u # t /\ recordReq'[u] = recordReq[u]
  BY DEF Recording, PerformanceTypeOK
<1> DEFINE R == Recording
<1>2. IsFiniteSet(R) /\ Cardinality(R) \in Nat
  BY RecordingFinite
<1>3. IsFiniteSet(R \ {t}) /\ Cardinality(R \ {t}) = Cardinality(R) - 1
  BY <1>2, FS_RemoveElement
<1>4. Cardinality(R \ {t}) \in Nat
  BY <1>3, FS_CardinalityType
<1> QED
  BY <1>1, <1>2, <1>3, <1>4

LEMMA PerformanceInit1 == PerformanceInit => PerformanceInv
<1> SUFFICES ASSUME PerformanceInit PROVE PerformanceInv
  OBVIOUS
<1>1. performance \in Seq(Recorded) /\ Len(performance) = 0
  BY EmptySeq DEF PerformanceInit
<1>2. Recording = {}
  BY DEF PerformanceInit, Recording
<1>3. Cardinality(Recording) = 0 /\ MaxRows \in Nat
  BY <1>2, FS_EmptySet, PerformanceAssumption
<1>4. PerformanceTypeOK
  <2>1. lastChoice \in [CaseRun -> CaseChoice] /\ recordReq \in [Thread -> {Idle} \union RecordTx]
    BY DEF PerformanceInit, CaseChoice
  <2>2. backend \in Backends
    BY DEF PerformanceInit
  <2>3. Len(performance) <= MaxRows
    BY <1>1, <1>3
  <2> QED
    BY <1>1, <2>1, <2>2, <2>3, PerformanceShape
<1>5. RoomForAll
  BY <1>1, <1>3 DEF RoomForAll
<1>6. FoundRows /\ ChoiceKept
  BY <1>2 DEF FoundRows, ChoiceKept, PerformanceInit
<1> QED
  BY <1>4, <1>5, <1>6 DEF PerformanceInv

LEMMA RecordBegins ==
  ASSUME PerformanceInv, NEW t \in Thread, NEW k \in CaseRun, NEW choice \in CaseChoice,
         BeginRecord(t, k, choice)
  PROVE  PerformanceInv'
<1> DEFINE R == Recording
<1>1. /\ performance \in Seq(Recorded) /\ Len(performance) \in Nat /\ MaxRows \in Nat
      /\ Len(performance) <= MaxRows /\ DOMAIN performance = 1..Len(performance)
  BY PerformanceShape, LenProperties, PerformanceAssumption DEF PerformanceInv
<1>2. PICK row \in IF RowsOf(k) = {} THEN {0} ELSE RowsOf(k) :
        recordReq' = [recordReq EXCEPT ![t] =
          [pc |-> "record", of |-> k, choice |-> choice, row |-> row]]
  BY DEF BeginRecord
<1>3. row \in 0..MaxRows /\ (row # 0 => row \in RowsOf(k))
  BY <1>1 DEF RowsOf
<1>4. UNCHANGED <<backend, performance, lastChoice>> /\ recordReq[t] = Idle
  BY DEF BeginRecord
<1> DEFINE q == [pc |-> "record", of |-> k, choice |-> choice, row |-> row]
<1>5. q \in RecordTx /\ q # Idle /\ q.of = k /\ q.row = row
  BY <1>3 DEF RecordTx, Idle
<1> HIDE DEF q
<1>6. PerformanceTypeOK'
  <2>1. recordReq' \in [Thread -> {Idle} \union RecordTx]
    BY <1>2, <1>5, PerformanceShape DEF PerformanceInv, q
  <2> QED
    BY <1>4, <2>1, PerformanceShape DEF PerformanceInv, PerformanceTypeOK, RecordTx, CaseChoice
<1>7. /\ Recording' = Recording \union {t} /\ t \notin Recording
      /\ recordReq'[t] = q
      /\ \A u \in Recording : recordReq'[u] = recordReq[u]
  BY <1>2, <1>4, <1>5 DEF Recording, PerformanceInv, PerformanceTypeOK, q
<1>8. RoomForAll'
  <2>1. IsFiniteSet(R) /\ Cardinality(R) \in Nat
    BY RecordingFinite
  <2>2. Cardinality(R \union {t}) = Cardinality(R) + 1
    BY <1>7, <2>1, FS_AddElement
  <2>3. Len(performance) + Cardinality(R) < MaxRows
    BY DEF BeginRecord
  <2>4. Len(performance') + Cardinality(Recording') <= MaxRows
    BY <1>1, <1>4, <1>7, <2>1, <2>2, <2>3
  <2> QED
    BY <2>4 DEF RoomForAll
<1>9. FoundRows'
  <2> SUFFICES ASSUME NEW u \in Recording', recordReq'[u].row # 0
               PROVE  /\ recordReq'[u].row \in DOMAIN performance'
                      /\ performance'[recordReq'[u].row].of = recordReq'[u].of
    BY DEF FoundRows, RowsOf
  <2>2. CASE u = t
    BY <1>3, <1>4, <1>5, <1>7, <2>2 DEF RowsOf
  <2>3. CASE u # t
    <3>1. u \in Recording /\ recordReq'[u] = recordReq[u]
      BY <1>7, <2>3
    <3> QED
      BY <1>4, <3>1 DEF PerformanceInv, FoundRows, RowsOf
  <2> QED
    BY <2>2, <2>3
<1>10. ChoiceKept'
  BY <1>4 DEF PerformanceInv, ChoiceKept, RowsOf
<1> QED
  BY <1>6, <1>8, <1>9, <1>10 DEF PerformanceInv

LEMMA RowWritten ==
  ASSUME PerformanceInv, NEW t \in Thread, WriteRow(t)
  PROVE  PerformanceInv'
<1> DEFINE q == recordReq[t]
<1>0. PICK n \in Nat : n = Len(performance)
  BY PerformanceShape, LenProperties DEF PerformanceInv
<1>1. /\ performance \in Seq(Recorded) /\ n \in Nat /\ n = Len(performance) /\ MaxRows \in Nat
      /\ n <= MaxRows /\ DOMAIN performance = 1..n
      /\ recordReq \in [Thread -> {Idle} \union RecordTx]
      /\ lastChoice \in [CaseRun -> CaseChoice]
      /\ PerformanceTypeOK
  BY <1>0, PerformanceShape, LenProperties, PerformanceAssumption DEF PerformanceInv
<1>2. q \in RecordTx /\ t \in Recording
  <2>1. recordReq[t].pc = "record" /\ recordReq[t] \in {Idle} \union RecordTx
    BY <1>1 DEF WriteRow, At
  <2>2. recordReq[t] # Idle
    BY <2>1 DEF Idle
  <2> QED
    BY <2>1, <2>2 DEF Recording
<1>3. q.of \in CaseRun /\ q.choice \in CaseChoice /\ q.row \in 0..MaxRows
  BY <1>2 DEF RecordTx
<1>4. /\ Cardinality(Recording') + 1 = Cardinality(Recording)
      /\ Cardinality(Recording') \in Nat
      /\ \A u \in Recording' : u \in Recording /\ recordReq'[u] = recordReq[u]
  <2>1. recordReq' = [recordReq EXCEPT ![t] = Idle]
    BY DEF WriteRow
  <2> QED
    BY <1>1, <1>2, <2>1, RecordEnds
<1>5. n + Cardinality(Recording) <= MaxRows
  BY <1>0 DEF PerformanceInv, RoomForAll
\* Old rows stay, but for the choice of the one that was found.
<1> DEFINE Kept(i) ==
      /\ performance'[i].of = performance[i].of
      /\ performance'[i].choice # performance[i].choice =>
           i = q.row /\ performance'[i].choice = q.choice /\ q.choice # NoChoice
<1>6. /\ performance' \in Seq(Recorded) /\ Len(performance') \in Nat
      /\ n <= Len(performance') /\ Len(performance') <= n + 1
      /\ DOMAIN performance' = 1..Len(performance')
      /\ \A i \in 1..n : Kept(i)
      /\ \E i \in DOMAIN performance' :
           /\ performance'[i].of = q.of
           /\ q.choice # NoChoice => performance'[i].choice = q.choice
  <2>1. CASE q.row = 0
    <3> DEFINE e == [of |-> q.of, choice |-> q.choice]
    <3>1. performance' = Append(performance, e) /\ e \in Recorded
      BY <1>3, <2>1 DEF WriteRow, Recorded
    <3> HIDE DEF e
    <3>2. /\ performance' \in Seq(Recorded) /\ Len(performance') = n + 1
          /\ \A i \in 1..n : performance'[i] = performance[i]
          /\ performance'[n + 1] = e
      BY <1>1, <3>1, AppendProperties
    <3>3. DOMAIN performance' = 1..Len(performance')
      BY <3>2, LenProperties
    <3>4. n + 1 \in DOMAIN performance'
      BY <1>1, <3>2, <3>3
    <3>5. /\ performance'[n + 1].of = q.of
          /\ q.choice # NoChoice => performance'[n + 1].choice = q.choice
      BY <3>2 DEF e
    <3>6. /\ Len(performance') \in Nat /\ n <= Len(performance') /\ Len(performance') <= n + 1
          /\ \A i \in 1..n :
               /\ performance'[i].of = performance[i].of
               /\ performance'[i].choice = performance[i].choice
      BY <1>1, <3>2
    <3> QED
      BY <3>2, <3>3, <3>4, <3>5, <3>6
  <2>2. CASE q.row # 0
    <3>1. q.row \in 1..n /\ performance[q.row].of = q.of
      BY <1>1, <1>2, <2>2 DEF PerformanceInv, FoundRows, RowsOf
    <3>2. performance[q.row] \in Recorded
      BY <1>1, <3>1, ElementOfSeq
    <3> DEFINE c == WriteChoice(performance[q.row].choice, q.choice)
               e == [performance[q.row] EXCEPT !.choice = c]
    <3>3. c \in CaseChoice /\ (q.choice # NoChoice => c = q.choice)
          /\ (q.choice = NoChoice => c = performance[q.row].choice)
      BY <1>3, <3>2 DEF WriteChoice, Recorded
    <3>4. performance' = [performance EXCEPT ![q.row] = e]
      BY <1>1, <2>2, <3>1 DEF WriteRow
    <3>5. e \in Recorded /\ e.of = q.of /\ e.choice = c
      BY <3>1, <3>2, <3>3 DEF Recorded
    <3> HIDE DEF e, c
    <3>6. /\ performance' \in Seq(Recorded) /\ Len(performance') = n
          /\ \A i \in 1..n : performance'[i] = IF i = q.row THEN e ELSE performance[i]
      BY <1>1, <3>1, <3>4, <3>5, ExceptSeq
    <3>7. DOMAIN performance' = 1..n
      BY <3>6, LenProperties
    <3>8. ASSUME NEW i \in 1..n PROVE Kept(i)
      <4>1. CASE i = q.row
        BY <3>1, <3>3, <3>5, <3>6, <4>1
      <4>2. CASE i # q.row
        BY <3>6, <4>2
      <4> QED
        BY <4>1, <4>2
    <3>9. /\ q.row \in DOMAIN performance' /\ performance'[q.row].of = q.of
          /\ q.choice # NoChoice => performance'[q.row].choice = q.choice
      BY <3>1, <3>3, <3>5, <3>6, <3>7
    <3>10. n \in Nat
      BY <1>1
    <3> HIDE DEF Kept
    <3> QED
      BY <3>6, <3>7, <3>8, <3>9, <3>10
  <2> QED
    BY <2>1, <2>2
<1>7. /\ lastChoice' \in [CaseRun -> CaseChoice] /\ backend' = backend
      /\ \A k \in CaseRun :
           lastChoice'[k] = IF k = q.of /\ q.choice # NoChoice THEN q.choice ELSE lastChoice[k]
  BY <1>1, <1>3 DEF WriteRow
<1> HIDE DEF Kept
<1>6a. PICK m \in Nat :
         /\ m = Len(performance') /\ DOMAIN performance' = 1..m /\ n <= m /\ m <= n + 1
  BY <1>6, Zenon
<1>6b. /\ n \in Nat /\ m \in Nat /\ n <= m /\ m <= n + 1 /\ DOMAIN performance' = 1..m
       /\ \A i \in 1..n : Kept(i)
  BY <1>1, <1>6, <1>6a
<1>8. RoomForAll' /\ Len(performance') <= MaxRows
  <2>1. Cardinality(Recording) \in Nat
    BY RecordingFinite
  <2>3. PICK c \in Nat : c = Cardinality(Recording') /\ c + 1 = Cardinality(Recording)
    BY <1>4
  <2>4. n + (c + 1) <= MaxRows /\ MaxRows \in Nat
    BY <1>1, <1>5, <2>3
  <2>5. m + c <= MaxRows /\ m <= MaxRows
    BY <1>6b, <2>3, <2>4
  <2> QED
    BY <1>6a, <2>3, <2>5 DEF RoomForAll
<1>9. PerformanceTypeOK'
  <2>1. recordReq' \in [Thread -> {Idle} \union RecordTx]
    BY <1>1 DEF WriteRow
  <2>2. backend' \in Backends
    BY <1>1, <1>7 DEF PerformanceTypeOK
  <2> QED
    BY <1>6, <1>7, <1>8, <2>1, <2>2 DEF PerformanceTypeOK, Recorded, RecordTx, CaseChoice
<1>10. FoundRows'
  <2> SUFFICES ASSUME NEW u \in Recording', recordReq'[u].row # 0
               PROVE  /\ recordReq'[u].row \in DOMAIN performance'
                      /\ performance'[recordReq'[u].row].of = recordReq'[u].of
    BY DEF FoundRows, RowsOf
  <2>1. u \in Recording /\ recordReq'[u] = recordReq[u]
    BY <1>4
  <2>2. recordReq[u].row \in RowsOf(recordReq[u].of)
    BY <2>1 DEF PerformanceInv, FoundRows
  <2>3. recordReq[u].row \in 1..n /\ performance[recordReq[u].row].of = recordReq[u].of
    BY <1>1, <2>2 DEF RowsOf
  <2>4. recordReq[u].row \in DOMAIN performance'
        /\ performance'[recordReq[u].row].of = recordReq[u].of
    BY <1>6b, <2>3 DEF Kept
  <2> QED
    BY <2>1, <2>4
<1>11. ChoiceKept'
  <2> SUFFICES ASSUME NEW k \in CaseRun, lastChoice'[k] # NoChoice
               PROVE  \E i \in DOMAIN performance' :
                        performance'[i].of = k /\ performance'[i].choice = lastChoice'[k]
    BY DEF ChoiceKept, RowsOf
  <2>1. CASE k = q.of /\ q.choice # NoChoice
    BY <1>6, <1>7, <2>1
  <2>2. CASE ~ (k = q.of /\ q.choice # NoChoice)
    <3>1. lastChoice'[k] = lastChoice[k]
      BY <1>7, <2>2
    <3>2. PICK i \in DOMAIN performance :
            performance[i].of = k /\ performance[i].choice = lastChoice[k]
      BY <3>1 DEF PerformanceInv, ChoiceKept, RowsOf
    <3>3. i \in 1..n /\ i \in DOMAIN performance' /\ performance'[i].of = k
      BY <1>1, <1>6b, <3>2 DEF Kept
    <3>4. i = q.row => k = q.of
      <4>1. CASE q.row = 0
        BY <1>1, <3>3, <4>1
      <4>2. CASE q.row # 0
        BY <1>2, <3>2, <4>2 DEF PerformanceInv, FoundRows, RowsOf
      <4> QED
        BY <4>1, <4>2
    <3>5. performance'[i].choice = performance[i].choice
      BY <1>6, <2>2, <3>3, <3>4 DEF Kept
    <3> QED
      BY <3>1, <3>2, <3>3, <3>5
  <2> QED
    BY <2>1, <2>2
<1> QED
  BY <1>8, <1>9, <1>10, <1>11 DEF PerformanceInv

LEMMA RecordDropped ==
  ASSUME PerformanceInv, NEW t \in Thread, DropRecord(t)
  PROVE  PerformanceInv'
<1>1. /\ UNCHANGED <<backend, performance, lastChoice>> /\ t \in Recording
      /\ recordReq' = [recordReq EXCEPT ![t] = Idle]
  BY DEF DropRecord, At, Recording, Idle
<1>2. /\ Cardinality(Recording') + 1 = Cardinality(Recording)
      /\ Cardinality(Recording') \in Nat
      /\ \A u \in Recording' : u \in Recording /\ recordReq'[u] = recordReq[u]
  BY <1>1, RecordEnds DEF PerformanceInv
<1>3. PerformanceTypeOK'
  BY <1>1 DEF PerformanceInv, PerformanceTypeOK, CaseChoice
<1>4. RoomForAll'
  <2>1. Len(performance) \in Nat /\ MaxRows \in Nat
        /\ Len(performance) + Cardinality(Recording) <= MaxRows
    BY PerformanceShape, PerformanceAssumption, LenProperties DEF PerformanceInv, RoomForAll
  <2>2. Len(performance') + Cardinality(Recording') <= MaxRows
    BY <1>1, <1>2, <2>1
  <2> QED
    BY <2>2 DEF RoomForAll
<1>5. FoundRows' /\ ChoiceKept'
  BY <1>1, <1>2 DEF PerformanceInv, FoundRows, ChoiceKept, RowsOf
<1> QED
  BY <1>3, <1>4, <1>5 DEF PerformanceInv

LEMMA PerformanceStep == PerformanceInv /\ [PerformanceNext]_perfVars => PerformanceInv'
<1> SUFFICES ASSUME PerformanceInv, [PerformanceNext]_perfVars PROVE PerformanceInv'
  OBVIOUS
<1>1. CASE PerformanceNext
  BY <1>1, RecordBegins, RowWritten, RecordDropped DEF PerformanceNext
<1>2. CASE UNCHANGED perfVars
  BY <1>2 DEF perfVars, PerformanceInv, PerformanceTypeOK, RoomForAll, FoundRows, ChoiceKept,
     RowsOf, Recording, CaseChoice
<1> QED
  BY <1>1, <1>2

\* The choice committed last for a case of an eval run is on one of its rows, however
\* records of the same case overlap, on either database.
THEOREM ChoicesKept == PerformanceSpec => [](PerformanceTypeOK /\ ChoiceKept)
<1>1. PerformanceInv => PerformanceTypeOK /\ ChoiceKept
  BY DEF PerformanceInv
<1> QED
  BY <1>1, PerformanceInit1, PerformanceStep, PTL DEF PerformanceSpec

-----------------------------------------------------------------------------
(* Providers. *)

\* A transaction under way.
ProviderTx ==
  [pc: {"count", "insert", "write", "remove"}, id: ProviderId, flag: BOOLEAN,
   cleared: SUBSET ProviderId, promoted: SUBSET ProviderId]

LEMMA ProviderTxIs == ProviderReqRec = {Idle} \union ProviderTx /\ Idle \notin ProviderTx
BY DEF ProviderReqRec, ProviderTx, Idle

\* What a transaction that is alone has done so far, and will do.
TrueTx(q) ==
  \/ /\ q.pc = "count"
     /\ q.cleared = IF q.flag THEN providers ELSE {}
     /\ q.promoted = {}
  \/ /\ q.pc = "insert"
     /\ IF q.flag THEN q.cleared = providers ELSE q.cleared = {} /\ providers # {}
     /\ q.promoted = {}
  \/ /\ q.pc = "write"
     /\ q.id \in providers
     /\ \/ q.flag /\ q.cleared = providers
        \/ (q.flag <=> q.id \in default) /\ q.cleared = {}
     /\ q.promoted = {}
  \/ /\ q.pc = "remove"
     /\ q.id \in providers
     /\ q.cleared = {}
     /\ IF q.id \in default /\ providers # {q.id}
        THEN \E heir \in providers \ {q.id} : q.promoted = {heir}
        ELSE q.promoted = {}

\* As long as no two transactions have overlapped, one at most is open, one provider
\* is the default if there is any, and the one that is open is about to keep it so.
Alone ==
  ~ overlapped =>
    /\ \A t, u \in InProviderTx : t = u
    /\ providers # {} => \E d \in providers : default = {d}
    /\ \A t \in InProviderTx : TrueTx(providerReq[t])

ProvidersInv == ProvidersTypeOK /\ Alone

LEMMA ProvidersInit1 == ProvidersInit => ProvidersInv
BY ProviderTxIs
   DEF ProvidersInit, ProvidersInv, ProvidersTypeOK, Alone, InProviderTx

\* A transaction opens.
LEMMA TxBegins ==
  ASSUME ProvidersInv, NEW t \in Thread, NEW q \in ProviderTx,
         Begin(t, q.pc, q.id, q.flag, q.cleared, q.promoted), TrueTx(q)
  PROVE  ProvidersInv'
<1>1. /\ providerReq[t] = Idle /\ UNCHANGED <<backend, providers, default, legacy>>
      /\ overlapped' = (overlapped \/ InProviderTx # {})
  BY DEF Begin
<1>2. providerReq' = [providerReq EXCEPT ![t] = q]
  <2>1. q = [pc |-> q.pc, id |-> q.id, flag |-> q.flag, cleared |-> q.cleared,
             promoted |-> q.promoted]
    BY DEF ProviderTx
  <2> QED
    BY <2>1 DEF Begin
<1>3. q # Idle /\ q \in ProviderReqRec
  BY ProviderTxIs
<1>4. providerReq' \in [Thread -> ProviderReqRec] /\ overlapped' \in BOOLEAN
  BY <1>1, <1>2, <1>3 DEF ProvidersInv, ProvidersTypeOK
<1>5. ProvidersTypeOK'
  BY <1>1, <1>4, ProviderTxIs DEF ProvidersInv, ProvidersTypeOK, ProviderReqRec
<1>6. InProviderTx' = InProviderTx \union {t} /\ providerReq'[t] = q
  BY <1>1, <1>2, <1>3 DEF InProviderTx, ProvidersInv, ProvidersTypeOK
<1>7. TrueTx(q)'
  <2>1. TrueTx(q)
    OBVIOUS
  <2> QED
    BY <1>1, <2>1 DEF TrueTx
<1>8. Alone'
  <2> SUFFICES ASSUME ~ overlapped'
               PROVE  /\ \A u, v \in InProviderTx' : u = v
                      /\ providers' # {} => \E d \in providers' : default' = {d}
                      /\ \A u \in InProviderTx' : TrueTx(providerReq[u])'
    BY DEF Alone
  <2>1. ~ overlapped /\ InProviderTx = {}
    BY <1>1
  <2>2. InProviderTx' = {t}
    BY <1>6, <2>1
  <2>3. providers' # {} => \E d \in providers' : default' = {d}
    BY <1>1, <2>1 DEF ProvidersInv, Alone
  <2>4. TrueTx(providerReq[t])'
    BY <1>6, <1>7 DEF TrueTx
  <2> QED
    BY <2>2, <2>3, <2>4
<1> QED
  BY <1>5, <1>8 DEF ProvidersInv

\* A transaction commits or is rolled back.
LEMMA TxEnds ==
  ASSUME ProvidersInv, NEW t \in InProviderTx, Commit(t), UNCHANGED <<backend, overlapped>>,
         legacy' = legacy, providers' \subseteq ProviderId, default' \subseteq providers',
         ~ overlapped /\ providers' # {} => \E d \in providers' : default' = {d}
  PROVE  ProvidersInv'
<1>1. providerReq' \in [Thread -> ProviderReqRec] /\ providerReq' = [providerReq EXCEPT ![t] = Idle]
  BY ProviderTxIs DEF Commit, ProvidersInv, ProvidersTypeOK
<1>2. ProvidersTypeOK'
  BY <1>1, ProviderTxIs DEF ProvidersInv, ProvidersTypeOK, ProviderReqRec
<1>3. InProviderTx' = InProviderTx \ {t}
  BY <1>1 DEF InProviderTx, ProvidersInv, ProvidersTypeOK
<1>4. ~ overlapped' => InProviderTx' = {}
  BY <1>3 DEF ProvidersInv, Alone
<1> QED
  BY <1>2, <1>4 DEF ProvidersInv, Alone

\* The rows as they are when no transaction has touched them.
LEMMA OpenTx ==
  ASSUME ProvidersInv, NEW t \in Thread, NEW pc \in {"count", "insert", "write", "remove"},
         At(providerReq, t, pc)
  PROVE  /\ t \in InProviderTx /\ providerReq[t] \in ProviderTx
         /\ Updated(t) \subseteq providers
         /\ ~ overlapped => /\ TrueTx(providerReq[t])
                            /\ providers # {} => \E d \in providers : default = {d}
<1>1. providerReq[t] \in ProviderReqRec /\ default \subseteq providers
  BY DEF ProvidersInv, ProvidersTypeOK
<1>2. providerReq[t] # Idle
  BY DEF At, Idle
<1>3. t \in InProviderTx /\ providerReq[t] \in ProviderTx
  BY <1>1, <1>2, ProviderTxIs DEF InProviderTx
<1> QED
  BY <1>1, <1>3 DEF Updated, ProvidersInv, Alone

LEMMA ProvidersStep == ProvidersInv /\ [ProvidersNext]_providerVars => ProvidersInv'
<1> SUFFICES ASSUME ProvidersInv, [ProvidersNext]_providerVars PROVE ProvidersInv'
  OBVIOUS
<1>0. /\ providers \subseteq ProviderId /\ default \subseteq providers
      /\ providerReq \in [Thread -> ProviderReqRec]
  BY DEF ProvidersInv, ProvidersTypeOK
<1>1. ASSUME NEW t \in Thread, NEW id \in ProviderId, NEW flag \in BOOLEAN,
             CreateProvider(t, id, flag)
      PROVE  ProvidersInv'
  <2> DEFINE c == IF flag THEN providers ELSE {}
             q == [pc |-> "count", id |-> id, flag |-> flag, cleared |-> c, promoted |-> {}]
  <2>1. c \in SUBSET ProviderId
    BY <1>0
  <2>2. Begin(t, "count", id, flag, c, {})
    BY <1>1 DEF CreateProvider
  <2>3. TrueTx(q)
    BY DEF TrueTx
  <2> HIDE DEF c
  <2>4. /\ q \in ProviderTx /\ q.pc = "count" /\ q.id = id /\ q.flag = flag /\ q.cleared = c
        /\ q.promoted = {}
    BY <2>1 DEF ProviderTx
  <2> HIDE DEF q
  <2> QED
    BY <2>2, <2>3, <2>4, TxBegins
<1>2. ASSUME NEW t \in Thread, NEW id \in ProviderId, NEW flag \in BOOLEAN,
             UpdateProvider(t, id, flag)
      PROVE  ProvidersInv'
  <2> DEFINE c == IF flag THEN providers ELSE {}
             f == (flag \/ id \in default)
             q == [pc |-> "write", id |-> id, flag |-> f, cleared |-> c, promoted |-> {}]
  <2>1. c \in SUBSET ProviderId /\ f \in BOOLEAN
    BY <1>0
  <2>2. Begin(t, "write", id, f, c, {}) /\ id \in providers
    BY <1>2 DEF UpdateProvider
  <2>3. \/ f /\ c = providers
        \/ (f <=> id \in default) /\ c = {}
    OBVIOUS
  <2> HIDE DEF c, f
  <2>4. /\ q \in ProviderTx /\ q.pc = "write" /\ q.id = id /\ q.flag = f /\ q.cleared = c
        /\ q.promoted = {}
    BY <2>1 DEF ProviderTx
  <2> HIDE DEF q
  <2>5. TrueTx(q)
    BY <2>2, <2>3, <2>4 DEF TrueTx
  <2> QED
    BY <2>2, <2>4, <2>5, TxBegins
<1>3. ASSUME NEW t \in Thread, NEW id \in ProviderId, DeleteProvider(t, id)
      PROVE  ProvidersInv'
  <2>1. PICK p \in SUBSET ProviderId :
          /\ Begin(t, "remove", id, FALSE, {}, p)
          /\ IF id \in default /\ providers # {id}
             THEN \E heir \in providers \ {id} : p = {heir}
             ELSE p = {}
    <3>1. CASE id \in default /\ providers # {id}
      <4>1. PICK heir \in providers \ {id} : Begin(t, "remove", id, FALSE, {}, {heir})
        BY <1>3, <3>1 DEF DeleteProvider
      <4>2. {heir} \in SUBSET ProviderId
        BY <1>0
      <4> QED
        BY <3>1, <4>1, <4>2
    <3>2. CASE ~ (id \in default /\ providers # {id})
      <4>1. Begin(t, "remove", id, FALSE, {}, {})
        BY <1>3, <3>2 DEF DeleteProvider
      <4> QED
        BY <3>2, <4>1
    <3> QED
      BY <3>1, <3>2
  <2> DEFINE q == [pc |-> "remove", id |-> id, flag |-> FALSE, cleared |-> {}, promoted |-> p]
  <2>2. /\ q \in ProviderTx /\ q.pc = "remove" /\ q.id = id /\ q.flag = FALSE
        /\ q.cleared = {} /\ q.promoted = p
    BY DEF ProviderTx
  <2> HIDE DEF q
  <2>3. id \in providers
    BY <1>3 DEF DeleteProvider
  <2>4. TrueTx(q)
    BY <2>1, <2>2, <2>3 DEF TrueTx
  <2> QED
    BY <2>1, <2>2, <2>4, TxBegins
<1>4. ASSUME NEW t \in Thread, NEW id \in ProviderId, MigrateLegacy(t, id)
      PROVE  ProvidersInv'
  <2> DEFINE q == [pc |-> "insert", id |-> id, flag |-> TRUE, cleared |-> {}, promoted |-> {}]
  <2>1. /\ q \in ProviderTx /\ q.pc = "insert" /\ q.id = id /\ q.flag = TRUE
        /\ q.cleared = {} /\ q.promoted = {}
    BY DEF ProviderTx
  <2> HIDE DEF q
  <2>2. TrueTx(q)
    BY <1>4, <2>1 DEF TrueTx, MigrateLegacy
  <2> QED
    BY <1>4, <2>1, <2>2, TxBegins DEF MigrateLegacy
<1>5. ASSUME NEW t \in Thread, CountProviders(t)
      PROVE  ProvidersInv'
  <2>1. /\ t \in InProviderTx /\ providerReq[t] \in ProviderTx /\ providerReq[t].pc = "count"
        /\ ~ overlapped => TrueTx(providerReq[t])
    BY <1>5, OpenTx DEF CountProviders, At
  <2> DEFINE f == (providerReq[t].flag \/ providers = {})
             q == [providerReq[t] EXCEPT !.pc = "insert", !.flag = f]
  <2>2. f \in BOOLEAN
    OBVIOUS
  <2>3. /\ providerReq' = [providerReq EXCEPT ![t] = q]
        /\ UNCHANGED <<backend, providers, default, legacy, overlapped>>
    BY <1>0, <1>5 DEF CountProviders
  <2>4. ~ overlapped =>
           /\ providerReq[t].promoted = {}
           /\ IF f THEN providerReq[t].cleared = providers
              ELSE providerReq[t].cleared = {} /\ providers # {}
    BY <2>1 DEF TrueTx
  <2> HIDE DEF f
  <2>5. /\ q \in ProviderTx /\ q.pc = "insert" /\ q.flag = f
        /\ q.cleared = providerReq[t].cleared /\ q.promoted = providerReq[t].promoted
    BY <2>1, <2>2 DEF ProviderTx
  <2> HIDE DEF q
  <2>6. q \in ProviderReqRec /\ q # Idle
    BY <2>5, ProviderTxIs
  <2>7. providerReq' \in [Thread -> ProviderReqRec] /\ InProviderTx' = InProviderTx
        /\ providerReq'[t] = q
    BY <1>0, <2>1, <2>3, <2>6 DEF InProviderTx
  <2>8. ProvidersTypeOK'
    BY <2>3, <2>7, ProviderTxIs DEF ProvidersInv, ProvidersTypeOK, ProviderReqRec
  <2>9. ~ overlapped => TrueTx(q)
    BY <2>4, <2>5 DEF TrueTx
  <2>10. ~ overlapped => TrueTx(providerReq[t])'
    BY <2>3, <2>7, <2>9 DEF TrueTx
  <2>11. Alone'
    BY <2>1, <2>3, <2>7, <2>10 DEF ProvidersInv, Alone
  <2> QED
    BY <2>8, <2>11 DEF ProvidersInv
<1>6. ASSUME NEW t \in Thread, InsertProvider(t)
      PROVE  ProvidersInv'
  <2> DEFINE q == providerReq[t]
  <2>1. /\ t \in InProviderTx /\ q \in ProviderTx /\ Updated(t) \subseteq providers
        /\ ~ overlapped => TrueTx(q) /\ (providers # {} => \E d \in providers : default = {d})
        /\ q.pc = "insert"
    BY <1>6, OpenTx DEF InsertProvider, At
  <2>2. /\ providers' = providers \union {q.id}
        /\ default' = Updated(t) \union (IF q.flag THEN {q.id} ELSE {})
        /\ Commit(t) /\ UNCHANGED <<backend, legacy, overlapped>>
    BY <1>6 DEF InsertProvider
  <2>3. q.id \in ProviderId
    BY <2>1 DEF ProviderTx
  <2>4. providers' \subseteq ProviderId /\ default' \subseteq providers'
    BY <1>0, <2>1, <2>2, <2>3
  <2>5. ASSUME ~ overlapped PROVE \E d \in providers' : default' = {d}
    <3>1. /\ q.promoted = {}
          /\ IF q.flag THEN q.cleared = providers ELSE q.cleared = {} /\ providers # {}
      BY <2>1, <2>5 DEF TrueTx
    <3>2. CASE q.flag
      <4>1. Updated(t) = {}
        BY <1>0, <3>1, <3>2 DEF Updated
      <4>2. default' = {q.id} /\ q.id \in providers'
        BY <2>2, <3>2, <4>1
      <4> QED
        BY <4>2
    <3>3. CASE ~ q.flag
      <4>1. Updated(t) = default /\ providers # {}
        BY <1>0, <3>1, <3>3 DEF Updated
      <4>2. PICK d \in providers : default = {d}
        BY <2>1, <2>5, <4>1
      <4>3. default' = {d} /\ d \in providers'
        BY <2>2, <3>3, <4>1, <4>2
      <4> QED
        BY <4>3
    <3> QED
      BY <3>2, <3>3
  <2> QED
    BY <2>1, <2>2, <2>4, <2>5, TxEnds
<1>7. ASSUME NEW t \in Thread, WriteProvider(t)
      PROVE  ProvidersInv'
  <2> DEFINE q == providerReq[t]
  <2>1. /\ t \in InProviderTx /\ q \in ProviderTx /\ Updated(t) \subseteq providers
        /\ ~ overlapped => TrueTx(q) /\ (providers # {} => \E d \in providers : default = {d})
        /\ q.pc = "write"
    BY <1>7, OpenTx DEF WriteProvider, At
  <2>2. /\ default' = IF q.flag THEN Updated(t) \union ({q.id} \intersect providers)
                      ELSE Updated(t) \ {q.id}
        /\ Commit(t) /\ UNCHANGED <<backend, providers, legacy, overlapped>>
    BY <1>7 DEF WriteProvider
  <2>3. default' \subseteq providers'
    BY <2>1, <2>2
  <2>4. ASSUME ~ overlapped, providers # {} PROVE \E d \in providers' : default' = {d}
    <3>1. /\ q.promoted = {} /\ q.id \in providers
          /\ \/ q.flag /\ q.cleared = providers
             \/ (q.flag <=> q.id \in default) /\ q.cleared = {}
      BY <2>1, <2>4 DEF TrueTx
    <3>2. CASE q.flag /\ q.cleared = providers
      <4>1. Updated(t) = {}
        BY <1>0, <3>1, <3>2 DEF Updated
      <4>2. default' = {q.id} /\ q.id \in providers'
        BY <2>2, <3>1, <3>2, <4>1
      <4> QED
        BY <4>2
    <3>3. CASE (q.flag <=> q.id \in default) /\ q.cleared = {}
      <4>1. Updated(t) = default
        BY <1>0, <3>1, <3>3 DEF Updated
      <4>2. default' = default
        BY <1>0, <2>2, <3>1, <3>3, <4>1
      <4> QED
        BY <2>1, <2>2, <2>4, <4>2
    <3> QED
      BY <3>1, <3>2, <3>3
  <2> QED
    BY <1>0, <2>1, <2>2, <2>3, <2>4, TxEnds
<1>8. ASSUME NEW t \in Thread, RemoveProvider(t)
      PROVE  ProvidersInv'
  <2> DEFINE q == providerReq[t]
  <2>1. /\ t \in InProviderTx /\ q \in ProviderTx /\ Updated(t) \subseteq providers
        /\ ~ overlapped => TrueTx(q) /\ (providers # {} => \E d \in providers : default = {d})
        /\ q.pc = "remove"
    BY <1>8, OpenTx DEF RemoveProvider, At
  <2>2. /\ providers' = providers \ {q.id} /\ default' = Updated(t) \ {q.id}
        /\ Commit(t) /\ UNCHANGED <<backend, legacy, overlapped>>
    BY <1>8 DEF RemoveProvider
  <2>3. providers' \subseteq ProviderId /\ default' \subseteq providers'
    BY <1>0, <2>1, <2>2
  <2>4. ASSUME ~ overlapped, providers' # {} PROVE \E d \in providers' : default' = {d}
    <3>1. /\ q.cleared = {} /\ q.id \in providers
          /\ IF q.id \in default /\ providers # {q.id}
             THEN \E heir \in providers \ {q.id} : q.promoted = {heir}
             ELSE q.promoted = {}
      BY <2>1, <2>4 DEF TrueTx
    <3>2. providers # {q.id}
      BY <2>2, <2>4
    <3>3. PICK d \in providers : default = {d}
      BY <2>1, <2>4, <3>1
    <3>4. CASE q.id \in default
      <4>1. PICK heir \in providers \ {q.id} : q.promoted = {heir}
        BY <3>1, <3>2, <3>4
      <4>2. Updated(t) = default \union {heir}
        BY <3>1, <4>1 DEF Updated
      <4>3. default' = {heir} /\ heir \in providers'
        BY <2>2, <3>3, <3>4, <4>1, <4>2
      <4> QED
        BY <4>3
    <3>5. CASE q.id \notin default
      <4>1. Updated(t) = default
        BY <3>1, <3>5 DEF Updated
      <4>2. default' = {d} /\ d \in providers'
        BY <2>2, <3>3, <3>5, <4>1
      <4> QED
        BY <4>2
    <3> QED
      BY <3>4, <3>5
  <2> QED
    BY <2>1, <2>2, <2>3, <2>4, TxEnds
<1>9. ASSUME NEW t \in Thread, RollBack(t)
      PROVE  ProvidersInv'
  <2>1. t \in InProviderTx /\ Commit(t)
        /\ UNCHANGED <<backend, providers, default, legacy, overlapped>>
    BY <1>9 DEF RollBack, InProviderTx
  <2>2. ~ overlapped /\ providers' # {} => \E d \in providers' : default' = {d}
    BY <2>1 DEF ProvidersInv, Alone
  <2> QED
    BY <1>0, <2>1, <2>2, TxEnds
<1>10. CASE SetLegacy \/ UNCHANGED providerVars
  <2>1. UNCHANGED <<backend, providers, default, providerReq, overlapped>> /\ legacy' \in BOOLEAN
    BY <1>10 DEF SetLegacy, providerVars, ProvidersInv, ProvidersTypeOK
  <2>2. ProvidersTypeOK'
    BY <2>1 DEF ProvidersInv, ProvidersTypeOK, ProviderReqRec
  <2>3. Alone'
    BY <2>1 DEF ProvidersInv, Alone, InProviderTx, TrueTx
  <2> QED
    BY <2>2, <2>3 DEF ProvidersInv
<1> QED
  BY <1>1, <1>2, <1>3, <1>4, <1>5, <1>6, <1>7, <1>8, <1>9, <1>10 DEF ProvidersNext

\* As long as no two transactions have overlapped, which they cannot on SQLite, there
\* is exactly one default whenever there are providers, whatever requests fail or end
\* the process on the way.
THEOREM OneDefaultKept == ProvidersSpec => [](ProvidersTypeOK /\ OneDefault)
<1>1. ProvidersInv => ProvidersTypeOK
  BY DEF ProvidersInv
<1>2. ProvidersInv => OneDefault
  <2> SUFFICES ASSUME ProvidersInv, ~ overlapped, providers # {}
               PROVE  Cardinality(default) = 1
    BY DEF OneDefault
  <2>1. PICK d \in providers : default = {d}
    BY DEF ProvidersInv, Alone
  <2> QED
    BY <2>1, FS_Singleton
<1> QED
  BY <1>1, <1>2, ProvidersInit1, ProvidersStep, PTL DEF ProvidersSpec

\* One write connection behind a lock: transactions do not overlap.
LEMMA SqliteStep ==
  ASSUME backend = "sqlite" => ~ overlapped, [ProvidersNext]_providerVars
  PROVE  (backend = "sqlite" => ~ overlapped)'
<1>1. ASSUME NEW t, NEW pc, NEW id, NEW flag, NEW c, NEW p, Begin(t, pc, id, flag, c, p)
      PROVE  (backend = "sqlite" => ~ overlapped)'
  BY <1>1 DEF Begin, MayOpen
<1>2. CASE \E t \in Thread, id \in ProviderId, flag \in BOOLEAN :
             CreateProvider(t, id, flag) \/ UpdateProvider(t, id, flag)
  BY <1>1, <1>2 DEF CreateProvider, UpdateProvider
<1>3. CASE \E t \in Thread, id \in ProviderId : DeleteProvider(t, id) \/ MigrateLegacy(t, id)
  BY <1>1, <1>3 DEF DeleteProvider, MigrateLegacy
<1>4. CASE UNCHANGED <<backend, overlapped>>
  BY <1>4
<1> QED
  BY <1>2, <1>3, <1>4
     DEF ProvidersNext, CountProviders, InsertProvider, WriteProvider, RemoveProvider, RollBack,
         SetLegacy, providerVars

\* On SQLite there is exactly one default whenever there are providers.
THEOREM OneDefaultOnSqlite ==
  ProvidersSpec => [](backend = "sqlite" /\ providers # {} => Cardinality(default) = 1)
<1>1. ProvidersInit => (backend = "sqlite" => ~ overlapped)
  BY DEF ProvidersInit
<1>2. OneDefault /\ (backend = "sqlite" => ~ overlapped) =>
        (backend = "sqlite" /\ providers # {} => Cardinality(default) = 1)
  BY DEF OneDefault
<1> QED
  BY <1>1, <1>2, SqliteStep, OneDefaultKept, PTL DEF ProvidersSpec

=============================================================================
