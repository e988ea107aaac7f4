----------------------------- MODULE RateLimit -------------------------------
(***************************************************************************)
(* The rate limit of backend/deps.py: a window of time stamps per client,  *)
(* in Redis when it answers and otherwise in buckets of the process, of    *)
(* which there is a bounded number.  A thread looks its bucket up before   *)
(* it takes the bucket's lock, and reads the clock in between.             *)
(*                                                                         *)
(* Buckets are numbered as they are made, which is the order in which the  *)
(* dict of the process lists them.                                         *)
(***************************************************************************)
EXTENDS Server, Sequences, FiniteSetsExt

CONSTANTS
  Client,        \* API keys and hosts
  RateWindow,    \* _RATE_WINDOW, in ticks
  RateLimit,     \* _RATE_LIMIT
  MaxRateKeys,   \* _MAX_RATE_KEYS
  RateTrim,      \* a tenth of it
  RateHorizon,   \* bound: the last instant of the clock
  MaxRateRequests  \* bound: requests checked, and so buckets made

ASSUME RateLimitAssumption ==
  /\ IsFiniteSet(Client)
  /\ {RateWindow, RateLimit, MaxRateKeys} \subseteq Nat \ {0}
  /\ RateTrim \in 1..MaxRateKeys
  /\ {RateHorizon, MaxRateRequests} \subseteq Nat

VARIABLES
  shared,     \* the sorted sets of Redis
  owner,      \* the clients the buckets made were made for, oldest first
  listed,     \* the buckets in _rate_buckets
  times,      \* timestamps of every bucket, also of those no longer listed
  rateTime,   \* the clock
  rateReq,    \* the threads
  rateAsked,  \* requests so far
  passed,     \* history: requests of each client that Redis let pass
  granted,    \* history: requests that each bucket let pass
  forgotten   \* history: how often a client's bucket was dropped from the table

rateVars ==
  <<shared, owner, listed, times, rateTime, rateReq, rateAsked, passed, granted,
    forgotten>>

RateTime == 0..RateHorizon

Bucket == 1..MaxRateRequests

\* Bound: the requests in a window, with those that are refused.
Member == 1..(RateLimit + 1)

RateRequest ==
  {Idle}
    \union [pc: {"pipe"}, client: Client, since: RateTime]
    \union [pc: {"find", "make"}, client: Client]
    \union [pc: {"append"}, bucket: Bucket, since: RateTime]

RateTypeOK ==
  /\ shared \in [Client -> SUBSET [member: Member, at: RateTime]]
  /\ owner \in Seq(Client) /\ Len(owner) <= MaxRateRequests
  /\ listed \subseteq DOMAIN owner
  /\ Cardinality(listed) <= MaxRateKeys
  /\ times \in [Bucket -> Seq(RateTime)]
  /\ rateTime \in RateTime
  /\ rateReq \in [Thread -> RateRequest]
  /\ rateAsked \in 0..MaxRateRequests
  /\ passed \in [Client -> Seq(RateTime)]
  /\ granted \in [Bucket -> Seq(RateTime)]
  /\ forgotten \in [Client -> Nat]

RateInit ==
  /\ shared = [c \in Client |-> {}]
  /\ owner = <<>>
  /\ listed = {}
  /\ times = [b \in Bucket |-> <<>>]
  /\ rateTime = 0
  /\ rateReq = [t \in Thread |-> Idle]
  /\ rateAsked = 0
  /\ passed = [c \in Client |-> <<>>]
  /\ granted = [b \in Bucket |-> <<>>]
  /\ forgotten = [c \in Client |-> 0]

-----------------------------------------------------------------------------

\* A history keeps the requests that were stamped when they were counted.  One
\* that the clock overtook on its way to the counter carries an older stamp.
Note(history, now) == IF now = rateTime THEN Append(history, now) ELSE history

RateArrive(t, c) ==
  /\ rateReq[t] = Idle
  /\ rateAsked < MaxRateRequests
  /\ rateAsked' = rateAsked + 1
  /\ rateReq' = [rateReq EXCEPT ![t] =
       [pc |-> "pipe", client |-> c, since |-> rateTime]]
  /\ UNCHANGED <<shared, owner, listed, times, rateTime, passed, granted, forgotten>>

Members(set) == {e.member : e \in set}

\* One pipeline: a request that is refused is in the count as well.  It may be
\* executed and its answer be lost.  The name of a member is a new one.
RunPipeline(t) ==
  LET c == rateReq[t].client IN
  /\ At(rateReq, t, "pipe")
  /\ \E now \in rateReq[t].since..rateTime, m \in Member :
       LET kept == {e \in shared[c] : e.at + RateWindow > now}
           set == kept \union {[member |-> m, at |-> now]}
       IN
       /\ m \notin Members(kept) /\ 1..(m - 1) \subseteq Members(kept)
       /\ shared' = [shared EXCEPT ![c] = set]
       /\ \/ /\ rateReq' = [rateReq EXCEPT ![t] = Idle]
             /\ passed' = [passed EXCEPT ![c] =
                  IF Cardinality(set) <= RateLimit THEN Note(@, now) ELSE @]
          \/ /\ rateReq' = [rateReq EXCEPT ![t] = [pc |-> "find", client |-> c]]
             /\ UNCHANGED passed
  /\ UNCHANGED <<owner, listed, times, rateTime, rateAsked, granted, forgotten>>

ListedFor(c) == {b \in listed : owner[b] = c}

UseBucket(t, b) ==
  rateReq' = [rateReq EXCEPT ![t] =
                [pc |-> "append", bucket |-> b, since |-> rateTime]]

\* There is no Redis, the pipeline raised, or its answer was lost.
FindBucket(t) ==
  LET c == rateReq[t].client IN
  /\ rateReq[t].pc \in {"pipe", "find"}
  /\ IF ListedFor(c) = {}
     THEN rateReq' = [rateReq EXCEPT ![t] = [pc |-> "make", client |-> c]]
     ELSE \E b \in ListedFor(c) : UseBucket(t, b)
  /\ UNCHANGED <<shared, owner, listed, times, rateTime, rateAsked, passed, granted,
                 forgotten>>

\* The deque drops from its left what is before the window that ends now.
Recent(q, now) ==
  LET fresh == {i \in DOMAIN q : q[i] + RateWindow >= now} IN
  IF fresh = {} THEN <<>> ELSE SubSeq(q, Min(fresh), Len(q))

TableFull == Cardinality(listed) >= MaxRateKeys

\* When the table is full: first the buckets that have run empty go ...
Swept == {b \in listed : Recent(times[b], rateTime) # <<>>}

\* ... and then, if it is full still, the oldest tenth of it.
Trimmed ==
  IF ~TableFull THEN listed
  ELSE IF Cardinality(Swept) < MaxRateKeys THEN Swept
  ELSE {b \in Swept : Cardinality({d \in Swept : d < b}) >= RateTrim}

\* Faulty: the second look spares the trimming only; the bucket that another thread
\* has just made is replaced.
MakeBucketBlind(t) ==
  LET c == rateReq[t].client
      b == Len(owner) + 1
      kept == IF ListedFor(c) = {} THEN Trimmed ELSE listed \ ListedFor(c)
  IN
  /\ At(rateReq, t, "make")
  /\ b <= MaxRateRequests
  /\ owner' = Append(owner, c)
  /\ listed' = kept \union {b}
  /\ forgotten' = [x \in Client |->
       IF x = c \/ ListedFor(x) \subseteq kept THEN forgotten[x] ELSE forgotten[x] + 1]
  /\ UseBucket(t, b)
  /\ UNCHANGED <<shared, times, rateTime, rateAsked, passed, granted>>

\* Under _rate_meta_lock, with the second look at the table.
MakeBucket(t) ==
  LET c == rateReq[t].client
      b == Len(owner) + 1
  IN
  /\ At(rateReq, t, "make")
  /\ IF ListedFor(c) # {}
     THEN /\ \E d \in ListedFor(c) : UseBucket(t, d)
          /\ UNCHANGED <<owner, listed, times, forgotten>>
     ELSE /\ b <= MaxRateRequests
          /\ owner' = Append(owner, c)
          /\ listed' = Trimmed \union {b}
          /\ times' = [d \in Bucket |->
               IF TableFull /\ d \in listed
               THEN Recent(times[d], rateTime) ELSE times[d]]
          /\ forgotten' = [x \in Client |->
               IF ListedFor(x) \subseteq Trimmed THEN forgotten[x] ELSE forgotten[x] + 1]
          /\ UseBucket(t, b)
  /\ UNCHANGED <<shared, rateTime, rateAsked, passed, granted>>

\* Under the bucket's lock, whether it is still in the table or not.
AppendStamp(t) ==
  LET b == rateReq[t].bucket IN
  /\ At(rateReq, t, "append")
  /\ \E now \in rateReq[t].since..rateTime :
       LET recent == Recent(times[b], now) IN
       IF Len(recent) >= RateLimit
       THEN times' = [times EXCEPT ![b] = recent] /\ UNCHANGED granted
       ELSE /\ times' = [times EXCEPT ![b] = Append(recent, now)]
            /\ granted' = [granted EXCEPT ![b] = Note(@, now)]
  /\ rateReq' = [rateReq EXCEPT ![t] = Idle]
  /\ UNCHANGED <<shared, owner, listed, rateTime, rateAsked, passed, forgotten>>

RateTick ==
  /\ rateTime < RateHorizon
  /\ rateTime' = rateTime + 1
  /\ UNCHANGED <<shared, owner, listed, times, rateReq, rateAsked, passed, granted,
                 forgotten>>

RateStep(t) ==
  \/ \E c \in Client : RateArrive(t, c)
  \/ RunPipeline(t)
  \/ FindBucket(t)
  \/ MakeBucket(t)
  \/ AppendStamp(t)

RateNext == (\E t \in Thread : RateStep(t)) \/ RateTick

RateSpec == RateInit /\ [][RateNext]_rateVars

-----------------------------------------------------------------------------

\* The requests of a history that fall in the window that ends at an instant.
InWindow(history, end) ==
  {i \in DOMAIN history : history[i] <= end /\ history[i] + RateWindow > end}

MadeFor(c) == {b \in DOMAIN owner : owner[b] = c}

\* In no window does a client get more than RATE_LIMIT requests past Redis, nor past
\* the process, save for as many again each time its bucket was dropped from the
\* table: a bucket that is swept or trimmed while a thread is about to use it still
\* counts that thread's request, and two threads never make it a bucket each.
RateBounded ==
  \A c \in Client : \A end \in RateTime :
    /\ Cardinality(InWindow(passed[c], end)) <= RateLimit
    /\ Cardinality(UNION {{b} \X InWindow(granted[b], end) : b \in MadeFor(c)})
         <= RateLimit * (1 + forgotten[c])
=============================================================================
