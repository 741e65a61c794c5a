---------------------------- MODULE RateLimiter ----------------------------
(***************************************************************************)
(* The token buckets of the admin API (admin_api/rate_limiter.py) for one  *)
(* tenant, as require_tenant in admin_api/app.py uses them: requests on    *)
(* several threads fetch or create the tenant's bucket and take a token.   *)
(* The clock is time.time(): it may also be set back.                      *)
(***************************************************************************)
EXTENDS Integers

CONSTANTS Clients,
          Capacities,   \* the default capacity and those of set_limits
          Rates,        \* tokens per unit of time
          DefaultCapacity, DefaultRate,
          MaxTime,      \* bounds of the model
          MaxBuckets,
          MaxGrants

ASSUME LimiterAssumption ==
  /\ Capacities \subseteq Nat /\ DefaultCapacity \in Capacities
  /\ Rates \subseteq Nat /\ DefaultRate \in Rates
  /\ 0 \notin Clients
  /\ MaxTime \in Nat /\ MaxBuckets \in Nat /\ MaxGrants \in Nat

VARIABLES time,
          buckets,      \* how many were made; they are 1..buckets
          bucket,       \* the buckets
          current,      \* the tenant's entry in the dictionary, 0 if none
          limiterLock,  \* the thread that holds RateLimiter.lock, or 0
          tpc, held,    \* per thread: where it is, and the bucket it fetched
          limitsSet     \* history: calls of set_limits

limiterVars == <<time, buckets, bucket, current, limiterLock, tpc, held, limitsSet>>

\* History of a bucket: when a window of observation opened, and how many
\* tokens were granted since.
NewBucket(c, r) == [capacity |-> c, rate |-> r, tokens |-> c, last |-> time,
                    opened |-> time, granted |-> 0]

LimiterInit ==
  /\ time \in 0..MaxTime
  /\ buckets = 0 /\ bucket = [b \in {} |-> 0] /\ current = 0
  /\ limiterLock = 0
  /\ tpc = [t \in Clients |-> "idle"] /\ held = [t \in Clients |-> 0]
  /\ limitsSet = 0

TGoto(t, from, to) == tpc[t] = from /\ tpc' = [tpc EXCEPT ![t] = to]

\* The clock runs, or is set.
ClockMoves ==
  /\ time' \in 0..MaxTime
  /\ UNCHANGED <<buckets, bucket, current, limiterLock, tpc, held, limitsSet>>

\* get_bucket looks before it takes the lock, and again under the lock.
Look(t) ==
  /\ TGoto(t, "idle", IF current = 0 THEN "lock" ELSE "fetch")
  /\ UNCHANGED <<time, buckets, bucket, current, limiterLock, held, limitsSet>>

AcquireToCreate(t) ==
  /\ TGoto(t, "lock", "create")
  /\ limiterLock = 0 /\ limiterLock' = t
  /\ UNCHANGED <<time, buckets, bucket, current, held, limitsSet>>

Make(c, r) ==
  /\ buckets < MaxBuckets
  /\ buckets' = buckets + 1
  /\ bucket' = [b \in 1..buckets' |-> IF b = buckets' THEN NewBucket(c, r) ELSE bucket[b]]
  /\ current' = buckets'

CreateAlways(t) ==
  /\ TGoto(t, "create", "fetch")
  /\ Make(DefaultCapacity, DefaultRate)
  /\ limiterLock' = 0
  /\ UNCHANGED <<time, held, limitsSet>>
Create(t) ==
  /\ TGoto(t, "create", "fetch")
  /\ IF current = 0 THEN Make(DefaultCapacity, DefaultRate)
                    ELSE UNCHANGED <<buckets, bucket, current>>
  /\ limiterLock' = 0
  /\ UNCHANGED <<time, held, limitsSet>>

\* return self.buckets[tenant_id], outside the lock.
Fetch(t) ==
  /\ TGoto(t, "fetch", "allow")
  /\ held' = [held EXCEPT ![t] = current]
  /\ UNCHANGED <<time, buckets, bucket, current, limiterLock, limitsSet>>

Smaller(a, b) == IF a <= b THEN a ELSE b
RefilledUncapped(b) == b.tokens + (time - b.last) * b.rate
Refilled(b) == Smaller(b.capacity, b.tokens + (time - b.last) * b.rate)

\* TokenBucket.allow(1), under the bucket's lock.  The window of observation
\* may open again with any call.
Allowed(b, reopened) ==
  LET ok == Refilled(b) >= 1
      since == IF reopened THEN 0 ELSE b.granted
  IN [b EXCEPT !.tokens = IF ok THEN Refilled(b) - 1 ELSE Refilled(b),
               !.last = time,
               !.opened = IF reopened THEN time ELSE @,
               !.granted = IF ok THEN since + 1 ELSE since]

Allow(t) ==
  /\ TGoto(t, "allow", "idle")
  /\ \E reopened \in BOOLEAN :
       bucket' = [bucket EXCEPT ![held[t]] = Allowed(@, reopened)]
  /\ bucket'[held[t]].granted <= MaxGrants
  /\ held' = [held EXCEPT ![t] = 0]
  /\ UNCHANGED <<time, buckets, current, limiterLock, limitsSet>>

\* set_limits replaces the bucket; requests that fetched the old one go on
\* with it.
SetLimits(c, r) ==
  /\ limiterLock = 0
  /\ Make(c, r)
  /\ limitsSet' = limitsSet + 1
  /\ UNCHANGED <<time, limiterLock, tpc, held>>

LimiterNext ==
  \/ ClockMoves
  \/ \E t \in Clients : Look(t) \/ AcquireToCreate(t) \/ Create(t) \/ Fetch(t) \/ Allow(t)
  \/ \E c \in Capacities, r \in Rates : SetLimits(c, r)

LimiterSpec == LimiterInit /\ [][LimiterNext]_limiterVars

-----------------------------------------------------------------------------
(* Properties.                                                             *)

\* From any call of allow on, a bucket grants no more tokens than it can hold
\* plus what it has gained since, however the clock is set meanwhile.
GrantsWithinRate ==
  \A b \in 1..buckets :
    bucket[b].granted + bucket[b].tokens
      <= bucket[b].capacity + bucket[b].rate * (bucket[b].last - bucket[b].opened)

\* Concurrent first requests share one bucket: apart from set_limits, a tenant
\* gets only one, and with it one budget.
OneBucket == buckets <= 1 + limitsSet
=============================================================================
