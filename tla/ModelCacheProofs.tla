------------------------- MODULE ModelCacheProofs -------------------------
(***************************************************************************)
(* Theorems about ModelCache, for every set of keys, requests and          *)
(* evictors, every capacity and either setting of the memory guard.        *)
(***************************************************************************)
EXTENDS ModelCache, FiniteSetTheorems, TLAPS

\* TypeOK is not inductive by itself: the future a waiter awaits and the victim
\* a clean-up strips must be there.  And a task's key is that of its name.
TypeInv ==
    /\ TypeOK
    /\ \A t \in Tasks :
         /\ arg[t] = IF asked[t] = None THEN None ELSE KeyOf[asked[t]]
         /\ pc[t] = "waiting" => joined[t] \in Tasks
         /\ pc[t] = "cleanup" => victim[t] \in Tasks
         /\ pc[t] \in {"called", "loading", "waiting"} => arg[t] \in Keys

LEMMA StoreType ==
    ASSUME TypeOK, NEW k, NEW e \in Entries, NEW v \in Keys \cup {None},
           Store(k, e, v)
    PROVE  /\ hard' \in [Keys -> Entries]
           /\ k \in Keys => older' \subseteq Keys \X Keys
           /\ soft' \in [Keys -> Entries]
           /\ v # None => EvictedEntry(v) \in Tasks
           /\ v = None => EvictedEntry(v) = None
  <1> USE CacheAssumption DEF TypeOK, Entries
  <1>1. Cached \subseteq Keys
    BY DEF Cached
  <1>2. CASE ~OverCapacity(Cached \cup {k})
    BY <1>1, <1>2 DEF Store, MoveToEnd, EvictedEntry
  <1>3. CASE OverCapacity(Cached \cup {k})
    <2>1. v \in Cached
      BY <1>3 DEF Store, IsLru
    <2>2. v \in Keys /\ v # None /\ hard[v] \in Tasks
      BY <2>1 DEF Cached
    <2> QED
      BY <1>1, <1>3, <2>2 DEF Store, MoveToEnd, EvictedEntry
  <1> QED
    BY <1>2, <1>3

\* What peek and the soft cache yield is an entry or None.
LEMMA PeekType ==
    ASSUME TypeOK, NEW k \in Keys
    PROVE  SoftGet(k) \in Entries /\ Peek(k) \in Entries
  BY DEF TypeOK, SoftGet, Peek, Entries

LEMMA ResolveType ==
    ASSUME TypeOK, NEW k, NEW r \in Entries \cup {Failed}, ResolveInflight(k, r)
    PROVE  /\ inflight' \in [Keys -> Entries]
           /\ fut' \in [Tasks -> Entries \cup {Failed}]
  BY DEF TypeOK, ResolveInflight, Entries

\* What the users of the cache, on its own or in the service, may do to it:
\* call get_or_load for a key of their own, go on with a call, ...
CallUse ==
    \/ \E t \in Tasks, n \in Names :
         arg[t] = None /\ \E p \in {None, Peek(KeyOf[n])} : Request(t, n, p)
    \/ \E t \in Tasks :
         pc[t] \in {"called", "evicted"} /\ arg[t] \in Keys /\ GetOrLoad(t, arg[t])
    \/ \E t \in Tasks : LoadSucceeds(t) \/ LoadFails(t) \/ WakeUp(t) \/ Predict(t)
    \/ \E t \in Tasks : CleanupEntry(t) \/ CleanupReturns(t)
    \/ UNCHANGED cacheVars

\* ... or evict the model they work on.
EvictUse(t, n) == asked[t] \in {None, n} /\ Evict(t, n)

CacheUse == CallUse \/ \E t \in Tasks, n \in Names : EvictUse(t, n)

\* Who has not begun works on no key.
IdleUnused == \A t \in Tasks : pc[t] = "idle" => arg[t] = None

\* The cache on its own is used like that.
LEMMA NextIsUse ==
    ASSUME TypeInv, IdleUnused, [CacheNext]_cacheVars
    PROVE  CacheUse /\ (Evictors = {} => CallUse)
  <1> USE DEF CacheUse, CallUse
  <1>1. ASSUME NEW t \in Callers, CallerStep(t)
        PROVE  CallUse
    <2>1. t \in Tasks
      BY DEF Tasks
    <2>2. ASSUME NEW n \in Names, NEW p \in {None, Peek(KeyOf[n])}, Request(t, n, p)
          PROVE  CallUse
      <3>1. arg[t] = None
        BY <2>1, <2>2 DEF Request, IdleUnused
      <3> QED
        BY <2>1, <2>2, <3>1
    <2>3. CASE pc[t] = "called" /\ GetOrLoad(t, arg[t])
      BY <2>1, <2>3 DEF TypeInv
    <2> QED
      BY <1>1, <2>1, <2>2, <2>3 DEF CallerStep
  <1>2. ASSUME NEW t \in Evictors, EvictorStep(t)
        PROVE  CacheUse
    <2>1. t \in Tasks
      BY DEF Tasks
    <2>2. CASE pc[t] = "idle" /\ \E n \in Names : Evict(t, n)
      <3>1. asked[t] = None
        BY <2>1, <2>2, CacheAssumption DEF IdleUnused, TypeInv, TypeOK
      <3> QED
        BY <2>1, <2>2, <3>1 DEF EvictUse
    <2> QED
      BY <1>2, <2>1, <2>2 DEF EvictorStep
  <1>3. CASE UNCHANGED cacheVars
    BY <1>3
  <1> QED
    BY <1>1, <1>2, <1>3 DEF CacheNext

LEMMA IdleStep == TypeInv /\ IdleUnused /\ [CacheNext]_cacheVars => IdleUnused'
  <1> SUFFICES ASSUME TypeInv, IdleUnused, CacheUse PROVE IdleUnused'
    BY NextIsUse
  <1> USE DEF TypeInv, TypeOK, IdleUnused
  <1>2. ASSUME NEW t \in Tasks, NEW n \in Names, NEW p, Request(t, n, p)
        PROVE  IdleUnused'
    BY <1>2 DEF Request, Ask
  <1>3. ASSUME NEW t \in Tasks, GetOrLoad(t, arg[t])
        PROVE  IdleUnused'
    BY <1>3 DEF GetOrLoad, Hit, Promote, Join, BeginLoad, RefuseLoad
  <1>4. ASSUME NEW t \in Tasks,
               \/ LoadSucceeds(t) \/ LoadFails(t) \/ WakeUp(t) \/ Predict(t)
               \/ CleanupEntry(t) \/ CleanupReturns(t)
        PROVE  IdleUnused'
    BY <1>4 DEF LoadSucceeds, LoadFails, WakeUp, Predict, CleanupEntry, CleanupReturns
  <1>5. ASSUME NEW t \in Tasks, NEW n \in Names, Evict(t, n)
        PROVE  IdleUnused'
    BY <1>5 DEF Evict, Ask
  <1>6. CASE UNCHANGED cacheVars
    BY <1>6 DEF cacheVars
  <1> QED
    BY <1>2, <1>3, <1>4, <1>5, <1>6 DEF CacheUse, CallUse, EvictUse

LEMMA TypeStep == TypeInv /\ CacheUse => TypeInv'
  <1> SUFFICES ASSUME TypeInv, CacheUse
               PROVE  TypeInv'
    OBVIOUS
  <1> USE CacheAssumption DEF TypeInv, TypeOK, Entries, PcValues
  <1>1. ASSUME NEW t \in Tasks, NEW n \in Names, NEW p \in Entries,
               Request(t, n, p)
        PROVE  TypeInv'
    BY <1>1 DEF Request, Ask
  <1>2. ASSUME NEW t \in Tasks, arg[t] \in Keys, GetOrLoad(t, arg[t])
        PROVE  TypeInv'
    <2> DEFINE k == arg[t]
    <2>k. k \in Keys
      BY <1>2
    <2>1. CASE Hit(t, k)
      <3>1. older' \subseteq Keys \X Keys
        BY <2>1, <2>k DEF Hit, MoveToEnd, Cached
      <3> QED
        BY <2>1, <2>k, <3>1 DEF Hit
    <2>2. CASE Promote(t, k)
      <3>1. PICK v \in Keys \cup {None} : Store(k, SoftGet(k), v)
        BY <2>2 DEF Promote
      <3>2. SoftGet(k) \in Entries
        BY <2>k, PeekType
      <3>3. /\ hard' \in [Keys -> Entries]
            /\ older' \subseteq Keys \X Keys
            /\ soft' \in [Keys -> Entries]
        BY <2>k, <3>1, <3>2, StoreType
      <3> QED
        BY <2>2, <3>2, <3>3 DEF Promote
    <2>3. CASE Join(t, k)
      BY <2>3, <2>k DEF Join
    <2>4. CASE BeginLoad(t, k)
      BY <2>4, <2>k DEF BeginLoad
    <2>5. CASE RefuseLoad(t, k)
      BY <2>5, <2>k DEF RefuseLoad
    <2> QED
      BY <1>2, <2>1, <2>2, <2>3, <2>4, <2>5 DEF GetOrLoad
  <1>3. ASSUME NEW t \in Tasks, LoadSucceeds(t)
        PROVE  TypeInv'
    <2> DEFINE k == arg[t]
    <2>k. k \in Keys
      BY <1>3 DEF LoadSucceeds
    <2>1. PICK v \in Keys \cup {None} :
            /\ Store(k, t, v)
            /\ victim' = [victim EXCEPT ![t] = EvictedEntry(v)]
            /\ pc' = [pc EXCEPT ![t] = IF v = None THEN "ready" ELSE "cleanup"]
      BY <1>3 DEF LoadSucceeds
    <2>2. /\ hard' \in [Keys -> Entries]
          /\ older' \subseteq Keys \X Keys
          /\ soft' \in [Keys -> Entries]
          /\ v # None => EvictedEntry(v) \in Tasks
          /\ v = None => EvictedEntry(v) = None
      BY <2>k, <2>1, StoreType
    <2>3. /\ inflight' \in [Keys -> Entries]
          /\ fut' \in [Tasks -> Entries \cup {Failed}]
      <3>1. ResolveInflight(k, t)
        BY <1>3 DEF LoadSucceeds
      <3> QED
        BY <3>1, ResolveType
    <2>4. /\ got' = [got EXCEPT ![t] = t]
          /\ UNCHANGED <<asked, arg, pinned, joined, gutted>>
      BY <1>3 DEF LoadSucceeds
    <2>5. TypeOK'
      BY <2>1, <2>2, <2>3, <2>4
    <2> QED
      BY <2>1, <2>2, <2>4, <2>5
  <1>4. ASSUME NEW t \in Tasks, LoadFails(t)
        PROVE  TypeInv'
    <2>1. /\ inflight' \in [Keys -> Entries]
          /\ fut' \in [Tasks -> Entries \cup {Failed}]
      BY <1>4, ResolveType DEF LoadFails
    <2> QED
      BY <1>4, <2>1 DEF LoadFails
  <1>5. ASSUME NEW t \in Tasks, WakeUp(t)
        PROVE  TypeInv'
    BY <1>5 DEF WakeUp
  <1>6. ASSUME NEW t \in Tasks, Predict(t)
        PROVE  TypeInv'
    BY <1>6 DEF Predict
  <1>7. ASSUME NEW t \in Tasks, CleanupEntry(t)
        PROVE  TypeInv'
    BY <1>7 DEF CleanupEntry
  <1>8. ASSUME NEW t \in Tasks, CleanupReturns(t)
        PROVE  TypeInv'
    BY <1>8 DEF CleanupReturns
  <1>9. ASSUME NEW t \in Tasks, NEW n \in Names, Evict(t, n)
        PROVE  TypeInv'
    BY <1>9 DEF Evict, Ask, Cached
  <1>10. CASE UNCHANGED cacheVars
    BY <1>10 DEF cacheVars
  <1>11. ASSUME NEW n \in Names, NEW p \in {None, Peek(KeyOf[n])}
         PROVE  p \in Entries
    BY <1>11, PeekType
  <1> QED
    BY <1>1, <1>2, <1>3, <1>4, <1>5, <1>6, <1>7, <1>8, <1>9, <1>10, <1>11
    DEF CacheUse, CallUse, EvictUse

LEMMA CacheTypeInit == CacheInit => TypeInv /\ IdleUnused
  BY CacheAssumption DEF CacheInit, TypeInv, TypeOK, Entries, PcValues, IdleUnused

\* Both always hold, and so the cache on its own makes no step but its uses.
LEMMA CacheUsed == CacheSpec => [](TypeInv /\ IdleUnused)
  <1>1. TypeInv /\ IdleUnused /\ [CacheNext]_cacheVars => (TypeInv /\ IdleUnused)'
    BY NextIsUse, TypeStep, IdleStep
  <1> QED
    BY <1>1, CacheTypeInit, PTL DEF CacheSpec

\* The variables keep their types in every reachable state: in particular a
\* waiter always has a future to await and a clean-up always has an entry.
THEOREM TypeCorrect == CacheSpec => []TypeOK
  <1>1. TypeInv => TypeOK
    BY DEF TypeInv
  <1> QED
    BY <1>1, CacheUsed, PTL

----------------------------------------------------------------------------
(* Capacity *)

\* Which keys are cached after _cache[k] = e and _maybe_evict_lru().
LEMMA StoreCached ==
    ASSUME TypeOK, NEW k \in Keys, NEW e \in Tasks, NEW v \in Keys \cup {None},
           Store(k, e, v)
    PROVE  \/ /\ Cached' = Cached \cup {k}
              /\ ~OverCapacity(Cached')
           \/ /\ v \in Cached \ {k}
              /\ Cached' = (Cached \cup {k}) \ {v}
  <1> USE CacheAssumption DEF TypeOK
  <1>1. e # None
    OBVIOUS
  <1>2. CASE ~OverCapacity(Cached \cup {k})
    <2>1. hard' = [hard EXCEPT ![k] = e]
      BY <1>2 DEF Store
    <2>2. Cached' = Cached \cup {k}
      BY <1>1, <2>1 DEF Cached
    <2> QED
      BY <1>2, <2>2 DEF OverCapacity
  <1>3. CASE OverCapacity(Cached \cup {k})
    <2>1. v \in Cached \ {k} /\ hard' = [hard EXCEPT ![k] = e, ![v] = None]
      BY <1>3 DEF Store, IsLru
    <2>2. Cached' = (Cached \cup {k}) \ {v}
      BY <1>1, <2>1 DEF Cached
    <2> QED
      BY <2>1, <2>2
  <1> QED
    BY <1>2, <1>3

LEMMA KeysFinite ==
    ASSUME NEW C \in SUBSET Keys
    PROVE  IsFiniteSet(C) /\ Cardinality(C) \in Nat
  BY CacheAssumption, FS_Subset, FS_CardinalityType

\* An insertion keeps the cache within its capacity if it was within it.
LEMMA StoreCapacity ==
    ASSUME TypeOK, TypeOK', CapacityBound,
           NEW k \in Keys, NEW e \in Tasks, NEW v \in Keys \cup {None},
           Store(k, e, v)
    PROVE  CapacityBound'
  <1> USE CacheAssumption DEF CapacityBound
  <1>1. Cached \subseteq Keys /\ Cached' \subseteq Keys
    BY DEF Cached
  <1>4. Cardinality(Cached') \in Nat
    BY <1>1, KeysFinite
  <1>2. CASE ~OverCapacity(Cached')
    BY <1>4, <1>2 DEF OverCapacity
  <1>3. CASE v \in Cached \ {k} /\ Cached' = (Cached \cup {k}) \ {v}
    <2>1. IsFiniteSet(Cached) /\ Cardinality(Cached) \in Nat
      BY <1>1, KeysFinite
    <2>2. /\ IsFiniteSet(Cached \cup {k})
          /\ Cardinality(Cached \cup {k}) \in Nat
      BY <1>1, KeysFinite, Cached \cup {k} \subseteq Keys
    <2>3. Cardinality(Cached \cup {k}) <= Cardinality(Cached) + 1
      <3>1. Cardinality(Cached \cup {k}) =
              IF k \in Cached THEN Cardinality(Cached) ELSE Cardinality(Cached) + 1
        BY <2>1, FS_AddElement
      <3> QED
        BY <2>1, <3>1
    <2>4. Cardinality((Cached \cup {k}) \ {v}) = Cardinality(Cached \cup {k}) - 1
      BY <1>3, <2>2, FS_RemoveElement
    <2> QED
      BY <1>3, <1>4, <2>1, <2>2, <2>3, <2>4
  <1> QED
    BY <1>2, <1>3, StoreCached

\* How each step of the system changes the set of cached keys and their order:
\* not at all, by a hit, by an insertion or by a manual eviction.
LEMMA CachedStep ==
    ASSUME TypeInv, CacheUse
    PROVE  \/ UNCHANGED <<hard, older>>
           \/ \E k \in Cached : older' = MoveToEnd(k, Cached) /\ UNCHANGED hard
           \/ \E k \in Keys, e \in Tasks, v \in Keys \cup {None} : Store(k, e, v)
           \/ \E k \in Keys :
                /\ hard' = [hard EXCEPT ![k] = None]
                /\ older' = older \cap ((Cached \ {k}) \X (Cached \ {k}))
  <1> DEFINE Goal ==
           \/ UNCHANGED <<hard, older>>
           \/ \E k \in Cached : older' = MoveToEnd(k, Cached) /\ UNCHANGED hard
           \/ \E k \in Keys, e \in Tasks, v \in Keys \cup {None} : Store(k, e, v)
           \/ \E k \in Keys :
                /\ hard' = [hard EXCEPT ![k] = None]
                /\ older' = older \cap ((Cached \ {k}) \X (Cached \ {k}))
  <1>1. ASSUME NEW t \in Tasks, arg[t] \in Keys, GetOrLoad(t, arg[t])
        PROVE  Goal
    <2>k. arg[t] \in Keys
      BY <1>1
    <2>1. CASE Hit(t, arg[t])
      BY <2>1, <2>k DEF Hit, Cached
    <2>2. CASE Promote(t, arg[t])
      <3>1. SoftGet(arg[t]) \in Tasks
        BY <2>2, <2>k, PeekType DEF Promote, Entries, TypeInv
      <3> QED
        BY <2>2, <2>k, <3>1 DEF Promote
    <2> QED
      BY <1>1, <2>1, <2>2 DEF GetOrLoad, Join, BeginLoad, RefuseLoad
  <1>2. ASSUME NEW t \in Tasks, LoadSucceeds(t)
        PROVE  Goal
    BY <1>2 DEF LoadSucceeds, TypeInv
  <1>3. ASSUME NEW t \in Tasks, NEW n \in Names, Evict(t, n)
        PROVE  Goal
    BY <1>3, CacheAssumption DEF Evict
  <1>4. ASSUME NEW t \in Tasks,
               \/ LoadFails(t) \/ WakeUp(t) \/ Predict(t)
               \/ CleanupEntry(t) \/ CleanupReturns(t)
        PROVE  Goal
    BY <1>4 DEF LoadFails, WakeUp, Predict, CleanupEntry, CleanupReturns
  <1>5. ASSUME NEW t \in Tasks, NEW n \in Names, NEW p, Request(t, n, p)
        PROVE  Goal
    BY <1>5 DEF Request
  <1>6. CASE UNCHANGED cacheVars
    BY <1>6 DEF cacheVars
  <1>7. Goal
    BY <1>1, <1>2, <1>3, <1>4, <1>5, <1>6 DEF CacheUse, CallUse, EvictUse
  <1> QED
    BY <1>7

LEMMA CapacityStep == TypeInv /\ CapacityBound /\ CacheUse => CapacityBound'
  <1> SUFFICES ASSUME TypeInv, CapacityBound, CacheUse
               PROVE  CapacityBound'
    OBVIOUS
  <1> USE CacheAssumption
  <1>t. TypeOK /\ TypeOK'
    BY TypeStep DEF TypeInv
  <1>1. CASE UNCHANGED hard
    BY <1>1 DEF CapacityBound, Cached
  <1>2. ASSUME NEW k \in Keys, NEW e \in Tasks, NEW v \in Keys \cup {None},
               Store(k, e, v)
        PROVE  CapacityBound'
    BY <1>2, <1>t, StoreCapacity
  <1>3. ASSUME NEW k \in Keys, hard' = [hard EXCEPT ![k] = None]
        PROVE  CapacityBound'
    <2>1. Cached' \subseteq Cached
      BY <1>3, <1>t DEF TypeOK, Cached
    <2>2. Cached \subseteq Keys /\ Cached' \subseteq Keys
      BY DEF Cached
    <2>3. /\ IsFiniteSet(Cached)
          /\ Cardinality(Cached) \in Nat /\ Cardinality(Cached') \in Nat
      BY <2>2, KeysFinite
    <2>4. Cardinality(Cached') <= Cardinality(Cached)
      BY <2>1, <2>3, FS_Subset
    <2> QED
      BY <2>3, <2>4 DEF CapacityBound
  <1> QED
    BY <1>1, <1>2, <1>3, CachedStep

LEMMA CapacityInit == CacheInit => CapacityBound
  <1> SUFFICES ASSUME CacheInit PROVE CapacityBound
    OBVIOUS
  <1>1. Cached = {}
    BY DEF CacheInit, Cached
  <1> QED
    BY <1>1, FS_EmptySet, CacheAssumption DEF CapacityBound

\* The hard cache never holds more than MaxSize models, whatever requests,
\* loads, promotions and evictions interleave.
THEOREM CapacityCorrect == CacheSpec => []CapacityBound
  <1>1. TypeInv /\ IdleUnused /\ CapacityBound /\ [CacheNext]_cacheVars => CapacityBound'
    BY NextIsUse, CapacityStep
  <1> QED
    BY <1>1, CapacityInit, CacheUsed, PTL DEF CacheSpec

----------------------------------------------------------------------------
(* Every caller gets the model it asked for *)

\* An entry, or a future, belongs to the key its creator works on, and a task
\* that works on a key goes on working on it.
Same(e, t) == arg[e] = arg[t] /\ arg[t] \in Keys

OwnInv ==
    /\ \A k \in Keys :
         /\ hard[k] # None => arg[hard[k]] = k
         /\ soft[k] # None => arg[soft[k]] = k
         /\ inflight[k] # None => arg[inflight[k]] = k
    /\ \A t \in Tasks :
         /\ joined[t] # None => Same(joined[t], t)
         /\ fut[t] \notin {None, Failed} => Same(fut[t], t)
         /\ got[t] # None => Same(got[t], t)

LEMMA StoreOwn ==
    ASSUME TypeOK, OwnInv, NEW k \in Keys, NEW e \in Tasks,
           NEW v \in Keys \cup {None}, Store(k, e, v), arg[e] = k, UNCHANGED arg
    PROVE  \A j \in Keys :
             /\ hard'[j] # None => arg'[hard'[j]] = j
             /\ soft'[j] # None => arg'[soft'[j]] = j
  BY CacheAssumption DEF TypeOK, OwnInv, Store, IsLru, Cached

\* A hit, a promotion, a joined or a new load of arg[t] by t.
LEMMA GetOrLoadOwn ==
    ASSUME TypeInv, OwnInv, NEW t \in Tasks, arg[t] \in Keys,
           GetOrLoad(t, arg[t])
    PROVE  OwnInv'
  <1> USE CacheAssumption DEF TypeInv, TypeOK, Entries, PcValues, OwnInv, Same
  <1> DEFINE k == arg[t]
  <1>k. k \in Keys
    OBVIOUS
  <1>1. CASE Hit(t, k)
    BY <1>1, <1>k DEF Hit
  <1>2. CASE Promote(t, k)
    <2>1. SoftGet(k) \in Tasks /\ arg[SoftGet(k)] = k
      BY <1>2, <1>k, PeekType DEF Promote, SoftGet
    <2>2. PICK v \in Keys \cup {None} : Store(k, SoftGet(k), v)
      BY <1>2 DEF Promote
    <2>3. \A j \in Keys :
             /\ hard'[j] # None => arg'[hard'[j]] = j
             /\ soft'[j] # None => arg'[soft'[j]] = j
      BY <1>2, <1>k, <2>1, <2>2, StoreOwn DEF Promote
    <2> QED
      BY <1>2, <1>k, <2>1, <2>3 DEF Promote
  <1>3. CASE Join(t, k)
    BY <1>3, <1>k DEF Join
  <1>4. CASE BeginLoad(t, k)
    BY <1>4, <1>k DEF BeginLoad
  <1>5. CASE RefuseLoad(t, k)
    BY <1>5, <1>k DEF RefuseLoad
  <1> QED
    BY <1>1, <1>2, <1>3, <1>4, <1>5 DEF GetOrLoad

LEMMA OwnStep == TypeInv /\ OwnInv /\ CacheUse => OwnInv'
  <1> SUFFICES ASSUME TypeInv, OwnInv, CacheUse
               PROVE  OwnInv'
    OBVIOUS
  <1> USE CacheAssumption DEF TypeInv, TypeOK, Entries, PcValues, OwnInv, Same
  <1>1. ASSUME NEW t \in Tasks, NEW n \in Names, NEW p, arg[t] = None, Request(t, n, p)
        PROVE  OwnInv'
    BY <1>1 DEF Request, Ask
  <1>2. ASSUME NEW t \in Tasks, arg[t] \in Keys, GetOrLoad(t, arg[t])
        PROVE  OwnInv'
    BY <1>2, GetOrLoadOwn
  <1>3. ASSUME NEW t \in Tasks, LoadSucceeds(t)
        PROVE  OwnInv'
    <2> DEFINE k == arg[t]
    <2>1. k \in Keys /\ UNCHANGED arg
      BY <1>3 DEF LoadSucceeds
    <2>2. \A j \in Keys :
             /\ hard'[j] # None => arg'[hard'[j]] = j
             /\ soft'[j] # None => arg'[soft'[j]] = j
      BY <1>3, <2>1, StoreOwn DEF LoadSucceeds
    <2>3. \A j \in Keys : inflight'[j] # None => arg'[inflight'[j]] = j
      BY <1>3, <2>1 DEF LoadSucceeds, ResolveInflight
    <2>4. \A f \in Tasks : fut'[f] \notin {None, Failed} => Same(fut'[f], f)
      BY <1>3, <2>1 DEF LoadSucceeds, ResolveInflight
    <2>5. /\ UNCHANGED joined
          /\ got' = [got EXCEPT ![t] = t]
      BY <1>3 DEF LoadSucceeds
    <2> QED
      BY <2>1, <2>2, <2>3, <2>4, <2>5
  <1>4. ASSUME NEW t \in Tasks, LoadFails(t)
        PROVE  OwnInv'
    BY <1>4 DEF LoadFails, ResolveInflight
  <1>5. ASSUME NEW t \in Tasks, WakeUp(t)
        PROVE  OwnInv'
    BY <1>5 DEF WakeUp
  <1>6. ASSUME NEW t \in Tasks,
               Predict(t) \/ CleanupEntry(t) \/ CleanupReturns(t)
        PROVE  OwnInv'
    BY <1>6 DEF Predict, CleanupEntry, CleanupReturns
  <1>7. ASSUME NEW t \in Tasks, NEW n \in Names, EvictUse(t, n)
        PROVE  OwnInv'
    <2>1. KeyOf[n] \in Keys /\ arg[t] \in {None, KeyOf[n]}
      BY <1>7 DEF EvictUse
    <2> QED
      BY <1>7, <2>1 DEF EvictUse, Evict, Ask
  <1>8. CASE UNCHANGED cacheVars
    BY <1>8 DEF cacheVars
  <1> QED
    BY <1>1, <1>2, <1>3, <1>4, <1>5, <1>6, <1>7, <1>8 DEF CacheUse, CallUse

LEMMA OwnInit == CacheInit => OwnInv
  BY CacheAssumption DEF CacheInit, OwnInv

\* Who got an entry has its key, and so its name if no other has that key.
LEMMA OwnInvImplies == TypeInv /\ OwnInv => OwnModel
  <1> SUFFICES ASSUME TypeInv, OwnInv, NEW t \in Tasks, got[t] # None,
                      Unambiguous(asked[t])
               PROVE  asked[got[t]] = asked[t]
    BY DEF OwnModel
  <1>1. got[t] \in Tasks /\ arg[got[t]] = arg[t] /\ arg[t] \in Keys
    BY DEF OwnInv, Same, TypeInv, TypeOK, Entries
  <1>2. /\ asked[t] \in Names /\ asked[got[t]] \in Names
        /\ KeyOf[asked[got[t]]] = KeyOf[asked[t]]
    BY <1>1, CacheAssumption DEF TypeInv, TypeOK
  <1> QED
    BY <1>2 DEF Unambiguous

\* Who asks for a tenant's model that shares its key with no other is never
\* handed another tenant's or another model's runtime, by a hit, a promotion, a
\* load of its own or a future it shares, whichever other names collide.
THEOREM OwnModelCorrect == CacheSpec => []OwnModel
  <1>1. TypeInv /\ IdleUnused /\ OwnInv /\ [CacheNext]_cacheVars => OwnInv'
    BY NextIsUse, OwnStep
  <1> QED
    BY <1>1, OwnInit, OwnInvImplies, CacheUsed, PTL DEF CacheSpec

----------------------------------------------------------------------------
(* Single flight, and no waiter left behind, when nothing evicts by hand *)

\* _inflight holds exactly the futures of the running loads, besides those of
\* refused loads.
LoadInv ==
    /\ \A k \in Keys :
         inflight[k] # None => /\ arg[inflight[k]] = k
                               /\ pc[inflight[k]] \in {"loading", "raised"}
    /\ \A t \in Tasks :
         /\ pc[t] = "loading" => inflight[arg[t]] = t
         /\ pc[t] = "waiting" =>
              fut[joined[t]] # None \/ inflight[arg[t]] = joined[t]

LEMMA LoadInvImplies ==
    TypeInv /\ LoadInv => SingleFlight /\ WaiterHasLoader
  BY CacheAssumption
  DEF TypeInv, TypeOK, Entries, LoadInv, SingleFlight, WaiterHasLoader,
      LoadRefused

LEMMA LoadStep == TypeInv /\ LoadInv /\ CallUse => LoadInv'
  <1> SUFFICES ASSUME TypeInv, LoadInv, CallUse
               PROVE  LoadInv'
    OBVIOUS
  <1> USE CacheAssumption DEF TypeInv, TypeOK, Entries, PcValues, LoadInv
  <1>1. ASSUME NEW t \in Tasks, NEW n \in Names, NEW p, Request(t, n, p)
        PROVE  LoadInv'
    BY <1>1 DEF Request, Ask
  <1>2. ASSUME NEW t \in Tasks, pc[t] \in {"called", "evicted"}, arg[t] \in Keys,
               GetOrLoad(t, arg[t])
        PROVE  LoadInv'
    <2> DEFINE k == arg[t]
    <2>k. k \in Keys
      BY <1>2
    <2>1. CASE Hit(t, k)
      BY <1>2, <2>1 DEF Hit
    <2>2. CASE Promote(t, k)
      BY <1>2, <2>2 DEF Promote
    <2>3. CASE Join(t, k)
      BY <1>2, <2>3, <2>k DEF Join
    <2>4. CASE BeginLoad(t, k)
      BY <1>2, <2>4, <2>k DEF BeginLoad, MustLoad
    <2>5. CASE RefuseLoad(t, k)
      BY <1>2, <2>5, <2>k DEF RefuseLoad, MustLoad
    <2> QED
      BY <1>2, <2>1, <2>2, <2>3, <2>4, <2>5 DEF GetOrLoad
  <1>3. ASSUME NEW t \in Tasks, NEW r \in Tasks \cup {Failed}, pc[t] = "loading",
               ResolveInflight(arg[t], r), UNCHANGED <<arg, joined>>,
               NEW next \in {"ready", "cleanup", "raised"},
               pc' = [pc EXCEPT ![t] = next]
        PROVE  LoadInv'
    <2>1. inflight[arg[t]] = t /\ arg[t] \in Keys
      BY <1>3
    <2>2. /\ inflight' = [inflight EXCEPT ![arg[t]] = None]
          /\ fut' = [f \in Tasks |-> IF f = t THEN r ELSE fut[f]]
          /\ r # None
      BY <1>3, <2>1 DEF ResolveInflight
    <2> QED
      BY <1>3, <2>1, <2>2
  <1>4. ASSUME NEW t \in Tasks, LoadSucceeds(t)
        PROVE  LoadInv'
    BY <1>3, <1>4 DEF LoadSucceeds
  <1>5. ASSUME NEW t \in Tasks, LoadFails(t)
        PROVE  LoadInv'
    BY <1>3, <1>5 DEF LoadFails
  <1>6. ASSUME NEW t \in Tasks, WakeUp(t)
        PROVE  LoadInv'
    BY <1>6 DEF WakeUp
  <1>7. ASSUME NEW t \in Tasks,
               Predict(t) \/ CleanupEntry(t) \/ CleanupReturns(t)
        PROVE  LoadInv'
    BY <1>7 DEF Predict, CleanupEntry, CleanupReturns
  <1>8. CASE UNCHANGED cacheVars
    BY <1>8 DEF cacheVars
  <1> QED
    BY <1>1, <1>2, <1>4, <1>5, <1>6, <1>7, <1>8 DEF CallUse

\* An eviction forgets the future of its key, which nobody then may need.
LEMMA LoadEvict ==
    ASSUME TypeInv, LoadInv, NEW t \in Tasks, NEW n \in Names, EvictUse(t, n),
           \A u \in Tasks : pc[u] \in {"loading", "waiting"} => arg[u] # KeyOf[n]
    PROVE  LoadInv'
  <1>1. KeyOf[n] \in Keys /\ arg[t] \in {None, KeyOf[n]}
    BY CacheAssumption DEF TypeInv, TypeOK, EvictUse
  <1> QED
    BY <1>1, CacheAssumption
    DEF TypeInv, TypeOK, Entries, PcValues, LoadInv, EvictUse, Evict, Ask

LEMMA LoadInit == CacheInit => LoadInv
  BY CacheAssumption DEF CacheInit, LoadInv

LEMMA LoadCorrect ==
    ASSUME Evictors = {} PROVE CacheSpec => []LoadInv
  <1>1. TypeInv /\ IdleUnused /\ LoadInv /\ [CacheNext]_cacheVars => LoadInv'
    BY NextIsUse, LoadStep
  <1> QED
    BY <1>1, LoadInit, CacheUsed, PTL DEF CacheSpec

\* When nothing evicts by hand, concurrent requests for a model that is not
\* cached start one load between them.
THEOREM SingleFlightCorrect ==
    ASSUME Evictors = {} PROVE CacheSpec => []SingleFlight
  <1>1. CacheSpec => []LoadInv
    BY LoadCorrect
  <1> QED
    BY <1>1, LoadInvImplies, CacheUsed, PTL

\* When nothing evicts by hand, no caller that joined a load is left behind,
\* unless that load was refused for want of memory.
THEOREM WaiterHasLoaderCorrect ==
    ASSUME Evictors = {} PROVE CacheSpec => []WaiterHasLoader
  <1>1. CacheSpec => []LoadInv
    BY LoadCorrect
  <1> QED
    BY <1>1, LoadInvImplies, CacheUsed, PTL

----------------------------------------------------------------------------
(* The recency order *)

\* Moving k behind the other members of C orders C, if those were ordered.
LEMMA MoveToEndOrders ==
    ASSUME RecencyTotal, NEW C, NEW k \in C, C \ {k} \subseteq Cached,
           Cached' = C, older' = MoveToEnd(k, C)
    PROVE  RecencyTotal'
  <1>1. \A i, j \in C : <<i, j>> \in older' <=>
          \/ i # k /\ j # k /\ <<i, j>> \in older
          \/ i # k /\ j = k
    BY DEF MoveToEnd
  <1>2. older' \subseteq Cached' \X Cached'
    BY DEF MoveToEnd
  <1>3. \A i, j \in Cached' :
          i # j => (<<i, j>> \in older' <=> <<j, i>> \notin older')
    BY <1>1 DEF RecencyTotal
  <1>4. \A j \in Cached' : <<j, j>> \notin older'
    BY <1>1 DEF RecencyTotal
  <1>5. \A i, j, l \in Cached' :
          <<i, j>> \in older' /\ <<j, l>> \in older' => <<i, l>> \in older'
    BY <1>1 DEF RecencyTotal
  <1> QED
    BY <1>2, <1>3, <1>4, <1>5 DEF RecencyTotal

LEMMA RecencyStep == TypeInv /\ RecencyTotal /\ CacheUse => RecencyTotal'
  <1> SUFFICES ASSUME TypeInv, RecencyTotal, CacheUse
               PROVE  RecencyTotal'
    OBVIOUS
  <1>t. TypeOK /\ Cached \subseteq Keys
    BY DEF TypeInv, Cached
  <1>1. CASE UNCHANGED <<hard, older>>
    BY <1>1 DEF RecencyTotal, Cached
  <1>2. ASSUME NEW k \in Cached, older' = MoveToEnd(k, Cached), UNCHANGED hard
        PROVE  RecencyTotal'
    <2>1. Cached' = Cached
      BY <1>2 DEF Cached
    <2> QED
      BY <1>2, <2>1, MoveToEndOrders
  <1>3. ASSUME NEW k \in Keys, NEW e \in Tasks, NEW v \in Keys \cup {None},
               Store(k, e, v)
        PROVE  RecencyTotal'
    <2>1. CASE ~OverCapacity(Cached \cup {k})
      <3>1. /\ hard' = [hard EXCEPT ![k] = e]
            /\ older' = MoveToEnd(k, Cached \cup {k})
        BY <1>3, <2>1 DEF Store
      <3>2. Cached' = Cached \cup {k}
        BY <1>t, <3>1, CacheAssumption DEF TypeOK, Cached
      <3> QED
        BY <3>1, <3>2, MoveToEndOrders
    <2>2. CASE OverCapacity(Cached \cup {k})
      <3>1. /\ hard' = [hard EXCEPT ![k] = e, ![v] = None]
            /\ older' = MoveToEnd(k, (Cached \cup {k}) \ {v})
            /\ v \in Cached \ {k}
        BY <1>3, <2>2 DEF Store, IsLru
      <3>2. Cached' = (Cached \cup {k}) \ {v}
        BY <1>t, <3>1, CacheAssumption DEF TypeOK, Cached
      <3> QED
        BY <3>1, <3>2, MoveToEndOrders
    <2> QED
      BY <2>1, <2>2
  <1>4. ASSUME NEW k \in Keys, hard' = [hard EXCEPT ![k] = None],
               older' = older \cap ((Cached \ {k}) \X (Cached \ {k}))
        PROVE  RecencyTotal'
    <2>1. Cached' = Cached \ {k}
      BY <1>4, <1>t DEF TypeOK, Cached
    <2> QED
      BY <1>4, <2>1 DEF RecencyTotal
  <1> QED
    BY <1>1, <1>2, <1>3, <1>4, CachedStep

\* Both conditions on the cached keys and their order, together.
LEMMA RecencyHolds == CacheSpec => []RecencyTotal
  <1>1. CacheInit => RecencyTotal
    BY DEF CacheInit, RecencyTotal, Cached
  <1>2. TypeInv /\ IdleUnused /\ RecencyTotal /\ [CacheNext]_cacheVars => RecencyTotal'
    BY NextIsUse, RecencyStep
  <1> QED
    BY <1>1, <1>2, CacheUsed, PTL DEF CacheSpec

\* The recency order always is a strict total order on the cached keys, so an
\* insertion over capacity always finds exactly one least recently used victim.
THEOREM RecencyCorrect == CacheSpec => []RecencyTotal
  BY RecencyHolds

\* Two different keys do not fit where one does.
LEMMA RoomForTwo ==
    ASSUME NEW j, NEW k, j # k, OverCapacity({j, k})
    PROVE  ~ (MaxSize > 1)
  <1>1. Cardinality({j, k}) = 2
    <2>1. IsFiniteSet({j}) /\ Cardinality({j}) = 1
      BY FS_Singleton
    <2>2. Cardinality({j} \cup {k}) = Cardinality({j}) + 1
      BY <2>1, FS_AddElement
    <2>3. {j} \cup {k} = {j, k}
      OBVIOUS
    <2> QED
      BY <2>1, <2>2, <2>3
  <1> QED
    BY <1>1, CacheAssumption DEF OverCapacity

\* The key that is the newest of all is not the victim of an insertion.
LEMMA NewestStep ==
    ASSUME TypeInv, RecencyTotal, CacheUse, NEW k \in Cached, MaxSize > 1,
           \A j \in Cached \ {k} : <<j, k>> \in older,
           NEW j \in Keys, j \notin Cached, hard'[j] # None
    PROVE  hard'[k] = hard[k]
  <1> USE CacheAssumption DEF TypeInv, TypeOK
  <1>k. k \in Keys /\ k # j /\ hard[j] = None
    BY DEF Cached
  <1>1. CASE hard' = hard
    BY <1>1
  <1>2. ASSUME NEW l \in Keys, hard' = [hard EXCEPT ![l] = None]
        PROVE  hard'[k] = hard[k]
    BY <1>2, <1>k
  <1>3. ASSUME NEW l \in Keys, NEW e \in Tasks, NEW v \in Keys \cup {None}, Store(l, e, v)
        PROVE  hard'[k] = hard[k]
    <2>1. CASE ~OverCapacity(Cached \cup {l})
      BY <1>3, <2>1, <1>k DEF Store
    <2>2. CASE OverCapacity(Cached \cup {l})
      <3>1. /\ IsLru(v, Cached \ {l}) /\ v # None
            /\ hard' = [hard EXCEPT ![l] = e, ![v] = None]
        BY <1>3, <2>2 DEF Store, IsLru, Cached
      <3>2. l = j
        BY <1>k, <3>1
      <3>3. v # k
        <4> SUFFICES ASSUME v = k PROVE FALSE
          OBVIOUS
        <4>1. \A i \in Cached \ {k} : <<k, i>> \in older /\ <<i, k>> \in older
          BY <3>1, <3>2 DEF IsLru
        <4>2. Cached = {k}
          <5>1. \A i \in Cached : i # k => (<<i, k>> \in older <=> <<k, i>> \notin older)
            BY DEF RecencyTotal
          <5> QED
            BY <4>1, <5>1
        <4>3. Cached \cup {l} = {j, k}
          BY <3>2, <4>2
        <4>4. OverCapacity({j, k})
          BY <2>2, <4>3
        <4>5. ~ (MaxSize > 1)
          BY <1>k, <4>4, RoomForTwo
        <4> QED
          BY <4>5
      <3> QED
        BY <1>k, <3>1, <3>2, <3>3
    <2> QED
      BY <2>1, <2>2
  <1> QED
    BY <1>1, <1>2, <1>3, CachedStep

\* The model used last survives an insertion that needs room (move_to_end and
\* popitem(last=False)), whatever has interleaved before.
THEOREM NewestCorrect == CacheSpec => NewestSurvives
  <1>1. TypeInv /\ IdleUnused /\ RecencyTotal /\ [CacheNext]_cacheVars =>
          [ \A k \in Cached :
              /\ MaxSize > 1
              /\ \A j \in Cached \ {k} : <<j, k>> \in older
              /\ \E j \in Keys : j \notin Cached /\ hard'[j] # None
              => hard'[k] = hard[k] ]_cacheVars
    BY NextIsUse, NewestStep
  <1> QED
    BY <1>1, RecencyHolds, CacheUsed, PTL DEF CacheSpec, NewestSurvives
============================================================================
