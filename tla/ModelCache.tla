---------------------------- MODULE ModelCache ----------------------------
(***************************************************************************)
(* The asynchronous LRU cache of model runtimes                            *)
(* (src/inference/model_lru_cache.py, class AsyncLRUModelCache) and the    *)
(* two kinds of coroutine that use it: a request, which peeks at the       *)
(* cache, calls get_or_load and then predicts with the runtime it got, and *)
(* a manual eviction.                                                      *)
(*                                                                         *)
(* One action is one segment of a coroutine between two suspension points  *)
(* of the event loop, or one function run by an executor thread.  No       *)
(* critical section of the cache's lock suspends, so the lock itself is    *)
(* never contended and a section is atomic.                                *)
(*                                                                         *)
(* A CacheEntry (and the runtime it wraps, one for one) is named by the    *)
(* task that loaded it, and so is the future that task registers.          *)
(***************************************************************************)
EXTENDS Naturals, FiniteSets

CONSTANTS
    Names,     \* the pairs of a tenant and a model that are asked for
    Keys,      \* cache keys
    KeyOf,     \* _make_key: the key of each name; two may share one
    Callers,   \* requests, each calling get_or_load once
    Evictors,  \* tasks that evict a key
    MaxSize,   \* capacity of the hard cache
    RamGuard,  \* TRUE iff min_free_ram_mb > 0: a load may be refused
    None,      \* no entry, no future, no key
    Failed     \* a future that holds an exception

Tasks == Callers \cup Evictors

ASSUME CacheAssumption ==
    /\ MaxSize \in Nat \ {0}
    /\ IsFiniteSet(Keys)
    /\ KeyOf \in [Names -> Keys]
    /\ RamGuard \in BOOLEAN
    /\ None \notin Tasks \cup Keys \cup Names \cup {Failed}
    /\ Failed \notin Tasks

VARIABLES
    hard,      \* _cache: the entry of each key
    older,     \* the order of _cache: <<j, k>> iff j was used before k
    soft,      \* _soft_cache: the entry a weak reference of each key names
    inflight,  \* _inflight: the future of each key, named by its creator
    fut,       \* what each future holds: None (pending), Failed or an entry
    pc,        \* where each task is
    asked,     \* the tenant and model each task works on
    arg,       \* their key
    pinned,    \* the entry a request holds from peek
    joined,    \* the future a coalesced caller awaits
    victim,    \* the evicted entry a task has handed to _cleanup_entry
    got,       \* the runtime get_or_load returns to each task
    gutted     \* the entries whose runtime has lost its model_instance

cacheVars == <<hard, older, soft, inflight, fut, pc, asked, arg, pinned,
               joined, victim, got, gutted>>

Entries == Tasks \cup {None}

PcValues == {"idle", "called", "loading", "waiting", "cleanup", "cleaned",
             "ready", "raised", "served", "broken", "evicted"}

TypeOK ==
    /\ hard \in [Keys -> Entries]
    /\ older \subseteq Keys \X Keys
    /\ soft \in [Keys -> Entries]
    /\ inflight \in [Keys -> Entries]
    /\ fut \in [Tasks -> Entries \cup {Failed}]
    /\ pc \in [Tasks -> PcValues]
    /\ asked \in [Tasks -> Names \cup {None}]
    /\ arg \in [Tasks -> Keys \cup {None}]
    /\ pinned \in [Tasks -> Entries]
    /\ joined \in [Tasks -> Entries]
    /\ victim \in [Tasks -> Entries]
    /\ got \in [Tasks -> Entries]
    /\ gutted \subseteq Tasks

CacheInit ==
    /\ hard = [k \in Keys |-> None]
    /\ older = {}
    /\ soft = [k \in Keys |-> None]
    /\ inflight = [k \in Keys |-> None]
    /\ fut = [t \in Tasks |-> None]
    /\ pc = [t \in Tasks |-> "idle"]
    /\ asked = [t \in Tasks |-> None]
    /\ arg = [t \in Tasks |-> None]
    /\ pinned = [t \in Tasks |-> None]
    /\ joined = [t \in Tasks |-> None]
    /\ victim = [t \in Tasks |-> None]
    /\ got = [t \in Tasks |-> None]
    /\ gutted = {}

----------------------------------------------------------------------------
(* The state of the two stores *)

Cached == {k \in Keys : hard[k] # None}

\* Something other than _soft_cache references entry e: _cache, the frame of a
\* coroutine cleaning it up, of the request that peeked at it, or of the
\* _do_load that created it and still awaits the clean-up of its victim.
Held(e) ==
    \/ \E k \in Keys : hard[k] = e
    \/ \E t \in Tasks : victim[t] = e \/ pinned[t] = e
    \/ pc[e] \in {"cleanup", "cleaned"}

\* _soft_cache.get(k): a weak reference yields its entry only while it is held.
SoftGet(k) == IF soft[k] # None /\ Held(soft[k]) THEN soft[k] ELSE None

Peek(k) == IF hard[k] # None THEN hard[k] ELSE SoftGet(k)

\* len(_cache) > maxsize, C being the keys of _cache.
OverCapacityByTwo(C) == Cardinality(C) > MaxSize + 1
OverCapacity(C) == Cardinality(C) > MaxSize

\* move_to_end(k) when C is the set of keys the cache is left with.
StayInPlace(k, C) == older \cap (C \X C)
MoveToEnd(k, C) ==
    (older \cap ((C \ {k}) \X (C \ {k}))) \cup ((C \ {k}) \X {k})

\* popitem(last=False) on the keys of C removes v.
IsMru(v, C) == v \in C /\ \A j \in C \ {v} : <<j, v>> \in older
IsLru(v, C) == v \in C /\ \A j \in C \ {v} : <<v, j>> \in older

\* _cache[k] = e, move_to_end(k) and _maybe_evict_lru(), which pops key v
\* (None if the cache is not over capacity) and leaves a weak reference to it.
Store(k, e, v) ==
    \/ /\ ~OverCapacity(Cached \cup {k})
       /\ v = None
       /\ hard' = [hard EXCEPT ![k] = e]
       /\ older' = MoveToEnd(k, Cached \cup {k})
       /\ UNCHANGED soft
    \/ /\ OverCapacity(Cached \cup {k})
       /\ IsLru(v, Cached \ {k})
       /\ hard' = [hard EXCEPT ![k] = e, ![v] = None]
       /\ older' = MoveToEnd(k, (Cached \cup {k}) \ {v})
       /\ soft' = [soft EXCEPT ![v] = hard[v]]

\* What _maybe_evict_lru returns.
EvictedKey(v) == v
EvictedEntry(v) == IF v = None THEN None ELSE hard[v]

----------------------------------------------------------------------------
(* get_or_load *)

\* The task works on name n.
Ask(t, n) ==
    /\ asked' = [asked EXCEPT ![t] = n]
    /\ arg' = [arg EXCEPT ![t] = KeyOf[n]]

\* A request arrives with entry p in hand: predict peeks and keeps what it saw
\* for as long as it runs; register_tenant does not peek (p = None).
Request(t, n, p) ==
    /\ pc[t] = "idle"
    /\ pc' = [pc EXCEPT ![t] = "called"]
    /\ Ask(t, n)
    /\ pinned' = [pinned EXCEPT ![t] = p]
    /\ UNCHANGED <<hard, older, soft, inflight, fut, joined, victim, got,
                   gutted>>

\* Fast path: the key is in the hard cache.
Hit(t, k) ==
    /\ hard[k] # None
    /\ older' = MoveToEnd(k, Cached)
    /\ got' = [got EXCEPT ![t] = hard[k]]
    /\ pc' = [pc EXCEPT ![t] = "ready"]
    /\ UNCHANGED <<hard, soft, inflight, fut, asked, arg, pinned, joined,
                   victim, gutted>>

\* Soft-evicted but still alive: back into the hard cache.  What
\* _maybe_evict_lru returns is dropped, so its entry is not cleaned up.
Promote(t, k) ==
    /\ hard[k] = None
    /\ SoftGet(k) # None
    /\ \E v \in Keys \cup {None} : Store(k, SoftGet(k), v)
    /\ got' = [got EXCEPT ![t] = SoftGet(k)]
    /\ pc' = [pc EXCEPT ![t] = "ready"]
    /\ UNCHANGED <<inflight, fut, asked, arg, pinned, joined, victim, gutted>>

\* Neither store has the key.
Absent(k) == hard[k] = None /\ SoftGet(k) = None

\* Neither store has the key and nobody is loading it: the caller must.
LoadAnyway(k) == Absent(k)
MustLoad(k) == Absent(k) /\ inflight[k] = None

\* Already loading: join the in-flight future.
Join(t, k) ==
    /\ Absent(k)
    /\ inflight[k] # None
    /\ joined' = [joined EXCEPT ![t] = inflight[k]]
    /\ pc' = [pc EXCEPT ![t] = "waiting"]
    /\ UNCHANGED <<hard, older, soft, inflight, fut, asked, arg, pinned,
                   victim, got, gutted>>

\* The designated loader registers a future; _do_load passes _check_ram and
\* suspends in loader_fn.
BeginLoad(t, k) ==
    /\ MustLoad(k)
    /\ inflight' = [inflight EXCEPT ![k] = t]
    /\ pc' = [pc EXCEPT ![t] = "loading"]
    /\ UNCHANGED <<hard, older, soft, fut, asked, arg, pinned, joined, victim,
                   got, gutted>>

\* The designated loader registers a future and _check_ram raises, before the
\* try block that would resolve the future and drop it from _inflight.
RefuseLoad(t, k) ==
    /\ RamGuard
    /\ MustLoad(k)
    /\ inflight' = [inflight EXCEPT ![k] = t]
    /\ pc' = [pc EXCEPT ![t] = "raised"]
    /\ pinned' = [pinned EXCEPT ![t] = None]
    /\ UNCHANGED <<hard, older, soft, fut, asked, arg, joined, victim, got,
                   gutted>>

GetOrLoad(t, k) ==
    \/ Hit(t, k)
    \/ Promote(t, k)
    \/ Join(t, k)
    \/ BeginLoad(t, k)
    \/ RefuseLoad(t, k)

\* Pop the future without resolving it; resolve all the pending futures.
DropInflight(k, r) ==
    /\ inflight' = [inflight EXCEPT ![k] = None]
    /\ UNCHANGED fut
ResolveAllInflight(k, r) ==
    /\ inflight' = [inflight EXCEPT ![k] = None]
    /\ fut' = [f \in Tasks |->
                 IF \E j \in Keys : f = inflight[j] THEN r ELSE fut[f]]

\* Whichever future _inflight holds for k is popped and given outcome r.
ResolveInflight(k, r) ==
    /\ inflight' = [inflight EXCEPT ![k] = None]
    /\ fut' = [f \in Tasks |-> IF f = inflight[k] THEN r ELSE fut[f]]

\* loader_fn returned: store the entry, evict, resolve the waiters and either
\* return or hand the evicted entry to the executor.
LoadSucceeds(t) ==
    LET k == arg[t] IN
    /\ pc[t] = "loading"
    /\ \E v \in Keys \cup {None} :
         /\ Store(k, t, v)
         /\ victim' = [victim EXCEPT ![t] = EvictedEntry(v)]
         /\ pc' = [pc EXCEPT ![t] = IF v = None THEN "ready" ELSE "cleanup"]
    /\ ResolveInflight(k, t)
    /\ got' = [got EXCEPT ![t] = t]
    /\ UNCHANGED <<asked, arg, pinned, joined, gutted>>

\* loader_fn raised: the waiters get the exception and so does the caller.
LoadFails(t) ==
    /\ pc[t] = "loading"
    /\ ResolveInflight(arg[t], Failed)
    /\ pc' = [pc EXCEPT ![t] = "raised"]
    /\ pinned' = [pinned EXCEPT ![t] = None]
    /\ UNCHANGED <<hard, older, soft, asked, arg, joined, victim, got, gutted>>

\* A coalesced caller resumes once the future it awaits is done.
WakeUp(t) ==
    /\ pc[t] = "waiting"
    /\ fut[joined[t]] # None
    /\ joined' = [joined EXCEPT ![t] = None]
    /\ IF fut[joined[t]] = Failed
       THEN /\ pc' = [pc EXCEPT ![t] = "raised"]
            /\ pinned' = [pinned EXCEPT ![t] = None]
            /\ UNCHANGED got
       ELSE /\ pc' = [pc EXCEPT ![t] = "ready"]
            /\ got' = [got EXCEPT ![t] = fut[joined[t]]]
            /\ UNCHANGED pinned
    /\ UNCHANGED <<hard, older, soft, inflight, fut, asked, arg, victim,
                   gutted>>

----------------------------------------------------------------------------
(* Eviction and clean-up *)

\* evict(): pop the key k of name n from the three maps, without resolving the
\* future.
Evict(t, n) == LET k == KeyOf[n] IN
    /\ Ask(t, n)
    /\ victim' = [victim EXCEPT ![t] = hard[k]]
    /\ pc' = [pc EXCEPT ![t] = IF hard[k] = None THEN "evicted" ELSE "cleanup"]
    /\ hard' = [hard EXCEPT ![k] = None]
    /\ older' = older \cap ((Cached \ {k}) \X (Cached \ {k}))
    /\ soft' = [soft EXCEPT ![k] = None]
    /\ inflight' = [inflight EXCEPT ![k] = None]
    /\ UNCHANGED <<fut, pinned, joined, got, gutted>>

\* _cleanup_entry, in an executor thread: the runtime loses its model.
CleanupEntry(t) ==
    /\ pc[t] = "cleanup"
    /\ gutted' = gutted \cup {victim[t]}
    /\ pc' = [pc EXCEPT ![t] = "cleaned"]
    /\ UNCHANGED <<hard, older, soft, inflight, fut, asked, arg, pinned,
                   joined, victim, got>>

\* The coroutine resumes after the clean-up and returns: _do_load its runtime
\* to the request, evict() to its caller.
CleanupReturns(t) ==
    /\ pc[t] = "cleaned"
    /\ victim' = [victim EXCEPT ![t] = None]
    /\ pc' = [pc EXCEPT ![t] = IF got[t] = None THEN "evicted" ELSE "ready"]
    /\ UNCHANGED <<hard, older, soft, inflight, fut, asked, arg, pinned,
                   joined, got, gutted>>

\* The request predicts in an executor thread; a runtime without a model
\* raises "Model not loaded".
Predict(t) ==
    /\ pc[t] = "ready"
    /\ pc' = [pc EXCEPT ![t] = IF got[t] \in gutted THEN "broken" ELSE "served"]
    /\ got' = [got EXCEPT ![t] = None]
    /\ pinned' = [pinned EXCEPT ![t] = None]
    /\ UNCHANGED <<hard, older, soft, inflight, fut, asked, arg, joined,
                   victim, gutted>>

----------------------------------------------------------------------------
(* The cache used on its own, its public methods called in any order *)

Returned == {"served", "broken", "raised", "evicted"}

Terminated == \A t \in Tasks : pc[t] \in Returned

CallerStep(t) ==
    \/ \E n \in Names : \E p \in {None, Peek(KeyOf[n])} : Request(t, n, p)
    \/ pc[t] = "called" /\ GetOrLoad(t, arg[t])
    \/ LoadSucceeds(t)
    \/ LoadFails(t)
    \/ WakeUp(t)
    \/ CleanupEntry(t)
    \/ CleanupReturns(t)
    \/ Predict(t)

EvictorStep(t) ==
    \/ pc[t] = "idle" /\ \E n \in Names : Evict(t, n)
    \/ CleanupEntry(t)
    \/ CleanupReturns(t)

CacheNext ==
    \/ \E t \in Callers : CallerStep(t)
    \/ \E t \in Evictors : EvictorStep(t)
    \/ Terminated /\ UNCHANGED cacheVars

CacheSpec == CacheInit /\ [][CacheNext]_cacheVars

\* Progress of a call once made: the event loop resumes every coroutine that
\* can run, loader_fn ends (it either returns or raises) and the executor runs
\* what it was given.
Progress(t) ==
    \/ pc[t] = "called" /\ GetOrLoad(t, arg[t])
    \/ LoadSucceeds(t)
    \/ LoadFails(t)
    \/ WakeUp(t)
    \/ CleanupEntry(t)
    \/ CleanupReturns(t)
    \/ Predict(t)

FairCacheSpec ==
    CacheSpec /\ \A t \in Tasks : WF_cacheVars(Progress(t))

----------------------------------------------------------------------------
(* Properties *)

\* The hard cache never exceeds its capacity, whatever the interleaving of
\* loads, promotions from the soft cache and evictions (get_or_load, _do_load,
\* _maybe_evict_lru).
CapacityBound == Cardinality(Cached) <= MaxSize

\* The recency order is a strict total order on exactly the cached keys, so
\* an insertion over capacity always has one well-defined victim, however
\* hits, promotions, loads and evictions of the keys interleave.
RecencyTotal ==
    /\ older \subseteq Cached \X Cached
    /\ \A j, k \in Cached :
         j # k => (<<j, k>> \in older <=> <<k, j>> \notin older)
    /\ \A j \in Cached : <<j, j>> \notin older
    /\ \A i, j, k \in Cached :
         <<i, j>> \in older /\ <<j, k>> \in older => <<i, k>> \in older

\* With room for two models, the model used last is not the one an insertion
\* throws out (only a manual eviction may remove it).
NewestSurvives ==
    [][ \A k \in Cached :
          /\ MaxSize > 1
          /\ \A j \in Cached \ {k} : <<j, k>> \in older
          /\ \E j \in Keys : j \notin Cached /\ hard'[j] # None
          => hard'[k] = hard[k] ]_cacheVars

\* No other name has the key of n, as when no tenant and no model has a colon in
\* its name.
Unambiguous(n) == \A o \in Names : KeyOf[o] = KeyOf[n] => o = n

\* A caller that asks for an unambiguous name is only ever given a runtime that
\* was loaded for that tenant and model, by a hit, a promotion, its own load or
\* a shared future, also while other names share keys (_make_key).
OwnModel ==
    \A t \in Tasks :
        got[t] # None /\ Unambiguous(asked[t]) => asked[got[t]] = asked[t]

\* At most one load per key runs at a time ("prevent thundering herd for the
\* same key").
SingleFlight ==
    \A t, u \in Tasks :
        pc[t] = "loading" /\ pc[u] = "loading" /\ arg[t] = arg[u] => t = u

\* The load of t was refused for want of memory and its future left behind.
LoadRefused(t) == pc[t] = "raised" /\ inflight[arg[t]] = t

\* A coalesced caller awaits a future that is done, or that the running load of
\* its key is going to resolve: only the refusal of that load can leave it
\* behind, never a race of loads, failures, promotions and evictions.
WaiterHasLoader ==
    \A t \in Tasks :
        pc[t] = "waiting" =>
            \/ fut[joined[t]] # None
            \/ /\ inflight[arg[t]] = joined[t]
               /\ arg[joined[t]] = arg[t]
               /\ pc[joined[t]] = "loading" \/ LoadRefused(joined[t])

\* A runtime the cache hands out has its model: clean-up only ever strips
\* entries that are out of the cache.
CachedRuntimesIntact == \A k \in Keys : hard[k] \notin gutted

\* Every call of get_or_load comes back with a runtime or an exception.
EveryCallReturns ==
    \A t \in Callers : pc[t] = "called" ~> pc[t] \in Returned

\* Every call comes back, if no load is refused for want of memory.
CallsReturnUnlessRefused ==
    \A t \in Callers :
        pc[t] = "called" ~>
            \/ pc[t] \in Returned
            \/ \E u \in Tasks : LoadRefused(u)
============================================================================
