------------------------- MODULE InferenceService -------------------------
(***************************************************************************)
(* One process of the multi-tenant inference service                       *)
(* (src/inference/app_multitenant.py): the requests and the hot-swap       *)
(* listener that share the model cache, the reader-writer lock between     *)
(* them, and what the retraining worker does to the service: it stores new *)
(* weights and publishes a model_reload event.                             *)
(*                                                                         *)
(* The members of Evictors are the reload events.  The listener handles    *)
(* them one at a time, each as the task of that name, so the entry an      *)
(* event puts into the cache carries the event's name.                     *)
(*                                                                         *)
(* Weights, registry and swaps are kept per key here, so this module is    *)
(* about names that do not share keys.                                     *)
(***************************************************************************)
EXTENDS ModelCache, Sequences

CONSTANT Known  \* the models registered before the process started

ASSUME KnownAssumption ==
    /\ Known \subseteq Keys
    /\ Callers \cap Evictors = {}
    /\ \A n \in Names : Unambiguous(n)

VARIABLES
    stored,      \* the version of each model's weights in storage
    version,     \* the version each task has read from storage, 0 if none
    registered,  \* the models the registry has metadata for
    outbox,      \* events whose weights are stored and not yet published
    channel,     \* events the subscription holds for the listener
    current,     \* the event the listener handles, or None
    listener,    \* where the listener is
    swapping,    \* SwapState._swapping_keys
    missed       \* models one of whose reload events was lost or failed

svcVars == <<stored, version, registered, outbox, channel, current, listener,
             swapping, missed>>

vars == <<cacheVars, svcVars>>

ListenerValues == {"starting", "listening", "dropping", "loading", "wantWrite",
                   "writing", "dead"}

SvcTypeOK ==
    /\ TypeOK
    /\ stored \in [Keys -> Nat]
    /\ version \in [Tasks -> Nat]
    /\ registered \subseteq Keys
    /\ outbox \subseteq Evictors
    /\ channel \in Seq(Evictors)
    /\ current \in Evictors \cup {None}
    /\ listener \in ListenerValues
    /\ swapping \subseteq Keys
    /\ missed \subseteq Keys

Init ==
    /\ CacheInit
    /\ stored = [k \in Keys |-> 1]
    /\ version = [t \in Tasks |-> 0]
    /\ registered = Known
    /\ outbox = {}
    /\ channel = <<>>
    /\ current = None
    /\ listener = "starting"
    /\ swapping = {}
    /\ missed = {}

----------------------------------------------------------------------------
(* The reader-writer lock.  A reader holds it from the moment get_or_load   *)
(* begins until it returns, the listener from before evict until after its  *)
(* own get_or_load.  aiorwlock orders the waiters; nothing here relies on   *)
(* which of them it lets in first.                                          *)

Readers == {t \in Callers :
              pc[t] \in {"loading", "waiting", "cleanup", "cleaned"}}

MayRead == listener # "writing"

MayWriteUnlocked == TRUE
MayWrite == Readers = {}

\* GET /healthz/ready, while Redis answers and the process does not shut down.
Ready == swapping = {} /\ Cached # {}

----------------------------------------------------------------------------
(* Requests *)

\* POST /predict.  Models are never removed from the registry while the
\* process runs, so one without metadata is not cached either: 404.  Where
\* get_or_load raises, get_or_init_runtime returns None and the answer is 500:
\* that request ends as "raised".
PredictArrives(t, n) == LET k == KeyOf[n] IN
    \/ /\ k \in registered
       /\ Request(t, n, Peek(k))
    \/ /\ k \notin registered
       /\ Peek(k) = None
       /\ pc[t] = "idle"
       /\ pc' = [pc EXCEPT ![t] = "raised"]
       /\ Ask(t, n)
       /\ UNCHANGED <<hard, older, soft, inflight, fut, pinned, joined, victim,
                      got, gutted>>

\* POST /register-tenant: store the metadata, then load the model.
RegisterArrives(t, n) ==
    /\ Request(t, n, None)
    /\ registered' = registered \cup {KeyOf[n]}
    /\ UNCHANGED <<stored, version, outbox, channel, current, listener,
                   swapping, missed>>

\* get_or_init_runtime takes the reader lock and enters get_or_load.
EnterGetOrLoad(t) ==
    /\ pc[t] = "called"
    /\ MayRead
    /\ GetOrLoad(t, arg[t])

\* _load_runtime_sync, in an executor thread, reads the stored weights.
ReadWeights(t) ==
    /\ pc[t] = "loading"
    /\ version[t] = 0
    /\ version' = [version EXCEPT ![t] = stored[arg[t]]]
    /\ UNCHANGED <<cacheVars, stored, registered, outbox, channel, current,
                   listener, swapping, missed>>

RequestProgress(t) ==
    \/ EnterGetOrLoad(t) /\ UNCHANGED svcVars
    \/ ReadWeights(t)
    \/ version[t] # 0 /\ LoadSucceeds(t) /\ UNCHANGED svcVars
    \/ LoadFails(t) /\ UNCHANGED svcVars
    \/ WakeUp(t) /\ UNCHANGED svcVars
    \/ CleanupEntry(t) /\ UNCHANGED svcVars
    \/ CleanupReturns(t) /\ UNCHANGED svcVars
    \/ Predict(t) /\ UNCHANGED svcVars

----------------------------------------------------------------------------
(* The retraining worker, as the service sees it *)

\* The worker stores new weights of model n and is about to publish event m.
SaveWeights(m, n) ==
    /\ arg[m] = None
    /\ Ask(m, n)
    /\ stored' = [stored EXCEPT ![KeyOf[n]] = @ + 1]
    /\ outbox' = outbox \cup {m}
    /\ UNCHANGED <<hard, older, soft, inflight, fut, pc, pinned, joined, victim,
                   got, gutted, version, registered, channel, current,
                   listener, swapping, missed>>

\* The event reaches this process only if its listener is subscribed; the
\* publish is best effort, so it may also fail.
Publish(m) ==
    /\ m \in outbox
    /\ outbox' = outbox \ {m}
    /\ \/ /\ listener \notin {"starting", "dead"}
          /\ channel' = Append(channel, m)
          /\ UNCHANGED missed
       \/ /\ missed' = missed \cup {arg[m]}
          /\ UNCHANGED channel
    /\ UNCHANGED <<cacheVars, stored, version, registered, current, listener,
                   swapping>>

----------------------------------------------------------------------------
(* _model_reload_listener *)

Subscribe ==
    /\ listener = "starting"
    /\ listener' \in {"listening", "dead"}
    /\ UNCHANGED <<cacheVars, stored, version, registered, outbox, channel,
                   current, swapping, missed>>

\* pubsub.listen() raises: nothing restarts the task.  The events it had not
\* read yet are gone.
ListenerDies ==
    /\ listener = "listening"
    /\ listener' = "dead"
    /\ channel' = <<>>
    /\ missed' = missed \cup {arg[channel[i]] : i \in DOMAIN channel}
    /\ UNCHANGED <<cacheVars, stored, version, registered, outbox, current,
                   swapping>>

\* Read the next event; begin_swap if the registry knows the model.
ReceiveReload ==
    /\ listener = "listening"
    /\ channel # <<>>
    /\ LET m == Head(channel)
           k == arg[m]
       IN /\ current' = m
          /\ channel' = Tail(channel)
          /\ IF k \in registered
             THEN /\ listener' = "loading"
                  /\ swapping' = swapping \cup {k}
                  /\ UNCHANGED cacheVars
             ELSE /\ listener' = "dropping"
                  /\ Evict(m, asked[m])
                  /\ UNCHANGED swapping
    /\ UNCHANGED <<stored, version, registered, outbox, missed>>

\* The event is done with: end_swap, and back to listening.
NoEndSwap(m) ==
    /\ current' = None
    /\ listener' = "listening"
    /\ UNCHANGED swapping
FinishEvent(m) ==
    /\ current' = None
    /\ listener' = "listening"
    /\ swapping' = swapping \ {arg[m]}

\* Phase 1, in an executor thread, the old model still active.
LoadFresh(m) ==
    /\ listener = "loading"
    /\ current = m
    /\ version' = [version EXCEPT ![m] = stored[arg[m]]]
    /\ listener' = "wantWrite"
    /\ UNCHANGED <<cacheVars, stored, registered, outbox, channel, current,
                   swapping, missed>>

\* warm_cache raises or _load_runtime_sync returns None: keep the old model.
LoadFreshFails(m) ==
    /\ listener = "loading"
    /\ current = m
    /\ FinishEvent(m)
    /\ missed' = missed \cup {arg[m]}
    /\ UNCHANGED <<cacheVars, stored, version, registered, outbox, channel>>

\* Phase 2: take the writer lock and evict the old entry.
BeginReplace(m) ==
    /\ listener = "wantWrite"
    /\ current = m
    /\ MayWrite
    /\ listener' = "writing"
    /\ Evict(m, asked[m])
    /\ UNCHANGED <<stored, version, registered, outbox, channel, current,
                   swapping, missed>>

\* The coroutines evict() and get_or_load() the listener awaits.  Its loader_fn
\* returns the runtime it already has, so it does not fail.
EvictSteps(m) == CleanupEntry(m) \/ CleanupReturns(m)

InsertFresh(m) ==
    /\ listener = "writing"
    /\ current = m
    /\ \/ pc[m] = "evicted" /\ GetOrLoad(m, arg[m])
       \/ LoadSucceeds(m)

\* get_or_load returned the new runtime or raised; release the writer lock.
EndReplace(m) ==
    /\ listener = "writing"
    /\ current = m
    /\ pc[m] \in {"ready", "raised"}
    /\ FinishEvent(m)
    /\ missed' = IF pc[m] = "raised" THEN missed \cup {arg[m]} ELSE missed
    /\ UNCHANGED <<cacheVars, stored, version, registered, outbox, channel>>

\* The evict() of a model without metadata returned.
EndDrop(m) ==
    /\ listener = "dropping"
    /\ current = m
    /\ pc[m] = "evicted"
    /\ FinishEvent(m)
    /\ UNCHANGED <<cacheVars, stored, version, registered, outbox, channel,
                   missed>>

ListenerProgress ==
    \/ ReceiveReload
    \/ \E m \in Evictors :
         \/ LoadFresh(m)
         \/ LoadFreshFails(m)
         \/ BeginReplace(m)
         \/ EvictSteps(m) /\ UNCHANGED svcVars
         \/ InsertFresh(m) /\ UNCHANGED svcVars
         \/ EndReplace(m)
         \/ EndDrop(m)

----------------------------------------------------------------------------

Next ==
    \/ \E t \in Callers, n \in Names :
         \/ PredictArrives(t, n) /\ UNCHANGED svcVars
         \/ RegisterArrives(t, n)
    \/ \E t \in Callers : RequestProgress(t)
    \/ \E m \in Evictors, n \in Names : SaveWeights(m, n)
    \/ \E m \in Evictors : Publish(m)
    \/ Subscribe
    \/ ListenerDies
    \/ ListenerProgress

\* The event loop and the executor run what is ready; nobody has to send a
\* request, retrain a model or publish an event.
Spec ==
    /\ Init
    /\ [][Next]_vars
    /\ \A t \in Callers : WF_vars(RequestProgress(t))
    /\ WF_vars(ListenerProgress)

----------------------------------------------------------------------------
(* Properties *)

Stale(k) == hard[k] # None /\ version[hard[k]] # stored[k]

\* An event for model k is still to be published or handled.
ReloadPending(k) ==
    \E m \in Evictors :
        /\ arg[m] = k
        /\ \/ m \in outbox
           \/ \E i \in DOMAIN channel : channel[i] = m
           \/ current = m

\* The service does not keep a model older than the stored one, unless an event
\* that would replace it is on its way or was lost: no race of a load with a
\* swap leaves old weights behind.
StaleIsTransient ==
    \A k \in Keys : Stale(k) => ReloadPending(k) \/ k \in missed

\* A load was refused for want of memory, and its future left in _inflight.
SomeLoadRefused == \E u \in Tasks : LoadRefused(u)

\* Each delivered reload event is dealt with, unless the listener dies or a load
\* is refused for want of memory: it never waits for ever for the readers to
\* leave.  (Callers that join the future of a refused load keep the lock.)
ReloadsHandled ==
    \A m \in Evictors :
        (\E i \in DOMAIN channel : channel[i] = m) ~>
            \/ listener = "dead"
            \/ m # current /\ \A i \in DOMAIN channel : channel[i] # m
            \/ SomeLoadRefused

\* A process that has loaded a model gets ready again, unless a load is refused
\* for want of memory: the readiness probe neither answers "Model swap in
\* progress" for ever, nor "No model runtimes loaded" once a swap has taken the
\* old runtime out of the cache.  (A swap whose own load is refused does that.)
ReadinessRecovers == Cached # {} ~> Ready \/ SomeLoadRefused

\* Requests "never see a partially-replaced runtime": none is left with one
\* whose model a hot swap has removed.
NoPartialRuntime == \A t \in Callers : pc[t] # "broken"
============================================================================
