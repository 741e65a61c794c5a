----------------------- MODULE InferenceServiceProofs -----------------------
(***************************************************************************)
(* Theorems about InferenceService, for every set of models, requests and  *)
(* reload events and every capacity: the reader-writer lock makes a hot    *)
(* swap safe for the cache under it.                                       *)
(*                                                                         *)
(* ModelCacheProofs proves its invariants for the uses of the cache that   *)
(* are made here, under the conditions the lock and the registry see to.   *)
(***************************************************************************)
EXTENDS InferenceService, ModelCacheProofs

----------------------------------------------------------------------------
(* The tasks of the service *)

Queued(m) == m \in outbox \/ \E i \in DOMAIN channel : channel[i] = m

\* A request that works is for a registered model, and has read no weights
\* before it loads; an event names its model once it exists, and only the one
\* that replaces a runtime, under the writer lock, ever loads.
TasksOK ==
    /\ \A t \in Callers :
         /\ pc[t] = "idle" => arg[t] = None
         /\ pc[t] \in {"called", "loading", "waiting"} => arg[t] \in registered
         /\ pc[t] \in {"idle", "called"} => version[t] = 0
    /\ \A m \in Evictors :
         /\ Queued(m) \/ current = m => arg[m] \in Keys
         /\ pc[m] \in {"loading", "waiting"} => current = m /\ listener = "writing"
    /\ listener \in {"loading", "wantWrite", "writing", "dropping"} => current \in Evictors

SvcInv == SvcTypeOK /\ TypeInv /\ TasksOK

----------------------------------------------------------------------------
(* Old weights *)

\* An event for k is still to be read by the listener, or was lost.
Announced(k) == k \in missed \/ \E m \in Evictors : arg[m] = k /\ Queued(m)

\* The listener still has k to replace.
Coming(k) ==
    \/ Announced(k)
    \/ listener \in {"loading", "wantWrite"} /\ arg[current] = k

EntriesOf(k) == {hard[k], soft[k]} \ {None}

\* What the cache holds, or a request is about to put into it, is the stored
\* version or the listener still has its model to replace.  What the listener
\* itself is about to put into it is the stored version, or another event of that
\* model is waiting for it.
SwapInv ==
    /\ \A k \in Keys : \A e \in EntriesOf(k) : version[e] = stored[k] \/ Coming(k)
    /\ \A t \in Callers :
         pc[t] = "loading" /\ version[t] # 0 =>
           version[t] = stored[arg[t]] \/ Coming(arg[t])
    /\ listener \in {"wantWrite", "writing"} =>
         version[current] = stored[arg[current]] \/ Announced(arg[current])

\* What is not a use of the cache: a request for an unknown model fails at once,
\* and the worker gives a new event its model.
TakesKey(t, n) ==
    /\ arg[t] = None
    /\ Ask(t, n)
    /\ \/ pc' = pc
       \/ pc[t] = "idle" /\ pc' = [pc EXCEPT ![t] = "raised"]
    /\ UNCHANGED <<hard, older, soft, inflight, fut, pinned, joined, victim, got, gutted>>

\* The service evicts a model only while nobody loads it or waits for it.
LoneEvict(t, n) ==
    /\ EvictUse(t, n)
    /\ \A u \in Tasks : pc[u] \in {"loading", "waiting"} => arg[u] # KeyOf[n]

SvcUse ==
    \/ CallUse
    \/ \E t \in Tasks, n \in Names : LoneEvict(t, n) \/ TakesKey(t, n)

LEMMA ServiceTasks ==
    /\ Tasks = Callers \cup Evictors
    /\ \A t \in Callers, m \in Evictors : t # m
    /\ \A t \in Tasks : t # None /\ t # Failed
  BY CacheAssumption, KnownAssumption DEF Tasks

\* The key a task works on is that of the name it works on.
LEMMA AskedKey ==
    ASSUME TypeInv, NEW t \in Tasks, arg[t] \in Keys
    PROVE  asked[t] \in Names /\ KeyOf[asked[t]] = arg[t]
  BY CacheAssumption DEF TypeInv, TypeOK

\* What evict() does to the model a task works on.
LEMMA EvictAsked ==
    ASSUME TypeInv, NEW t \in Tasks, arg[t] \in Keys, Evict(t, asked[t])
    PROVE  /\ UNCHANGED arg
           /\ hard' = [hard EXCEPT ![arg[t]] = None]
           /\ soft' = [soft EXCEPT ![arg[t]] = None]
           /\ \E w \in {"evicted", "cleanup"} : pc' = [pc EXCEPT ![t] = w]
  <1>1. asked[t] \in Names /\ KeyOf[asked[t]] = arg[t]
    BY AskedKey
  <1>2. /\ arg' = [arg EXCEPT ![t] = arg[t]]
        /\ hard' = [hard EXCEPT ![arg[t]] = None]
        /\ soft' = [soft EXCEPT ![arg[t]] = None]
        /\ pc' = [pc EXCEPT ![t] = IF hard[arg[t]] = None THEN "evicted" ELSE "cleanup"]
    BY <1>1 DEF Evict, Ask
  <1>3. UNCHANGED arg
    BY <1>2 DEF TypeInv, TypeOK
  <1> QED
    BY <1>2, <1>3

\* To the cache, every step of the service is one of the uses it is proved for.
LEMMA ServiceUses ==
    ASSUME SvcInv, [Next]_vars
    PROVE  SvcUse
  <1>1. ASSUME NEW t \in Callers, NEW n \in Names, PredictArrives(t, n)
        PROVE  SvcUse
    <2>1. CASE Request(t, n, Peek(KeyOf[n]))
      <3>1. arg[t] = None
        BY <2>1 DEF Request, SvcInv, TasksOK
      <3> QED
        BY <2>1, <3>1, ServiceTasks DEF CallUse, SvcUse
    <2>2. CASE ~ Request(t, n, Peek(KeyOf[n]))
      <3>1. TakesKey(t, n)
        BY <1>1, <2>2 DEF PredictArrives, SvcInv, TasksOK, TakesKey
      <3> QED
        BY <3>1, ServiceTasks DEF SvcUse
    <2> QED
      BY <2>1, <2>2
  <1>2. ASSUME NEW t \in Callers, NEW n \in Names, RegisterArrives(t, n)
        PROVE  SvcUse
    <2>1. arg[t] = None /\ Request(t, n, None)
      BY <1>2 DEF RegisterArrives, Request, SvcInv, TasksOK
    <2> QED
      BY <2>1, ServiceTasks DEF CallUse, SvcUse
  <1>3. ASSUME NEW t \in Callers, RequestProgress(t)
        PROVE  SvcUse
    <2>1. CASE EnterGetOrLoad(t)
      <3>1. arg[t] \in Keys
        BY <2>1, ServiceTasks DEF EnterGetOrLoad, SvcInv, TypeInv
      <3> QED
        BY <2>1, <3>1, ServiceTasks DEF EnterGetOrLoad, CallUse, SvcUse
    <2>2. CASE ReadWeights(t)
      BY <2>2 DEF ReadWeights, CallUse, SvcUse
    <2> QED
      BY <1>3, <2>1, <2>2, ServiceTasks DEF RequestProgress, CallUse, SvcUse
  <1>4. ASSUME NEW m \in Evictors, NEW n \in Names, SaveWeights(m, n)
        PROVE  SvcUse
    <2>1. TakesKey(m, n)
      BY <1>4 DEF SaveWeights, TakesKey
    <2> QED
      BY <2>1, ServiceTasks DEF SvcUse
  <1>5. CASE ReceiveReload
    <2> DEFINE m == Head(channel)
    <2>1. m \in Evictors /\ arg[m] \in Keys
      <3>1. channel \in Seq(Evictors) /\ channel # <<>>
        BY <1>5 DEF ReceiveReload, SvcInv, SvcTypeOK
      <3>2. 1 \in DOMAIN channel /\ m = channel[1] /\ m \in Evictors
        BY <3>1
      <3> QED
        BY <3>2 DEF SvcInv, TasksOK, Queued
    <2>2. CASE arg[m] \in registered
      <3>1. UNCHANGED cacheVars
        BY <1>5, <2>2 DEF ReceiveReload
      <3> QED
        BY <3>1 DEF CallUse, SvcUse
    <2>3. CASE arg[m] \notin registered
      <3>1. /\ Evict(m, asked[m]) /\ listener = "listening"
            /\ asked[m] \in Names /\ KeyOf[asked[m]] = arg[m]
        BY <1>5, <2>1, <2>3, AskedKey, ServiceTasks DEF ReceiveReload, SvcInv
      <3>2. \A u \in Tasks : pc[u] \in {"loading", "waiting"} => arg[u] # arg[m]
        BY <2>3, <3>1, ServiceTasks DEF SvcInv, TasksOK
      <3>3. LoneEvict(m, asked[m])
        BY <3>1, <3>2 DEF LoneEvict, EvictUse
      <3> QED
        BY <2>1, <3>1, <3>3, ServiceTasks DEF SvcUse
    <2> QED
      BY <2>2, <2>3
  <1>6. ASSUME NEW m \in Evictors, BeginReplace(m)
        PROVE  SvcUse
    <2>1. /\ Evict(m, asked[m]) /\ listener = "wantWrite" /\ Readers = {}
          /\ arg[m] \in Keys /\ asked[m] \in Names
      BY <1>6, AskedKey, ServiceTasks DEF BeginReplace, MayWrite, SvcInv, TasksOK
    <2>2. \A u \in Tasks : pc[u] \notin {"loading", "waiting"}
      BY <2>1, ServiceTasks DEF Readers, SvcInv, TasksOK
    <2>3. LoneEvict(m, asked[m])
      BY <2>1, <2>2 DEF LoneEvict, EvictUse
    <2> QED
      BY <2>1, <2>3, ServiceTasks DEF SvcUse
  <1>7. ASSUME NEW m \in Evictors, InsertFresh(m)
        PROVE  SvcUse
    <2>1. arg[m] \in Keys
      BY <1>7 DEF InsertFresh, SvcInv, TasksOK
    <2> QED
      BY <1>7, <2>1, ServiceTasks DEF InsertFresh, CallUse, SvcUse
  <1>8. ASSUME NEW m \in Evictors, EvictSteps(m)
        PROVE  SvcUse
    BY <1>8, ServiceTasks DEF EvictSteps, CallUse, SvcUse
  <1>9. ASSUME UNCHANGED cacheVars
        PROVE  SvcUse
    BY <1>9 DEF CallUse, SvcUse
  <1>10. CASE ListenerProgress
    <2>1. ASSUME NEW m \in Evictors,
                 \/ LoadFresh(m) \/ LoadFreshFails(m) \/ EndReplace(m) \/ EndDrop(m)
          PROVE  SvcUse
      <3>1. UNCHANGED cacheVars
        BY <2>1 DEF LoadFresh, LoadFreshFails, EndReplace, EndDrop
      <3> QED
        BY <1>9, <3>1
    <2>2. CASE \E m \in Evictors :
                 \/ LoadFresh(m) \/ LoadFreshFails(m) \/ BeginReplace(m)
                 \/ EvictSteps(m) \/ InsertFresh(m)
                 \/ EndReplace(m) \/ EndDrop(m)
      <3> QED
        BY <1>6, <1>7, <1>8, <2>1, <2>2
    <2> QED
      BY <1>5, <1>10, <2>2 DEF ListenerProgress
  <1>11. CASE \E m \in Evictors : Publish(m)
    <2>1. UNCHANGED cacheVars
      BY <1>11 DEF Publish
    <2> QED
      BY <1>9, <2>1
  <1>12. CASE Subscribe \/ ListenerDies \/ UNCHANGED vars
    <2>1. UNCHANGED cacheVars
      BY <1>12 DEF Subscribe, ListenerDies, vars
    <2> QED
      BY <1>9, <2>1
  <1>13. CASE \E t \in Callers, n \in Names :
                PredictArrives(t, n) \/ RegisterArrives(t, n)
    <2> QED
      BY <1>1, <1>2, <1>13
  <1>14. CASE \E t \in Callers : RequestProgress(t)
    <2> QED
      BY <1>3, <1>14
  <1>15. CASE \E m \in Evictors, n \in Names : SaveWeights(m, n)
    <2> QED
      BY <1>4, <1>15
  <1> QED
    BY <1>10, <1>11, <1>12, <1>13, <1>14, <1>15 DEF Next

LEMMA TakesKeyKeeps ==
    ASSUME TypeInv, NEW t \in Tasks, NEW n \in Names, TakesKey(t, n)
    PROVE  /\ TypeInv'
           /\ OwnInv => OwnInv'
           /\ LoadInv => LoadInv'
           /\ CapacityBound => CapacityBound'
  <1> USE CacheAssumption DEF TypeInv, TypeOK, Entries, PcValues, TakesKey, Ask
  <1>1. TypeInv'
    OBVIOUS
  <1>2. ASSUME OwnInv PROVE OwnInv'
    BY <1>2 DEF OwnInv, Same
  <1>3. ASSUME LoadInv PROVE LoadInv'
    BY <1>3 DEF LoadInv
  <1>4. ASSUME CapacityBound PROVE CapacityBound'
    BY <1>4 DEF CapacityBound, Cached
  <1> QED
    BY <1>1, <1>2, <1>3, <1>4

\* So the invariants of the cache are also those of the service, with its
\* evictions.
LEMMA ServiceCacheStep ==
    ASSUME SvcInv, [Next]_vars
    PROVE  /\ TypeInv'
           /\ OwnInv => OwnInv'
           /\ LoadInv => LoadInv'
           /\ CapacityBound => CapacityBound'
  <1>1. TypeInv
    BY DEF SvcInv
  <1>2. CASE CallUse
    BY <1>1, <1>2, TypeStep, OwnStep, LoadStep, CapacityStep DEF CacheUse
  <1>3. ASSUME NEW t \in Tasks, NEW n \in Names, LoneEvict(t, n)
        PROVE  TypeInv' /\ (OwnInv => OwnInv') /\ (LoadInv => LoadInv')
                        /\ (CapacityBound => CapacityBound')
    <2>1. CacheUse
      BY <1>3 DEF CacheUse, LoneEvict
    <2>2. LoadInv => LoadInv'
      BY <1>1, <1>3, LoadEvict DEF LoneEvict
    <2> QED
      BY <1>1, <2>1, <2>2, TypeStep, OwnStep, CapacityStep
  <1> QED
    BY <1>1, <1>2, <1>3, TakesKeyKeeps, ServiceUses DEF SvcUse

LEMMA AppendedOnly ==
    ASSUME NEW S, NEW s \in Seq(S), NEW e \in S
    PROVE  /\ Append(s, e) \in Seq(S)
           /\ \A i \in DOMAIN Append(s, e) :
                Append(s, e)[i] = e \/ \E j \in DOMAIN s : Append(s, e)[i] = s[j]
           /\ \A i \in DOMAIN s : i \in DOMAIN Append(s, e) /\ Append(s, e)[i] = s[i]
           /\ Len(s) + 1 \in DOMAIN Append(s, e) /\ Append(s, e)[Len(s) + 1] = e
  <1>1. Append(s, e) \in Seq(S) /\ Len(Append(s, e)) = Len(s) + 1 /\ Len(s) \in Nat
    OBVIOUS
  <1>2. DOMAIN Append(s, e) = 1 .. Len(s) + 1 /\ DOMAIN s = 1 .. Len(s)
    BY <1>1
  <1>3. /\ \A i \in 1 .. Len(s) : Append(s, e)[i] = s[i]
        /\ Append(s, e)[Len(s) + 1] = e
    OBVIOUS
  <1> QED
    BY <1>1, <1>2, <1>3

LEMMA TailOnly ==
    ASSUME NEW S, NEW s \in Seq(S), s # <<>>
    PROVE  /\ Head(s) \in S /\ Tail(s) \in Seq(S)
           /\ 1 \in DOMAIN s /\ s[1] = Head(s)
           /\ \A i \in DOMAIN Tail(s) : \E j \in DOMAIN s : Tail(s)[i] = s[j]
           /\ \A j \in DOMAIN s : s[j] = Head(s) \/ \E i \in DOMAIN Tail(s) : Tail(s)[i] = s[j]
  <1>1. /\ Head(s) \in S /\ Tail(s) \in Seq(S) /\ 1 \in DOMAIN s /\ s[1] = Head(s)
        /\ Len(s) \in Nat /\ Len(s) > 0 /\ Len(Tail(s)) = Len(s) - 1
    OBVIOUS
  <1>2. DOMAIN Tail(s) = 1 .. Len(s) - 1 /\ DOMAIN s = 1 .. Len(s)
    BY <1>1
  <1>3. \A i \in 1 .. Len(s) - 1 : Tail(s)[i] = s[i + 1]
    OBVIOUS
  <1>4. ASSUME NEW j \in DOMAIN s
        PROVE  s[j] = Head(s) \/ \E i \in DOMAIN Tail(s) : Tail(s)[i] = s[j]
    <2>1. CASE j = 1
      BY <1>1, <2>1
    <2>2. CASE j # 1
      <3>1. j - 1 \in DOMAIN Tail(s) /\ Tail(s)[j - 1] = s[j]
        BY <1>1, <1>2, <1>3, <2>2
      <3> QED
        BY <3>1
    <2> QED
      BY <2>1, <2>2
  <1>5. ASSUME NEW i \in DOMAIN Tail(s)
        PROVE  \E j \in DOMAIN s : Tail(s)[i] = s[j]
    <2>1. i + 1 \in DOMAIN s /\ Tail(s)[i] = s[i + 1]
      BY <1>1, <1>2, <1>3
    <2> QED
      BY <2>1
  <1> QED
    BY <1>1, <1>4, <1>5

\* Requests and events are where the lock and the registry say.
LEMMA SvcStep == SvcInv /\ [Next]_vars => SvcInv'
  <1> SUFFICES ASSUME SvcInv, [Next]_vars
               PROVE  SvcTypeOK' /\ TasksOK'
    BY ServiceCacheStep DEF SvcInv
  <1>t. TypeInv' /\ TypeOK'
    BY ServiceCacheStep DEF TypeInv
  <1>q. channel # <<>> =>
          /\ Head(channel) \in Evictors /\ Queued(Head(channel))
          /\ Tail(channel) \in Seq(Evictors)
          /\ \A i \in DOMAIN Tail(channel) : \E j \in DOMAIN channel :
               Tail(channel)[i] = channel[j]
    <2>1. channel \in Seq(Evictors)
      BY DEF SvcInv, SvcTypeOK
    <2> QED
      BY <2>1, TailOnly DEF Queued
  <1> USE ServiceTasks, KnownAssumption, CacheAssumption
      DEF SvcInv, SvcTypeOK, TypeOK, PcValues, ListenerValues, TasksOK, Queued
  <1> DEFINE Goal == SvcTypeOK' /\ TasksOK'
  <1>0. ASSUME NEW t \in Callers, NEW k \in Keys \cup {None}, NEW w \in PcValues \ {"idle"},
               UNCHANGED <<stored, version, outbox, channel, current, listener,
                           swapping, missed>>,
               registered' \in {registered, registered \cup {k}}, registered' \subseteq Keys,
               arg' = [arg EXCEPT ![t] = k],
               pc' = [pc EXCEPT ![t] = w],
               w \in {"called", "loading", "waiting"} => k \in registered',
               w = "called" => version[t] = 0
        PROVE  Goal
    <2>1. SvcTypeOK'
      BY <1>t, <1>0
    <2>2. \A u \in Callers :
            /\ u = t => arg'[u] = k /\ pc'[u] = w
            /\ u # t => arg'[u] = arg[u] /\ pc'[u] = pc[u]
      BY <1>0
    <2>3. \A m \in Evictors : arg'[m] = arg[m] /\ pc'[m] = pc[m]
      BY <1>0
    <2>4. TasksOK'
      BY <1>0, <2>2, <2>3
    <2> QED
      BY <2>1, <2>4
  <1>1. ASSUME NEW t \in Callers, NEW n \in Names,
               (PredictArrives(t, n) /\ UNCHANGED svcVars) \/ RegisterArrives(t, n)
        PROVE  Goal
    <2> DEFINE k == KeyOf[n]
    <2>1. /\ UNCHANGED <<stored, version, outbox, channel, current, listener,
                         swapping, missed>>
          /\ registered' \in {registered, registered \cup {k}}
          /\ arg' = [arg EXCEPT ![t] = k]
          /\ version[t] = 0
          /\ \/ pc' = [pc EXCEPT ![t] = "called"] /\ k \in registered'
             \/ pc' = [pc EXCEPT ![t] = "raised"]
      BY <1>1 DEF PredictArrives, RegisterArrives, Request, Ask, svcVars
    <2>2. registered' \subseteq Keys /\ k \in Keys
      BY <2>1
    <2> HIDE DEF Goal
    <2> QED
      BY <1>0, <2>1, <2>2
  <1>2. ASSUME NEW t \in Callers, EnterGetOrLoad(t), UNCHANGED svcVars
        PROVE  Goal
    <2>1. /\ arg[t] \in registered /\ arg' = arg
          /\ \E w \in {"ready", "waiting", "loading", "raised"} : pc' = [pc EXCEPT ![t] = w]
      BY <1>2 DEF EnterGetOrLoad, GetOrLoad, Hit, Promote, Join, BeginLoad, RefuseLoad
    <2>2. arg' = [arg EXCEPT ![t] = arg[t]] /\ arg[t] \in Keys
      BY <1>t, <2>1
    <2>3. UNCHANGED svcVars
      BY <1>2
    <2> HIDE DEF Goal
    <2> QED
      BY <1>0, <2>1, <2>2, <2>3 DEF svcVars
  <1>3. ASSUME NEW t \in Callers, ReadWeights(t)
        PROVE  Goal
    <2>1. /\ UNCHANGED <<cacheVars, stored, registered, outbox, channel, current,
                         listener, swapping, missed>>
          /\ pc[t] = "loading" /\ version' = [version EXCEPT ![t] = stored[arg[t]]]
      BY <1>3 DEF ReadWeights
    <2>2. version' \in [Tasks -> Nat] /\ \A u \in Tasks : u # t => version'[u] = version[u]
      BY <1>t, <2>1 DEF TypeInv
    <2> QED
      BY <1>t, <2>1, <2>2 DEF cacheVars
  <1>4. ASSUME NEW t \in Tasks, UNCHANGED svcVars,
               \/ LoadSucceeds(t) \/ LoadFails(t) \/ WakeUp(t) \/ Predict(t)
               \/ CleanupEntry(t) \/ CleanupReturns(t)
        PROVE  Goal
    <2>1. /\ UNCHANGED <<arg, svcVars>>
          /\ \E w \in PcValues \ {"idle", "called", "loading", "waiting"} :
               pc' = [pc EXCEPT ![t] = w]
      BY <1>4 DEF LoadSucceeds, LoadFails, WakeUp, Predict, CleanupEntry, CleanupReturns
    <2> QED
      BY <1>t, <2>1 DEF svcVars
  <1>5. ASSUME NEW m \in Evictors, NEW n \in Names, SaveWeights(m, n)
        PROVE  Goal
    BY <1>t, <1>5 DEF SaveWeights, Ask
  <1>6. ASSUME NEW m \in Evictors, Publish(m)
        PROVE  Goal
    <2>1. /\ channel' = channel \/ channel' = Append(channel, m)
          /\ channel \in Seq(Evictors)
      BY <1>6 DEF Publish
    <2>2. /\ channel' \in Seq(Evictors)
          /\ \A i \in DOMAIN channel' :
               channel'[i] = m \/ \E j \in DOMAIN channel : channel'[i] = channel[j]
      <3>1. CASE channel' = channel
        BY <2>1, <3>1
      <3>2. CASE channel' = Append(channel, m)
        BY <2>1, <3>2, AppendedOnly
      <3> QED
        BY <2>1, <3>1, <3>2
    <2>3. Queued(m)
      BY <1>6 DEF Publish
    <2>4. \A e \in Evictors : Queued(e)' => Queued(e)
      BY <1>6, <2>2, <2>3 DEF Publish
    <2>5. UNCHANGED <<cacheVars, stored, version, registered, current, listener, swapping>>
      BY <1>6 DEF Publish
    <2>6. outbox' \subseteq Evictors /\ missed' \subseteq Keys
      BY <1>6, <2>3 DEF Publish
    <2> HIDE DEF Queued
    <2> QED
      BY <1>t, <2>2, <2>4, <2>5, <2>6 DEF cacheVars
  <1>7. CASE Subscribe
    BY <1>t, <1>7 DEF Subscribe, cacheVars
  <1>8. CASE ListenerDies
    BY <1>t, <1>8 DEF ListenerDies, cacheVars
  <1>9. CASE ReceiveReload
    <2> DEFINE m == Head(channel)
    <2>1. CASE arg[m] \in registered
      BY <1>t, <1>q, <1>9, <2>1 DEF ReceiveReload, cacheVars
    <2>2. CASE arg[m] \notin registered
      <3>1. /\ UNCHANGED arg
            /\ \E w \in {"evicted", "cleanup"} : pc' = [pc EXCEPT ![m] = w]
        BY <1>q, <1>9, <2>2, EvictAsked DEF ReceiveReload
      <3> QED
        BY <1>t, <1>q, <1>9, <2>2, <3>1 DEF ReceiveReload
    <2> QED
      BY <2>1, <2>2
  <1>10. ASSUME NEW m \in Evictors, LoadFresh(m)
         PROVE  Goal
    BY <1>t, <1>10 DEF LoadFresh, cacheVars
  <1>11. ASSUME NEW m \in Evictors, LoadFreshFails(m) \/ EndReplace(m) \/ EndDrop(m)
         PROVE  Goal
    BY <1>t, <1>11 DEF LoadFreshFails, EndReplace, EndDrop, FinishEvent, cacheVars
  <1>12. ASSUME NEW m \in Evictors, BeginReplace(m)
         PROVE  Goal
    <2>1. /\ UNCHANGED arg
          /\ \E w \in {"evicted", "cleanup"} : pc' = [pc EXCEPT ![m] = w]
      BY <1>12, EvictAsked DEF BeginReplace
    <2> QED
      BY <1>t, <1>12, <2>1 DEF BeginReplace
  <1>13. ASSUME NEW m \in Evictors, InsertFresh(m), UNCHANGED svcVars
         PROVE  Goal
    <2>1. CASE pc[m] = "evicted" /\ GetOrLoad(m, arg[m])
      BY <1>t, <1>13, <2>1 DEF InsertFresh, GetOrLoad, Hit, Promote, Join, BeginLoad,
                      RefuseLoad, svcVars
    <2> QED
      BY <1>4, <1>13, <2>1 DEF InsertFresh
  <1>14. CASE UNCHANGED vars
    BY <1>t, <1>14 DEF vars, cacheVars, svcVars
  <1> QED
    BY <1>1, <1>2, <1>3, <1>4, <1>5, <1>6, <1>7, <1>8, <1>9, <1>10, <1>11,
       <1>12, <1>13, <1>14
    DEF Next, RequestProgress, ListenerProgress, EvictSteps

----------------------------------------------------------------------------
(* Old weights are replaced *)

\* A step of the cache that adds to it no more than the runtime of a task that
\* is loading keeps what the events promise.
LEMMA SwapKept ==
    ASSUME SvcInv, SwapInv, NEW t \in Tasks,
           UNCHANGED <<stored, version, outbox, channel, current, listener, missed>>,
           \A m \in Evictors : arg'[m] = arg[m],
           \A u \in Callers : pc'[u] = "loading" /\ version[u] # 0 =>
                                pc[u] = "loading" /\ arg'[u] = arg[u],
           \A k \in Keys : \A e \in EntriesOf(k)' :
             \/ e \in EntriesOf(k)
             \/ /\ e = t /\ k = arg[t] /\ pc[t] = "loading"
                /\ t \in Callers => version[t] # 0
    PROVE  SwapInv'
  <1> USE ServiceTasks
  <1>1. \A k : Announced(k)' <=> Announced(k)
    BY DEF Announced, Queued
  <1>2. listener \in {"loading", "wantWrite", "writing"} => current \in Evictors
    BY DEF SvcInv, TasksOK
  <1>3. \A k : Coming(k)' <=> Coming(k)
    BY <1>1, <1>2 DEF Coming
  <1>4. ASSUME NEW k \in Keys, NEW e \in EntriesOf(k)'
        PROVE  version[e] = stored[k] \/ Coming(k)
    <2>1. CASE e \in EntriesOf(k)
      BY <2>1 DEF SwapInv
    <2>2. CASE t \in Callers /\ e = t /\ k = arg[t] /\ pc[t] = "loading" /\ version[t] # 0
      BY <2>2 DEF SwapInv
    <2>3. CASE t \in Evictors /\ e = t /\ k = arg[t] /\ pc[t] = "loading"
      <3>1. current = t /\ listener = "writing"
        BY <2>3 DEF SvcInv, TasksOK
      <3> QED
        BY <2>3, <3>1 DEF SwapInv, Coming
    <2> QED
      BY <1>4, <2>1, <2>2, <2>3
  <1>5. ASSUME NEW u \in Callers, pc'[u] = "loading", version[u] # 0
        PROVE  version[u] = stored[arg'[u]] \/ Coming(arg'[u])
    BY <1>5 DEF SwapInv
  <1>6. ASSUME listener \in {"wantWrite", "writing"}
        PROVE  version[current] = stored[arg'[current]] \/ Announced(arg'[current])
    BY <1>2, <1>6 DEF SwapInv
  <1> QED
    BY <1>1, <1>3, <1>4, <1>5, <1>6 DEF SwapInv

LEMMA StoreEntries ==
    ASSUME TypeInv, NEW k \in Keys, NEW e \in Entries, NEW v \in Keys \cup {None},
           Store(k, e, v)
    PROVE  \A j \in Keys : \A f \in EntriesOf(j)' :
             f \in EntriesOf(j) \/ (f = e /\ j = k)
  <1> USE DEF TypeInv, TypeOK
  <1>1. ASSUME NEW j \in Keys
        PROVE  /\ hard'[j] \in {hard[j], None} \/ (hard'[j] = e /\ j = k)
               /\ soft'[j] \in {soft[j], hard[j]}
    <2>1. CASE hard' = [hard EXCEPT ![k] = e] /\ soft' = soft
      <3>1. hard'[j] = IF j = k THEN e ELSE hard[j]
        BY <2>1
      <3> QED
        BY <2>1, <3>1
    <2>2. CASE /\ hard' = [hard EXCEPT ![k] = e, ![v] = None]
               /\ soft' = [soft EXCEPT ![v] = hard[v]]
      <3>1. /\ hard'[j] = IF j = v THEN None ELSE IF j = k THEN e ELSE hard[j]
            /\ soft'[j] = IF j = v THEN hard[j] ELSE soft[j]
        BY <2>2
      <3> QED
        BY <3>1
    <2> QED
      BY <2>1, <2>2 DEF Store
  <1> QED
    BY <1>1 DEF EntriesOf

\* A call that finds its key, joins a load or begins one adds nothing.
LEMMA GetOrLoadEntries ==
    ASSUME TypeInv, NEW t \in Tasks, arg[t] \in Keys, GetOrLoad(t, arg[t])
    PROVE  /\ \A j \in Keys : EntriesOf(j)' \subseteq EntriesOf(j)
           /\ UNCHANGED arg
           /\ \A u \in Tasks : u # t => pc'[u] = pc[u]
  <1>1. CASE Promote(t, arg[t])
    <2>1. SoftGet(arg[t]) = soft[arg[t]] /\ SoftGet(arg[t]) \in Entries
      BY <1>1, PeekType DEF Promote, SoftGet, TypeInv
    <2>2. \A j \in Keys : \A f \in EntriesOf(j)' :
             f \in EntriesOf(j) \/ (f = SoftGet(arg[t]) /\ j = arg[t])
      <3>1. PICK v \in Keys \cup {None} : Store(arg[t], SoftGet(arg[t]), v)
        BY <1>1 DEF Promote
      <3> QED
        BY <2>1, <3>1, StoreEntries
    <2>3. SoftGet(arg[t]) \in EntriesOf(arg[t])
      BY <1>1, <2>1 DEF Promote, EntriesOf
    <2> QED
      BY <1>1, <2>2, <2>3 DEF Promote, TypeInv, TypeOK
  <1>2. CASE \/ Hit(t, arg[t]) \/ Join(t, arg[t]) \/ BeginLoad(t, arg[t])
             \/ RefuseLoad(t, arg[t])
    BY <1>2 DEF Hit, Join, BeginLoad, RefuseLoad, EntriesOf, TypeInv, TypeOK
  <1> QED
    BY <1>1, <1>2 DEF GetOrLoad

LEMMA LoadSucceedsEntries ==
    ASSUME TypeInv, NEW t \in Tasks, LoadSucceeds(t)
    PROVE  /\ \A j \in Keys : \A e \in EntriesOf(j)' :
                e \in EntriesOf(j) \/ (e = t /\ j = arg[t])
           /\ UNCHANGED arg
           /\ pc[t] = "loading"
           /\ \A u \in Tasks : pc'[u] = "loading" => pc[u] = "loading"
  <1>1. PICK v \in Keys \cup {None} :
          /\ Store(arg[t], t, v)
          /\ pc' = [pc EXCEPT ![t] = IF v = None THEN "ready" ELSE "cleanup"]
    BY DEF LoadSucceeds
  <1>2. t \in Entries /\ arg[t] \in Keys
    BY DEF Entries, LoadSucceeds, TypeInv
  <1> QED
    BY <1>1, <1>2, StoreEntries DEF LoadSucceeds, TypeInv, TypeOK


LEMMA SwapStep == SvcInv /\ OwnInv /\ SwapInv /\ [Next]_vars => SwapInv'
  <1> SUFFICES ASSUME SvcInv, OwnInv, SwapInv, [Next]_vars
               PROVE  SwapInv'
    OBVIOUS
  <1>t. TypeInv /\ SvcTypeOK /\ TypeOK /\ SvcTypeOK'
    BY SvcStep DEF SvcInv, TypeInv
  <1>o. \A k \in Keys : \A e \in EntriesOf(k) : e \in Tasks /\ arg[e] = k
    BY <1>t DEF TypeOK, Entries, OwnInv, EntriesOf
  <1>c. listener \in {"loading", "wantWrite", "writing", "dropping"} => current \in Evictors
    BY DEF SvcInv, TasksOK
  <1> USE ServiceTasks
  <1>1. ASSUME NEW t \in Callers, NEW n \in Names,
               (PredictArrives(t, n) /\ UNCHANGED svcVars) \/ RegisterArrives(t, n)
        PROVE  SwapInv'
    <2>1. /\ UNCHANGED <<hard, soft, stored, version, outbox, channel, current,
                         listener, missed>>
          /\ arg' = [arg EXCEPT ![t] = KeyOf[n]]
          /\ \E w \in {"called", "raised"} : pc' = [pc EXCEPT ![t] = w]
      BY <1>1 DEF PredictArrives, RegisterArrives, Request, Ask, svcVars
    <2>3. \A j \in Keys : EntriesOf(j)' = EntriesOf(j)
      BY <2>1 DEF EntriesOf
    <2>4. \A m \in Evictors : arg'[m] = arg[m]
      BY <1>t, <2>1 DEF TypeOK
    <2>5. \A u \in Callers : pc'[u] = "loading" => pc[u] = "loading" /\ arg'[u] = arg[u]
      BY <1>t, <2>1 DEF TypeOK
    <2> QED
      BY <2>1, <2>3, <2>4, <2>5, SwapKept
  <1>2. ASSUME NEW t \in Tasks, arg[t] \in Keys, GetOrLoad(t, arg[t]), UNCHANGED svcVars,
               t \in Callers => version[t] = 0
        PROVE  SwapInv'
    <2>1. \A u \in Callers : pc'[u] = "loading" /\ version[u] # 0 => pc[u] = "loading"
      BY <1>2, <1>t, GetOrLoadEntries
    <2>2. /\ \A j \in Keys : EntriesOf(j)' \subseteq EntriesOf(j)
          /\ UNCHANGED arg
      BY <1>2, <1>t, GetOrLoadEntries
    <2> QED
      BY <1>2, <2>1, <2>2, SwapKept DEF svcVars
  <1>3. ASSUME NEW t \in Tasks, LoadSucceeds(t), UNCHANGED svcVars,
               t \in Callers => version[t] # 0
        PROVE  SwapInv'
    <2>1. /\ \A j \in Keys : \A e \in EntriesOf(j)' :
                e \in EntriesOf(j) \/ (e = t /\ j = arg[t])
          /\ UNCHANGED arg
          /\ pc[t] = "loading"
          /\ \A u \in Tasks : pc'[u] = "loading" => pc[u] = "loading"
      BY <1>3, <1>t, LoadSucceedsEntries
    <2> QED
      BY <1>3, <2>1, SwapKept DEF svcVars
  <1>4. ASSUME NEW t \in Tasks, UNCHANGED svcVars,
               \/ LoadFails(t) \/ WakeUp(t) \/ Predict(t)
               \/ CleanupEntry(t) \/ CleanupReturns(t)
        PROVE  SwapInv'
    <2>1. /\ UNCHANGED <<hard, soft, arg>>
          /\ \E w \in PcValues \ {"loading"} : pc' = [pc EXCEPT ![t] = w]
      BY <1>4 DEF LoadFails, WakeUp, Predict, CleanupEntry, CleanupReturns, PcValues
    <2>2. \A u \in Callers : pc'[u] = "loading" => pc[u] = "loading"
      BY <1>t, <2>1 DEF TypeOK
    <2>3. \A j \in Keys : EntriesOf(j)' = EntriesOf(j)
      BY <2>1 DEF EntriesOf
    <2> QED
      BY <1>4, <2>1, <2>2, <2>3, SwapKept DEF svcVars
  <1>5. ASSUME NEW t \in Callers, ReadWeights(t)
        PROVE  SwapInv'
    <2>1. /\ UNCHANGED <<hard, soft, pc, arg, stored, outbox, channel, current,
                         listener, missed>>
          /\ version' = [version EXCEPT ![t] = stored[arg[t]]]
      BY <1>5 DEF ReadWeights, cacheVars
    <2>2. \A k : /\ Announced(k)' <=> Announced(k)
                 /\ Coming(k)' <=> Coming(k)
                 /\ EntriesOf(k)' = EntriesOf(k)
      BY <2>1 DEF Announced, Queued, Coming, EntriesOf
    <2>3. \A u \in Tasks : version'[u] = version[u] \/ version'[u] = stored[arg[u]]
      BY <1>t, <2>1 DEF SvcTypeOK
    <2>4. \A k \in Keys : \A e \in EntriesOf(k) : version'[e] = stored[k] \/ Coming(k)
      BY <1>o, <2>3 DEF SwapInv
    <2> QED
      BY <1>c, <2>1, <2>2, <2>3, <2>4 DEF SwapInv
  <1>6. ASSUME NEW m \in Evictors, NEW n \in Names, SaveWeights(m, n)
        PROVE  SwapInv'
    <2> DEFINE k == KeyOf[n]
    <2>k. k \in Keys
      BY CacheAssumption
    <2>1. /\ UNCHANGED <<hard, soft, pc, version, channel, current, listener, missed>>
          /\ arg' = [arg EXCEPT ![m] = k] /\ arg[m] = None
          /\ stored' = [stored EXCEPT ![k] = @ + 1]
          /\ outbox' = outbox \cup {m}
      BY <1>6 DEF SaveWeights, Ask
    <2> HIDE DEF k
    <2>2. k # None /\ ~Queued(m) /\ current # m
      BY <2>k, <2>1, CacheAssumption DEF SvcInv, TasksOK
    <2>3. Announced(k)'
      BY <1>t, <2>1 DEF Announced, Queued, TypeOK
    <2>4. \A u \in Tasks : u # m => arg'[u] = arg[u]
      BY <1>t, <2>1 DEF TypeOK
    <2>5. \A j : Announced(j) => Announced(j)'
      BY <2>1, <2>2, <2>4 DEF Announced, Queued
    <2>6. \A j : Coming(j) => Coming(j)'
      BY <1>c, <2>1, <2>2, <2>4, <2>5 DEF Coming
    <2>7. \A j \in Keys : j # k => stored'[j] = stored[j]
      BY <1>t, <2>1 DEF SvcTypeOK
    <2>8. \A j \in Keys : EntriesOf(j)' = EntriesOf(j)
      BY <2>1 DEF EntriesOf
    <2>9. Coming(k)'
      BY <2>3 DEF Coming
    <2>10. \A u \in Callers : pc[u] = "loading" => arg[u] \in Keys
      BY <1>t DEF TypeInv
    <2>11. listener \in {"wantWrite", "writing"} => arg[current] \in Keys
      BY <1>c DEF SvcInv, TasksOK
    <2>12. ASSUME NEW u \in Callers
           PROVE  (pc[u] = "loading" /\ version[u] # 0 =>
                     version[u] = stored[arg[u]] \/ Coming(arg[u]))'
      <3>1. arg'[u] = arg[u]
        BY <2>4
      <3> QED
        BY <2>1, <2>6, <2>7, <2>9, <2>10, <3>1 DEF SwapInv
    <2>13. (listener \in {"wantWrite", "writing"} =>
              version[current] = stored[arg[current]] \/ Announced(arg[current]))'
      <3>1. ASSUME listener \in {"wantWrite", "writing"}
            PROVE  arg'[current] = arg[current]
        BY <1>c, <2>2, <2>4, <3>1
      <3> QED
        BY <2>1, <2>3, <2>5, <2>7, <2>11, <3>1 DEF SwapInv
    <2>14. \A j \in Keys : \A e \in EntriesOf(j)' : version'[e] = stored'[j] \/ Coming(j)'
      BY <2>1, <2>6, <2>7, <2>8, <2>9 DEF SwapInv
    <2> QED
      BY <2>12, <2>13, <2>14 DEF SwapInv
  <1>7. ASSUME UNCHANGED <<hard, soft, pc, arg, stored, version>>,
               \A k \in Keys : Coming(k) => Coming(k)',
               listener' \in {"wantWrite", "writing"} =>
                 /\ UNCHANGED <<current, listener>>
                 /\ \A k \in Keys : Announced(k) => Announced(k)'
        PROVE  SwapInv'
    <2>1. \A j \in Keys : EntriesOf(j)' = EntriesOf(j)
      BY <1>7 DEF EntriesOf
    <2>2. \A u \in Callers : pc[u] = "loading" => arg[u] \in Keys
      BY <1>t DEF TypeInv
    <2>3. listener \in {"wantWrite", "writing"} => arg[current] \in Keys
      BY <1>c DEF SvcInv, TasksOK
    <2> QED
      BY <1>7, <2>1, <2>2, <2>3 DEF SwapInv
  <1>8. ASSUME NEW m \in Evictors, Publish(m)
        PROVE  SwapInv'
    <2>1. /\ UNCHANGED <<hard, soft, pc, arg, stored, version, current, listener>>
          /\ outbox' = outbox \ {m}
          /\ \/ channel' = Append(channel, m) /\ missed' = missed
             \/ missed' = missed \cup {arg[m]} /\ channel' = channel
      BY <1>8 DEF Publish, cacheVars
    <2>2. channel \in Seq(Evictors)
      BY <1>t DEF SvcTypeOK
    <2>3. \A e \in Evictors : Queued(e) => Queued(e)' \/ arg[e] \in missed'
      <3>1. CASE channel' = Append(channel, m)
        BY <2>1, <2>2, <3>1, AppendedOnly DEF Queued
      <3>2. CASE missed' = missed \cup {arg[m]} /\ channel' = channel
        BY <2>1, <3>2 DEF Queued
      <3> QED
        BY <2>1, <3>1, <3>2
    <2>4. \A k \in Keys : Announced(k) => Announced(k)'
      BY <2>1, <2>3 DEF Announced
    <2> QED
      BY <1>7, <2>1, <2>4 DEF Coming
  <1>9. CASE Subscribe
    <2>1. UNCHANGED <<hard, soft, pc, arg, stored, version, outbox, channel, current, missed>>
      BY <1>9 DEF Subscribe, cacheVars
    <2>2. \A k \in Keys : Announced(k) => Announced(k)'
      BY <2>1 DEF Announced, Queued
    <2> QED
      BY <1>7, <1>9, <2>1, <2>2 DEF Coming, Subscribe
  <1>10. CASE ListenerDies
    <2>1. /\ UNCHANGED <<hard, soft, pc, arg, stored, version, outbox, current>>
          /\ listener = "listening" /\ listener' = "dead"
          /\ missed' = missed \cup {arg[channel[i]] : i \in DOMAIN channel}
      BY <1>10 DEF ListenerDies, cacheVars
    <2>2. \A k \in Keys : Announced(k) => Announced(k)'
      BY <2>1 DEF Announced, Queued
    <2> QED
      BY <1>7, <2>1, <2>2 DEF Coming
  <1>11. CASE ReceiveReload
    <2> DEFINE m == Head(channel)
    <2>1. /\ UNCHANGED <<stored, version, outbox, missed>>
          /\ listener = "listening" /\ channel # <<>>
          /\ current' = m /\ channel' = Tail(channel)
      BY <1>11 DEF ReceiveReload
    <2>2. /\ m \in Evictors /\ arg[m] \in Keys
          /\ \A j \in DOMAIN channel :
               channel[j] = m \/ \E i \in DOMAIN channel' : channel'[i] = channel[j]
      <3>1. channel \in Seq(Evictors)
        BY <1>t DEF SvcTypeOK
      <3>2. m \in Evictors /\ Queued(m)
        BY <2>1, <3>1, TailOnly DEF Queued
      <3> QED
        BY <2>1, <3>1, <3>2, TailOnly DEF SvcInv, TasksOK
    <2> HIDE DEF m
    <2>3. CASE arg[m] \in registered
      <3>1. listener' = "loading" /\ UNCHANGED cacheVars
        BY <1>11, <2>3 DEF ReceiveReload, m
      <3>2. \A k \in Keys : Coming(k) => Coming(k)'
        BY <2>1, <2>2, <3>1 DEF Coming, Announced, Queued, cacheVars
      <3>3. UNCHANGED <<hard, soft, pc, arg>>
        BY <3>1 DEF cacheVars
      <3> QED
        BY <1>7, <2>1, <3>1, <3>2, <3>3
    <2>4. CASE arg[m] \notin registered
      <3>1. /\ listener' = "dropping"
            /\ Evict(m, asked[m])
        BY <1>11, <2>4 DEF ReceiveReload, m
      <3>2. /\ arg' = arg
            /\ hard' = [hard EXCEPT ![arg[m]] = None]
            /\ soft' = [soft EXCEPT ![arg[m]] = None]
            /\ \E w \in {"evicted", "cleanup"} : pc' = [pc EXCEPT ![m] = w]
        BY <1>t, <2>2, <3>1, EvictAsked
      <3>3. \A k \in Keys : k # arg[m] /\ Coming(k) => Coming(k)'
        BY <2>1, <2>2, <3>1, <3>2 DEF Coming, Announced, Queued
      <3>4. \A k \in Keys : EntriesOf(k)' = IF k = arg[m] THEN {} ELSE EntriesOf(k)
        BY <1>t, <2>2, <3>2 DEF EntriesOf, TypeOK
      <3>5. \A u \in Callers : pc'[u] = pc[u] /\ (pc[u] = "loading" => arg[u] \in Keys \ {arg[m]})
        BY <1>t, <2>2, <2>4, <3>2 DEF TypeOK, TypeInv, SvcInv, TasksOK
      <3> QED
        BY <2>1, <3>1, <3>2, <3>3, <3>4, <3>5 DEF SwapInv
    <2> QED
      BY <2>3, <2>4
  <1>12. ASSUME NEW m \in Evictors, LoadFresh(m)
         PROVE  SwapInv'
    <2>1. /\ UNCHANGED <<hard, soft, pc, arg, stored, outbox, channel, current, missed>>
          /\ version' = [version EXCEPT ![m] = stored[arg[m]]]
          /\ listener = "loading" /\ listener' = "wantWrite" /\ current = m
      BY <1>12 DEF LoadFresh, cacheVars
    <2>2. \A k : /\ Coming(k)' <=> Coming(k)
                 /\ EntriesOf(k)' = EntriesOf(k)
      BY <2>1 DEF Announced, Queued, Coming, EntriesOf
    <2>3. /\ \A u \in Tasks : u # m => version'[u] = version[u]
          /\ version'[m] = stored[arg[m]]
      BY <1>t, <2>1 DEF SvcTypeOK
    <2>4. \A k \in Keys : \A e \in EntriesOf(k) : version'[e] = stored[k] \/ Coming(k)
      BY <1>o, <2>3 DEF SwapInv
    <2> QED
      BY <2>1, <2>2, <2>3, <2>4 DEF SwapInv
  <1>13. ASSUME NEW m \in Evictors, LoadFreshFails(m) \/ EndReplace(m) \/ EndDrop(m)
         PROVE  SwapInv'
    <2>1. /\ UNCHANGED <<hard, soft, pc, arg, stored, version, outbox, channel>>
          /\ listener' = "listening" /\ current = m
          /\ listener = "loading" => missed' = missed \cup {arg[m]}
          /\ listener # "wantWrite"
          /\ missed \subseteq missed'
      BY <1>13 DEF LoadFreshFails, EndReplace, EndDrop, FinishEvent, cacheVars
    <2>2. \A k \in Keys : Announced(k) => Announced(k)'
      BY <2>1 DEF Announced, Queued
    <2>3. \A k \in Keys : Coming(k) => Coming(k)'
      BY <2>1, <2>2 DEF Coming, Announced
    <2> QED
      BY <1>7, <2>1, <2>2, <2>3
  <1>14. ASSUME NEW m \in Evictors, BeginReplace(m)
         PROVE  SwapInv'
    <2>1. /\ UNCHANGED <<stored, version, outbox, channel, current, missed>>
          /\ listener = "wantWrite" /\ listener' = "writing" /\ current = m
          /\ Evict(m, asked[m]) /\ Readers = {} /\ arg[m] \in Keys
      BY <1>14 DEF BeginReplace, MayWrite, SvcInv, TasksOK
    <2>2. /\ arg' = arg
          /\ hard' = [hard EXCEPT ![arg[m]] = None]
          /\ soft' = [soft EXCEPT ![arg[m]] = None]
          /\ \E w \in {"evicted", "cleanup"} : pc' = [pc EXCEPT ![m] = w]
      BY <1>t, <2>1, EvictAsked
    <2>3. \A k \in Keys : k # arg[m] /\ Coming(k) => Coming(k)'
      BY <2>1, <2>2 DEF Coming, Announced, Queued
    <2>4. \A k \in Keys : EntriesOf(k)' = IF k = arg[m] THEN {} ELSE EntriesOf(k)
      BY <1>t, <2>1, <2>2 DEF EntriesOf, TypeOK
    <2>5. \A u \in Callers : pc'[u] # "loading"
      BY <1>t, <2>1, <2>2 DEF TypeOK, Readers
    <2>6. (version[current] = stored[arg[current]] \/ Announced(arg[current]))'
      BY <2>1, <2>2 DEF SwapInv, Announced, Queued
    <2> QED
      BY <2>1, <2>3, <2>4, <2>5, <2>6 DEF SwapInv
  <1>15. ASSUME NEW t \in Callers, RequestProgress(t)
         PROVE  SwapInv'
    <2>1. CASE EnterGetOrLoad(t) /\ UNCHANGED svcVars
      <3>1. arg[t] \in Keys /\ version[t] = 0 /\ GetOrLoad(t, arg[t])
        BY <1>t, <2>1 DEF EnterGetOrLoad, TypeInv, SvcInv, TasksOK
      <3> QED
        BY <1>2, <2>1, <3>1
    <2> QED
      BY <1>3, <1>4, <1>5, <1>15, <2>1 DEF RequestProgress
  <1>16. ASSUME NEW m \in Evictors,
                (InsertFresh(m) \/ EvictSteps(m)) /\ UNCHANGED svcVars
         PROVE  SwapInv'
    <2>1. InsertFresh(m) => arg[m] \in Keys
      BY <1>16 DEF InsertFresh, SvcInv, TasksOK
    <2> QED
      BY <1>2, <1>3, <1>4, <1>16, <2>1 DEF InsertFresh, EvictSteps
  <1>17. CASE UNCHANGED vars
    <2>1. UNCHANGED <<hard, soft, pc, arg, svcVars>>
      BY <1>17 DEF vars, cacheVars
    <2> QED
      BY <1>7, <2>1 DEF svcVars, Coming, Announced, Queued
  <1>18. CASE ListenerProgress
    BY <1>11, <1>12, <1>13, <1>14, <1>16, <1>18 DEF ListenerProgress
  <1> QED
    BY <1>1, <1>6, <1>8, <1>9, <1>10, <1>15, <1>17, <1>18 DEF Next


LEMMA ServiceInit ==
    Init => SvcInv /\ OwnInv /\ LoadInv /\ CapacityBound /\ SwapInv
  <1> SUFFICES ASSUME Init PROVE SvcInv /\ SwapInv
    BY CapacityInit, OwnInit, LoadInit DEF Init
  <1>1. TypeInv
    BY CacheTypeInit DEF Init
  <1>2. SvcTypeOK /\ TasksOK
    BY <1>1, ServiceTasks, CacheAssumption, KnownAssumption
    DEF Init, CacheInit, SvcTypeOK, TypeInv, ListenerValues, TasksOK, Queued
  <1>3. SwapInv
    BY ServiceTasks DEF Init, CacheInit, SwapInv, EntriesOf
  <1> QED
    BY <1>1, <1>2, <1>3 DEF SvcInv

LEMMA ServiceHolds ==
    Spec => [](SvcInv /\ OwnInv /\ LoadInv /\ CapacityBound /\ SwapInv)
  <1>1. SvcInv /\ OwnInv /\ LoadInv /\ CapacityBound /\ SwapInv /\ [Next]_vars
          => (SvcInv /\ OwnInv /\ LoadInv /\ CapacityBound /\ SwapInv)'
    BY SvcStep, ServiceCacheStep, SwapStep
  <1> QED
    BY <1>1, ServiceInit, PTL DEF Spec

\* However requests, register-tenant calls, retrained weights and hot swaps
\* interleave: the model the service answers with is the stored one, or a reload
\* event that replaces it is still to come or was lost.  It is what the writer
\* lock of _model_reload_listener is for: a request that began to load the old
\* weights has put them into the cache before the listener evicts them.
THEOREM StaleCorrect == Spec => []StaleIsTransient
  <1>1. SvcInv /\ SwapInv => StaleIsTransient
    BY DEF SvcInv, SwapInv, StaleIsTransient, Stale, EntriesOf, Coming, Announced,
           ReloadPending, Queued, TasksOK
  <1> QED
    BY <1>1, ServiceHolds, PTL

\* In the service, the listener evicting and loading among the requests, the
\* cache keeps what AsyncLRUModelCache promises, for names that do not share
\* keys: it stays within its capacity, hands out only runtimes of the tenant's
\* model asked for, loads a model once at a time
\* and leaves nobody waiting without a load.  An arbitrary evict() could break
\* the last two; the listener's finds nobody loading the model, for the lock or
\* the registry keeps them out.
THEOREM ServiceCacheCorrect ==
    Spec => [](CapacityBound /\ OwnModel /\ SingleFlight /\ WaiterHasLoader)
  <1>1. SvcInv /\ OwnInv /\ LoadInv /\ CapacityBound =>
          CapacityBound /\ OwnModel /\ SingleFlight /\ WaiterHasLoader
    BY OwnInvImplies, LoadInvImplies DEF SvcInv
  <1> QED
    BY <1>1, ServiceHolds, PTL

\* The variables of the service keep their types.
THEOREM ServiceTypeCorrect == Spec => []SvcTypeOK
  <1>1. SvcInv => SvcTypeOK
    BY DEF SvcInv
  <1> QED
    BY <1>1, ServiceHolds, PTL
============================================================================
