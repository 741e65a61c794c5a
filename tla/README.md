# A verification project for the adaptive inference engine

TLA+ models of the parts of this repository that act concurrently or fail
half-way, TLC runs that check them on small instances, and TLAPS proofs of what
matters most for every instance. Paths and line numbers are those of the
repository; `PROJECT.json` maps each definition to the lines it models.

## 1. The system

The repository holds a multi-tenant inference platform and, beside it, a live
trading engine that uses models of its own.

| Part | State | Operations | Talks to |
|---|---|---|---|
| Model cache (`inference/model_lru_cache.py`) | hard LRU map, weak soft map, in-flight futures | `get_or_load`, `evict`, `peek`; clean-up in an executor | service |
| Inference service (`inference/app_multitenant.py`) | swap state, reader-writer lock, registry handle | `predict`, `register_tenant`, reload listener, readiness probe | cache, storage, Redis, registry |
| Model storage (`inference/storage_backend.py`) | per host: cached files and ETag sidecars, or plain files; per process: a lock per key | `warm_cache`, `load_model_bytes`, `save_model_bytes` | S3, disk |
| Tenant Redis client (`inference/tenant_redis_client.py`) | a bounded telemetry list per model | push, read | service, workers |
| Drift worker (`worker/worker_multitenant.py`) | none | drift check per model, enqueue retraining | Redis, registry, Celery |
| Retraining worker, orchestrator (`worker/retraining_tasks.py`, `admin_api/retraining_orchestrator.py`) | Celery's messages and results | `enqueue_retraining_job`, `retrain_model`: read telemetry, train, save, publish | storage, registry, Redis |
| Registry (`inference/tenant_model_registry.py`) | tenants, model versions, thresholds (memory or Postgres) | register, latest, update, delete | service, admin API, workers |
| Admin API (`admin_api/`) | token buckets, dashboard users, event streams | registration, thresholds, jobs, rate limits, login | registry, Celery, Redis |
| Trading engine (`quant_finance/live_engine.py`) | state, position side, tick buffer | one loop over ticks; dead-feed callback | feed, router, breaker, gateway, ledger |
| Circuit breaker (`circuit_breaker.py`) | readiness, trip, errors, open side, daily equity | `approve` and its mutators | engine |
| Broker gateway (`broker_gateway.py`) | none | `submit`, `get_position`, `get_account`, `cancel_all_orders` | broker |
| Feed (`live_feed.py`), replay (`tick_replay.py`) | connection, back-off | a stream of ticks, dead-feed detection | engine |
| Router (`muse_router.py`) | drift window and reference | `route`, drift check, background retraining | engine |
| Risk ledger (`risk_ledger.py`), gate (`preflight_gate.py`) | equity, drawdown, events, checkpoint file | record; judge the files of past sessions | engine |
| Simulator, hysteresis, calibration, validation | active version, cooldown, reference, folds | offline runs | |
| Dashboard, Envoy, Kubernetes | | | |

What is hard here: coroutines that suspend inside the cache's operations while
an executor thread strips the model from an evicted runtime; a hot swap between
a request's look-up and its prediction; events that are published at best
effort to a listener that may be dead; a disk cache that outlives its processes
and is written in two steps; temporary files whose name all savers share; jobs
that are delivered again to another worker; requests that read, decide and
write in separate transactions; a singleton and a bucket that whoever comes
first makes; an engine whose breaker, own record and broker each have a view of
the position; a broker, a feed and an account query that fail in the middle of
an order; and a gate that judges files of several sessions as if of one.
`hazards` in `PROJECT.json` lists them line by line, with the properties that
would catch them.

What makes each part correct: the cache returns to every caller, in bounded
memory, an intact runtime of its own tenant, loading each model once at a time;
the service ends up with the latest stored weights unless an event is lost, and
gets ready again; the storage never takes old weights for current ones nor half
a file for a whole; an accepted job is not lost, trains once per delivery and
tells the truth about what it stored; the registry loses nothing it has
answered; a bucket keeps its rate; the engine sends no order before its
warm-up, after a trip, or on top of the position it wants; statistics compare
like with like, and no fold's model is tested on what it was trained on.

## 2. Modules

| Module | Models | Uses |
|---|---|---|
| `ModelCache` | the cache and the coroutines that use it | |
| `InferenceService` | one process of the service: requests, hot-swap listener, lock, events | extends `ModelCache` |
| `S3Storage` | the S3 backend and its disk cache, for one key | |
| `LocalStorage` | the local backend, for one key | |
| `RetrainingJobs` | telemetry list, drift check, Celery jobs of one model | |
| `AtLeastOnce` | what the job queue promises (abstract) | implemented by `RetrainingJobs` |
| `TenantRegistry` | one tenant and the versions of one model, memory and Postgres | |
| `RateLimiter` | the token buckets of one tenant | |
| `DashboardAccounts` | user stores, registration, login | |
| `EventStream` | the streams of model updates to dashboards | |
| `CircuitBreaker` | the breaker's operators, without steps of their own | |
| `TradingEngine` | engine, gateway and the broker's book | extends `CircuitBreaker` |
| `FeedSession` | the sessions of the live feed | |
| `SignalRouter` | the router's drift monitor | |
| `RiskLedger` | the ledger and its files, with restarts | |
| `PreflightGate` | trading sessions and what the gate concludes from their files | extends `RiskLedger`, instance of `CircuitBreaker` |
| `SwapSimulator` | swaps and PSI references of the simulation | |
| `DataSplits` | k-fold and walk-forward splits | |
| `MCModelCache`, `MCInferenceService`, `MCS3Storage` | constants and constraints for TLC | |
| `MCFairSideBySide`, `MCSideBySide` | several components side by side in one run | |
| `ModelCacheProofs`, `RetrainingJobsProofs` | theorems about the module they are named after | |
| `InferenceServiceProofs` | theorems about `InferenceService`, and about the cache inside it | extends `ModelCacheProofs` |
| `StorageProofs` | theorems about `S3Storage` and `LocalStorage` | |
| `AdminApiProofs` | theorems about `TenantRegistry`, `RateLimiter`, `DashboardAccounts`, `EventStream` | |
| `TradingEngineProofs` | theorems about `TradingEngine`, `FeedSession`, `SignalRouter` | |
| `OfflineProofs` | theorems about `RiskLedger`, `PreflightGate`, `SwapSimulator`, `DataSplits` | |

### ModelCache

`hard`, `soft` and `inflight` are `_cache`, `_soft_cache` and `_inflight`. The
order of the `OrderedDict` is the relation `older`, so that `move_to_end` and
`popitem(last=False)` are statements about sets of pairs. A `CacheEntry` is
named by the task that loaded it, and so is the future that task registers;
`fut` holds what each future was resolved with. A weak reference yields its
entry only while something holds it (`Held`): the hard cache, a coroutine that
is cleaning it up, the request that peeked at it, or the `_do_load` frame that
created it. `gutted` is the set of entries whose runtime `_cleanup_entry` has
stripped of its model.

One action is the code between two suspension points. No `async with
self._lock` block suspends while it holds the lock (`_maybe_evict_lru` is a
coroutine that never awaits anything that blocks), so `asyncio.Lock` is never
contended and a block is atomic. `Request`, `Hit`, `Promote`, `Join`,
`BeginLoad` and `RefuseLoad` are the paths of `get_or_load`; `LoadSucceeds` and
`LoadFails` are the rest of `_do_load`; `CleanupEntry` runs in the executor,
and `CleanupReturns` is the coroutine that awaited it.

A request asks for a name, a pair of a tenant and a model, and `KeyOf` is
`_make_key`, which joins the two with a colon: `("a:b", "c")` and `("a", "b:c")`
have one key. So `KeyOf` is any function, the cache only sees keys, and what it
promises a caller is conditional on his name sharing its key with no other
(`Unambiguous`). Nothing in the repository forbids colons in names: a tenant whose
name collides does get the other's model.

Left out: `CancelledError`, which `_do_load` does not catch (nothing
cancels a request except a shutdown); timestamps, which nothing reads back.

### InferenceService

Requests arrive with what `peek` and the registry showed them, take the reader
lock around `get_or_load` and predict without it. The members of `Evictors` are
reload events: `SaveWeights` and `Publish` are the worker, and the listener
handles each event as a task of the cache, so that its `evict` and
`get_or_load` are the cache's own actions. The lock is what its users make of
it: a reader is a task inside `get_or_load`, the writer is the listener from
`BeginReplace` to `EndReplace`. `aiorwlock` orders those who wait; the model
does not, which allows every order it could choose. The contents of a runtime
are the number of the stored version it was loaded from (`version`).

`missed` is a history variable: the models of which an event was lost (nobody
subscribed, publish failed, listener dead) or failed. A request that loads by
itself reads the version stored at that time; that the disk cache between them
may answer with an older one is the subject of `S3Storage`. The service's names
are taken to be unambiguous (`KnownAssumption`), collisions being the cache's
subject.

### S3Storage

One action is one access to S3, the cached file or its sidecar. Contents are
version numbers in the order they are made, and the ETag of an object is its
version. Every request to S3 may fail, a `put_object` also after S3 has stored
the object. `Crash` ends a process between any two accesses; the directory
stays. Any thread of `Savers` saves, one of several workers or of several in one
process. `rank` says in which order S3 has stored the versions (0 for those whose
upload failed), `since` what S3 held when a call of `warm_cache` began, and `blind`
the calls that took the cache for valid because S3 did not answer (line 311).
`crossed` is history: the directories on which calls got in each other's way in
one of the two manners that the code does nothing about: a process takes its lock
while another process is inside its own (`Overlap`), or a save finds S3 holding
what somebody else has stored since and notes that object's ETag beside its own
file (`OthersETag`).

Left out: `exists` and `evict_cache`, which no code calls; the temporary files of
`save_model_bytes` here, whose fixed name `LocalStorage` is about.

### LocalStorage

A file is an inode of two blocks; `key` and `tmp` are the inodes that the two
names refer to, and who has opened an inode keeps it. `OpenTemp` is `open(...,
"wb")`, which empties the file it finds; `WriteData` writes a block; `ReplaceKey`
is `os.replace`, which renames whatever the temporary name is by then;
`SaveDies` leaves it behind. The savers are different worker processes, so no
lock stands between them. Two blocks are the fewest that can be torn.

### RetrainingJobs and AtLeastOnce

Telemetry records are numbered in the order of their `RPUSH`, so the list is
the interval `trimmed+1..pushed`; `RPush`, `LTrim` and `PushAborts` are the two
commands of `push_telemetry` and the failure of the second. `DriftCheck` is the
whole check as the code runs it: it raises at its first call. `Take`,
`ReadTelemetry`, `TrainSkips`, `TrainRaises`, `Refit`, `SaveSucceeds`,
`SaveFails`, `Publish`, `Report` and `Ack` are the accesses of `retrain_model`
and of the Celery worker around it to anything shared. `WorkerLost` and
`VisibilityTimeout` are the two ways a message goes back: after the loss of a
worker (`task_acks_late`, `task_reject_on_worker_lost`), or behind the back of a
worker that is slower than the transport's visibility timeout, so that two
workers run one job. The framework is chosen at the start; only a registered
scikit-learn model gets past the fit, as the EWC loop calls a loss function
that does not exist. `saves`, `settled`, `requeues` and `alone` are history.

`AtLeastOnce` is what the queue promises: an accepted job stays outstanding
until a result is stored. The mapping calls a job outstanding if its message is
in the list or with a worker, and reported if a result was ever stored.

### TenantRegistry

In Postgres every statement is a transaction. `register_model` looks the tenant
up (`CheckTenant`), may enter a placeholder (`DefaultTenant`) and upserts the
row in a transaction whose begin and commit are two steps (`BeginInsert`,
`InsertModel`); in memory those two are one assignment that nothing comes
between. `update_drift_thresholds` reads in one transaction (`GetModel`) and
writes in another (`PutThresholds`). `created` is the time at which the
inserting transaction began, which an upsert keeps; in memory the place in the
dictionary, which replacing an entry keeps as well. In memory a threshold goes
into the object that was found, which a registration may have replaced
(`WithKey`). `ended`, `answered`, `met` and `raced` are history: what was
answered when, and which writes met.

### RateLimiter

`Look`, `AcquireToCreate`, `Create` and `Fetch` are the double-checked look-up
of `get_bucket`, whose last read is outside the lock; `Allow` is
`TokenBucket.allow`, and `SetLimits` replaces the entry. The clock takes any value
(`time.time()` can be set). For the property each bucket carries a window of
observation that any call may open.

### DashboardAccounts

Each thread first needs the singleton (`AskFor`, `MakeStore`), then passes
`require_admin` if it registers an administrator, and then fetches the store
again, as both the dependency and the handler call `user_store()`. In memory
`create_user` checks, enters and indexes in three steps (`CheckEmail`, `InsertUser`,
`IndexUser`); hashing the password separates the first two. `RestartApi` empties
what was in memory; tokens stay valid.

### EventStream

A stream subscribes or fails to (`OpenStream`), relays what its subscription
holds, and after an error (`PubsubFails`) never asks Redis again, while the
subscription may live on in Redis with its messages. It unsubscribes when it
ends only if it has seen no error (`EndStream`).

### CircuitBreaker

The breaker's methods as operators over its variables: `UpdateEquity` with the
daily reset, `TripOnError`, `SetPositionOpen` and `Approve`. `TradingEngine` takes
them into its actions by extending the module, `PreflightGate` by an instance
whose readiness and open side are constant, its sessions being past warm-up.

### TradingEngine

One action is one segment of `run_engine`'s loop between two REST calls, or one
event outside it. `pc` is the await the loop is in. Nothing else runs on the
loop meanwhile, so a tick, its routing and `approve` are one step, and an order
takes three more: the position query, the POST, the account query. What the
router answers is a choice: a side, or no order. The market-hours gate is part
of that choice. `book` is the broker's list of accepted orders; `Fill` is free
to happen between any two steps, which is what the pre-flight check races with.
Equities are those the account may report, drawdown arithmetic is exact
(`(d - e) * 100 >= DDLimit * d`), and the daily reset compares dates.

Left out: quantities and prices, so that a position to which both sides
contributed may or may not be flat (`PositionNotFound`); partial fills and
rejections after acceptance; the breaker's quantity guards, which the router's
sizes never violate; the latency log and everything printed. The ledger has a
module of its own.

### FeedSession

`feedPc` is where `stream()` is. `Raise` is its `except` clause, which compares the
name of the exception's type with four names: of the exceptions the library and
the sockets raise (`RaisedIn`, read from how `live_feed.py` uses them), only
`OSError` itself and the `ConnectionError` of `_auth` are retried; subclasses such
as `ConnectionClosedError` end the feed. `HeartbeatTimeout` and `CallbackReturns`
are the dead-feed path, which tells the engine. `untold` is history.
`TradingEngine` sees the same feed as ticks, `DeadFeed` and `Stop`.

### SignalRouter

A tick is the regime it comes from. Every `PsiWindow` ticks, `_drift_check` stores
the window as the reference or compares it. PSI and the adversarial AUC are
statistics of finite samples: they may miss a difference between the mixtures of
regimes (`Differ`), and may pass their thresholds where there is none, which
`CountAlarm` counts as a false alarm. A drift drops the reference and may start
the background retraining, which the engine never configures. It does not touch
the calibrator, although the class says that is switched (`muse_router.py:48`).

### RiskLedger and PreflightGate

`Write` appends an event and starts a checkpoint every `CheckEvery` events;
`TruncateCheckpoint` and `DumpCheckpoint` are opening the file, which empties it,
and filling it. `RestartEngine` may fall between the two; the new ledger starts
from nothing. `PreflightGate` drives the ledger and a breaker together as
`run_engine` does (ledger first, then breaker, then the errors are cleared) over
several sessions and days, and evaluates the gates on what the files say at any
moment. G2 and G10 read keys nothing writes, and G9 an event nobody records.

### SwapSimulator

One action is one row of the file. Probabilities are named by the model that
made them (`Producer`: the active model, or what the calibrator follows), so a
PSI is a comparison of two sets of models. PSI and AUC are choices, except that
a window compared with itself gives zero; the volatility is a choice of the
cooldown within its bounds. No property is about the cooldown: the static one is
half a window of ticks and checks are a whole window apart, so that it never holds
a swap back, although `ingress_sim.py` (22-23, 48, 494-497) and `hysteresis.py`
(8-13) say otherwise.

### DataSplits

`KFold` is a round of the calibration's loop with its fold boundaries and its
`IndexError`. The walk-forward definitions are functions of the regime sequence:
which rows a slice yields features for, which rows those are computed from, and
which folds `run()` skips for want of rows (`Run`). Given a calibrator, `run()`
scores with its predictions and not with the fold's model (197-204), and its only
caller gives it one (`run_validation.py:218-223`), fitted on rows of the same file:
what is shown here about folds is about their models.

### Side by side

Components that share no variable are checked in one run, as TLC would spend most
of its time starting. `MCSideBySide` extends those that are checked for safety only
and `MCFairSideBySide` those with liveness properties, and each adds a variable
`part`: every behaviour moves the component named by it, and the others rest in one
initial state. So each run explores the sum of the components' states, not their
product, and a property about one component is checked on all its behaviours. In
`MCFairSideBySide` the telemetry list moves alone as well (`TelemetryNext`), with
pods that push often; beside the jobs each pod pushes and never trims (`SlowPods`),
since what a job reads depends on trimming only when the list is shorter than
`MinRecords`.

## 3. Runs

| Run | Expect | Question |
|---|---|---|
| `FairComponents` | pass | cache: bound, own models, single flight, no waiter without a loader, progress; jobs: neither lost nor repeated, and their results true |
| `CacheRefusal` | violation | does every `get_or_load` return? |
| `CachePromotion` | violation | is every cached runtime intact? |
| `Service` | pass | are old weights only transient and, unless a load is refused, does the lock starve nobody and does readiness recover? |
| `ServiceHotSwap` | violation | does a hot swap spare the requests under way? |
| `StorageShared` | violation | does a valid cache mean current weights, with two processes on one directory? |
| `StorageSavers` | violation | the same, with two workers that save |
| `Trading` | pass | the safety of everything else, component by component |
| `TradingWarmup` | violation | is a READY engine armed? |
| `TradingReconnect` | violation | is there at most one outstanding entry after a dead feed? |
| `TradingReset` | violation | does a drawdown trip end at midnight? |
| `LocalSaves` | violation | does a reader always get a whole file? |

**Bounds.** The cache (`FairComponents`) has four requests because the longest
hazard needs that many: a loader, a second loader that evicts it, a caller that
joins, and one that promotes; three keys for a cache of two make every
insertion choose between two victims; a fourth model shares the key of another.
The violation runs use the smallest instances that show theirs. `Service` has
two models, one of them unknown at first, in a cache of one, so that each load
evicts; and two events, so that one may be published while the other is
handled; the memory guard is on, as it is by default
(`MODEL_CACHE_MIN_FREE_RAM_MB`, 512). The jobs have two workers and two jobs,
one of which goes back once (`MaxRequeues`), so that a redelivered job meets
itself or another on a second worker, with a list trimmed to two of up to five
records (`MaxPushed`).

`Trading`, part by part. Engine: a buffer of two ticks (the dead feed may come
before, between and after them), the code's three errors and two percent,
equities on both sides of the limit and on it, three accepted orders
(`MaxOrders`: an entry, an exit, another entry) and three days (`MaxDay`).
Registry: two requests, two versions, six ticks of the clock (`MaxClock`: two
registrations and two other writes). Limiter: two threads, two buckets, a clock
of three values. Accounts: two threads, two addresses, two stores (a race makes
two) and three users. Simulator: windows of four ticks, hence a static cooldown
of two as `window // 2` gives, and four checks (`MaxTick`). Ledger and gate: a
checkpoint every third of five events, two processes and two days: a session
that ends before, at and after a checkpoint, followed by another. Splits: every
length up to six, with two, three and five folds and every sequence of two
regimes, with the fewest rows a fold runs on. Feed: three connections. Router:
windows of four, four shifts, two false alarms. S3 storage: two threads that
contend for one lock, one of which also saves, and a second worker with a
directory of its own, with three versions (`MaxVersion`): the one in place, one
that replaces it and one that replaces that while the first is being downloaded
or saved. Local files: three saves, so that one may find what a dead one left.
Streams: two dashboards, three updates. `Max...` constants bound the models and
have no counterpart in the code, except `MaxErrors`, `MaxSize`, `MaxCooldown`
and `MaxBackoff`, which do.

**Constraints.** `OneSegment` (`MCModelCache`) lets the interchangeable
requests arrive in a fixed order and keeps their arrival and their first
segment together: outside the service nothing suspends there. `InOrder`
(`MCInferenceService`) orders the names of interchangeable requests and events.
`OneReads` (`MCS3Storage`) lets the second worker only save: what it would read
goes through a directory of its own, where nobody else's steps depend on it,
and the first worker, which saves and reads beside it, stands for it. The
violation runs of the storage do without. `NextFresh` (`RetrainingJobs`) uses
interchangeable job identifiers in a fixed order. The cache of `FairComponents`
has no manual evictions: the service's lock is what keeps them from loads, and
the run `Service` checks them there.

**Deadlock.** It is checked in `Trading` for the engine, which may only stop by
`Stop`, and for the S3 storage, whose threads can always call again, and in the
violation runs of both; the parts that run beside them end at their bounds and then
stutter, as do those of `FairComponents`. It is off in the other runs, where the
system may really stop: tasks call once and may be done, and after a refused load
callers wait for ever (`CacheRefusal`).

**Fairness.** Weak fairness of each coroutine that can run and of each executor
call: asyncio resumes what is ready and the executors' queues are FIFO. That a
load ends is an assumption about `loader_fn`, whose requests have time-outs. In
`InferenceService` the listener's steps are weakly fair except its death, and
nobody has to send a request, retrain or publish. Writers are not starved in
the run because requests are finitely many; `aiorwlock` prefers waiting
writers. In `RetrainingJobs` a worker takes a message if there is one and goes
on with its task; nothing is assumed of requests, losses and time-outs, but
that losses are finitely many (`MaxRequeues`): a job that kills its worker each
time never settles. The parts of `Trading` have no liveness property: a feed
may just end.

## 4. What the passing runs show

- `CapacityBound`, `NewestSurvives`: the LRU discipline survives every
  interleaving of hits, promotions and loads.
- `OwnModel`: sharing futures and promoting evicted entries never gives one
  tenant the model of another, if their names do not share a key. With colons in
  names they may, and then one does get the other's.
- `SingleFlight`, `WaiterHasLoader`, `CallsReturnUnlessRefused`: coalescing
  works, except for the one path of `CacheRefusal`.
- `StaleIsTransient`: thanks to the lock, a request that loads while the
  listener swaps cannot put old weights back; old weights stay only if an event
  was lost, which the code accepts ("best effort").
- `ReloadsHandled`, `ReadinessRecovers`, `CallsReturnUnlessRefused` in the service:
  unless the memory guard refuses a load, requests and swaps do not starve or block
  each other, and a process that has loaded a model becomes ready again. After a
  refusal none of that holds: callers that join the orphan future keep the reader
  lock for ever, the listener waits for them, and a swap whose own load is refused
  leaves the cache empty. A fresh process need not become ready either: with an
  empty cache the probe answers 503, so no traffic comes that would load one.
- `ValidUnlessCrossed`, `WarmIsFresh`: reading the ETag before the download and
  writing it after is the right order; a crash, a failed request or a save in
  between at worst costs another download. That holds for a directory on which
  no two processes have been inside the code at once and no save has noted the
  ETag of another's object, and needs both: `StorageShared` and `StorageSavers`
  show each alone making old weights the current ones. The shipped deployment
  allows both (at least two inference processes to a pod, two worker replicas).
- `LockHeldInside`: no failure and no crash keeps the key lock.
- `QueueKeepsNewest`: pushes of several pods, with or without their trims, never
  lose a recent record.
- `JobsAtLeastOnce`, `JobsSettle`: no loss of a worker loses a job.
  `SavesPerDelivery`, `SuccessMeansStored`: it trains once per delivery and its
  result is true. The converse does not hold: an upload that fails after S3 has
  stored the object is reported as skipped.
- `WeightsMoveForward`: only an overlap of two workers can turn a model back;
  nothing in the code rules that overlap out.
- `NamesLostOnlyInRace`, `ThresholdsKept`: what the registry loses, it loses in
  the races of its transactions and not otherwise. `LatestRespectsOrder`:
  "latest" respects the order in which registrations were answered; registering
  an old version again does not make it the latest.
- `OneBucket`, `GrantsWithinRate`: the double-checked creation works, and a clock
  set back costs tokens and never grants too many. `set_limits` gives a full
  bucket, which the property counts as a new one.
- `AccountsStay`: accounts are lost by a race for the singleton or for an
  address, or with the process, and in no other way.
- `RelayedWithoutGap`: a dashboard's timeline has no hole, because a stream that
  has failed stays silent.
- `NoOrderBeforeWarm`, `BreachTrips`, `NothingSentWhileTripped`: the guards of the
  breaker hold whatever the broker and the feed do, as far as it is told: errors of
  the feed, which `circuit_breaker.py:11` also names, nobody records.
- `BooksAgree`: while the feed lives, engine, breaker and broker agree on the
  position, so that no race of a fill with the pre-flight check enters twice.
- `ResumesOnlyAfterCancel`: it holds because the feed does not survive the
  failures it is documented to survive; retrying them as documented, without
  calling the callback, would break it.
- `EachShiftReportedOnce`: resetting the reference makes one shift, or one false
  alarm, one drift.
- `CheckpointBehind`: how far the checkpoint is behind while the process lives. It
  says nothing of a restart: the promise that the ledger "Survives process restarts:
  reload checkpoint on next start" (`risk_ledger.py:8`) is not implemented, nobody
  reads the checkpoint but the gate. `EvidenceIsStale`:
  its gates G1, G3 and G5 pass together only on evidence about different things.
- `PsiComparesOneModel`: the reference never outlives the model it came from,
  whichever calibrator is used.
- `EachSampleOutOfSample`, `WalksForward`: no leakage at the fold boundaries,
  for the models of the folds; too few samples for the calibration's folds are
  the stated proviso.
- `TornOnlyByOverlap`: apart from overlapping saves, the rename keeps its promise,
  also after a saver died.

## 5. What the violations show

1. `CacheRefusal`: `_check_ram` raises outside the `try` of `_do_load`, the
   future stays in `_inflight`, and the model cannot be loaded again until an
   `evict`.
2. `CachePromotion`: an entry that is being cleaned up is promoted back; the
   cache then serves a runtime without a model until it is evicted again.
3. `ServiceHotSwap`: `evict` strips the old runtime although a request still
   has to predict with it.
4. `StorageShared`: with two processes on one directory (`gunicorn.conf.py`
   starts at least two), old weights may end up under the current ETag.
5. `StorageSavers`: of two workers that save one model, the first may note the
   ETag of the second's object beside its own weights, which its directory then
   serves as current.
6. `TradingWarmup`: a dead feed during the warm-up leaves the breaker unarmed
   for good.
7. `TradingReconnect`: a failed cancellation on a dead feed leads to a second
   entry.
8. `TradingReset`: the daily reset is only reachable after an executed order,
   which a tripped breaker refuses, so that a drawdown trip never ends.
9. `LocalSaves`: two workers that save one key share its temporary name, and a
   reader may get a file that is still being written.

Other places where the code is not what a text says of it, met while modelling,
are too plain for a run: the drift check passes an argument the Redis client
does not take, fails and enqueues nothing (`worker_multitenant.py:163`, against
`docs/ARCHITECTURE.md:109`); nothing calls `self.retry`, so that a failing
`retrain_model` is never retried (`retraining_tasks.py:496`); the cooldown and
the router's calibrator (section 2); the reload of the ledger's checkpoint
(section 4). No handler of `admin_api/app.py` calls `update_drift_thresholds`
or `delete_model`: what `TenantRegistry` shows of them is about the registry's
operations.

## 6. Proofs

`ModelCacheProofs` proves, for any keys, callers, evictors and capacity:

- `TypeCorrect`, `CapacityCorrect`: one inductive invariant. Capacity is
  inductive by itself once the cached keys are known to be finite: an insertion
  adds one key, and the guard of `Store` removes one if that is too many.
- `RecencyCorrect`: the order of last use totally orders the cached keys; the two
  lemmas are that `move_to_end` on the left-over keys gives a total order again,
  and that a total order restricted to fewer keys is total.
- `OwnModelCorrect`: needs `OwnInv`, which says of every place that may hold an
  entry (both maps, futures, victims, results) that it holds one loaded for its
  own key; from there to names it takes `Unambiguous`.
- `SingleFlightCorrect`, `WaiterHasLoaderCorrect`: need `LoadInv`, which ties
  each loading task to the future registered under its key. They assume
  `Evictors = {}`: `evict` drops the future of a load under way.
- `NewestCorrect`: an action property; with room for two, the key used last is not
  the least in the order among the others, so it is not the victim.

Its lemmas about steps are not about `CacheNext` but about `CacheUse`, what
anybody may do with the cache: call `get_or_load` for a key of one's own, go on
with a call, evict. So they can be cited for the cache inside the service.

`InferenceServiceProofs`, for any models, requests and events, with the memory guard
or without:

- `ServiceCacheCorrect`: capacity, own models, single flight and no lonely waiter,
  *with* the evictions of the hot swap. `ServiceUses` shows that each step of the
  service is a `CallUse`, an eviction of a model nobody loads or waits for
  (`LoneEvict`: the writer lock excludes them all, and a model without metadata has
  none), or no use of the cache.
- `StaleCorrect`: from `SwapInv`. What the cache holds, or a request has read and is
  about to insert, is the stored version or the listener still has an event of the
  model to read, is replacing it or has lost it; what the listener is about to
  insert is the stored version or another event is waiting. The step that needs
  the lock is `BeginReplace`: it finds no request between reading the weights and
  inserting them, so after it nothing old is left.
- `ServiceTypeCorrect`: needs `TasksOK`, where requests and events can be in
  relation to the registry and the listener.

`TradingEngineProofs` proves, for every buffer size, limit, set of equities and
bound:

- `BreachTripsCorrect`: from `BreakerInv`, whose core is that while an order is
  being executed (`Executing`) the breaker is not tripped.
- `TypeCorrect`: needs `BreakerInv` for the bound of the error count.
- `NothingSentCorrect`: an action property; a tripped breaker is not executing,
  so no order reaches the book.
- `NoOrderBeforeWarmCorrect`: from `WarmInv`, which says of everything that lets
  an order through that it has seen the buffer full.

- `BooksAgreeCorrect`: from `BooksInv`. Until the feed dies or an order expires
  (`Undisturbed`), the net of the accepted orders, the engine's side and the
  breaker's are the same, and the order being executed is not of the side that is
  held. A fill does not change the net (`FillKeepsNet`), and an accepted order moves
  it by its side (`AcceptedCounts`).
- `ResumesCorrect` (`FeedSession`): from `UntoldIsTheEnd`; a session that ends
  without the callback ends the feed.
- `ShiftsCorrect` (`SignalRouter`): from `RouterInv`, whose core is that when
  as many drifts have been reported as there were shifts and false alarms, the
  window and the reference hold nothing but the regime of now. `UniformAreSame`
  says that windows and halves of one regime have one mixture, whatever the
  parity of `PsiWindow`; it needs the model to compare proportions, as the code
  does, and not counts.

`RetrainingJobsProofs`, for any numbers of jobs, workers, pods and records:

- `TypeCorrect`, `QueueCorrect`, `SuccessCorrect`, `ForwardCorrect`: from `JobsInv`.
  `NewestFirst` says that a worker alone since it took its job has read at least
  what the stored weights were fitted on; `TrainedIsStored` that a worker about
  to report a training has saved.
- `AtLeastOnceCorrect`: the refinement. `AckIsReported` makes an acknowledgement a
  `Forget`; `LateIsCovered` says that a message restored behind a worker's back
  is in the list, with another worker, or its result is stored, so that the
  loss of that worker is a stutter.
- `SavesCorrect`: counts deliveries. `DeliveriesInv` bounds, for each job, its
  saves, the workers that may still save (a cardinality) and its message in the
  list by the number of deliveries.

`StorageProofs`, about S3, for any numbers of threads, processes, disks, savers
and versions: `LockCorrect`, `ValidCorrect` and `FreshCorrect` from
`StorageInv`. Its parts say that a process's lock is held by whoever is inside
a `with` block (`LockHeldInside`); that two processes inside at once mark their
directory (`AloneInv`); that S3 holds what it stored last and that ETags are of
objects it has held (`VersionInv`, where uploads need not come in the order in
which their versions were made); that in an unmarked directory the file is
never older than its sidecar says, nor than the ETag a thread is about to write
says (`DiskInv`); and that a thread about to open the file without the lock may
see it replaced, but by nothing older than it was promised (`FreshInv`). There
are no hypotheses on the deployment: what goes wrong with shared directories
and several savers goes wrong on marked ones.

About the local backend, for any numbers of saves and readers: `TornCorrect` from
`Orderly`, which holds until two saves overlap: the two names refer to different
files, the one save under way writes to the temporary one, and nobody who reads
has opened that one.

`AdminApiProofs`:

- Registry, for any requests and versions: `OrderCorrect` from `InTime` (requests
  begin before their transactions, which begin before their answers),
  `ThresholdsCorrect` from `ReadIsCurrent` (what a request has read still holds
  unless another write met it), and `NamesCorrect` from `RaceIsNoted`.
- Limiter, for any clients, capacities and rates: `OneBucketCorrect` and
  `GrantsCorrect` from `LimiterInv`; `EntryStays` says that an entry, once there,
  never goes, and `RefilledIsWithin` that refilling under any clock respects the
  budget.
- Accounts, for any threads, addresses and stores: `AccountsCorrect` from
  `AccountsInv`: an identifier stands for one registration (`IdsNeverReused`); in
  memory, whom a request found registered keeps an entry under his address, so
  that a request past the check writes another (`KnownAreIndexed`); until two
  threads race for the singleton there is one store and all have that one
  (`OneStore`); and two users share an address only if neither registration saw
  the other's result (`NoLaterDouble`).
- Streams, for any dashboards and updates: `RelayedCorrect` from
  `Relaying`: a subscription holds the newest updates, and what was relayed ends
  where they begin.

`OfflineProofs`:

- Ledger, for any equities and interval: `CheckpointCorrect` from `LastMultiple`
  (the checkpoint is of the last multiple of `CheckEvery`), with a few lemmas about
  the remainder.
- Gate: `EvidenceCorrect` from `GateInv`. A trip leaves its trace in the maximum
  drawdown or in the run of errors by the time of its event (`TripsExplained`), so
  a checkpoint that covers it shows it to G1 or G5. It assumes that the breaker
  trips no earlier than the gate looks (`ErrorLimit >= 3`, `DrawdownLimit >= 2`: the
  gate's own constants, which the code's defaults equal); a stricter breaker could
  trip on what the gate accepts.
- Simulator, for every window, cooldown, calibrator and controller: `PsiCorrect`
  from `SimInv`: since the last multiple of `CheckWindow` the window holds
  probabilities of the present producer only, and so does the reference
  (`OneProducer`).
- Splits: `FoldsCorrect` from `ScoredInOrder` (before fold `k`, exactly what lies
  before it has been scored), and `WalksCorrect`, which needs the least change
  after another to exist (`LeastOf`, from the well-foundedness of the naturals), and
  that a fold with enough rows to train on starts after the first `RowLookBack`.

They rest on the named assumptions on the constants (`CacheAssumption`,
`KnownAssumption` (requests and events are different tasks),
`BreakerAssumption`, `TradingAssumption`, `FeedAssumption`, `RouterAssumption`,
`StorageAssumption`, `LocalAssumption`, `JobsAssumption`, `RegistryAssumption`,
`LimiterAssumption`, `AccountsAssumption`, `StreamAssumption`, `LedgerAssumption`,
`SimulatorAssumption`, `FoldsAssumption`), which the runs evaluate.

Only model-checked is liveness, as the prover handles no fairness:
`CallsReturnUnlessRefused`, `ReloadsHandled`, `ReadinessRecovers`,
`JobsSettle`. Every invariant and every action property of the passing runs has
a theorem. Those with hypotheses of their own are single flight and waiters of
the cache alone (`Evictors = {}`) and the gate (its own limits).

## 7. What is not modelled

`components` in `PROJECT.json` lists every part with its status. Numerical code
(models, PSI, calibration fits, bootstrap statistics, latency percentiles) is
reduced to a choice of its outcomes or left out; the dashboard, deployment
files and the tables nobody reads back have no behaviour to model. Validation
of requests, hashing and tokens are data.

Known gaps:

- a model registered again under another path (`app_multitenant.py:570`): the
  service model identifies a model with its path;
- what becomes of an order after its POST timed out (`broker_gateway.py:176`);
- a fresh pod that never becomes ready (`app_multitenant.py:513`), which the code
  documents as intended;
- quantities of orders: in the models a position has a side and no size.
