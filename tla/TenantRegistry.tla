--------------------------- MODULE TenantRegistry ---------------------------
(***************************************************************************)
(* The registry of one tenant and of the versions of one of its models     *)
(* (inference/tenant_model_registry.py), in memory or in PostgreSQL, under *)
(* concurrent requests (admin_api/app.py).  In PostgreSQL every statement  *)
(* is a transaction of its own.                                            *)
(*                                                                         *)
(* The clock orders what happens: created_at is the time at which the      *)
(* inserting transaction began; in memory, the order of the dictionary is  *)
(* the order of insertion.                                                 *)
(***************************************************************************)
EXTENDS Integers

CONSTANTS Requests,     \* threads of the admin API
          Revisions,     \* versions of the model
          NoVersion,
          MaxClock      \* bound of the model

ASSUME RegistryAssumption == MaxClock \in Nat /\ NoVersion \notin Revisions

VARIABLES backend,      \* chosen once, by DATABASE_URL
          tenant,       \* none, placeholder (made by register_model), named
          models,       \* rows of tenant_models, entries of the dictionary
          clock,
          rpc, version, \* per request: where it is, and its argument
          began,        \* history: when the request began
          stamp,        \* the time its transaction began
          read,         \* the row it read, {} if none
          raced         \* history: a tenant was named since its check

requestVars == <<rpc, version, began, stamp, read>>
registryVars == <<backend, tenant, models, clock, requestVars, raced>>

\* A row: when it was first inserted, by a request that began and ended when
\* (0: has not ended), which registration wrote it last, and which keys were
\* added to its drift thresholds.  History: which additions were answered
\* since the last registration, and whether one met another write.
Row(v, c, b) == [version |-> v, created |-> c, began |-> b, ended |-> 0,
                 written |-> c, keys |-> {}, answered |-> {}, met |-> FALSE]
RowsOf(v) == {m \in models : m.version = v}
\* The requests that have read the row of v and not yet written it.
Updating(v) == {q \in Requests : rpc[q] = "put" /\ version[q] = v}

RegistryInit ==
  /\ backend \in {"memory", "postgres"}
  /\ tenant = "none" /\ models = {} /\ clock = 0
  /\ rpc = [r \in Requests |-> "idle"]
  /\ version = [r \in Requests |-> NoVersion]
  /\ began = [r \in Requests |-> 0]
  /\ stamp = [r \in Requests |-> 0] /\ read = [r \in Requests |-> {}]
  /\ raced = {}

RGoto(r, from, to) == rpc[r] = from /\ rpc' = [rpc EXCEPT ![r] = to]
Tick == clock < MaxClock /\ clock' = clock + 1

\* /models/register.
BeginRegister(r, v) ==
  /\ RGoto(r, "idle", IF backend = "memory" THEN "begin" ELSE "check")
  /\ Tick
  /\ version' = [version EXCEPT ![r] = v]
  /\ began' = [began EXCEPT ![r] = clock']
  /\ UNCHANGED <<backend, tenant, models, stamp, read, raced>>

\* /register-tenant: one upsert, or one assignment.
RegisterTenant ==
  /\ tenant' = "named"
  /\ raced' = raced \cup {r \in Requests : rpc[r] = "default"}
  /\ UNCHANGED <<backend, models, clock, requestVars>>

\* register_model in PostgreSQL: an unknown tenant is entered with a
\* placeholder for its name, by an upsert of its own.
CheckTenantAlways(r) ==
  /\ RGoto(r, "check", "default")
  /\ raced' = raced \ {r}
  /\ UNCHANGED <<backend, tenant, models, clock, version, began, stamp, read>>
CheckTenant(r) ==
  /\ RGoto(r, "check", IF tenant = "none" THEN "default" ELSE "begin")
  /\ raced' = raced \ {r}
  /\ UNCHANGED <<backend, tenant, models, clock, version, began, stamp, read>>

DefaultTenant(r) ==
  /\ RGoto(r, "default", "begin")
  /\ tenant' = "placeholder"
  /\ UNCHANGED <<backend, models, clock, version, began, stamp, read, raced>>

\* The transaction that upserts the row; in memory its two steps are one
\* assignment, which nothing else can come between.
BeginInsert(r) ==
  /\ RGoto(r, "begin", "insert")
  /\ backend = "memory" => \A q \in Requests : rpc[q] # "insert"
  /\ Tick
  /\ stamp' = [stamp EXCEPT ![r] = clock']
  /\ UNCHANGED <<backend, tenant, models, version, began, read, raced>>

\* A row that exists keeps its place and its created_at.
Written(m, r) == [m EXCEPT !.written = stamp[r], !.keys = {}, !.answered = {},
                           !.met = Updating(version[r]) # {}]
Inserted(r) == [Row(version[r], stamp[r], began[r]) EXCEPT !.met = Updating(version[r]) # {}]
UpsertMoving(r) ==
  models' = (models \ RowsOf(version[r])) \cup
    (IF RowsOf(version[r]) = {} THEN {Inserted(r)}
     ELSE {[Written(m, r) EXCEPT !.created = stamp[r]] : m \in RowsOf(version[r])})
Upsert(r) ==
  models' = (models \ RowsOf(version[r])) \cup
    (IF RowsOf(version[r]) = {} THEN {Inserted(r)} ELSE {Written(m, r) : m \in RowsOf(version[r])})

InsertModel(r) ==
  /\ RGoto(r, "insert", "answer")
  /\ Upsert(r)
  /\ UNCHANGED <<backend, tenant, clock, version, began, stamp, read, raced>>

\* The request ends; the row it inserted, if it is still there, knows when.
Answer(r) ==
  /\ RGoto(r, "answer", "idle")
  /\ models' = {IF m.created = stamp[r] THEN [m EXCEPT !.ended = clock] ELSE m : m \in models}
  /\ stamp' = [stamp EXCEPT ![r] = 0]
  /\ began' = [began EXCEPT ![r] = 0]
  /\ version' = [version EXCEPT ![r] = NoVersion]
  /\ UNCHANGED <<backend, tenant, clock, read, raced>>

\* update_drift_thresholds reads the row, and writes back what it read with
\* its own key added; in memory it adds the key to the object it found,
\* which a registration may have replaced by then.
GetModel(r, v) ==
  /\ RowsOf(v) # {}
  /\ RGoto(r, "idle", "put")
  /\ Tick
  /\ version' = [version EXCEPT ![r] = v]
  /\ read' = [read EXCEPT ![r] = RowsOf(v)]
  /\ UNCHANGED <<backend, tenant, models, began, stamp, raced>>

OnlyKey(r, m, old) == [m EXCEPT !.keys = {r}]
WithKey(r, m, old) ==
  IF backend = "postgres" THEN [m EXCEPT !.keys = old.keys \cup {r}]
  ELSE IF m.written = old.written THEN [m EXCEPT !.keys = @ \cup {r}]
  ELSE m
Noted(r, m) == [m EXCEPT !.answered = @ \cup {r},
                         !.met = @ \/ Updating(version[r]) # {r}]

PutThresholds(r) ==
  /\ RGoto(r, "put", "idle")
  /\ \E old \in read[r] :
       models' = {IF m.version = version[r] THEN Noted(r, WithKey(r, m, old)) ELSE m : m \in models}
  /\ read' = [read EXCEPT ![r] = {}]
  /\ version' = [version EXCEPT ![r] = NoVersion]
  /\ UNCHANGED <<backend, tenant, clock, began, stamp, raced>>

DeleteModel(v) ==
  /\ RowsOf(v) # {}
  /\ Tick
  /\ models' = models \ RowsOf(v)
  /\ UNCHANGED <<backend, tenant, requestVars, raced>>

RegistryNext ==
  \/ RegisterTenant
  \/ \E v \in Revisions : DeleteModel(v)
  \/ \E r \in Requests :
       \/ \E v \in Revisions : BeginRegister(r, v) \/ GetModel(r, v)
       \/ CheckTenant(r) \/ DefaultTenant(r)
       \/ BeginInsert(r) \/ InsertModel(r) \/ Answer(r)
       \/ PutThresholds(r)

RegistrySpec == RegistryInit /\ [][RegistryNext]_registryVars

\* get_latest_model: ORDER BY created_at DESC LIMIT 1; the last match.
Latest == {m \in models : \A k \in models : k.created <= m.created}

-----------------------------------------------------------------------------
(* Properties.                                                             *)

\* A tenant that was registered with its name loses it to the placeholder of
\* register_model only if the registration fell between the check and the
\* upsert of that call.
NamesLostOnlyInRace ==
  [][tenant = "named" /\ tenant' = "placeholder"
       => \E r \in raced : rpc[r] = "default"]_registryVars

\* A change of the drift thresholds that was answered is missing from the row
\* only if it met another write of the row between its read and its write.
ThresholdsKept == \A m \in models : m.met \/ m.answered \subseteq m.keys

\* The latest model, which predictions and retraining use, is never one whose
\* registration was answered before the registration of another that is still
\* there was even asked for; registering an old version again does not make
\* it the latest.
LatestRespectsOrder ==
  \A m \in Latest, k \in models : m.ended > 0 => k.began <= m.ended
=============================================================================
