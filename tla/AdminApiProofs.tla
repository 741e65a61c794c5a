--------------------------- MODULE AdminApiProofs ---------------------------
(***************************************************************************)
(* Proofs about the admin API's components: what concurrent requests can   *)
(* do to the rows of the registry (TenantRegistry), to the count of a      *)
(* window (RateLimiter) and to the accounts (DashboardAccounts), and what  *)
(* a dashboard is shown of the model updates (EventStream).                *)
(***************************************************************************)
EXTENDS TenantRegistry, RateLimiter, DashboardAccounts, EventStream, TLAPS

-----------------------------------------------------------------------------
(* The registry. *)

RowType == [version : Revisions, created : Nat, began : Nat, ended : Nat, written : Nat,
            keys : SUBSET Requests, answered : SUBSET Requests, met : BOOLEAN]

Registering == {"begin", "insert", "answer", "check", "default"}

RegistryTypeOK ==
  /\ backend \in {"memory", "postgres"}
  /\ tenant \in {"none", "placeholder", "named"}
  /\ models \subseteq RowType
  /\ clock \in Nat
  /\ rpc \in [Requests -> Registering \cup {"idle", "put"}]
  /\ version \in [Requests -> Revisions \cup {NoVersion}]
  /\ \A r \in Requests : rpc[r] # "idle" => version[r] \in Revisions
  /\ began \in [Requests -> Nat] /\ stamp \in [Requests -> Nat]
  /\ read \in [Requests -> SUBSET RowType]
  /\ raced \subseteq Requests

\* Nothing is later than the clock; a request's transaction begins after it
\* does, a row is made by such a transaction, and ends after it was made.
InTime ==
  /\ \A r \in Requests : /\ began[r] <= clock /\ stamp[r] <= clock
                         /\ rpc[r] \in {"insert", "answer"} => began[r] <= stamp[r]
  /\ \A m \in models : /\ m.began <= m.created /\ m.created <= clock
                       /\ m.ended > 0 => m.created <= m.ended

\* A registration that falls between the check and the upsert is noted.
RaceIsNoted == \A r \in Requests : rpc[r] = "default" /\ tenant = "named" => r \in raced

\* A version has one row; what a request has read of it is what it still says,
\* unless another write came between.
OneRow == \A m, k \in models : m.version = k.version => m = k
ReadIsCurrent ==
  \A m \in models : \A q \in Updating(m.version) :
    m.met \/ \A old \in read[q] : old.keys = m.keys /\ old.written = m.written

RegistryInv == /\ RegistryTypeOK /\ InTime /\ RaceIsNoted
               /\ OneRow /\ ReadIsCurrent /\ ThresholdsKept

-----------------------------------------------------------------------------
LEMMA RegistryInitInv == RegistryInit => RegistryInv
BY DEF RegistryInit, RegistryInv, RegistryTypeOK, Registering, InTime, RaceIsNoted, OneRow,
       ReadIsCurrent, ThresholdsKept

\* The steps that leave the rows alone and read none.
LEMMA QuietStep ==
  ASSUME RegistryInv, NEW r \in Requests,
         \/ RegisterTenant \/ CheckTenant(r) \/ DefaultTenant(r) \/ BeginInsert(r)
         \/ \E v \in Revisions : BeginRegister(r, v)
  PROVE  RegistryInv'
<1> USE DEF RegistryInv, RegistryTypeOK, Registering
<1> DEFINE step == \/ RegisterTenant \/ CheckTenant(r) \/ DefaultTenant(r) \/ BeginInsert(r)
                   \/ \E v \in Revisions : BeginRegister(r, v)
<1>1. RegistryTypeOK'
  BY DEF RegisterTenant, CheckTenant, DefaultTenant, BeginInsert, BeginRegister, RGoto, Tick,
         requestVars
<1>2. models' = models /\ read' = read
  BY DEF RegisterTenant, CheckTenant, DefaultTenant, BeginInsert, BeginRegister, requestVars
<1>3. clock <= clock'
  BY DEF RegisterTenant, CheckTenant, DefaultTenant, BeginInsert, BeginRegister, Tick
<1>4. InTime'
  <2>1. \A q \in Requests : /\ began'[q] <= clock' /\ stamp'[q] <= clock'
                            /\ rpc'[q] \in {"insert", "answer"} => began'[q] <= stamp'[q]
    BY <1>3 DEF InTime, RegisterTenant, CheckTenant, DefaultTenant, BeginInsert, BeginRegister,
                RGoto, Tick, requestVars
  <2>2. \A m \in models' : m.created \in Nat
    BY <1>1 DEF RowType
  <2> QED BY <1>1, <1>2, <1>3, <2>1, <2>2 DEF InTime
<1>5. RaceIsNoted'
  BY DEF RaceIsNoted, RegisterTenant, CheckTenant, DefaultTenant, BeginInsert, BeginRegister,
         RGoto, requestVars
<1>6. \A v : Updating(v)' = Updating(v)
  BY DEF Updating, RegisterTenant, CheckTenant, DefaultTenant, BeginInsert, BeginRegister,
         RGoto, requestVars
<1>7. OneRow' /\ ReadIsCurrent' /\ ThresholdsKept'
  BY <1>2, <1>6 DEF OneRow, ReadIsCurrent, ThresholdsKept
<1> QED BY <1>1, <1>4, <1>5, <1>7

\* What an upsert leaves: the rows of other versions, and one row that is new,
\* or is the old one written again.
LEMMA UpsertRows ==
  ASSUME RegistryInv, NEW r \in Requests, rpc[r] = "insert", Upsert(r), NEW m \in models'
  PROVE  /\ m \in RowType
         /\ m.version # version[r] => m \in models
         /\ m.version = version[r] =>
              /\ m.keys = {} /\ m.answered = {} /\ m.met = (Updating(version[r]) # {})
              /\ m.written = stamp[r]
              /\ \/ m.created = stamp[r] /\ m.began = began[r] /\ m.ended = 0
                 \/ \E k \in models : /\ k.version = version[r] /\ m.created = k.created
                                      /\ m.began = k.began /\ m.ended = k.ended
<1> USE DEF RegistryInv, RegistryTypeOK
<1>1. version[r] \in Revisions /\ stamp[r] \in Nat /\ began[r] \in Nat
  OBVIOUS
<1>2. CASE m \in models \ RowsOf(version[r])
  BY <1>2 DEF RowsOf
<1>3. CASE m = Inserted(r)
  BY <1>1, <1>3 DEF Inserted, Row, RowType
<1>4. ASSUME NEW k \in RowsOf(version[r]), m = Written(k, r)
      PROVE  /\ m \in RowType /\ m.version = version[r]
             /\ m.keys = {} /\ m.answered = {} /\ m.met = (Updating(version[r]) # {})
             /\ m.written = stamp[r]
             /\ k \in models /\ m.created = k.created /\ m.began = k.began /\ m.ended = k.ended
             /\ k.version = version[r]
  <2>1. k \in models /\ k \in RowType /\ k.version = version[r]
    BY <1>4 DEF RowsOf
  <2> QED BY <1>1, <1>4, <2>1 DEF Written, RowType
<1>5. \/ m \in models \ RowsOf(version[r])
      \/ m = Inserted(r)
      \/ \E k \in RowsOf(version[r]) : m = Written(k, r)
  BY DEF Upsert
<1> QED BY <1>2, <1>3, <1>4, <1>5

LEMMA UpsertOneRow ==
  ASSUME RegistryInv, NEW r \in Requests, rpc[r] = "insert", Upsert(r)
  PROVE  OneRow'
<1> USE DEF RegistryInv, RegistryTypeOK
<1> SUFFICES ASSUME NEW m \in models', NEW k \in models', m.version = k.version
             PROVE  m = k
  BY DEF OneRow
<1>1. CASE m.version # version[r]
  BY <1>1, UpsertRows DEF OneRow
<1>2. CASE m.version = version[r]
  <2>1. m \notin models \ RowsOf(version[r]) /\ k \notin models \ RowsOf(version[r])
    BY <1>2 DEF RowsOf
  <2>2. CASE RowsOf(version[r]) = {}
    BY <2>1, <2>2 DEF Upsert
  <2>3. CASE RowsOf(version[r]) # {}
    <3>1. PICK x \in RowsOf(version[r]), y \in RowsOf(version[r]) : m = Written(x, r) /\ k = Written(y, r)
      BY <2>1, <2>3 DEF Upsert
    <3>2. x = y
      BY <3>1 DEF OneRow, RowsOf
    <3> QED BY <3>1, <3>2
  <2> QED BY <2>2, <2>3
<1> QED BY <1>1, <1>2

LEMMA InsertStep ==
  ASSUME RegistryInv, NEW r \in Requests, InsertModel(r)
  PROVE  RegistryInv'
<1> USE DEF RegistryInv, RegistryTypeOK, Registering
<1>1. /\ rpc[r] = "insert" /\ rpc' = [rpc EXCEPT ![r] = "answer"] /\ Upsert(r)
      /\ UNCHANGED <<backend, tenant, clock, version, began, stamp, read, raced>>
  BY DEF InsertModel, RGoto
<1>2. models' \subseteq RowType
  BY <1>1, UpsertRows
<1>3. RegistryTypeOK'
  BY <1>1, <1>2
<1>4. InTime'
  <2>1. ASSUME NEW m \in models'
        PROVE  /\ m.began <= m.created /\ m.created <= clock
               /\ m.ended > 0 => m.created <= m.ended
    <3>1. CASE m.version # version[r]
      BY <1>1, <3>1, UpsertRows DEF InTime
    <3>2. CASE m.created = stamp[r] /\ m.began = began[r] /\ m.ended = 0
      BY <1>1, <3>2 DEF InTime
    <3>3. CASE \E k \in models : /\ k.version = version[r] /\ m.created = k.created
                                 /\ m.began = k.began /\ m.ended = k.ended
      BY <3>3 DEF InTime
    <3> QED BY <1>1, <3>1, <3>2, <3>3, UpsertRows
  <2> QED BY <1>1, <2>1 DEF InTime
<1>5. RaceIsNoted'
  BY <1>1 DEF RaceIsNoted
<1>6. OneRow'
  BY <1>1, UpsertOneRow
<1>7. \A v : Updating(v)' = Updating(v)
  BY <1>1 DEF Updating
<1>8. ReadIsCurrent' /\ ThresholdsKept'
  <2>1. ASSUME NEW m \in models'
        PROVE  /\ m.met \/ m.answered \subseteq m.keys
               /\ \A q \in Updating(m.version) :
                    m.met \/ \A old \in read[q] : old.keys = m.keys /\ old.written = m.written
    <3>1. CASE m.version # version[r]
      BY <1>1, <3>1, UpsertRows DEF ReadIsCurrent, ThresholdsKept
    <3>2. CASE m.version = version[r]
      BY <1>1, <3>2, UpsertRows
    <3> QED BY <3>1, <3>2
  <2> QED BY <1>1, <1>7, <2>1 DEF ReadIsCurrent, ThresholdsKept
<1> QED BY <1>3, <1>4, <1>5, <1>6, <1>8

LEMMA AnswerStep ==
  ASSUME RegistryInv, NEW r \in Requests, Answer(r)
  PROVE  RegistryInv'
<1> USE DEF RegistryInv, RegistryTypeOK, Registering
<1> DEFINE After(m) == IF m.created = stamp[r] THEN [m EXCEPT !.ended = clock] ELSE m
<1>1. /\ rpc[r] = "answer" /\ rpc' = [rpc EXCEPT ![r] = "idle"]
      /\ models' = {After(m) : m \in models}
      /\ stamp' = [stamp EXCEPT ![r] = 0] /\ began' = [began EXCEPT ![r] = 0]
      /\ version' = [version EXCEPT ![r] = NoVersion]
      /\ UNCHANGED <<backend, tenant, clock, read, raced>>
  BY DEF Answer, RGoto
<1>2. ASSUME NEW m \in models
      PROVE  /\ After(m) \in RowType
             /\ After(m).version = m.version /\ After(m).created = m.created
             /\ After(m).began = m.began /\ After(m).written = m.written
             /\ After(m).keys = m.keys /\ After(m).answered = m.answered /\ After(m).met = m.met
             /\ After(m).ended = IF m.created = stamp[r] THEN clock ELSE m.ended
  <2>1. m \in RowType
    OBVIOUS
  <2> QED BY <2>1 DEF RowType
<1> HIDE DEF After
<1>3. RegistryTypeOK'
  BY <1>1, <1>2
<1>4. InTime'
  <2>1. ASSUME NEW m \in models
        PROVE  /\ After(m).began <= After(m).created /\ After(m).created <= clock
               /\ After(m).ended > 0 => After(m).created <= After(m).ended
    BY <1>2 DEF InTime
  <2>2. \A q \in Requests : /\ began'[q] <= clock /\ stamp'[q] <= clock
                            /\ rpc'[q] \in {"insert", "answer"} => began'[q] <= stamp'[q]
    BY <1>1 DEF InTime
  <2> QED BY <1>1, <2>1, <2>2 DEF InTime
<1>5. RaceIsNoted'
  BY <1>1 DEF RaceIsNoted
<1>6. OneRow'
  BY <1>1, <1>2 DEF OneRow
<1>7. \A v : Updating(v)' = Updating(v)
  BY <1>1 DEF Updating
<1>8. ReadIsCurrent' /\ ThresholdsKept'
  <2>1. ASSUME NEW m \in models
        PROVE  /\ After(m).met \/ After(m).answered \subseteq After(m).keys
               /\ \A q \in Updating(After(m).version) :
                    After(m).met \/ \A old \in read[q] : old.keys = After(m).keys
                                                         /\ old.written = After(m).written
    BY <1>2 DEF ReadIsCurrent, ThresholdsKept
  <2> QED BY <1>1, <1>7, <2>1 DEF ReadIsCurrent, ThresholdsKept
<1> QED BY <1>3, <1>4, <1>5, <1>6, <1>8

LEMMA ReadStep ==
  ASSUME RegistryInv, NEW r \in Requests, NEW v \in Revisions, GetModel(r, v)
  PROVE  RegistryInv'
<1> USE DEF RegistryInv, RegistryTypeOK, Registering
<1>1. /\ rpc[r] = "idle" /\ rpc' = [rpc EXCEPT ![r] = "put"]
      /\ clock' = clock + 1 /\ version' = [version EXCEPT ![r] = v]
      /\ read' = [read EXCEPT ![r] = RowsOf(v)]
      /\ UNCHANGED <<backend, tenant, models, began, stamp, raced>>
  BY DEF GetModel, RGoto, Tick
<1>2. RowsOf(v) \subseteq models
  BY DEF RowsOf
<1>3. RegistryTypeOK'
  BY <1>1, <1>2
<1>4. InTime'
  <2>1. \A m \in models : m.created \in Nat
    BY DEF RowType
  <2> QED BY <1>1, <2>1 DEF InTime
<1>5. RaceIsNoted' /\ OneRow' /\ ThresholdsKept'
  BY <1>1 DEF RaceIsNoted, OneRow, ThresholdsKept
<1>6. ReadIsCurrent'
  <2> SUFFICES ASSUME NEW m \in models, NEW q \in Updating(m.version)', ~m.met,
                      NEW old \in read'[q]
               PROVE  old.keys = m.keys /\ old.written = m.written
    BY <1>1 DEF ReadIsCurrent
  <2>1. CASE q = r
    <3>1. m.version = v /\ old \in RowsOf(v)
      BY <1>1, <2>1 DEF Updating
    <3>2. old = m
      BY <3>1 DEF RowsOf, OneRow
    <3> QED BY <3>2
  <2>2. CASE q # r
    BY <1>1, <2>2 DEF Updating, ReadIsCurrent
  <2> QED BY <2>1, <2>2
<1> QED BY <1>3, <1>4, <1>5, <1>6

LEMMA PutStep ==
  ASSUME RegistryInv, NEW r \in Requests, PutThresholds(r)
  PROVE  RegistryInv'
<1> USE DEF RegistryInv, RegistryTypeOK, Registering
<1>1. PICK old \in read[r] :
        models' = {IF m.version = version[r] THEN Noted(r, WithKey(r, m, old)) ELSE m : m \in models}
  BY DEF PutThresholds
<1>2. /\ rpc[r] = "put" /\ rpc' = [rpc EXCEPT ![r] = "idle"]
      /\ read' = [read EXCEPT ![r] = {}] /\ version' = [version EXCEPT ![r] = NoVersion]
      /\ UNCHANGED <<backend, tenant, clock, began, stamp, raced>>
  BY DEF PutThresholds, RGoto
<1>3. old \in RowType /\ r \in Updating(version[r])
  BY <1>2 DEF Updating
<1> DEFINE After(m) == IF m.version = version[r] THEN Noted(r, WithKey(r, m, old)) ELSE m
<1>4. ASSUME NEW m \in models
      PROVE  /\ After(m) \in RowType
             /\ After(m).version = m.version /\ After(m).created = m.created
             /\ After(m).began = m.began /\ After(m).ended = m.ended
             /\ m.version # version[r] => After(m) = m
             /\ m.version = version[r] =>
                  /\ After(m).met = (m.met \/ Updating(version[r]) # {r})
                  /\ After(m).answered = m.answered \cup {r}
                  /\ m.keys = old.keys /\ m.written = old.written => After(m).keys = m.keys \cup {r}
  <2>1. m \in RowType
    OBVIOUS
  <2> QED BY <1>3, <2>1 DEF RowType, Noted, WithKey
<1>5. models' = {After(m) : m \in models}
  BY <1>1
<1> HIDE DEF After
<1>6. RegistryTypeOK'
  BY <1>2, <1>4, <1>5
<1>7. InTime'
  BY <1>2, <1>4, <1>5 DEF InTime
<1>8. RaceIsNoted' /\ OneRow'
  BY <1>2, <1>4, <1>5 DEF RaceIsNoted, OneRow
<1>9. \A v \in Revisions : Updating(v)' = Updating(v) \ {r}
  BY <1>2, RegistryAssumption DEF Updating
<1>10. ReadIsCurrent'
  <2> SUFFICES ASSUME NEW n \in models', NEW q \in Updating(n.version)'
               PROVE  n.met \/ \A o \in read'[q] : o.keys = n.keys /\ o.written = n.written
    BY DEF ReadIsCurrent
  <2>1. PICK m \in models : n = After(m)
    BY <1>5
  <2>2. m.version \in Revisions /\ n.version = m.version
    BY <1>4, <2>1 DEF RowType
  <2>3. q \in Updating(m.version) /\ q # r /\ q \in Requests
    BY <1>9, <2>2 DEF Updating
  <2>4. read'[q] = read[q]
    BY <1>2, <2>3
  <2>5. CASE m.version = version[r]
    BY <1>4, <2>1, <2>3, <2>5
  <2>6. CASE m.version # version[r]
    BY <1>4, <2>1, <2>3, <2>4, <2>6 DEF ReadIsCurrent
  <2> QED BY <2>5, <2>6
<1>11. ThresholdsKept'
  <2> SUFFICES ASSUME NEW m \in models, ~After(m).met
               PROVE  After(m).answered \subseteq After(m).keys
    BY <1>5 DEF ThresholdsKept
  <2>1. CASE m.version = version[r]
    <3>1. ~m.met
      BY <1>4, <2>1
    <3>2. m.keys = old.keys /\ m.written = old.written
      BY <1>3, <2>1, <3>1 DEF ReadIsCurrent
    <3> QED BY <1>4, <2>1, <3>1, <3>2 DEF ThresholdsKept
  <2>2. CASE m.version # version[r]
    BY <1>4, <2>2 DEF ThresholdsKept
  <2> QED BY <2>1, <2>2
<1> QED BY <1>6, <1>7, <1>8, <1>10, <1>11

LEMMA DeleteStep ==
  ASSUME RegistryInv, NEW v \in Revisions, DeleteModel(v)
  PROVE  RegistryInv'
<1> USE DEF RegistryInv, RegistryTypeOK, requestVars
<1>1. /\ clock' = clock + 1 /\ models' \subseteq models
      /\ UNCHANGED <<backend, tenant, rpc, version, began, stamp, read, raced>>
  BY DEF DeleteModel, Tick
<1>2. InTime'
  <2>1. \A m \in models : m.created \in Nat
    BY DEF RowType
  <2> QED BY <1>1, <2>1 DEF InTime
<1>3. \A w : Updating(w)' = Updating(w)
  BY <1>1 DEF Updating
<1> QED BY <1>1, <1>2, <1>3 DEF RaceIsNoted, OneRow, ReadIsCurrent, ThresholdsKept

LEMMA RegistryStepInv ==
  ASSUME RegistryInv, [RegistryNext]_registryVars
  PROVE  RegistryInv'
<1>1. CASE RegisterTenant /\ Requests = {}
  BY <1>1 DEF RegistryInv, RegistryTypeOK, RegisterTenant, InTime, RaceIsNoted, OneRow,
              ReadIsCurrent, ThresholdsKept, Updating, requestVars
<1>2. CASE RegisterTenant /\ Requests # {}
  BY <1>2, QuietStep
<1>3. ASSUME NEW v \in Revisions, DeleteModel(v)
      PROVE  RegistryInv'
  BY <1>3, DeleteStep
<1>4. ASSUME NEW r \in Requests, NEW v \in Revisions, BeginRegister(r, v) \/ GetModel(r, v)
      PROVE  RegistryInv'
  BY <1>4, QuietStep, ReadStep
<1>5. ASSUME NEW r \in Requests,
             \/ CheckTenant(r) \/ DefaultTenant(r) \/ BeginInsert(r)
             \/ InsertModel(r) \/ Answer(r) \/ PutThresholds(r)
      PROVE  RegistryInv'
  BY <1>5, QuietStep, InsertStep, AnswerStep, PutStep
<1>6. CASE UNCHANGED registryVars
  BY <1>6 DEF RegistryInv, RegistryTypeOK, registryVars, requestVars, InTime, RaceIsNoted, OneRow,
              ReadIsCurrent, ThresholdsKept, Updating
<1> QED BY <1>1, <1>2, <1>3, <1>4, <1>5, <1>6 DEF RegistryNext

-----------------------------------------------------------------------------
\* Whatever the transactions of the requests interleave with, the rows and what
\* the requests know of them satisfy the inductive invariant.
THEOREM RegistryInvariance == RegistrySpec => []RegistryInv
<1>1. RegistryInv /\ [RegistryNext]_registryVars => RegistryInv'
  BY RegistryStepInv
<1> QED BY <1>1, RegistryInitInv, PTL DEF RegistrySpec

\* The latest model is never one whose registration had been answered before
\* that of another was asked for.
THEOREM OrderCorrect == RegistrySpec => []LatestRespectsOrder
<1>1. RegistryInv => LatestRespectsOrder
  <2> SUFFICES ASSUME RegistryInv, NEW m \in Latest, NEW k \in models, m.ended > 0
               PROVE  k.began <= m.ended
    BY DEF LatestRespectsOrder
  <2>1. m \in models /\ k.created <= m.created
    BY DEF Latest
  <2>2. /\ k.began \in Nat /\ k.created \in Nat /\ m.created \in Nat /\ m.ended \in Nat
    BY <2>1 DEF RegistryInv, RegistryTypeOK, RowType
  <2> QED BY <2>1, <2>2 DEF RegistryInv, InTime
<1> QED BY <1>1, RegistryInvariance, PTL

\* An answered change of the thresholds is lost only if it met another write.
THEOREM ThresholdsCorrect == RegistrySpec => []ThresholdsKept
<1>1. RegistryInv => ThresholdsKept
  BY DEF RegistryInv
<1> QED BY <1>1, RegistryInvariance, PTL

\* A tenant loses its name only to a registration that raced with its own.
THEOREM NamesCorrect == RegistrySpec => NamesLostOnlyInRace
<1> DEFINE Kept == tenant = "named" /\ tenant' = "placeholder"
                     => \E r \in raced : rpc[r] = "default"
<1>1. ASSUME RegistryInv, [RegistryNext]_registryVars
      PROVE  Kept
  <2> SUFFICES ASSUME tenant = "named", tenant' = "placeholder"
               PROVE  \E r \in raced : rpc[r] = "default"
    OBVIOUS
  <2>1. PICK r \in Requests : DefaultTenant(r)
    BY <1>1 DEF RegistryNext, registryVars, RegisterTenant, DeleteModel, BeginRegister, GetModel,
                CheckTenant, BeginInsert, InsertModel, Answer, PutThresholds
  <2> QED BY <1>1, <2>1 DEF RegistryInv, RaceIsNoted, DefaultTenant, RGoto
<1>2. RegistryInv /\ [RegistryNext]_registryVars => [Kept]_registryVars
  BY <1>1
<1> QED BY <1>2, RegistryInvariance, PTL DEF RegistrySpec, NamesLostOnlyInRace

-----------------------------------------------------------------------------
(* The rate limiter. *)

BucketType == [capacity : Nat, rate : Nat, tokens : Int, last : Nat, opened : Nat, granted : Nat]

LimiterTypeOK ==
  /\ time \in Nat /\ buckets \in Nat /\ limitsSet \in Nat
  /\ bucket \in [1..buckets -> BucketType]
  /\ current \in 0..buckets
  /\ tpc \in [Clients -> {"idle", "lock", "create", "fetch", "allow"}]
  /\ held \in [Clients -> 0..buckets]

\* An entry of the dictionary, once there, is only ever replaced; so a request
\* that is past the check finds one.
EntryStays ==
  /\ current = 0 => buckets = 0
  /\ \A t \in Clients : /\ tpc[t] = "fetch" => current # 0
                        /\ tpc[t] = "allow" => held[t] # 0

LimiterInv == LimiterTypeOK /\ EntryStays /\ OneBucket /\ GrantsWithinRate

-----------------------------------------------------------------------------
(* One bucket.                                                             *)

LEMMA RefilledIsWithin ==
  ASSUME NEW b \in BucketType, time \in Nat
  PROVE  /\ Refilled(b) \in Int
         /\ Refilled(b) <= b.capacity
         /\ Refilled(b) <= b.tokens + (time - b.last) * b.rate
<1>1. /\ b.capacity \in Nat /\ b.rate \in Nat /\ b.tokens \in Int /\ b.last \in Nat
  BY DEF BucketType
<1>2. (time - b.last) * b.rate \in Int
  BY <1>1
<1> QED BY <1>1, <1>2 DEF Refilled, Smaller

\* What GrantsWithinRate says of one bucket.
WithinRate(b) == b.granted + b.tokens <= b.capacity + b.rate * (b.last - b.opened)

\* A call of allow keeps a bucket within its rate, whatever the clock says.
LEMMA AllowedIsWithinRate ==
  ASSUME NEW b \in BucketType, WithinRate(b), time \in Nat, NEW reopened \in BOOLEAN
  PROVE  Allowed(b, reopened) \in BucketType /\ WithinRate(Allowed(b, reopened))
<1> DEFINE a == Allowed(b, reopened)
           since == IF reopened THEN 0 ELSE b.granted
<1>1. /\ b.capacity \in Nat /\ b.rate \in Nat /\ b.tokens \in Int
      /\ b.last \in Nat /\ b.opened \in Nat /\ b.granted \in Nat
  BY DEF BucketType
<1> DEFINE ok == Refilled(b) >= 1
<1>2. /\ a.capacity = b.capacity /\ a.rate = b.rate /\ a.last = time
      /\ a.opened = IF reopened THEN time ELSE b.opened
      /\ a.tokens = IF ok THEN Refilled(b) - 1 ELSE Refilled(b)
      /\ a.granted = IF ok THEN since + 1 ELSE since
  BY <1>1 DEF Allowed, BucketType
<1>3. since \in Nat /\ Refilled(b) \in Int
  BY <1>1, RefilledIsWithin
<1>4. a \in BucketType
  <2>1. /\ a.tokens \in Int /\ a.granted \in Nat
        /\ a.opened \in Nat
    BY <1>1, <1>2, <1>3
  <2>2. a = [b EXCEPT !.tokens = a.tokens, !.last = time, !.opened = a.opened, !.granted = a.granted]
    BY DEF Allowed, BucketType
  <2> HIDE DEF a
  <2> QED BY <2>1, <2>2 DEF BucketType
<1>5. a.granted + a.tokens = since + Refilled(b)
  BY <1>2, <1>3
<1>6. since + Refilled(b) <= b.capacity + b.rate * (time - a.opened)
  <2>1. CASE reopened
    <3>1. b.rate * (time - a.opened) = 0
      BY <1>1, <1>2, <2>1
    <3>2. since = 0
      BY <2>1
    <3>3. Refilled(b) <= b.capacity
      BY RefilledIsWithin
    <3> HIDE DEF since
    <3> QED BY <1>1, <1>3, <3>1, <3>2, <3>3
  <2>2. CASE ~reopened
    <3>1. b.rate * (time - b.opened) = b.rate * (b.last - b.opened) + (time - b.last) * b.rate
      BY <1>1
    <3>2. b.rate * (b.last - b.opened) \in Int /\ (time - b.last) * b.rate \in Int
      BY <1>1
    <3>3. a.opened = b.opened /\ since = b.granted
      BY <1>2, <2>2
    <3> QED BY <1>1, <1>3, <3>1, <3>2, <3>3, RefilledIsWithin DEF WithinRate
  <2> QED BY <2>1, <2>2
<1> HIDE DEF a, since
<1> QED BY <1>2, <1>4, <1>5, <1>6 DEF WithinRate, a

\* A new bucket is within its rate.
LEMMA NewIsWithinRate ==
  ASSUME time \in Nat, NEW c \in Nat, NEW r \in Nat
  PROVE  NewBucket(c, r) \in BucketType /\ WithinRate(NewBucket(c, r))
<1>1. r * (time - time) = 0
  OBVIOUS
<1> QED BY <1>1 DEF NewBucket, BucketType, WithinRate

LEMMA GrantsOfAll == GrantsWithinRate <=> \A b \in 1..buckets : WithinRate(bucket[b])
BY DEF GrantsWithinRate, WithinRate

-----------------------------------------------------------------------------
(* The steps.                                                              *)

LEMMA MakeStep ==
  ASSUME LimiterInv, NEW c \in Nat, NEW r \in Nat, Make(c, r)
  PROVE  /\ buckets' = buckets + 1 /\ current' = buckets'
         /\ bucket' \in [1..buckets' -> BucketType]
         /\ GrantsWithinRate'
<1> USE DEF LimiterInv, LimiterTypeOK
<1>1. buckets' = buckets + 1 /\ current' = buckets'
  BY DEF Make
<1>2. ASSUME NEW b \in 1..buckets'
      PROVE  bucket'[b] \in BucketType /\ WithinRate(bucket'[b])
  <2>1. CASE b = buckets'
    BY <2>1, <1>1, NewIsWithinRate DEF Make
  <2>2. CASE b # buckets'
    <3>1. b \in 1..buckets
      BY <1>1, <2>2
    <3>2. bucket'[b] = bucket[b]
      BY <2>2 DEF Make
    <3> QED BY <3>1, <3>2, GrantsOfAll
  <2> QED BY <2>1, <2>2
<1>3. bucket' = [b \in 1..buckets' |-> bucket'[b]]
  BY DEF Make
<1>4. bucket' \in [1..buckets' -> BucketType]
  BY <1>2, <1>3
<1>5. GrantsWithinRate'
  BY <1>2 DEF GrantsWithinRate, WithinRate
<1> QED BY <1>1, <1>4, <1>5

LEMMA LimiterInitInv == LimiterInit => LimiterInv
<1> SUFFICES ASSUME LimiterInit PROVE LimiterInv
  OBVIOUS
<1>1. 1..buckets = {}
  BY DEF LimiterInit
<1> QED BY <1>1, LimiterAssumption
        DEF LimiterInit, LimiterInv, LimiterTypeOK, EntryStays, OneBucket, GrantsWithinRate

LEMMA LimiterStepInv ==
  ASSUME LimiterInv, [LimiterNext]_limiterVars
  PROVE  LimiterInv'
<1> USE DEF LimiterInv, LimiterTypeOK, EntryStays
<1>1. CASE ClockMoves
  BY <1>1, LimiterAssumption DEF ClockMoves, OneBucket, GrantsWithinRate
<1>2. ASSUME NEW t \in Clients, Look(t) \/ AcquireToCreate(t) \/ Fetch(t)
      PROVE  LimiterInv'
  BY <1>2 DEF Look, AcquireToCreate, Fetch, TGoto, OneBucket, GrantsWithinRate
<1>3. ASSUME NEW t \in Clients, Create(t)
      PROVE  LimiterInv'
  <2>1. CASE current = 0
    <3>1. Make(DefaultCapacity, DefaultRate)
      BY <1>3, <2>1 DEF Create
    <3>2. DefaultCapacity \in Nat /\ DefaultRate \in Nat
      BY LimiterAssumption
    <3>3. /\ buckets' = buckets + 1 /\ current' = buckets'
          /\ bucket' \in [1..buckets' -> BucketType] /\ GrantsWithinRate'
      BY <3>1, <3>2, MakeStep
    <3> QED BY <1>3, <2>1, <3>3 DEF Create, TGoto, OneBucket
  <2>2. CASE current # 0
    BY <1>3, <2>2 DEF Create, TGoto, OneBucket, GrantsWithinRate
  <2> QED BY <2>1, <2>2
<1>4. ASSUME NEW t \in Clients, Allow(t)
      PROVE  LimiterInv'
  <2> DEFINE h == held[t]
  <2>1. h \in 1..buckets
    BY <1>4 DEF Allow, TGoto
  <2>2. PICK reopened \in BOOLEAN : bucket' = [bucket EXCEPT ![h] = Allowed(@, reopened)]
    BY <1>4 DEF Allow
  <2>3. bucket[h] \in BucketType /\ WithinRate(bucket[h])
    BY <2>1, GrantsOfAll
  <2>4. Allowed(bucket[h], reopened) \in BucketType /\ WithinRate(Allowed(bucket[h], reopened))
    BY <2>3, AllowedIsWithinRate
  <2>5. UNCHANGED <<time, buckets, current, limitsSet>>
    BY <1>4 DEF Allow
  <2>6. bucket' \in [1..buckets' -> BucketType]
    BY <2>2, <2>4, <2>5
  <2>7. \A b \in 1..buckets : WithinRate(bucket'[b])
    <3>1. ASSUME NEW b \in 1..buckets
          PROVE  bucket'[b] = IF b = h THEN Allowed(bucket[h], reopened) ELSE bucket[b]
      BY <2>2
    <3> QED BY <3>1, <2>4, GrantsOfAll
  <2>8. GrantsWithinRate'
    BY <2>5, <2>7 DEF GrantsWithinRate, WithinRate
  <2> QED BY <1>4, <2>5, <2>6, <2>8 DEF Allow, TGoto, OneBucket
<1>5. ASSUME NEW c \in Capacities, NEW r \in Rates, SetLimits(c, r)
      PROVE  LimiterInv'
  <2>1. c \in Nat /\ r \in Nat
    BY LimiterAssumption
  <2>2. /\ buckets' = buckets + 1 /\ current' = buckets'
        /\ bucket' \in [1..buckets' -> BucketType] /\ GrantsWithinRate'
    BY <1>5, <2>1, MakeStep DEF SetLimits
  <2> QED BY <1>5, <2>2 DEF SetLimits, OneBucket
<1>6. CASE UNCHANGED limiterVars
  BY <1>6 DEF limiterVars, OneBucket, GrantsWithinRate
<1> QED BY <1>1, <1>2, <1>3, <1>4, <1>5, <1>6 DEF LimiterNext

-----------------------------------------------------------------------------
\* Whatever the threads and the clock do, the buckets and their budgets satisfy
\* the inductive invariant.
THEOREM LimiterInvariance == LimiterSpec => []LimiterInv
<1>1. LimiterInv /\ [LimiterNext]_limiterVars => LimiterInv'
  BY LimiterStepInv
<1> QED BY <1>1, LimiterInitInv, PTL DEF LimiterSpec

\* However many first requests of a tenant there are at once, for any number of
\* threads, they come to share one bucket.
THEOREM OneBucketCorrect == LimiterSpec => []OneBucket
<1>1. LimiterInv => OneBucket
  BY DEF LimiterInv
<1> QED BY <1>1, LimiterInvariance, PTL

\* No bucket ever grants more than its capacity and its rate allow, for every
\* capacity, every rate and every way the clock is set.
THEOREM GrantsCorrect == LimiterSpec => []GrantsWithinRate
<1>1. LimiterInv => GrantsWithinRate
  BY DEF LimiterInv
<1> QED BY <1>1, LimiterInvariance, PTL

-----------------------------------------------------------------------------
(* The accounts of the dashboard. *)

UserType == [id : Nat, store : Nat, email : Emails, role : Kinds, after : SUBSET Nat]

AccountsTypeOK ==
  /\ userBackend \in {"memory", "postgres"}
  /\ stores \in Nat /\ instance \in Nat /\ lastId \in Nat
  /\ \A u \in users : u \in UserType
  /\ \A x \in byEmail : x \in [store : Nat, email : Emails, id : Nat]
  /\ apc \in [Logins -> {"idle", "make", "admit", "fetch", "login", "check", "insert", "index"}]
  /\ using \in [Logins -> Nat] /\ newId \in [Logins -> Nat]
  /\ email \in [Logins -> Emails \cup {NoEmail}] /\ kind \in [Logins -> Kinds]
  /\ \A t \in Logins : apc[t] # "idle" => email[t] \in Emails
  /\ before \in [Logins -> SUBSET (1..lastId)]
  /\ racedStart \in BOOLEAN

\* An id stands for one registration, and every entry of the index for a user
\* of its store; the user a thread has put into _users is there when it indexes it.
IdsNeverReused ==
  /\ \A u \in users : u.id \in 1..lastId /\ u.after \subseteq 1..lastId
  /\ \A u, v \in users : u.id = v.id => u = v
  /\ \A x \in byEmail : \E u \in users : u.id = x.id /\ u.store = x.store /\ u.email = x.email
  /\ \A t \in Logins : apc[t] = "index" =>
       \E u \in users : u.id = newId[t] /\ u.store = using[t] /\ u.email = email[t]

\* In memory: whom a request found registered keeps an entry under his address,
\* so a request that got past the check writes another address.
KnownAreIndexed ==
  userBackend = "memory" =>
    \A t \in Logins, u \in users : u.id \in before[t] =>
      /\ \E x \in byEmail : x.store = using[t] /\ x.email = u.email
      /\ apc[t] = "insert" => u.email # email[t]

\* While no two threads raced to make it, there is one store, and whoever has
\* fetched a store has that one.
OneStore ==
  /\ \A t \in Logins : apc[t] \in {"admit", "fetch", "login", "check", "insert", "index"} => instance # 0
  /\ userBackend = "postgres" => instance \in {0, 1} /\ \A u \in users : u.store = 1
  /\ userBackend = "memory" => (instance = 0 => users = {})
  /\ userBackend = "memory" /\ ~racedStart =>
       /\ \A u \in users : u.store = instance
       /\ \A t \in Logins : apc[t] \in {"login", "check", "insert", "index"} => using[t] = instance
       /\ \A t \in Logins : apc[t] = "make" => instance = 0
       /\ \A t, q \in Logins : apc[t] = "make" /\ apc[q] = "make" => t = q

\* Two users of one store share an address only if neither registration saw
\* the other's result.
NoLaterDouble ==
  \A u, v \in users : v # u /\ v.store = u.store /\ v.email = u.email =>
    userBackend = "memory" /\ u.id \notin v.after

AccountsInv == AccountsTypeOK /\ IdsNeverReused /\ KnownAreIndexed /\ OneStore /\ NoLaterDouble

\* The user that Enter adds.
NewUser(s, e, r, known) == [id |-> lastId + 1, store |-> s, email |-> e, role |-> r, after |-> known]

LEMMA EnterIds ==
  ASSUME AccountsTypeOK, IdsNeverReused, NEW s \in Nat, NEW e \in Emails, NEW r \in Kinds,
         NEW known \in SUBSET (1..lastId), Enter(s, e, r, known)
  PROVE  /\ lastId' = lastId + 1 /\ lastId' \in Nat
         /\ users' = users \cup {NewUser(s, e, r, known)}
         /\ NewUser(s, e, r, known) \in UserType
         /\ \A u \in users' : u.id \in 1..lastId' /\ u.after \subseteq 1..lastId'
         /\ \A u, v \in users' : u.id = v.id => u = v
<1>1. /\ lastId \in Nat /\ lastId' = lastId + 1
      /\ users' = users \cup {NewUser(s, e, r, known)}
  BY DEF Enter, NewUser, AccountsTypeOK
<1>2. NewUser(s, e, r, known) \in UserType
  BY <1>1 DEF NewUser, UserType
<1>3. \A u \in users : u.id \in 1..lastId /\ u.after \subseteq 1..lastId
  BY DEF IdsNeverReused
<1>4. ASSUME NEW u \in users' PROVE u.id \in 1..lastId' /\ u.after \subseteq 1..lastId'
  <2>1. 1..lastId \subseteq 1..lastId' /\ lastId + 1 \in 1..lastId'
    BY <1>1
  <2>2. CASE u \in users
    BY <1>3, <2>1, <2>2
  <2>3. CASE u = NewUser(s, e, r, known)
    BY <2>1, <2>3 DEF NewUser
  <2> QED BY <1>1, <2>2, <2>3
<1>5. \A u, v \in users' : u.id = v.id => u = v
  BY <1>1, <1>3 DEF NewUser, IdsNeverReused
<1> QED BY <1>1, <1>2, <1>4, <1>5

LEMMA IndexIds ==
  ASSUME IdsNeverReused, users \subseteq users', NEW s, NEW e, NEW i, IndexEntry(s, e, i),
         \E u \in users' : u.id = i /\ u.store = s /\ u.email = e
  PROVE  \A x \in byEmail' : \E u \in users' : u.id = x.id /\ u.store = x.store /\ u.email = x.email
BY DEF IdsNeverReused, IndexEntry

\* An address that is in the index stays in it.
LEMMA IndexKeeps ==
  ASSUME NEW s, NEW e, NEW i, IndexEntry(s, e, i), NEW x \in byEmail
  PROVE  \E y \in byEmail' : y.store = x.store /\ y.email = x.email
<1>1. CASE x.store # s \/ x.email # e
  <2>1. x \in byEmail'
    BY <1>1 DEF IndexEntry
  <2> QED BY <2>1
<1>2. CASE x.store = s /\ x.email = e
  <2>1. [store |-> s, email |-> e, id |-> i] \in byEmail'
    BY DEF IndexEntry
  <2> QED BY <1>2, <2>1
<1> QED BY <1>1, <1>2

LEMMA AccountsTypeStep ==
  ASSUME AccountsTypeOK, IdsNeverReused,
         [AccountsNext]_accountVars
  PROVE  AccountsTypeOK'
<1> USE AccountsAssumption DEF AccountsTypeOK, Kinds, UserType
<1>1. ASSUME NEW t \in Logins, NEW e \in Emails, NEW k \in Kinds, AskFor(t, e, k) PROVE AccountsTypeOK'
  BY <1>1 DEF AskFor, AGoto, WithStore, userVars, callVars
<1>2. ASSUME NEW t \in Logins, MakeStore(t) PROVE AccountsTypeOK'
  BY <1>2 DEF MakeStore, AGoto, WithStore, Enter, IndexEntry, userVars, callVars
<1>3. ASSUME NEW t \in Logins, Admit(t) PROVE AccountsTypeOK'
  BY <1>3 DEF Admit, AGoto, AEnd, userVars, callVars
<1>4. ASSUME NEW t \in Logins, FetchStore(t) PROVE AccountsTypeOK'
  <2>1. {x.id : x \in Indexed(instance)} \subseteq 1..lastId
    BY DEF Indexed, IdsNeverReused
  <2> QED BY <1>4, <2>1 DEF FetchStore, AGoto, userVars
<1>5. ASSUME NEW t \in Logins, Login(t) PROVE AccountsTypeOK'
  BY <1>5 DEF Login, AEnd, AGoto, userVars, callVars
<1>6. ASSUME NEW t \in Logins, CheckEmail(t) PROVE AccountsTypeOK'
  BY <1>6 DEF CheckEmail, AEnd, AGoto, Indexed, userVars, callVars
<1>7. ASSUME NEW t \in Logins, InsertUser(t) PROVE AccountsTypeOK'
  <2>1. apc[t] = "insert" /\ email[t] \in Emails /\ lastId \in Nat
    BY <1>7 DEF InsertUser, AGoto, AEnd
  <2>2. ASSUME NEW s \in Nat, Enter(s, email[t], kind[t], before[t])
        PROVE  /\ lastId' = lastId + 1 /\ lastId' \in Nat
               /\ \A u \in users' : u \in UserType
    BY <2>1, <2>2, EnterIds
  <2>3. CASE userBackend = "memory"
    BY <1>7, <2>1, <2>2, <2>3 DEF InsertUser, AGoto
  <2>4. CASE userBackend # "memory"
    BY <1>7, <2>1, <2>2, <2>4 DEF InsertUser, AEnd, AGoto, IndexEntry, userVars
  <2> QED BY <2>3, <2>4
<1>8. ASSUME NEW t \in Logins, IndexUser(t) PROVE AccountsTypeOK'
  BY <1>8 DEF IndexUser, AEnd, AGoto, IndexEntry, userVars, callVars
<1>9. ASSUME RestartApi PROVE AccountsTypeOK'
  BY <1>9 DEF RestartApi, userVars, callVars
<1>10. CASE UNCHANGED accountVars
  BY <1>10 DEF accountVars, userVars, callVars
<1> QED BY <1>1, <1>2, <1>3, <1>4, <1>5, <1>6, <1>7, <1>8, <1>9, <1>10 DEF AccountsNext

LEMMA IdsStep ==
  ASSUME AccountsTypeOK, IdsNeverReused,
         [AccountsNext]_accountVars
  PROVE  IdsNeverReused'
<1> USE AccountsAssumption
<1>1. ASSUME NEW t \in Logins, NEW e \in Emails, NEW k \in Kinds, AskFor(t, e, k) PROVE IdsNeverReused'
  BY <1>1 DEF AskFor, AGoto, WithStore, userVars, callVars, AccountsTypeOK, IdsNeverReused
<1>2. ASSUME NEW t \in Logins, MakeStore(t) PROVE IdsNeverReused'
  <2>1. CASE userBackend = "postgres"
    <3>1. /\ AGoto(t, "make", WithStore(kind[t]))
          /\ UNCHANGED <<users, byEmail, lastId, using, email, newId>>
      BY <1>2, <2>1 DEF MakeStore, userVars
    <3>2. \A q \in Logins : apc'[q] = "index" => apc[q] = "index"
      BY <3>1 DEF AGoto, WithStore, AccountsTypeOK
    <3> QED BY <3>1, <3>2 DEF IdsNeverReused
  <2>2. CASE userBackend # "postgres"
    <3>1. /\ stores' \in Nat /\ AGoto(t, "make", WithStore(kind[t])) /\ UNCHANGED <<using, email, newId>>
          /\ Enter(stores', AdminEmail, "admin", {}) /\ IndexEntry(stores', AdminEmail, lastId')
      BY <1>2, <2>2 DEF MakeStore, AccountsTypeOK
    <3>2. /\ users' = users \cup {NewUser(stores', AdminEmail, "admin", {})}
          /\ lastId' = lastId + 1
          /\ \A u \in users' : u.id \in 1..lastId' /\ u.after \subseteq 1..lastId'
          /\ \A u, v \in users' : u.id = v.id => u = v
      BY <3>1, EnterIds DEF Kinds
    <3>3. \A x \in byEmail' : \E u \in users' : u.id = x.id /\ u.store = x.store /\ u.email = x.email
      <4>1. /\ NewUser(stores', AdminEmail, "admin", {}) \in users'
            /\ NewUser(stores', AdminEmail, "admin", {}).id = lastId'
            /\ NewUser(stores', AdminEmail, "admin", {}).store = stores'
            /\ NewUser(stores', AdminEmail, "admin", {}).email = AdminEmail
            /\ users \subseteq users'
        BY <3>2 DEF NewUser
      <4>2. \E u \in users' : u.id = lastId' /\ u.store = stores' /\ u.email = AdminEmail
        BY <4>1
      <4> QED BY <3>1, <4>1, <4>2, IndexIds
    <3>4. \A q \in Logins : apc'[q] = "index" => apc[q] = "index"
      BY <3>1 DEF AGoto, WithStore, AccountsTypeOK
    <3> QED BY <3>1, <3>2, <3>3, <3>4 DEF IdsNeverReused
  <2> QED BY <2>1, <2>2
<1>3. ASSUME NEW t \in Logins, Admit(t) PROVE IdsNeverReused'
  BY <1>3 DEF Admit, AGoto, AEnd, userVars, callVars, AccountsTypeOK, IdsNeverReused
<1>4. ASSUME NEW t \in Logins, FetchStore(t) PROVE IdsNeverReused'
  BY <1>4 DEF FetchStore, AGoto, Indexed, userVars, callVars, AccountsTypeOK, IdsNeverReused
<1>5. ASSUME NEW t \in Logins, Login(t) PROVE IdsNeverReused'
  BY <1>5 DEF Login, AEnd, AGoto, userVars, callVars, AccountsTypeOK, IdsNeverReused
<1>6. ASSUME NEW t \in Logins, CheckEmail(t) PROVE IdsNeverReused'
  BY <1>6 DEF CheckEmail, AEnd, AGoto, Indexed, userVars, callVars, AccountsTypeOK, IdsNeverReused
<1>7. ASSUME NEW t \in Logins, InsertUser(t) PROVE IdsNeverReused'
  <2>1. email[t] \in Emails /\ apc[t] = "insert"
    BY <1>7 DEF InsertUser, AGoto, AEnd, AccountsTypeOK
  <2>2. CASE userBackend = "memory"
    <3>1. /\ Enter(using[t], email[t], kind[t], before[t]) /\ AGoto(t, "insert", "index")
          /\ newId' = [newId EXCEPT ![t] = lastId'] /\ UNCHANGED <<byEmail, using, email>>
      BY <1>7, <2>2 DEF InsertUser
    <3>2. /\ users' = users \cup {NewUser(using[t], email[t], kind[t], before[t])}
          /\ lastId' = lastId + 1
          /\ \A u \in users' : u.id \in 1..lastId' /\ u.after \subseteq 1..lastId'
          /\ \A u, v \in users' : u.id = v.id => u = v
      BY <2>1, <3>1, EnterIds DEF AccountsTypeOK
    <3>3. ASSUME NEW q \in Logins, apc'[q] = "index"
          PROVE  \E u \in users' : u.id = newId'[q] /\ u.store = using'[q] /\ u.email = email'[q]
      <4>1. CASE q = t
        <5>1. /\ NewUser(using[t], email[t], kind[t], before[t]) \in users'
              /\ NewUser(using[t], email[t], kind[t], before[t]).id = lastId'
              /\ NewUser(using[t], email[t], kind[t], before[t]).store = using[t]
              /\ NewUser(using[t], email[t], kind[t], before[t]).email = email[t]
          BY <3>2 DEF NewUser
        <5>2. newId'[t] = lastId' /\ using'[t] = using[t] /\ email'[t] = email[t]
          BY <3>1 DEF AccountsTypeOK
        <5> QED BY <4>1, <5>1, <5>2
      <4>2. CASE q # t
        BY <3>1, <3>2, <3>3, <4>2 DEF IdsNeverReused, AGoto, AccountsTypeOK
      <4> QED BY <4>1, <4>2
    <3> QED BY <3>1, <3>2, <3>3 DEF IdsNeverReused
  <2>3. CASE userBackend # "memory" /\ UNCHANGED userVars
    BY <1>7, <2>3 DEF InsertUser, AEnd, AGoto, userVars, AccountsTypeOK, IdsNeverReused
  <2>4. CASE userBackend # "memory" /\ Enter(1, email[t], kind[t], before[t]) /\ IndexEntry(1, email[t], lastId')
    <3>1. /\ users' = users \cup {NewUser(1, email[t], kind[t], before[t])}
          /\ lastId' = lastId + 1
          /\ \A u \in users' : u.id \in 1..lastId' /\ u.after \subseteq 1..lastId'
          /\ \A u, v \in users' : u.id = v.id => u = v
      BY <2>1, <2>4, EnterIds DEF AccountsTypeOK
    <3>2. \A x \in byEmail' : \E u \in users' : u.id = x.id /\ u.store = x.store /\ u.email = x.email
      <4>1. /\ NewUser(1, email[t], kind[t], before[t]) \in users'
            /\ NewUser(1, email[t], kind[t], before[t]).id = lastId'
            /\ NewUser(1, email[t], kind[t], before[t]).store = 1
            /\ NewUser(1, email[t], kind[t], before[t]).email = email[t]
            /\ users \subseteq users'
        BY <3>1 DEF NewUser
      <4>2. \E u \in users' : u.id = lastId' /\ u.store = 1 /\ u.email = email[t]
        BY <4>1
      <4> QED BY <2>4, <4>1, <4>2, IndexIds
    <3>3. AEnd(t, "insert")
      BY <1>7, <2>4 DEF InsertUser
    <3>4. \A q \in Logins : apc'[q] = "index" =>
             q # t /\ apc[q] = "index" /\ newId'[q] = newId[q] /\ using'[q] = using[q] /\ email'[q] = email[q]
      BY <3>3 DEF AEnd, AGoto, AccountsTypeOK
    <3> QED BY <3>1, <3>2, <3>4 DEF IdsNeverReused
  <2> QED BY <1>7, <2>2, <2>3, <2>4 DEF InsertUser
<1>8. ASSUME NEW t \in Logins, IndexUser(t) PROVE IdsNeverReused'
  BY <1>8 DEF IndexUser, AEnd, AGoto, IndexEntry, userVars, callVars, AccountsTypeOK, IdsNeverReused
<1>9. ASSUME RestartApi PROVE IdsNeverReused'
  BY <1>9 DEF RestartApi, userVars, callVars, AccountsTypeOK, IdsNeverReused
<1>10. CASE UNCHANGED accountVars
  BY <1>10 DEF accountVars, userVars, callVars, AccountsTypeOK, IdsNeverReused
<1> QED BY <1>1, <1>2, <1>3, <1>4, <1>5, <1>6, <1>7, <1>8, <1>9, <1>10 DEF AccountsNext

LEMMA KnownStep ==
  ASSUME AccountsTypeOK, IdsNeverReused, KnownAreIndexed,
         [AccountsNext]_accountVars
  PROVE  KnownAreIndexed'
<1> USE AccountsAssumption
<1>1. ASSUME NEW t \in Logins, NEW e \in Emails, NEW k \in Kinds, AskFor(t, e, k) PROVE KnownAreIndexed'
  BY <1>1 DEF AskFor, AGoto, WithStore, userVars, callVars, AccountsTypeOK, IdsNeverReused, KnownAreIndexed, UserType
<1>2. ASSUME NEW t \in Logins, MakeStore(t) PROVE KnownAreIndexed'
  <2>1. CASE userBackend = "postgres"
    BY <1>2, <2>1 DEF MakeStore, KnownAreIndexed
  <2>2. CASE userBackend # "postgres"
    <3>1. /\ stores' \in Nat /\ AGoto(t, "make", WithStore(kind[t])) /\ UNCHANGED <<using, email, before>>
          /\ Enter(stores', AdminEmail, "admin", {}) /\ IndexEntry(stores', AdminEmail, lastId')
      BY <1>2, <2>2 DEF MakeStore, AccountsTypeOK
    <3>2. users' = users \cup {NewUser(stores', AdminEmail, "admin", {})}
      BY <3>1, EnterIds DEF Kinds
    <3>3. \A q \in Logins : NewUser(stores', AdminEmail, "admin", {}).id \notin before[q]
      BY DEF NewUser, AccountsTypeOK
    <3>4. \A q \in Logins : apc'[q] = "insert" => apc[q] = "insert"
      BY <3>1 DEF AGoto, WithStore, AccountsTypeOK
    <3>5. UNCHANGED userBackend
      BY <1>2 DEF MakeStore
    <3> QED BY <3>1, <3>2, <3>3, <3>4, <3>5, IndexKeeps DEF KnownAreIndexed
  <2> QED BY <2>1, <2>2
<1>3. ASSUME NEW t \in Logins, Admit(t) PROVE KnownAreIndexed'
  BY <1>3 DEF Admit, AGoto, AEnd, userVars, callVars, AccountsTypeOK, IdsNeverReused, KnownAreIndexed, UserType
<1>4. ASSUME NEW t \in Logins, FetchStore(t) PROVE KnownAreIndexed'
  BY <1>4 DEF FetchStore, AGoto, Indexed, userVars, callVars, AccountsTypeOK, IdsNeverReused, KnownAreIndexed, UserType
<1>5. ASSUME NEW t \in Logins, Login(t) PROVE KnownAreIndexed'
  BY <1>5 DEF Login, AEnd, AGoto, userVars, callVars, AccountsTypeOK, IdsNeverReused, KnownAreIndexed, UserType
<1>6. ASSUME NEW t \in Logins, CheckEmail(t) PROVE KnownAreIndexed'
  BY <1>6 DEF CheckEmail, AEnd, AGoto, Indexed, userVars, callVars, AccountsTypeOK, IdsNeverReused, KnownAreIndexed, UserType
<1>7. ASSUME NEW t \in Logins, InsertUser(t) PROVE KnownAreIndexed'
  BY <1>7 DEF InsertUser, AEnd, AGoto, Enter, IndexEntry, userVars, callVars, AccountsTypeOK, IdsNeverReused, KnownAreIndexed, UserType
<1>8. ASSUME NEW t \in Logins, IndexUser(t) PROVE KnownAreIndexed'
  <2>1. /\ AEnd(t, "index") /\ IndexEntry(using[t], email[t], newId[t])
        /\ UNCHANGED <<userBackend, users>>
    BY <1>8 DEF IndexUser
  <2>2. ASSUME NEW q \in Logins, q # t
        PROVE  apc'[q] = apc[q] /\ before'[q] = before[q] /\ using'[q] = using[q] /\ email'[q] = email[q]
    BY <2>1, <2>2 DEF AEnd, AGoto, AccountsTypeOK
  <2>3. before'[t] = {}
    BY <2>1 DEF AEnd, AccountsTypeOK
  <2> QED BY <2>1, <2>2, <2>3, IndexKeeps DEF KnownAreIndexed
<1>9. ASSUME RestartApi PROVE KnownAreIndexed'
  BY <1>9 DEF RestartApi, userVars, callVars, AccountsTypeOK, IdsNeverReused, KnownAreIndexed, UserType
<1>10. CASE UNCHANGED accountVars
  BY <1>10 DEF accountVars, userVars, callVars, AccountsTypeOK, IdsNeverReused, KnownAreIndexed, UserType
<1> QED BY <1>1, <1>2, <1>3, <1>4, <1>5, <1>6, <1>7, <1>8, <1>9, <1>10 DEF AccountsNext

LEMMA OneStoreStep ==
  ASSUME AccountsTypeOK, OneStore,
         [AccountsNext]_accountVars
  PROVE  OneStore'
<1> USE AccountsAssumption DEF AccountsTypeOK, OneStore, UserType
<1>1. ASSUME NEW t \in Logins, NEW e \in Emails, NEW k \in Kinds, AskFor(t, e, k) PROVE OneStore'
  BY <1>1 DEF AskFor, AGoto, WithStore, userVars, callVars
<1>2. ASSUME NEW t \in Logins, MakeStore(t) PROVE OneStore'
  BY <1>2 DEF MakeStore, AGoto, WithStore, Enter, IndexEntry, userVars, callVars
<1>3. ASSUME NEW t \in Logins, Admit(t) PROVE OneStore'
  BY <1>3 DEF Admit, AGoto, AEnd, userVars, callVars
<1>4. ASSUME NEW t \in Logins, FetchStore(t) PROVE OneStore'
  BY <1>4 DEF FetchStore, AGoto, Indexed, userVars, callVars
<1>5. ASSUME NEW t \in Logins, Login(t) PROVE OneStore'
  BY <1>5 DEF Login, AEnd, AGoto, userVars, callVars
<1>6. ASSUME NEW t \in Logins, CheckEmail(t) PROVE OneStore'
  BY <1>6 DEF CheckEmail, AEnd, AGoto, Indexed, userVars, callVars
<1>7. ASSUME NEW t \in Logins, InsertUser(t) PROVE OneStore'
  BY <1>7 DEF InsertUser, AEnd, AGoto, Enter, IndexEntry, userVars, callVars
<1>8. ASSUME NEW t \in Logins, IndexUser(t) PROVE OneStore'
  BY <1>8 DEF IndexUser, AEnd, AGoto, IndexEntry, userVars, callVars
<1>9. ASSUME RestartApi PROVE OneStore'
  BY <1>9 DEF RestartApi, userVars, callVars
<1>10. CASE UNCHANGED accountVars
  BY <1>10 DEF accountVars, userVars, callVars
<1> QED BY <1>1, <1>2, <1>3, <1>4, <1>5, <1>6, <1>7, <1>8, <1>9, <1>10 DEF AccountsNext

LEMMA NoLaterDoubleStep ==
  ASSUME AccountsInv,
         [AccountsNext]_accountVars
  PROVE  NoLaterDouble'
<1> USE AccountsAssumption DEF AccountsInv, AccountsTypeOK, IdsNeverReused, KnownAreIndexed, OneStore, NoLaterDouble, UserType
<1>1. ASSUME NEW t \in Logins, NEW e \in Emails, NEW k \in Kinds, AskFor(t, e, k) PROVE NoLaterDouble'
  BY <1>1 DEF AskFor, AGoto, WithStore, userVars, callVars
<1>2. ASSUME NEW t \in Logins, MakeStore(t) PROVE NoLaterDouble'
  BY <1>2 DEF MakeStore, AGoto, WithStore, Enter, IndexEntry, userVars, callVars
<1>3. ASSUME NEW t \in Logins, Admit(t) PROVE NoLaterDouble'
  BY <1>3 DEF Admit, AGoto, AEnd, userVars, callVars
<1>4. ASSUME NEW t \in Logins, FetchStore(t) PROVE NoLaterDouble'
  BY <1>4 DEF FetchStore, AGoto, Indexed, userVars, callVars
<1>5. ASSUME NEW t \in Logins, Login(t) PROVE NoLaterDouble'
  BY <1>5 DEF Login, AEnd, AGoto, userVars, callVars
<1>6. ASSUME NEW t \in Logins, CheckEmail(t) PROVE NoLaterDouble'
  BY <1>6 DEF CheckEmail, AEnd, AGoto, Indexed, userVars, callVars
<1>7. ASSUME NEW t \in Logins, InsertUser(t) PROVE NoLaterDouble'
  BY <1>7 DEF InsertUser, AEnd, AGoto, Enter, IndexEntry, userVars, callVars
<1>8. ASSUME NEW t \in Logins, IndexUser(t) PROVE NoLaterDouble'
  BY <1>8 DEF IndexUser, AEnd, AGoto, IndexEntry, userVars, callVars
<1>9. ASSUME RestartApi PROVE NoLaterDouble'
  BY <1>9 DEF RestartApi, userVars, callVars
<1>10. CASE UNCHANGED accountVars
  BY <1>10 DEF accountVars, userVars, callVars
<1> QED BY <1>1, <1>2, <1>3, <1>4, <1>5, <1>6, <1>7, <1>8, <1>9, <1>10 DEF AccountsNext

LEMMA AccountsInitInv == AccountsInit => AccountsInv
<1> SUFFICES ASSUME AccountsInit PROVE AccountsInv
  OBVIOUS
<1> USE AccountsAssumption DEF AccountsInit
<1>1. AccountsTypeOK
  BY DEF AccountsTypeOK, Kinds
<1>2. IdsNeverReused /\ KnownAreIndexed /\ NoLaterDouble
  BY DEF IdsNeverReused, KnownAreIndexed, NoLaterDouble
<1>3. OneStore
  BY DEF OneStore
<1> QED BY <1>1, <1>2, <1>3 DEF AccountsInv

LEMMA AccountsInvariance ==
  ASSUME AccountsInv, [AccountsNext]_accountVars
  PROVE  AccountsInv'
BY AccountsTypeStep, IdsStep, KnownStep, OneStoreStep, NoLaterDoubleStep DEF AccountsInv

\* A user once registered can log in until the process restarts (see
\* AccountsStay), for every number of threads, addresses and stores.
THEOREM AccountsCorrect == AccountsSpec => []AccountsStay
<1>1. AccountsInv => AccountsStay
  BY DEF AccountsInv, AccountsTypeOK, OneStore, NoLaterDouble, AccountsStay
<1> QED BY <1>1, AccountsInitInv, AccountsInvariance, PTL DEF AccountsSpec

-----------------------------------------------------------------------------
(* The event streams. *)

StreamTypeOK ==
  /\ updates \in Nat
  /\ streamPc \in [Dashboards -> {"new", "relaying", "ended"}]
  /\ redisAvailable \in [Dashboards -> BOOLEAN] /\ subscribed \in [Dashboards -> BOOLEAN]
  /\ inbox \in [Dashboards -> Seq(Nat)] /\ relayed \in [Dashboards -> Seq(Nat)]

\* The subscription of a stream holds the newest updates, and what was relayed
\* is the stretch that ends where they begin.
Relaying(d) ==
  /\ streamPc[d] = "new" => relayed[d] = <<>> /\ ~subscribed[d]
  /\ streamPc[d] = "relaying" /\ redisAvailable[d] => subscribed[d]
  /\ ~subscribed[d] => inbox[d] = <<>>
  /\ \A i \in 1..Len(inbox[d]) : inbox[d][i] = updates - Len(inbox[d]) + i
  /\ \A i \in 1..Len(relayed[d]) : relayed[d][i] = relayed[d][1] + i - 1
  /\ subscribed[d] /\ relayed[d] # <<>> =>
       relayed[d][Len(relayed[d])] = updates - Len(inbox[d])

StreamInv == StreamTypeOK /\ \A d \in Dashboards : Relaying(d)
-----------------------------------------------------------------------------
LEMMA StreamInitInv == StreamsInit => StreamInv
BY DEF StreamsInit, StreamInv, StreamTypeOK, Relaying

LEMMA PublishStep ==
  ASSUME StreamInv, PublishUpdate
  PROVE  StreamInv'
<1> USE DEF StreamInv, StreamTypeOK
<1>1. /\ updates \in Nat /\ updates' = updates + 1
      /\ UNCHANGED <<streamPc, redisAvailable, subscribed, relayed>>
      /\ inbox' = [d \in Dashboards |-> IF subscribed[d] THEN Append(inbox[d], updates + 1) ELSE inbox[d]]
  BY DEF PublishUpdate
<1>2. StreamTypeOK'
  BY <1>1
<1>3. ASSUME NEW d \in Dashboards PROVE Relaying(d)'
  <2>1. Relaying(d) /\ inbox[d] \in Seq(Nat)
    OBVIOUS
  <2>2. CASE ~subscribed[d]
    BY <1>1, <2>1, <2>2 DEF Relaying
  <2>3. CASE subscribed[d]
    <3>1. /\ Len(inbox'[d]) = Len(inbox[d]) + 1 /\ inbox'[d] \in Seq(Nat)
          /\ \A i \in 1..Len(inbox[d]) : inbox'[d][i] = inbox[d][i]
          /\ inbox'[d][Len(inbox[d]) + 1] = updates + 1
      BY <1>1, <2>1, <2>3
    <3>2. \A i \in 1..Len(inbox'[d]) : inbox'[d][i] = updates' - Len(inbox'[d]) + i
      <4>1. \A i \in 1..Len(inbox[d]) : inbox[d][i] = updates - Len(inbox[d]) + i
        BY <2>1 DEF Relaying
      <4>2. Len(inbox[d]) \in Nat /\ updates \in Nat /\ updates' = updates + 1
        BY <1>1, <2>1
      <4>3. ASSUME NEW i \in 1..Len(inbox'[d]) PROVE inbox'[d][i] = updates' - Len(inbox'[d]) + i
        <5>1. CASE i = Len(inbox[d]) + 1
          <6>1. inbox'[d][i] = updates + 1
            BY <3>1, <5>1
          <6>2. \A u, n \in Nat : u + 1 = (u + 1) - (n + 1) + (n + 1)
            OBVIOUS
          <6>3. inbox'[d][i] = (updates + 1) - (Len(inbox[d]) + 1) + (Len(inbox[d]) + 1)
            BY <4>2, <6>1, <6>2
          <6> QED BY <3>1, <4>2, <5>1, <6>3
        <5>2. CASE i # Len(inbox[d]) + 1
          <6>1. i \in 1..Len(inbox[d])
            BY <3>1, <4>2, <5>2
          <6>2. inbox'[d][i] = updates - Len(inbox[d]) + i
            BY <3>1, <4>1, <6>1
          <6>3. \A u, n, k \in Nat : u - n + k = (u + 1) - (n + 1) + k
            OBVIOUS
          <6>4. i \in Nat
            OBVIOUS
          <6>5. updates - Len(inbox[d]) + i = (updates + 1) - (Len(inbox[d]) + 1) + i
            BY <4>2, <6>3, <6>4
          <6> QED BY <3>1, <4>2, <6>2, <6>5
        <5> QED BY <5>1, <5>2
      <4> QED BY <4>3
    <3>3. updates' - Len(inbox'[d]) = updates - Len(inbox[d])
      BY <1>1, <2>1, <3>1
    <3> QED BY <1>1, <2>1, <2>3, <3>2, <3>3 DEF Relaying
  <2> QED BY <2>2, <2>3
<1> QED BY <1>2, <1>3

LEMMA RelayStep ==
  ASSUME StreamInv, NEW d \in Dashboards, RelayUpdate(d)
  PROVE  StreamInv'
<1> USE DEF StreamInv, StreamTypeOK
<1>1. /\ UNCHANGED <<updates, streamPc, redisAvailable, subscribed>>
      /\ streamPc[d] = "relaying" /\ redisAvailable[d] /\ inbox[d] # <<>>
      /\ relayed' = [relayed EXCEPT ![d] = Append(@, Head(inbox[d]))]
      /\ inbox' = [inbox EXCEPT ![d] = Tail(@)]
  BY DEF RelayUpdate
<1>2. /\ inbox[d] \in Seq(Nat) /\ relayed[d] \in Seq(Nat) /\ Relaying(d) /\ subscribed[d] /\ updates \in Nat
  BY <1>1 DEF Relaying
<1>3. /\ Head(inbox[d]) = inbox[d][1] /\ Head(inbox[d]) \in Nat /\ Len(inbox[d]) \in Nat /\ Len(inbox[d]) >= 1
      /\ Tail(inbox[d]) \in Seq(Nat) /\ Len(Tail(inbox[d])) = Len(inbox[d]) - 1
      /\ \A i \in 1..Len(Tail(inbox[d])) : Tail(inbox[d])[i] = inbox[d][i + 1]
  BY <1>1, <1>2
<1>4. Head(inbox[d]) = updates - Len(inbox[d]) + 1
  BY <1>2, <1>3 DEF Relaying
<1>5. /\ relayed'[d] = Append(relayed[d], Head(inbox[d])) /\ inbox'[d] = Tail(inbox[d])
      /\ relayed'[d] \in Seq(Nat)
      /\ \A q \in Dashboards \ {d} : relayed'[q] = relayed[q] /\ inbox'[q] = inbox[q]
      /\ relayed' \in [Dashboards -> Seq(Nat)] /\ inbox' \in [Dashboards -> Seq(Nat)]
  BY <1>1, <1>2, <1>3
<1>6. /\ Len(relayed'[d]) = Len(relayed[d]) + 1 /\ Len(relayed[d]) \in Nat
      /\ relayed'[d][Len(relayed[d]) + 1] = Head(inbox[d])
      /\ \A i \in 1..Len(relayed[d]) : relayed'[d][i] = relayed[d][i]
  BY <1>2, <1>3, <1>5
<1>7. \A i \in 1..Len(relayed'[d]) : relayed'[d][i] = relayed'[d][1] + i - 1
  <2>1. CASE relayed[d] = <<>>
    BY <1>3, <1>6, <2>1
  <2>2. CASE relayed[d] # <<>>
    <3>1. relayed[d][Len(relayed[d])] = updates - Len(inbox[d]) /\ Len(relayed[d]) >= 1
      BY <1>2, <2>2 DEF Relaying
    <3>2. /\ relayed[d][Len(relayed[d])] = relayed[d][1] + Len(relayed[d]) - 1
          /\ relayed[d][1] \in Nat
      <4>1. Len(relayed[d]) \in 1..Len(relayed[d]) /\ 1 \in 1..Len(relayed[d])
        BY <1>6, <3>1
      <4>2. \A i \in 1..Len(relayed[d]) : relayed[d][i] = relayed[d][1] + i - 1
        BY <1>2 DEF Relaying
      <4> QED BY <1>2, <4>1, <4>2
    <3>3. Head(inbox[d]) = relayed[d][1] + Len(relayed[d])
      <4>1. \A u, n, m, f \in Nat : u - n = f + m - 1 => u - n + 1 = f + m
        OBVIOUS
      <4> QED BY <1>2, <1>3, <1>4, <1>6, <3>1, <3>2, <4>1
    <3>4. relayed'[d][1] = relayed[d][1]
      BY <1>6, <3>1
    <3>5. ASSUME NEW i \in 1..Len(relayed'[d]) PROVE relayed'[d][i] = relayed[d][1] + i - 1
      <4>1. CASE i = Len(relayed[d]) + 1
        BY <1>6, <3>2, <3>3, <4>1
      <4>2. CASE i # Len(relayed[d]) + 1
        <5>1. i \in 1..Len(relayed[d])
          BY <1>6, <4>2
        <5> QED BY <1>2, <1>6, <5>1 DEF Relaying
      <4> QED BY <4>1, <4>2
    <3> QED BY <3>4, <3>5
  <2> QED BY <2>1, <2>2
<1>8. \A i \in 1..Len(inbox'[d]) : inbox'[d][i] = updates' - Len(inbox'[d]) + i
  <2>1. ASSUME NEW i \in 1..Len(inbox'[d]) PROVE inbox'[d][i] = updates' - Len(inbox'[d]) + i
    <3>1. inbox'[d][i] = inbox[d][i + 1] /\ i + 1 \in 1..Len(inbox[d])
      BY <1>3, <1>5
    <3>2. inbox[d][i + 1] = updates - Len(inbox[d]) + (i + 1)
      BY <1>2, <3>1 DEF Relaying
    <3> QED BY <1>1, <1>2, <1>3, <1>5, <3>1, <3>2
  <2> QED BY <2>1
<1>9. Relaying(d)'
  <2>1. relayed'[d][Len(relayed'[d])] = updates' - Len(inbox'[d])
    BY <1>1, <1>2, <1>3, <1>4, <1>5, <1>6
  <2>2. streamPc'[d] = "relaying" /\ subscribed'[d]
    BY <1>1, <1>2
  <2> QED BY <1>7, <1>8, <2>1, <2>2 DEF Relaying
<1>10. ASSUME NEW q \in Dashboards, q # d PROVE Relaying(q)'
  BY <1>1, <1>5, <1>10 DEF Relaying
<1> QED BY <1>1, <1>5, <1>9, <1>10

LEMMA StreamInvariance ==
  ASSUME StreamInv, [StreamsNext]_streamVars
  PROVE  StreamInv'
<1> USE DEF StreamInv, StreamTypeOK
<1>1. ASSUME NEW d \in Dashboards, OpenStream(d) PROVE StreamInv'
  <2>1. StreamTypeOK'
    BY <1>1 DEF OpenStream
  <2>2. ASSUME NEW q \in Dashboards, q # d PROVE Relaying(q)'
    <3>1. /\ updates' = updates /\ streamPc'[q] = streamPc[q] /\ redisAvailable'[q] = redisAvailable[q]
          /\ subscribed'[q] = subscribed[q] /\ inbox'[q] = inbox[q] /\ relayed'[q] = relayed[q]
      BY <1>1, <2>2 DEF OpenStream
    <3> QED BY <3>1 DEF Relaying
  <2>3. Relaying(d)'
    <3>1. /\ relayed'[d] = <<>> /\ inbox'[d] = <<>> /\ streamPc'[d] = "relaying"
          /\ redisAvailable'[d] = subscribed'[d]
      BY <1>1 DEF OpenStream, Relaying
    <3> QED BY <3>1 DEF Relaying
  <2> QED BY <2>1, <2>2, <2>3
<1>2. ASSUME NEW d \in Dashboards, PubsubFails(d) PROVE StreamInv'
  <2>1. StreamTypeOK'
    BY <1>2 DEF PubsubFails
  <2>2. ASSUME NEW q \in Dashboards, q # d PROVE Relaying(q)'
    <3>1. /\ updates' = updates /\ streamPc'[q] = streamPc[q] /\ redisAvailable'[q] = redisAvailable[q]
          /\ subscribed'[q] = subscribed[q] /\ inbox'[q] = inbox[q] /\ relayed'[q] = relayed[q]
      BY <1>2, <2>2 DEF PubsubFails
    <3> QED BY <3>1 DEF Relaying
  <2>3. Relaying(d)'
    <3>1. /\ updates' = updates /\ streamPc'[d] = "relaying" /\ ~redisAvailable'[d] /\ relayed'[d] = relayed[d]
          /\ \/ ~subscribed'[d] /\ inbox'[d] = <<>>
             \/ subscribed'[d] /\ subscribed[d] /\ inbox'[d] = inbox[d]
      BY <1>2 DEF PubsubFails, Relaying
    <3>2. Relaying(d)
      OBVIOUS
    <3>3. CASE ~subscribed'[d] /\ inbox'[d] = <<>>
      <4>1. Len(inbox'[d]) = 0
        BY <3>3
      <4> QED BY <3>1, <3>2, <3>3, <4>1 DEF Relaying
    <3>4. CASE subscribed'[d] /\ subscribed[d] /\ inbox'[d] = inbox[d]
      BY <3>1, <3>2, <3>4 DEF Relaying
    <3> QED BY <3>1, <3>3, <3>4
  <2> QED BY <2>1, <2>2, <2>3
<1>3. ASSUME NEW d \in Dashboards, EndStream(d) PROVE StreamInv'
  <2>1. StreamTypeOK'
    <3>1. /\ UNCHANGED <<updates, redisAvailable, relayed>> /\ streamPc' = [streamPc EXCEPT ![d] = "ended"]
      BY <1>3 DEF EndStream
    <3>2. CASE UNCHANGED <<subscribed, inbox>>
      BY <3>1, <3>2
    <3>3. CASE /\ subscribed' = [subscribed EXCEPT ![d] = FALSE]
               /\ inbox' = [inbox EXCEPT ![d] = <<>>]
      BY <3>1, <3>3
    <3> QED BY <1>3, <3>2, <3>3 DEF EndStream
  <2>2. ASSUME NEW q \in Dashboards, q # d PROVE Relaying(q)'
    <3>1. /\ updates' = updates /\ streamPc'[q] = streamPc[q] /\ redisAvailable'[q] = redisAvailable[q]
          /\ subscribed'[q] = subscribed[q] /\ inbox'[q] = inbox[q] /\ relayed'[q] = relayed[q]
      BY <1>3, <2>2 DEF EndStream
    <3> QED BY <3>1 DEF Relaying
  <2>3. Relaying(d)'
    <3>1. /\ updates' = updates /\ streamPc'[d] = "ended" /\ relayed'[d] = relayed[d]
          /\ \/ ~subscribed'[d] /\ inbox'[d] = <<>>
             \/ subscribed'[d] = subscribed[d] /\ inbox'[d] = inbox[d]
      BY <1>3 DEF EndStream
    <3>2. Relaying(d)
      OBVIOUS
    <3>3. CASE ~subscribed'[d] /\ inbox'[d] = <<>>
      <4>1. Len(inbox'[d]) = 0
        BY <3>3
      <4> QED BY <3>1, <3>2, <3>3, <4>1 DEF Relaying
    <3>4. CASE subscribed'[d] = subscribed[d] /\ inbox'[d] = inbox[d]
      BY <3>1, <3>2, <3>4 DEF Relaying
    <3> QED BY <3>1, <3>3, <3>4
  <2> QED BY <2>1, <2>2, <2>3
<1>4. CASE UNCHANGED streamVars
  BY <1>4 DEF streamVars, perStream, Relaying
<1> QED BY <1>1, <1>2, <1>3, <1>4, PublishStep, RelayStep DEF StreamsNext

\* The updates a dashboard is shown have no gap (see RelayedWithoutGap): what
\* its subscription holds follows what was relayed.
THEOREM RelayedCorrect == StreamsSpec => []RelayedWithoutGap
<1>1. StreamInv => RelayedWithoutGap
  <2>1. ASSUME StreamInv, NEW d \in Dashboards, NEW i \in DOMAIN relayed[d]
        PROVE  relayed[d][i] = relayed[d][1] + i - 1
    <3>1. relayed[d] \in Seq(Nat) /\ Relaying(d)
      BY <2>1 DEF StreamInv, StreamTypeOK
    <3>2. i \in 1..Len(relayed[d])
      BY <3>1
    <3> QED BY <3>1, <3>2 DEF Relaying
  <2> QED BY <2>1 DEF RelayedWithoutGap
<1> QED BY <1>1, StreamInitInv, StreamInvariance, PTL DEF StreamsSpec
=============================================================================
