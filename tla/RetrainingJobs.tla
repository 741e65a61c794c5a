--------------------------- MODULE RetrainingJobs ---------------------------
(***************************************************************************)
(* Retraining of one model of one tenant: the telemetry list in Redis      *)
(* (inference/tenant_redis_client.py), the drift check                     *)
(* (worker/worker_multitenant.py), the jobs that the admin API enqueues    *)
(* (admin_api/retraining_orchestrator.py, app.py) and the Celery task that *)
(* runs them (worker/retraining_tasks.py).                                 *)
(*                                                                         *)
(* Telemetry records are numbered in the order of their RPUSH.  LTRIM only *)
(* removes from the left, so the list is always trimmed+1..pushed.         *)
(***************************************************************************)
EXTENDS Naturals, FiniteSets

CONSTANTS Jobs,         \* identifiers of Celery messages
          Workers,      \* Celery worker processes, one task each
          Pods,         \* inference processes that push telemetry
          NoJob,
          MinRecords,   \* fewest records worth training on (4)
          QueueMax,     \* length the telemetry list is trimmed to (10000)
          MaxPushed,    \* bound of the model
          MaxRequeues   \* bound of the model, on one job at a time

ASSUME JobsAssumption == /\ NoJob \notin Jobs /\ IsFiniteSet(Workers)
                         /\ MinRecords \in Nat \ {0}
                         /\ QueueMax \in Nat \ {0}
                         /\ MaxPushed \in Nat
                         /\ MaxRequeues \in Nat

\* The task treats a model it does not find like one of an unknown kind.
Frameworks == {"sklearn", "other"}

VARIABLES pushed,       \* records ever pushed
          trimmed,      \* records ever trimmed away
          pushing,      \* pods between their RPUSH and their LTRIM
          lastCheck,    \* how the last drift check ended
          framework,    \* what the registry says of the model, chosen once
          waiting,      \* messages in the broker's list
          status,       \* task state in the result backend
          result,       \* what the stored result says of the training
          job, wpc,     \* per worker: its message, and where it is
          late,         \* its message was restored behind its back
          window,       \* newest record it read, 0 if too few
          outcome,      \* what that function returned
          weights,      \* newest record the stored weights were fitted on
          saves,        \* history: how often a job stored weights
          requeues,     \* history: how often its message went back
          settled,      \* history: jobs a result was ever stored for
          alone         \* history: no other worker was busy since Take

telemetryVars == <<pushed, trimmed, pushing>>
brokerVars    == <<waiting, requeues>>
resultVars    == <<status, result, settled>>
workerVars    == <<job, wpc, late, window, outcome, alone>>
storeVars     == <<weights, saves>>
jobsVars == <<telemetryVars, lastCheck, framework, brokerVars, resultVars, workerVars, storeVars>>

JobsInit ==
  /\ pushed = 0 /\ trimmed = 0 /\ pushing = {}
  /\ lastCheck = "none"
  /\ framework \in Frameworks
  /\ waiting = {} /\ requeues = [j \in Jobs |-> 0]
  /\ status = [j \in Jobs |-> "PENDING"]
  /\ result = [j \in Jobs |-> "none"] /\ settled = {}
  /\ job = [w \in Workers |-> NoJob] /\ wpc = [w \in Workers |-> "idle"]
  /\ late = [w \in Workers |-> FALSE]
  /\ window = [w \in Workers |-> 0] /\ outcome = [w \in Workers |-> "none"]
  /\ alone = [w \in Workers |-> FALSE]
  /\ weights = 0 /\ saves = [j \in Jobs |-> 0]

-----------------------------------------------------------------------------
(* The telemetry list.                                                     *)

\* What LTRIM key -QueueMax -1 has removed afterwards.
TrimmedShort == IF pushed - trimmed >= QueueMax THEN (pushed + 1) - QueueMax ELSE trimmed
Trimmed == IF pushed - trimmed > QueueMax THEN pushed - QueueMax ELSE trimmed

RPush(p) ==
  /\ p \notin pushing /\ pushed < MaxPushed
  /\ pushed' = pushed + 1
  /\ pushing' = pushing \cup {p}
  /\ UNCHANGED <<trimmed, lastCheck, framework, brokerVars, resultVars, workerVars, storeVars>>

LTrim(p) ==
  /\ p \in pushing
  /\ pushing' = pushing \ {p}
  /\ trimmed' = Trimmed
  /\ UNCHANGED <<pushed, lastCheck, framework, brokerVars, resultVars, workerVars, storeVars>>

\* LTRIM fails, or the pod dies first; predict logs the error and answers.
PushAborts(p) ==
  /\ p \in pushing
  /\ pushing' = pushing \ {p}
  /\ UNCHANGED <<pushed, trimmed, lastCheck, framework, brokerVars, resultVars, workerVars, storeVars>>

-----------------------------------------------------------------------------
(* The drift check and the admin API.                                      *)

\* run_drift_check_for_tenant: get_telemetry_batch has no parameter "limit",
\* so the call raises before anything is computed.  The error goes into the
\* summary, whose other fields keep the values it was made with: no
\* records, no drift, nothing enqueued.
CheckDrift == lastCheck' = "error"

DriftCheck ==
  /\ CheckDrift
  /\ UNCHANGED <<telemetryVars, framework, brokerVars, resultVars, workerVars, storeVars>>

\* Celery makes a fresh identifier for every call.
Fresh(j) == j \notin waiting \cup settled /\ requeues[j] = 0 /\ \A w \in Workers : job[w] # j
\* The identifiers are interchangeable: they are used in a fixed order.
NextFresh == CHOOSE j \in Jobs : Fresh(j)

\* enqueue_retraining_job, called by the handler of /models/{id}/retrain.
RequestRetraining ==
  \E j \in {k \in Jobs : Fresh(k)} :
    /\ j = NextFresh
    /\ waiting' = waiting \cup {j}
    /\ UNCHANGED <<telemetryVars, lastCheck, framework, requeues, resultVars, workerVars, storeVars>>

-----------------------------------------------------------------------------
(* The task.  Each action is one access to something shared.               *)

JobGoto(w, from, to) == wpc[w] = from /\ wpc' = [wpc EXCEPT ![w] = to]

\* The result backend never replaces a success.
StateAfter(j, s) == IF status[j] = "SUCCESS" THEN "SUCCESS" ELSE s

\* The worker fetches a message and marks the task STARTED.
Take(w, j) ==
  /\ JobGoto(w, "idle", "start")
  /\ j \in waiting
  /\ waiting' = waiting \ {j}
  /\ job' = [job EXCEPT ![w] = j]
  /\ status' = [status EXCEPT ![j] = StateAfter(j, "STARTED")]
  /\ alone' = [v \in Workers |-> IF v = w THEN \A u \in Workers : wpc[u] = "idle" ELSE FALSE]
  /\ UNCHANGED <<telemetryVars, lastCheck, framework, requeues, result, settled,
                 late, window, outcome, storeVars>>

\* get_telemetry_batch, without a limit: the whole list, or nothing if Redis
\* does not answer.
Newest == IF pushed - trimmed >= MinRecords THEN pushed ELSE 0
AnyPage(w) == \E n \in MinRecords..pushed : window' = [window EXCEPT ![w] = n]
Window(w) == window' \in {[window EXCEPT ![w] = Newest], [window EXCEPT ![w] = 0]}
ReadTelemetry(w) ==
  /\ JobGoto(w, "start", "train")
  /\ Window(w)
  /\ UNCHANGED <<telemetryVars, lastCheck, framework, brokerVars, resultVars, job, late,
                 outcome, alone, storeVars>>

\* The function returns or raises; its locals are gone.
Return(w, from, o) ==
  /\ JobGoto(w, from, "report")
  /\ outcome' = [outcome EXCEPT ![w] = o]
  /\ window' = [window EXCEPT ![w] = 0]
  /\ alone' = [alone EXCEPT ![w] = FALSE]

\* Not registered, or the registry did not answer when the function was
\* chosen; too few records, weights that cannot be loaded or fitted,
\* a missing library: both functions return skipped = True.
TrainSkips(w) ==
  /\ Return(w, "train", "skipped")
  /\ UNCHANGED <<telemetryVars, lastCheck, framework, brokerVars, resultVars, job, late, storeVars>>

\* The registry raises, or the EWC loop calls a loss function that
\* torch.nn.functional does not have: neither is caught, the task fails.
TrainRaises(w) ==
  /\ Return(w, "train", "FAILURE")
  /\ UNCHANGED <<telemetryVars, lastCheck, framework, brokerVars, resultVars, job, late, storeVars>>

\* Only _run_sklearn_retraining, chosen for a model that is registered with
\* that framework, gets past the fit.
Refit(w) ==
  /\ framework = "sklearn" /\ window[w] > 0
  /\ JobGoto(w, "train", "save")
  /\ UNCHANGED <<telemetryVars, lastCheck, framework, brokerVars, resultVars, job, late,
                 window, outcome, alone, storeVars>>

StoreWeights(w) == /\ weights' = window[w]
                   /\ saves' = [saves EXCEPT ![job[w]] = @ + 1]

SaveRepeatedly(w) ==
  /\ JobGoto(w, "save", "save")
  /\ saves[job[w]] < 5 /\ StoreWeights(w)
  /\ UNCHANGED <<telemetryVars, lastCheck, framework, brokerVars, resultVars, job, late,
                 window, outcome, alone>>
SaveSucceeds(w) ==
  /\ JobGoto(w, "save", "publish")
  /\ StoreWeights(w)
  /\ UNCHANGED <<telemetryVars, lastCheck, framework, brokerVars, resultVars, job, late,
                 window, outcome, alone>>

\* An upload that fails, before or after S3 has stored the object, is
\* reported as skipped.
SaveFailsAs(w, o) ==
  /\ Return(w, "save", o)
  /\ StoreWeights(w) \/ UNCHANGED storeVars
  /\ UNCHANGED <<telemetryVars, lastCheck, framework, brokerVars, resultVars, job, late>>
SaveFailsUnseen(w) == SaveFailsAs(w, "trained")
SaveFails(w) == SaveFailsAs(w, "skipped")

\* The model_reload event; its loss does not change the result.
Publish(w) ==
  /\ Return(w, "publish", "trained")
  /\ UNCHANGED <<telemetryVars, lastCheck, framework, brokerVars, resultVars, job, late, storeVars>>

\* Celery stores the state and the result, then acknowledges the message.
Report(w) ==
  LET j == job[w] IN
  /\ JobGoto(w, "report", "ack")
  /\ status' = [status EXCEPT ![j] = StateAfter(j, IF outcome[w] = "FAILURE" THEN "FAILURE" ELSE "SUCCESS")]
  /\ result' = IF status[j] = "SUCCESS" THEN result ELSE [result EXCEPT ![j] = outcome[w]]
  /\ settled' = settled \cup {j}
  /\ UNCHANGED <<telemetryVars, lastCheck, framework, brokerVars, job, late, window,
                 outcome, alone, storeVars>>

\* The worker forgets its message.
ForgetJob(w) ==
  /\ job' = [job EXCEPT ![w] = NoJob]
  /\ late' = [late EXCEPT ![w] = FALSE]
  /\ window' = [window EXCEPT ![w] = 0]
  /\ outcome' = [outcome EXCEPT ![w] = "none"]
  /\ alone' = [alone EXCEPT ![w] = FALSE]
  /\ UNCHANGED <<telemetryVars, lastCheck, framework, resultVars, storeVars>>

Ack(w) ==
  /\ JobGoto(w, "ack", "idle")
  /\ ForgetJob(w)
  /\ UNCHANGED <<waiting, requeues>>

\* The message goes back to the list, unless that has happened already.
Requeue(w) == /\ waiting' = waiting \cup {job[w]}
              /\ requeues' = [requeues EXCEPT ![job[w]] = @ + 1]

\* Bound of the model: the messages of one job go back, at most this often.
MayRequeue(j) == /\ requeues[j] < MaxRequeues
                 /\ \A k \in Jobs \ {j} : requeues[k] = 0

\* The worker is lost.  task_acks_late and task_reject_on_worker_lost put an
\* unacknowledged message back, unless it has been restored before.
LostWithEarlyAck(w) == UNCHANGED <<waiting, requeues>>
Lost(w) == IF late[w] THEN UNCHANGED <<waiting, requeues>> ELSE Requeue(w)
WorkerLost(w) ==
  /\ wpc[w] # "idle" /\ (late[w] \/ MayRequeue(job[w]))
  /\ wpc' = [wpc EXCEPT ![w] = "idle"]
  /\ Lost(w)
  /\ ForgetJob(w)

\* The Redis transport restores a message that stays unacknowledged for its
\* visibility timeout; the worker that runs the task does not know.
VisibilityTimeout(w) ==
  /\ wpc[w] # "idle" /\ ~late[w] /\ MayRequeue(job[w])
  /\ Requeue(w)
  /\ late' = [late EXCEPT ![w] = TRUE]
  /\ UNCHANGED <<telemetryVars, lastCheck, framework, resultVars, job, wpc, window,
                 outcome, alone, storeVars>>

-----------------------------------------------------------------------------
TaskStep(w) == \/ ReadTelemetry(w)
               \/ TrainSkips(w) \/ TrainRaises(w) \/ Refit(w)
               \/ SaveSucceeds(w) \/ SaveFails(w) \/ Publish(w)
               \/ Report(w) \/ Ack(w)

JobsNext ==
  \/ \E p \in Pods : RPush(p) \/ LTrim(p) \/ PushAborts(p)
  \/ DriftCheck
  \/ RequestRetraining
  \/ \E w \in Workers : \/ \E j \in Jobs : Take(w, j)
                        \/ TaskStep(w) \/ WorkerLost(w) \/ VisibilityTimeout(w)

\* A worker that runs takes jobs and goes on with them.  Nobody has to send
\* requests or check for drift, and nothing has to be lost.
JobsFairness ==
  \A w \in Workers : /\ WF_jobsVars(\E j \in Jobs : Take(w, j))
                     /\ WF_jobsVars(TaskStep(w))

JobsSpec == JobsInit /\ [][JobsNext]_jobsVars /\ JobsFairness

-----------------------------------------------------------------------------
(* Properties.                                                             *)

WorkerPcs == {"idle", "start", "train", "save", "publish", "report", "ack"}

\* Types, and what a worker that has no job holds.
JobsTypeOK ==
  /\ pushed \in 0..MaxPushed /\ trimmed \in 0..pushed /\ pushing \subseteq Pods
  /\ lastCheck \in {"none", "error"}
  /\ framework \in Frameworks
  /\ waiting \subseteq Jobs /\ settled \subseteq Jobs
  /\ status \in [Jobs -> {"PENDING", "STARTED", "SUCCESS", "FAILURE"}]
  /\ result \in [Jobs -> {"none", "skipped", "trained", "FAILURE"}]
  /\ job \in [Workers -> Jobs \cup {NoJob}] /\ wpc \in [Workers -> WorkerPcs]
  /\ \A w \in Workers : wpc[w] = "idle" <=> job[w] = NoJob
  /\ late \in [Workers -> BOOLEAN] /\ alone \in [Workers -> BOOLEAN]
  /\ window \in [Workers -> 0..MaxPushed]
  /\ outcome \in [Workers -> {"none", "skipped", "trained", "FAILURE"}]
  /\ weights \in 0..MaxPushed
  /\ requeues \in [Jobs -> 0..MaxRequeues] /\ saves \in [Jobs -> Nat]

\* However the RPUSH and LTRIM of several pods interleave, and whichever of
\* them fail, the list never loses a record that is among the newest QueueMax
\* ("Maintain bounded queue", push_telemetry).
QueueKeepsNewest == trimmed > 0 => pushed - trimmed >= QueueMax

\* A result that says the model was trained is only stored when the weights
\* have reached storage, also if the job was delivered several times.
SuccessMeansStored == \A j \in Jobs : result[j] = "trained" => saves[j] > 0

\* A job trains once for each time its message was delivered: an acknowledged
\* or restored message is not run yet another time.
SavesPerDelivery == \A j \in Jobs : saves[j] <= 1 + requeues[j]

\* Weights fitted on older telemetry replace weights fitted on newer telemetry
\* only if another worker was busy meanwhile: jobs of one worker, redelivered
\* or not, never turn the model back.
WeightsMoveForward ==
  [][\A w \in Workers : wpc[w] = "save" /\ wpc'[w] # "save" /\ alone[w] => weights' >= weights]_jobsVars

\* The broker gives up no job before a result is stored (task_acks_late,
\* task_reject_on_worker_lost).
Alo == INSTANCE AtLeastOnce WITH
         outstanding <- waiting \cup {job[w] : w \in {v \in Workers : wpc[v] # "idle"}},
         reported    <- settled
JobsAtLeastOnce == Alo!AloSpec

\* Every job that was enqueued comes to a stored result, whatever is lost or
\* fails on the way.
JobsSettle == \A j \in Jobs : j \in waiting ~> j \in settled
=============================================================================
