------------------------ MODULE RetrainingJobsProofs ------------------------
(***************************************************************************)
(* Proofs about the retraining jobs, for any number of jobs, workers, pods *)
(* and records.  Deliveries may be lost and repeated as RetrainingJobs     *)
(* says; the proofs use neither fairness nor the bounds.                   *)
(***************************************************************************)
EXTENDS RetrainingJobs, FiniteSetTheorems, TLAPS

Busy(w) == wpc[w] # "idle"

\* What a worker holds when it holds no message.
IdleIsClean ==
  \A w \in Workers : ~Busy(w) => ~late[w] /\ outcome[w] = "none" /\ ~alone[w]

\* A worker acknowledges only what it has reported.
AckIsReported == \A w \in Workers : wpc[w] = "ack" => job[w] \in settled

\* A message that was restored behind a worker's back is in the list again, or
\* with a worker that answers for it, or its result is stored.
Covered(w) ==
  \/ job[w] \in waiting \cup settled
  \/ \E v \in Workers : Busy(v) /\ ~late[v] /\ job[v] = job[w]
LateIsCovered == \A w \in Workers : late[w] => Covered(w)

\* Only a job that has stored weights is called trained.
TrainedIsStored ==
  /\ \A w \in Workers : Busy(w) /\ (wpc[w] = "publish" \/ outcome[w] = "trained")
                          => saves[job[w]] > 0
  /\ SuccessMeansStored

\* Weights and windows come from what was pushed, and a worker that has been
\* alone since it took its job saves nothing older than what is stored.
NewestFirst ==
  /\ weights <= pushed
  /\ \A w \in Workers :
       /\ window[w] <= pushed
       /\ alone[w] => \A v \in Workers \ {w} : ~Busy(v)
       /\ alone[w] /\ wpc[w] \in {"train", "save"} => window[w] = 0 \/ window[w] >= weights
       /\ wpc[w] = "save" => window[w] > 0

JobsInv ==
  /\ JobsTypeOK
  /\ QueueKeepsNewest
  /\ IdleIsClean
  /\ AckIsReported
  /\ LateIsCovered
  /\ TrainedIsStored
  /\ NewestFirst

-----------------------------------------------------------------------------
(* The type invariant.                                                     *)

LEMMA TypeInit == JobsInit => JobsTypeOK
BY JobsAssumption DEF JobsInit, JobsTypeOK, Frameworks, WorkerPcs

LEMMA TypeStep ==
  ASSUME JobsTypeOK, [JobsNext]_jobsVars
  PROVE  JobsTypeOK'
<1> USE JobsAssumption
<1> USE DEF telemetryVars, brokerVars, resultVars, workerVars, storeVars
<1>1. CASE UNCHANGED jobsVars
  BY <1>1 DEF JobsTypeOK, jobsVars
<1>2. ASSUME NEW p \in Pods, RPush(p) \/ LTrim(p) \/ PushAborts(p)
      PROVE  JobsTypeOK'
  BY <1>2 DEF JobsTypeOK, RPush, LTrim, PushAborts, Trimmed
<1>3. CASE DriftCheck
  BY <1>3 DEF JobsTypeOK, DriftCheck, CheckDrift
<1>4. CASE RequestRetraining
  BY <1>4 DEF JobsTypeOK, RequestRetraining
<1>5. ASSUME NEW w \in Workers, NEW j \in Jobs, Take(w, j)
      PROVE  JobsTypeOK'
  BY <1>5 DEF JobsTypeOK, Take, JobGoto, StateAfter, WorkerPcs
<1>6. ASSUME NEW w \in Workers, TaskStep(w)
      PROVE  JobsTypeOK'
  <2>1. CASE ReadTelemetry(w)
    BY <2>1 DEF JobsTypeOK, ReadTelemetry, Window, Newest, JobGoto, WorkerPcs
  <2>2. CASE TrainSkips(w)
    BY <2>2 DEF JobsTypeOK, TrainSkips, Return, JobGoto, WorkerPcs
  <2>3. CASE TrainRaises(w)
    BY <2>3 DEF JobsTypeOK, TrainRaises, Return, JobGoto, WorkerPcs
  <2>4. CASE Refit(w)
    BY <2>4 DEF JobsTypeOK, Refit, JobGoto, WorkerPcs
  <2>5. CASE SaveSucceeds(w)
    BY <2>5 DEF JobsTypeOK, SaveSucceeds, StoreWeights, JobGoto, WorkerPcs
  <2>6. CASE SaveFails(w)
    BY <2>6 DEF JobsTypeOK, SaveFails, SaveFailsAs, Return, StoreWeights, JobGoto, WorkerPcs
  <2>7. CASE Publish(w)
    BY <2>7 DEF JobsTypeOK, Publish, Return, JobGoto, WorkerPcs
  <2>8. CASE Report(w)
    BY <2>8 DEF JobsTypeOK, Report, StateAfter, JobGoto, WorkerPcs
  <2>9. CASE Ack(w)
    BY <2>9 DEF JobsTypeOK, Ack, ForgetJob, JobGoto, WorkerPcs
  <2> QED BY <1>6, <2>1, <2>2, <2>3, <2>4, <2>5, <2>6, <2>7, <2>8, <2>9 DEF TaskStep
<1>7. ASSUME NEW w \in Workers, WorkerLost(w)
      PROVE  JobsTypeOK'
  BY <1>7 DEF JobsTypeOK, WorkerLost, Lost, Requeue, MayRequeue, ForgetJob, WorkerPcs
<1>8. ASSUME NEW w \in Workers, VisibilityTimeout(w)
      PROVE  JobsTypeOK'
  BY <1>8 DEF JobsTypeOK, VisibilityTimeout, Requeue, MayRequeue, WorkerPcs
<1> QED BY <1>1, <1>2, <1>3, <1>4, <1>5, <1>6, <1>7, <1>8 DEF JobsNext

\* The state of the list, the broker, the result backend and the workers stays
\* well formed.
THEOREM TypeCorrect == JobsSpec => []JobsTypeOK
<1>1. JobsTypeOK /\ [JobsNext]_jobsVars => JobsTypeOK'
  BY TypeStep
<1> QED BY TypeInit, <1>1, PTL DEF JobsSpec

-----------------------------------------------------------------------------
(* The inductive invariant.                                                *)

LEMMA InvInit == JobsInit => JobsInv
<1> SUFFICES ASSUME JobsInit PROVE JobsInv
  OBVIOUS
<1>1. JobsTypeOK
  BY TypeInit
<1>2. QueueKeepsNewest
  BY DEF JobsInit, QueueKeepsNewest
<1>3. IdleIsClean /\ AckIsReported /\ LateIsCovered
  BY DEF JobsInit, IdleIsClean, AckIsReported, LateIsCovered
<1>4. TrainedIsStored
  BY DEF JobsInit, TrainedIsStored, SuccessMeansStored, Busy
<1>5. NewestFirst
  BY DEF JobsInit, NewestFirst
<1> QED BY <1>1, <1>2, <1>3, <1>4, <1>5 DEF JobsInv

\* Steps that leave the broker, the results and the workers alone.
LEMMA QuietStep ==
  ASSUME JobsInv, JobsTypeOK',
         UNCHANGED <<brokerVars, resultVars, workerVars, storeVars>>, pushed' >= pushed
  PROVE  /\ IdleIsClean' /\ AckIsReported' /\ LateIsCovered'
         /\ TrainedIsStored' /\ NewestFirst'
<1> USE DEF brokerVars, resultVars, workerVars, storeVars, JobsInv
<1>1. IdleIsClean' /\ AckIsReported'
  BY DEF IdleIsClean, AckIsReported, Busy
<1>2. LateIsCovered'
  BY DEF LateIsCovered, Covered, Busy
<1>3. TrainedIsStored'
  BY DEF TrainedIsStored, SuccessMeansStored, Busy
<1>4. NewestFirst'
  BY DEF NewestFirst, Busy, JobsTypeOK
<1> QED BY <1>1, <1>2, <1>3, <1>4

\* The telemetry list: only LTRIM removes, and it leaves QueueMax records.
LEMMA QueueStep ==
  ASSUME JobsInv, JobsTypeOK', [JobsNext]_jobsVars
  PROVE  QueueKeepsNewest'
<1> USE JobsAssumption DEF JobsInv, JobsTypeOK, QueueKeepsNewest, telemetryVars
<1>1. CASE UNCHANGED telemetryVars
  BY <1>1
<1>2. ASSUME NEW p \in Pods, RPush(p)
      PROVE  QueueKeepsNewest'
  BY <1>2 DEF RPush
<1>3. ASSUME NEW p \in Pods, LTrim(p)
      PROVE  QueueKeepsNewest'
  BY <1>3 DEF LTrim, Trimmed
<1>4. ASSUME NEW p \in Pods, PushAborts(p)
      PROVE  QueueKeepsNewest'
  BY <1>4 DEF PushAborts
<1>5. ASSUME NEW w \in Workers, TaskStep(w)
      PROVE  UNCHANGED telemetryVars
  BY <1>5 DEF TaskStep, ReadTelemetry, TrainSkips, TrainRaises, Refit, SaveSucceeds, SaveFails,
              SaveFailsAs, Publish, Report, Ack, ForgetJob
<1>6. ASSUME NEW w \in Workers, WorkerLost(w)
      PROVE  UNCHANGED telemetryVars
  BY <1>6 DEF WorkerLost, ForgetJob
<1>7. ASSUME NEW w \in Workers, VisibilityTimeout(w)
      PROVE  UNCHANGED telemetryVars
  BY <1>7 DEF VisibilityTimeout
<1>8. ASSUME NEW w \in Workers, NEW j \in Jobs, Take(w, j)
      PROVE  UNCHANGED telemetryVars
  BY <1>8 DEF Take
<1>9. CASE DriftCheck \/ RequestRetraining \/ UNCHANGED jobsVars
  BY <1>9 DEF DriftCheck, RequestRetraining, jobsVars
<1> QED BY <1>1, <1>2, <1>3, <1>4, <1>5, <1>6, <1>7, <1>8, <1>9 DEF JobsNext

-----------------------------------------------------------------------------
(* The steps of the invariant.                                            *)

Rest == IdleIsClean /\ AckIsReported /\ LateIsCovered /\ TrainedIsStored /\ NewestFirst

LEMMA TakeStep ==
  ASSUME JobsInv, JobsTypeOK', NEW w \in Workers, NEW j \in Jobs, Take(w, j)
  PROVE  Rest'
<1> USE JobsAssumption DEF JobsInv, JobsTypeOK, Busy, Take, JobGoto,
        telemetryVars, brokerVars, resultVars, workerVars, storeVars
<1>1. IdleIsClean' /\ AckIsReported'
  BY DEF IdleIsClean, AckIsReported
<1>2. LateIsCovered'
  BY DEF IdleIsClean, AckIsReported, LateIsCovered, Covered
<1>3. TrainedIsStored'
  BY DEF IdleIsClean, TrainedIsStored, SuccessMeansStored
<1>4. NewestFirst'
  BY DEF IdleIsClean, NewestFirst
<1> QED BY <1>1, <1>2, <1>3, <1>4 DEF Rest

LEMMA ReadTelemetryStep ==
  ASSUME JobsInv, JobsTypeOK', NEW w \in Workers, ReadTelemetry(w)
  PROVE  Rest'
<1> USE JobsAssumption DEF JobsInv, JobsTypeOK, Busy, ReadTelemetry, Window, Newest, JobGoto,
        telemetryVars, brokerVars, resultVars, workerVars, storeVars
<1>1. IdleIsClean' /\ AckIsReported'
  BY DEF IdleIsClean, AckIsReported
<1>2. LateIsCovered'
  BY DEF IdleIsClean, AckIsReported, LateIsCovered, Covered
<1>3. TrainedIsStored'
  BY DEF IdleIsClean, TrainedIsStored, SuccessMeansStored
<1>4. NewestFirst'
  BY DEF IdleIsClean, NewestFirst
<1> QED BY <1>1, <1>2, <1>3, <1>4 DEF Rest

LEMMA TrainSkipsStep ==
  ASSUME JobsInv, JobsTypeOK', NEW w \in Workers, TrainSkips(w)
  PROVE  Rest'
<1> USE JobsAssumption DEF JobsInv, JobsTypeOK, Busy, TrainSkips, Return, JobGoto,
        telemetryVars, brokerVars, resultVars, workerVars, storeVars
<1>1. IdleIsClean' /\ AckIsReported'
  BY DEF IdleIsClean, AckIsReported
<1>2. LateIsCovered'
  BY DEF IdleIsClean, AckIsReported, LateIsCovered, Covered
<1>3. TrainedIsStored'
  BY DEF IdleIsClean, TrainedIsStored, SuccessMeansStored
<1>4. NewestFirst'
  BY DEF IdleIsClean, NewestFirst
<1> QED BY <1>1, <1>2, <1>3, <1>4 DEF Rest

LEMMA TrainRaisesStep ==
  ASSUME JobsInv, JobsTypeOK', NEW w \in Workers, TrainRaises(w)
  PROVE  Rest'
<1> USE JobsAssumption DEF JobsInv, JobsTypeOK, Busy, TrainRaises, Return, JobGoto,
        telemetryVars, brokerVars, resultVars, workerVars, storeVars
<1>1. IdleIsClean' /\ AckIsReported'
  BY DEF IdleIsClean, AckIsReported
<1>2. LateIsCovered'
  BY DEF IdleIsClean, AckIsReported, LateIsCovered, Covered
<1>3. TrainedIsStored'
  BY DEF IdleIsClean, TrainedIsStored, SuccessMeansStored
<1>4. NewestFirst'
  BY DEF IdleIsClean, NewestFirst
<1> QED BY <1>1, <1>2, <1>3, <1>4 DEF Rest

LEMMA RefitStep ==
  ASSUME JobsInv, JobsTypeOK', NEW w \in Workers, Refit(w)
  PROVE  Rest'
<1> USE JobsAssumption DEF JobsInv, JobsTypeOK, Busy, Refit, JobGoto,
        telemetryVars, brokerVars, resultVars, workerVars, storeVars
<1>1. IdleIsClean' /\ AckIsReported'
  BY DEF IdleIsClean, AckIsReported
<1>2. LateIsCovered'
  BY DEF IdleIsClean, AckIsReported, LateIsCovered, Covered
<1>3. TrainedIsStored'
  BY DEF IdleIsClean, TrainedIsStored, SuccessMeansStored
<1>4. NewestFirst'
  BY DEF IdleIsClean, NewestFirst
<1> QED BY <1>1, <1>2, <1>3, <1>4 DEF Rest

LEMMA SaveSucceedsStep ==
  ASSUME JobsInv, JobsTypeOK', NEW w \in Workers, SaveSucceeds(w)
  PROVE  Rest'
<1> USE JobsAssumption DEF JobsInv, JobsTypeOK, Busy, SaveSucceeds, StoreWeights, JobGoto,
        telemetryVars, brokerVars, resultVars, workerVars, storeVars
<1>1. IdleIsClean' /\ AckIsReported'
  BY DEF IdleIsClean, AckIsReported
<1>2. LateIsCovered'
  BY DEF IdleIsClean, AckIsReported, LateIsCovered, Covered
<1>3. TrainedIsStored'
  BY DEF IdleIsClean, TrainedIsStored, SuccessMeansStored
<1>4. NewestFirst'
  BY DEF IdleIsClean, NewestFirst
<1> QED BY <1>1, <1>2, <1>3, <1>4 DEF Rest

LEMMA SaveFailsStep ==
  ASSUME JobsInv, JobsTypeOK', NEW w \in Workers, SaveFails(w)
  PROVE  Rest'
<1> USE JobsAssumption DEF JobsInv, JobsTypeOK, Busy, SaveFails, SaveFailsAs, StoreWeights, Return, JobGoto,
        telemetryVars, brokerVars, resultVars, workerVars, storeVars
<1>1. IdleIsClean' /\ AckIsReported'
  BY DEF IdleIsClean, AckIsReported
<1>2. LateIsCovered'
  BY DEF IdleIsClean, AckIsReported, LateIsCovered, Covered
<1>3. TrainedIsStored'
  BY DEF IdleIsClean, TrainedIsStored, SuccessMeansStored
<1>4. NewestFirst'
  BY DEF IdleIsClean, NewestFirst
<1> QED BY <1>1, <1>2, <1>3, <1>4 DEF Rest

LEMMA PublishStep ==
  ASSUME JobsInv, JobsTypeOK', NEW w \in Workers, Publish(w)
  PROVE  Rest'
<1> USE JobsAssumption DEF JobsInv, JobsTypeOK, Busy, Publish, Return, JobGoto,
        telemetryVars, brokerVars, resultVars, workerVars, storeVars
<1>1. IdleIsClean' /\ AckIsReported'
  BY DEF IdleIsClean, AckIsReported
<1>2. LateIsCovered'
  BY DEF IdleIsClean, AckIsReported, LateIsCovered, Covered
<1>3. TrainedIsStored'
  BY DEF IdleIsClean, TrainedIsStored, SuccessMeansStored
<1>4. NewestFirst'
  BY DEF IdleIsClean, NewestFirst
<1> QED BY <1>1, <1>2, <1>3, <1>4 DEF Rest

LEMMA ReportStep ==
  ASSUME JobsInv, JobsTypeOK', NEW w \in Workers, Report(w)
  PROVE  Rest'
<1> USE JobsAssumption DEF JobsInv, JobsTypeOK, Busy, Report, StateAfter, JobGoto,
        telemetryVars, brokerVars, resultVars, workerVars, storeVars
<1>1. IdleIsClean' /\ AckIsReported'
  BY DEF IdleIsClean, AckIsReported
<1>2. LateIsCovered'
  BY DEF IdleIsClean, AckIsReported, LateIsCovered, Covered
<1>3. TrainedIsStored'
  BY DEF IdleIsClean, TrainedIsStored, SuccessMeansStored
<1>4. NewestFirst'
  BY DEF IdleIsClean, NewestFirst
<1> QED BY <1>1, <1>2, <1>3, <1>4 DEF Rest

LEMMA AckStep ==
  ASSUME JobsInv, JobsTypeOK', NEW w \in Workers, Ack(w)
  PROVE  Rest'
<1> USE JobsAssumption DEF JobsInv, JobsTypeOK, Busy, Ack, ForgetJob, JobGoto,
        telemetryVars, brokerVars, resultVars, workerVars, storeVars
<1>1. IdleIsClean' /\ AckIsReported'
  BY DEF IdleIsClean, AckIsReported
<1>2. LateIsCovered'
  BY DEF IdleIsClean, AckIsReported, LateIsCovered, Covered
<1>3. TrainedIsStored'
  BY DEF IdleIsClean, TrainedIsStored, SuccessMeansStored
<1>4. NewestFirst'
  BY DEF IdleIsClean, NewestFirst
<1> QED BY <1>1, <1>2, <1>3, <1>4 DEF Rest

LEMMA WorkerLostStep ==
  ASSUME JobsInv, JobsTypeOK', NEW w \in Workers, WorkerLost(w)
  PROVE  Rest'
<1> USE JobsAssumption DEF JobsInv, JobsTypeOK, Busy, WorkerLost, Lost, Requeue, ForgetJob,
        telemetryVars, brokerVars, resultVars, workerVars, storeVars
<1>1. IdleIsClean' /\ AckIsReported'
  BY DEF IdleIsClean, AckIsReported
<1>2. LateIsCovered'
  BY DEF IdleIsClean, AckIsReported, LateIsCovered, Covered
<1>3. TrainedIsStored'
  BY DEF IdleIsClean, TrainedIsStored, SuccessMeansStored
<1>4. NewestFirst'
  BY DEF IdleIsClean, NewestFirst
<1> QED BY <1>1, <1>2, <1>3, <1>4 DEF Rest

LEMMA VisibilityTimeoutStep ==
  ASSUME JobsInv, JobsTypeOK', NEW w \in Workers, VisibilityTimeout(w)
  PROVE  Rest'
<1> USE JobsAssumption DEF JobsInv, JobsTypeOK, Busy, VisibilityTimeout, Requeue,
        telemetryVars, brokerVars, resultVars, workerVars, storeVars
<1>1. IdleIsClean' /\ AckIsReported'
  BY DEF IdleIsClean, AckIsReported
<1>2. LateIsCovered'
  BY DEF IdleIsClean, AckIsReported, LateIsCovered, Covered
<1>3. TrainedIsStored'
  BY DEF IdleIsClean, TrainedIsStored, SuccessMeansStored
<1>4. NewestFirst'
  BY DEF IdleIsClean, NewestFirst
<1> QED BY <1>1, <1>2, <1>3, <1>4 DEF Rest

-----------------------------------------------------------------------------
(* The theorems.                                                           *)

LEMMA InvStep ==
  ASSUME JobsInv, [JobsNext]_jobsVars
  PROVE  JobsInv'
<1>1. JobsTypeOK'
  BY TypeStep DEF JobsInv
<1>2. QueueKeepsNewest'
  BY <1>1, QueueStep
<1>3. Rest'
  <2> USE <1>1 DEF telemetryVars, brokerVars, resultVars, workerVars, storeVars
  <2>1. ASSUME NEW p \in Pods, RPush(p) \/ LTrim(p) \/ PushAborts(p)
        PROVE  Rest'
    BY <2>1, QuietStep DEF RPush, LTrim, PushAborts, Rest, JobsInv, JobsTypeOK
  <2>2. CASE DriftCheck \/ UNCHANGED jobsVars
    BY <2>2, QuietStep DEF DriftCheck, jobsVars, Rest, JobsInv, JobsTypeOK
  <2>3. CASE RequestRetraining
    BY <2>3 DEF RequestRetraining, Rest, JobsInv, JobsTypeOK, Busy, IdleIsClean, AckIsReported,
                LateIsCovered, Covered, TrainedIsStored, SuccessMeansStored, NewestFirst
  <2>4. ASSUME NEW w \in Workers, NEW j \in Jobs, Take(w, j)
        PROVE  Rest'
    BY <2>4, TakeStep
  <2>5. ASSUME NEW w \in Workers, TaskStep(w)
        PROVE  Rest'
    BY <2>5, ReadTelemetryStep, TrainSkipsStep, TrainRaisesStep, RefitStep, SaveSucceedsStep,
       SaveFailsStep, PublishStep, ReportStep, AckStep DEF TaskStep
  <2>6. ASSUME NEW w \in Workers, WorkerLost(w) \/ VisibilityTimeout(w)
        PROVE  Rest'
    BY <2>6, WorkerLostStep, VisibilityTimeoutStep
  <2> QED BY <2>1, <2>2, <2>3, <2>4, <2>5, <2>6 DEF JobsNext
<1> QED BY <1>1, <1>2, <1>3 DEF JobsInv, Rest

LEMMA Invariance == JobsSpec => []JobsInv
<1>1. JobsInv /\ [JobsNext]_jobsVars => JobsInv'
  BY InvStep
<1> QED BY InvInit, <1>1, PTL DEF JobsSpec

\* The telemetry list never loses one of the newest QueueMax records, however
\* the pods' commands interleave and fail.
THEOREM QueueCorrect == JobsSpec => []QueueKeepsNewest
<1>1. JobsInv => QueueKeepsNewest
  BY DEF JobsInv
<1> QED BY <1>1, Invariance, PTL

\* A stored result "trained" stands for weights that reached storage, however
\* often the job was delivered and its workers were lost.
THEOREM SuccessCorrect == JobsSpec => []SuccessMeansStored
<1>1. JobsInv => SuccessMeansStored
  BY DEF JobsInv, TrainedIsStored
<1> QED BY <1>1, Invariance, PTL

\* Only jobs that overlap can turn the stored weights back to older telemetry.
THEOREM ForwardCorrect == JobsSpec => WeightsMoveForward
<1> DEFINE Forward == \A w \in Workers : wpc[w] = "save" /\ wpc'[w] # "save" /\ alone[w]
                                          => weights' >= weights
<1>1. ASSUME JobsInv, [JobsNext]_jobsVars
      PROVE  Forward
  <2> SUFFICES ASSUME NEW w \in Workers, wpc[w] = "save", wpc'[w] # "save", alone[w]
               PROVE  weights' >= weights
    OBVIOUS
  <2> USE <1>1 DEF JobsInv, JobsTypeOK, telemetryVars, workerVars, storeVars
  <2>1. window[w] >= weights
    BY DEF NewestFirst
  <2>2. ASSUME NEW v \in Workers, TaskStep(v)
        PROVE  weights' >= weights
    <3>1. v = w
      BY <2>2 DEF NewestFirst, Busy, TaskStep, ReadTelemetry, TrainSkips, TrainRaises, Refit,
                  SaveSucceeds, SaveFails, SaveFailsAs, Publish, Report, Ack, Return, JobGoto
    <3>2. SaveSucceeds(w) \/ SaveFails(w)
      BY <2>2, <3>1 DEF TaskStep, ReadTelemetry, TrainSkips, TrainRaises, Refit, Publish, Report,
                        Ack, Return, JobGoto
    <3> QED BY <3>2, <2>1 DEF SaveSucceeds, SaveFails, SaveFailsAs, StoreWeights
  <2>3. ASSUME NEW v \in Workers, WorkerLost(v) \/ VisibilityTimeout(v)
        PROVE  weights' >= weights
    BY <2>3 DEF WorkerLost, VisibilityTimeout, ForgetJob
  <2>4. ASSUME NEW v \in Workers, NEW j \in Jobs, Take(v, j)
        PROVE  weights' >= weights
    BY <2>4 DEF Take
  <2>5. ASSUME NEW p \in Pods, RPush(p) \/ LTrim(p) \/ PushAborts(p)
        PROVE  weights' >= weights
    BY <2>5 DEF RPush, LTrim, PushAborts
  <2>6. CASE DriftCheck \/ RequestRetraining \/ UNCHANGED jobsVars
    BY <2>6 DEF DriftCheck, RequestRetraining, jobsVars
  <2> QED BY <2>2, <2>3, <2>4, <2>5, <2>6 DEF JobsNext
<1>2. JobsInv /\ [JobsNext]_jobsVars => [Forward]_jobsVars
  BY <1>1
<1> QED BY <1>2, Invariance, PTL DEF JobsSpec, WeightsMoveForward

-----------------------------------------------------------------------------
(* The queue keeps its promise.                                            *)

Outstanding == waiting \cup {job[w] : w \in {v \in Workers : wpc[v] # "idle"}}

\* A worker that forgets its message, in the list or not, forgets a reported
\* job or one that is still outstanding.
LEMMA ForgetStep ==
  ASSUME JobsInv, NEW w \in Workers, Ack(w) \/ WorkerLost(w)
  PROVE  [Alo!AloNext]_(Alo!aloVars)
<1> USE DEF JobsInv, JobsTypeOK, Busy, JobGoto, ForgetJob, resultVars
<1> DEFINE j == job[w]
<1>1. Busy(w) /\ j \in Jobs /\ settled' = settled /\ ~Busy(w)'
  BY DEF Ack, WorkerLost
<1>2. \A v \in Workers \ {w} : job'[v] = job[v] /\ wpc'[v] = wpc[v]
  BY DEF Ack, WorkerLost
<1>3. waiting' = waiting \/ waiting' = waiting \cup {j}
  BY DEF Ack, WorkerLost, Lost, Requeue
<1>4. \A k : k # j => (k \in Outstanding' <=> k \in Outstanding)
  BY <1>1, <1>2, <1>3 DEF Outstanding
<1>5. j \in Outstanding
  BY <1>1 DEF Outstanding
<1>6. j \in Outstanding' \/ j \in settled
  <2>1. CASE Ack(w)
    BY <2>1 DEF Ack, AckIsReported
  <2>2. CASE WorkerLost(w) /\ ~late[w]
    BY <2>2 DEF WorkerLost, Lost, Requeue, Outstanding
  <2>3. CASE WorkerLost(w) /\ late[w]
    <3>1. Covered(w)
      BY <2>3 DEF LateIsCovered
    <3> QED BY <2>3, <3>1, <1>2 DEF Covered, WorkerLost, Lost, Outstanding
  <2> QED BY <2>1, <2>2, <2>3
<1>7. CASE j \in Outstanding'
  <2>1. Outstanding' = Outstanding
    BY <1>4, <1>5, <1>7
  <2> QED BY <2>1, <1>1 DEF Alo!aloVars, Outstanding
<1>8. CASE j \notin Outstanding'
  <2>1. Outstanding' = Outstanding \ {j}
    BY <1>4, <1>8
  <2> QED BY <2>1, <1>1, <1>5, <1>6, <1>8 DEF Alo!AloNext, Alo!Forget, Outstanding
<1> QED BY <1>7, <1>8

LEMMA AloStep ==
  ASSUME JobsInv, [JobsNext]_jobsVars
  PROVE  [Alo!AloNext]_(Alo!aloVars)
<1> USE DEF JobsInv, JobsTypeOK, JobGoto, telemetryVars, brokerVars, resultVars, workerVars, storeVars
<1>1. ASSUME NEW w \in Workers, NEW j \in Jobs, Take(w, j)
      PROVE  UNCHANGED Alo!aloVars
  <2>1. /\ settled' = settled /\ waiting' = waiting \ {j} /\ j \in waiting
        /\ wpc[w] = "idle" /\ wpc'[w] # "idle" /\ job'[w] = j
        /\ \A v \in Workers \ {w} : job'[v] = job[v] /\ wpc'[v] = wpc[v]
    BY <1>1 DEF Take
  <2>2. Outstanding' = Outstanding
    BY <2>1 DEF Outstanding
  <2> QED BY <2>1, <2>2 DEF Alo!aloVars, Outstanding
<1>2. ASSUME NEW w \in Workers,
             \/ ReadTelemetry(w) \/ TrainSkips(w) \/ TrainRaises(w) \/ Refit(w)
             \/ SaveSucceeds(w) \/ SaveFails(w) \/ Publish(w)
      PROVE  UNCHANGED Alo!aloVars
  <2>1. /\ settled' = settled /\ waiting' = waiting /\ job' = job
        /\ wpc[w] # "idle" /\ wpc'[w] # "idle"
        /\ \A v \in Workers \ {w} : wpc'[v] = wpc[v]
    BY <1>2 DEF ReadTelemetry, TrainSkips, TrainRaises, Refit, SaveSucceeds, SaveFails,
                SaveFailsAs, Publish, Return
  <2>2. Outstanding' = Outstanding
    BY <2>1 DEF Outstanding
  <2> QED BY <2>1, <2>2 DEF Alo!aloVars, Outstanding
<1>3. ASSUME NEW w \in Workers, Report(w)
      PROVE  Alo!AloNext
  <2>1. /\ settled' = settled \cup {job[w]} /\ waiting' = waiting /\ job' = job
        /\ wpc[w] # "idle" /\ wpc'[w] # "idle" /\ job[w] \in Jobs
        /\ \A v \in Workers \ {w} : wpc'[v] = wpc[v]
    BY <1>3 DEF Report
  <2>2. Outstanding' = Outstanding /\ job[w] \in Outstanding
    BY <2>1 DEF Outstanding
  <2> QED BY <2>1, <2>2 DEF Alo!AloNext, Alo!ReportResult, Outstanding
<1>4. ASSUME NEW w \in Workers, VisibilityTimeout(w)
      PROVE  UNCHANGED Alo!aloVars
  <2>1. Outstanding' = Outstanding /\ settled' = settled
    BY <1>4 DEF VisibilityTimeout, Requeue, Outstanding
  <2> QED BY <2>1 DEF Alo!aloVars, Outstanding
<1>5. ASSUME NEW w \in Workers, Ack(w) \/ WorkerLost(w)
      PROVE  [Alo!AloNext]_(Alo!aloVars)
  BY <1>5, ForgetStep
<1>6. CASE RequestRetraining
  <2>1. PICK j \in Jobs : Fresh(j) /\ waiting' = waiting \cup {j}
    BY <1>6 DEF RequestRetraining
  <2>2. settled' = settled /\ job' = job /\ wpc' = wpc
    BY <1>6 DEF RequestRetraining
  <2>3. j \notin Outstanding \cup settled /\ Outstanding' = Outstanding \cup {j}
    BY <2>1, <2>2 DEF Fresh, Outstanding
  <2> QED BY <2>2, <2>3 DEF Alo!AloNext, Alo!Submit, Outstanding
<1>7. CASE DriftCheck \/ UNCHANGED jobsVars \/ \E p \in Pods : RPush(p) \/ LTrim(p) \/ PushAborts(p)
  BY <1>7 DEF DriftCheck, jobsVars, RPush, LTrim, PushAborts, Alo!aloVars
<1> QED BY <1>1, <1>2, <1>3, <1>4, <1>5, <1>6, <1>7 DEF JobsNext, TaskStep

\* The broker, the result backend and the workers implement AtLeastOnce: an
\* accepted job is only forgotten after a result was stored for it.
THEOREM AtLeastOnceCorrect == JobsSpec => JobsAtLeastOnce
<1>1. JobsInit => Alo!AloInit
  BY DEF JobsInit, Alo!AloInit
<1>2. JobsInv /\ [JobsNext]_jobsVars => [Alo!AloNext]_(Alo!aloVars)
  BY AloStep
<1> QED BY <1>1, <1>2, Invariance, PTL DEF JobsSpec, JobsAtLeastOnce, Alo!AloSpec
-----------------------------------------------------------------------------
(* How often a job trains.                                                 *)

\* The workers that may still store weights for a job.
Pending(j) == {w \in Workers : job[w] = j /\ wpc[w] \in {"start", "train", "save"}}
InList(j) == IF j \in waiting THEN 1 ELSE 0

\* Every delivery of a job is in the list, with a worker, or used up; and a
\* job that has trained is not taken for a new one.
Deliveries(j) ==
  /\ saves[j] + Cardinality(Pending(j)) + InList(j) <= 1 + requeues[j]
  /\ saves[j] > 0 => ~Fresh(j)
LateIsRequeued == \A w \in Workers : late[w] => requeues[job[w]] > 0
DeliveriesInv == LateIsRequeued /\ \A j \in Jobs : Deliveries(j)

LEMMA PendingFinite ==
  ASSUME NEW j
  PROVE  IsFiniteSet(Pending(j)) /\ Cardinality(Pending(j)) \in Nat
BY JobsAssumption, FS_Subset, FS_CardinalityType DEF Pending

LEMMA PendingGains ==
  ASSUME NEW j, NEW w, w \notin Pending(j), Pending(j)' = Pending(j) \cup {w}
  PROVE  Cardinality(Pending(j)') = Cardinality(Pending(j)) + 1
BY PendingFinite, FS_AddElement

LEMMA PendingLoses ==
  ASSUME NEW j, NEW w \in Pending(j), Pending(j)' = Pending(j) \ {w}
  PROVE  Cardinality(Pending(j)') = Cardinality(Pending(j)) - 1
BY PendingFinite, FS_RemoveElement

\* What the step of one worker leaves of the set: everybody else.
LEMMA PendingOfOthers ==
  ASSUME NEW w \in Workers, \A v \in Workers \ {w} : job'[v] = job[v] /\ wpc'[v] = wpc[v],
         NEW j
  PROVE  /\ w \in Pending(j)' /\ w \notin Pending(j) => Pending(j)' = Pending(j) \cup {w}
         /\ w \notin Pending(j)' /\ w \in Pending(j) => Pending(j)' = Pending(j) \ {w}
         /\ (w \in Pending(j)' <=> w \in Pending(j)) => Pending(j)' = Pending(j)
BY DEF Pending

\* A job that has a worker or a result, or went back, is not new.
LEMMA TakeDelivers ==
  ASSUME JobsInv, DeliveriesInv, NEW w \in Workers, NEW k \in Jobs, Take(w, k)
  PROVE  DeliveriesInv'
<1> USE DEF JobsInv, JobsTypeOK, storeVars
<1>1. /\ wpc[w] = "idle" /\ wpc' = [wpc EXCEPT ![w] = "start"]
      /\ k \in waiting /\ waiting' = waiting \ {k}
      /\ job[w] = NoJob /\ job' = [job EXCEPT ![w] = k]
      /\ UNCHANGED <<requeues, saves, settled, late>>
  BY DEF Take, JobGoto
<1>2. LateIsRequeued'
  BY <1>1 DEF DeliveriesInv, LateIsRequeued, IdleIsClean, Busy
<1>3. ASSUME NEW j \in Jobs
      PROVE  Deliveries(j)'
  <2>1. Deliveries(j) /\ saves[j] \in Nat /\ requeues[j] \in Nat
    BY DEF DeliveriesInv
  <2>2. saves'[j] > 0 => ~Fresh(j)'
    <3>1. ~Fresh(j) => ~Fresh(j)'
      <4>1. CASE j = k
        BY <1>1, <4>1 DEF Fresh
      <4>2. CASE j # k
        BY <1>1, <4>2, JobsAssumption DEF Fresh
      <4> QED BY <4>1, <4>2
    <3> QED BY <1>1, <2>1, <3>1 DEF Deliveries
  <2>3. CASE j = k
    <3>1. w \in Pending(j)' /\ w \notin Pending(j)
      BY <1>1, <2>3 DEF Pending
    <3>2. Pending(j)' = Pending(j) \cup {w}
      BY <1>1, <3>1, PendingOfOthers
    <3>3. Cardinality(Pending(j)') = Cardinality(Pending(j)) + 1
      BY <3>1, <3>2, PendingGains
    <3>4. InList(j) = 1 /\ InList(j)' = 0
      BY <1>1, <2>3 DEF InList
    <3> QED BY <1>1, <2>1, <2>2, <3>3, <3>4, PendingFinite DEF Deliveries
  <2>4. CASE j # k
    <3>1. w \notin Pending(j)' /\ w \notin Pending(j)
      BY <1>1, <2>4, JobsAssumption DEF Pending
    <3>2. Pending(j)' = Pending(j)
      BY <1>1, <3>1, PendingOfOthers
    <3>3. InList(j)' = InList(j)
      BY <1>1, <2>4 DEF InList
    <3> QED BY <1>1, <2>1, <2>2, <3>2, <3>3, PendingFinite DEF Deliveries
  <2> QED BY <2>3, <2>4
<1> QED BY <1>2, <1>3 DEF DeliveriesInv

LEMMA TaskDelivers ==
  ASSUME JobsInv, DeliveriesInv, NEW w \in Workers, TaskStep(w)
  PROVE  DeliveriesInv'
<1> USE DEF JobsInv, JobsTypeOK, storeVars, brokerVars, resultVars
<1> DEFINE k == job[w]
           stored == saves' = [saves EXCEPT ![k] = @ + 1]
<1>1. /\ wpc[w] # "idle" /\ k \in Jobs
      /\ \A v \in Workers \ {w} : job'[v] = job[v] /\ wpc'[v] = wpc[v]
      /\ UNCHANGED <<waiting, requeues>>
      /\ settled \subseteq settled'
  BY DEF TaskStep, ReadTelemetry, TrainSkips, TrainRaises, Refit, SaveSucceeds, SaveFails,
         SaveFailsAs, Publish, Report, Ack, Return, JobGoto, ForgetJob
<1>2. LateIsRequeued'
  BY <1>1 DEF TaskStep, ReadTelemetry, TrainSkips, TrainRaises, Refit, SaveSucceeds, SaveFails,
              SaveFailsAs, Publish, Report, Ack, Return, JobGoto, ForgetJob,
              DeliveriesInv, LateIsRequeued
<1>3. job'[w] = k \/ k \in settled'
  BY DEF TaskStep, ReadTelemetry, TrainSkips, TrainRaises, Refit, SaveSucceeds, SaveFails,
         SaveFailsAs, Publish, Report, Ack, Return, AckIsReported, JobGoto, ForgetJob
<1>4. \/ saves' = saves
      \/ stored /\ wpc[w] = "save" /\ wpc'[w] \notin {"start", "train", "save"}
  BY DEF TaskStep, ReadTelemetry, TrainSkips, TrainRaises, Refit, SaveSucceeds, SaveFails,
         SaveFailsAs, Publish, Report, Ack, Return, JobGoto, ForgetJob, StoreWeights
<1>5. \A j : w \in Pending(j)' => w \in Pending(j)
  BY DEF Pending, TaskStep, ReadTelemetry, TrainSkips, TrainRaises, Refit, SaveSucceeds, SaveFails,
         SaveFailsAs, Publish, Report, Ack, Return, JobGoto, ForgetJob
<1>6. ASSUME NEW j \in Jobs
      PROVE  Deliveries(j)'
  <2>1. Deliveries(j) /\ saves[j] \in Nat /\ requeues[j] \in Nat /\ InList(j) \in Nat
    BY DEF DeliveriesInv, InList
  <2>2. InList(j)' = InList(j) /\ requeues'[j] = requeues[j]
    BY <1>1 DEF InList
  <2>3. saves'[j] > 0 => ~Fresh(j)'
    <3>1. CASE j = k
      BY <1>1, <1>3, <3>1 DEF Fresh
    <3>2. CASE j # k
      BY <1>1, <1>4, <2>1, <3>2 DEF Fresh, Deliveries
    <3> QED BY <3>1, <3>2
  <2>4. CASE j # k
    <3>1. w \notin Pending(j)' /\ w \notin Pending(j) /\ saves'[j] = saves[j]
      BY <1>1, <1>4, <2>4, JobsAssumption DEF Pending, TaskStep, ReadTelemetry, TrainSkips,
         TrainRaises, Refit, SaveSucceeds, SaveFails, SaveFailsAs, Publish, Report, Ack, Return,
         JobGoto, ForgetJob
    <3>2. Pending(j)' = Pending(j)
      BY <1>1, <3>1, PendingOfOthers
    <3> QED BY <2>1, <2>2, <2>3, <3>1, <3>2 DEF Deliveries
  <2>5. CASE j = k /\ saves' = saves
    <3>1. \/ Pending(j)' = Pending(j)
          \/ w \in Pending(j) /\ Pending(j)' = Pending(j) \ {w}
      BY <1>1, <1>5, <2>5, PendingOfOthers
    <3>2. CASE Pending(j)' = Pending(j)
      BY <2>1, <2>2, <2>3, <2>5, <3>2 DEF Deliveries
    <3>3. CASE w \in Pending(j) /\ Pending(j)' = Pending(j) \ {w}
      <4>1. Cardinality(Pending(j)') = Cardinality(Pending(j)) - 1
        BY <3>3, PendingLoses
      <4> QED BY <2>1, <2>2, <2>3, <2>5, <4>1, PendingFinite DEF Deliveries
    <3> QED BY <3>1, <3>2, <3>3
  <2>6. CASE j = k /\ stored /\ wpc[w] = "save" /\ wpc'[w] \notin {"start", "train", "save"}
    <3>1. w \in Pending(j) /\ w \notin Pending(j)'
      BY <2>6 DEF Pending
    <3>2. Pending(j)' = Pending(j) \ {w}
      BY <1>1, <3>1, PendingOfOthers
    <3>3. Cardinality(Pending(j)') = Cardinality(Pending(j)) - 1
      BY <3>1, <3>2, PendingLoses
    <3>4. saves'[j] = saves[j] + 1
      BY <2>6
    <3> QED BY <2>1, <2>2, <2>3, <3>3, <3>4, PendingFinite DEF Deliveries
  <2> QED BY <1>4, <2>4, <2>5, <2>6
<1> QED BY <1>2, <1>6 DEF DeliveriesInv

\* A message that goes back counts as one more delivery.
LEMMA FaultDelivers ==
  ASSUME JobsInv, DeliveriesInv, NEW w \in Workers, WorkerLost(w) \/ VisibilityTimeout(w)
  PROVE  DeliveriesInv'
<1> USE DEF JobsInv, JobsTypeOK, storeVars, resultVars
<1> DEFINE k == job[w]
<1>1. /\ k \in Jobs /\ wpc[w] # "idle"
      /\ \A v \in Workers \ {w} : job'[v] = job[v] /\ wpc'[v] = wpc[v] /\ late'[v] = late[v]
      /\ UNCHANGED <<saves, settled>>
  BY DEF WorkerLost, VisibilityTimeout, ForgetJob
<1>2. \/ waiting' = waiting /\ requeues' = requeues /\ late[w]
      \/ waiting' = waiting \cup {k} /\ requeues' = [requeues EXCEPT ![k] = @ + 1]
  BY DEF WorkerLost, VisibilityTimeout, Lost, Requeue
<1>3. \/ job'[w] = k /\ wpc'[w] = wpc[w]
      \/ job'[w] = NoJob /\ wpc'[w] = "idle" /\ late'[w] = FALSE
  BY DEF WorkerLost, VisibilityTimeout, ForgetJob
<1>4. requeues'[k] > 0 /\ \A j \in Jobs : /\ requeues'[j] >= requeues[j]
                                         /\ requeues[j] \in Nat /\ requeues'[j] \in Nat
  BY <1>1, <1>2, JobsAssumption DEF DeliveriesInv, LateIsRequeued
<1>5. LateIsRequeued'
  <2> SUFFICES ASSUME NEW v \in Workers, late'[v]
               PROVE  requeues'[job'[v]] > 0
    BY DEF LateIsRequeued
  <2>1. CASE v = w
    BY <1>3, <1>4, <2>1
  <2>2. CASE v # w
    <3>1. late[v] /\ job'[v] = job[v]
      BY <1>1, <2>2
    <3>2. job[v] \in Jobs
      BY <3>1 DEF IdleIsClean, Busy
    <3>3. requeues[job[v]] > 0
      BY <3>1 DEF DeliveriesInv, LateIsRequeued
    <3>4. /\ requeues'[job[v]] >= requeues[job[v]]
          /\ requeues[job[v]] \in Nat /\ requeues'[job[v]] \in Nat
      BY <3>2, <1>4
    <3> QED BY <3>1, <3>3, <3>4
  <2> QED BY <2>1, <2>2
<1>6. ASSUME NEW j \in Jobs
      PROVE  Deliveries(j)'
  <2>1. Deliveries(j) /\ saves[j] \in Nat /\ requeues[j] \in Nat /\ saves'[j] = saves[j]
    BY <1>1, <1>4 DEF DeliveriesInv
  <2>2. Cardinality(Pending(j)') <= Cardinality(Pending(j)) /\ Cardinality(Pending(j)') \in Nat
    <3>1. w \in Pending(j)' => w \in Pending(j)
      BY <1>1, <1>3, JobsAssumption DEF Pending
    <3>2. \/ Pending(j)' = Pending(j)
          \/ w \in Pending(j) /\ Pending(j)' = Pending(j) \ {w}
      BY <1>1, <3>1, PendingOfOthers
    <3>3. CASE Pending(j)' = Pending(j)
      BY <3>3, PendingFinite
    <3>4. CASE w \in Pending(j) /\ Pending(j)' = Pending(j) \ {w}
      <4>1. Cardinality(Pending(j)') = Cardinality(Pending(j)) - 1 /\ IsFiniteSet(Pending(j)')
        BY <3>4, PendingLoses, PendingFinite, FS_RemoveElement
      <4>2. Cardinality(Pending(j)') \in Nat
        BY <4>1, FS_CardinalityType
      <4> QED BY <4>1, <4>2, PendingFinite
    <3> QED BY <3>2, <3>3, <3>4
  <2>3. InList(j)' + requeues[j] <= InList(j) + requeues'[j]
    BY <1>2, <1>4, <2>1 DEF InList
  <2>4. InList(j) \in Nat /\ InList(j)' \in Nat /\ requeues'[j] \in Nat
    BY <1>2, <2>1 DEF InList
  <2>5. saves'[j] > 0 => ~Fresh(j)'
    <3>1. CASE j = k
      BY <1>4, <3>1 DEF Fresh
    <3>2. CASE j # k
      BY <1>1, <1>2, <2>1, <3>2 DEF Fresh, Deliveries
    <3> QED BY <3>1, <3>2
  <2> QED BY <2>1, <2>2, <2>3, <2>4, <2>5, PendingFinite DEF Deliveries
<1> QED BY <1>5, <1>6 DEF DeliveriesInv

LEMMA RequestDelivers ==
  ASSUME JobsInv, DeliveriesInv, RequestRetraining
  PROVE  DeliveriesInv'
<1> USE DEF JobsInv, JobsTypeOK, storeVars, resultVars, workerVars
<1>1. PICK k \in Jobs : Fresh(k) /\ waiting' = waiting \cup {k}
  BY DEF RequestRetraining
<1>2. UNCHANGED <<job, wpc, late, saves, requeues, settled>>
  BY DEF RequestRetraining
<1>3. ASSUME NEW j \in Jobs
      PROVE  Deliveries(j)'
  <2>1. Deliveries(j) /\ saves[j] \in Nat /\ requeues[j] \in Nat
    BY DEF DeliveriesInv
  <2>2. Pending(j)' = Pending(j)
    BY <1>2 DEF Pending
  <2>3. CASE j = k
    <3>1. saves[j] = 0
      BY <1>1, <2>1, <2>3 DEF Deliveries
    <3>2. Pending(j) = {}
      BY <1>1, <2>3 DEF Fresh, Pending
    <3>3. Cardinality(Pending(j)) = 0
      BY <3>2, FS_EmptySet
    <3>4. InList(j)' = 1
      BY <1>1, <2>3 DEF InList
    <3> QED BY <1>2, <2>1, <2>2, <3>1, <3>3, <3>4 DEF Deliveries
  <2>4. CASE j # k
    <3>1. InList(j)' = InList(j) /\ (Fresh(j)' <=> Fresh(j))
      BY <1>1, <1>2, <2>4 DEF InList, Fresh
    <3> QED BY <1>2, <2>1, <2>2, <3>1 DEF Deliveries
  <2> QED BY <2>3, <2>4
<1> QED BY <1>2, <1>3 DEF DeliveriesInv, LateIsRequeued

LEMMA OthersDeliver ==
  ASSUME DeliveriesInv, UNCHANGED <<waiting, job, wpc, late, saves, requeues, settled>>
  PROVE  DeliveriesInv'
BY DEF DeliveriesInv, LateIsRequeued, Deliveries, Fresh, InList, Pending

\* A job trains at most once for each time the broker hands its message out.
THEOREM SavesCorrect == JobsSpec => []SavesPerDelivery
<1>1. JobsInit => DeliveriesInv
  <2> SUFFICES ASSUME JobsInit
               PROVE  DeliveriesInv
    OBVIOUS
  <2>1. LateIsRequeued
    BY DEF JobsInit, LateIsRequeued
  <2>2. ASSUME NEW j \in Jobs
        PROVE  Deliveries(j)
    <3>1. Pending(j) = {}
      BY DEF JobsInit, Pending
    <3>2. Cardinality(Pending(j)) = 0
      BY <3>1, FS_EmptySet
    <3> QED BY <3>2 DEF JobsInit, Deliveries, InList
  <2> QED BY <2>1, <2>2 DEF DeliveriesInv
<1>2. JobsInv /\ DeliveriesInv /\ [JobsNext]_jobsVars => DeliveriesInv'
  <2> SUFFICES ASSUME JobsInv, DeliveriesInv, [JobsNext]_jobsVars
               PROVE  DeliveriesInv'
    OBVIOUS
  <2>1. CASE DriftCheck \/ UNCHANGED jobsVars \/ \E p \in Pods : RPush(p) \/ LTrim(p) \/ PushAborts(p)
    <3>1. UNCHANGED <<waiting, job, wpc, late, saves, requeues, settled>>
      BY <2>1 DEF DriftCheck, jobsVars, RPush, LTrim, PushAborts, brokerVars, resultVars,
                  workerVars, storeVars
    <3> QED BY <3>1, OthersDeliver
  <2>2. CASE RequestRetraining
    BY <2>2, RequestDelivers
  <2>3. ASSUME NEW w \in Workers, NEW j \in Jobs, Take(w, j)
        PROVE  DeliveriesInv'
    BY <2>3, TakeDelivers
  <2>4. ASSUME NEW w \in Workers, TaskStep(w)
        PROVE  DeliveriesInv'
    BY <2>4, TaskDelivers
  <2>5. ASSUME NEW w \in Workers, WorkerLost(w) \/ VisibilityTimeout(w)
        PROVE  DeliveriesInv'
    BY <2>5, FaultDelivers
  <2> QED BY <2>1, <2>2, <2>3, <2>4, <2>5 DEF JobsNext
<1>3. JobsInv /\ DeliveriesInv => SavesPerDelivery
  <2> SUFFICES ASSUME JobsInv, DeliveriesInv, NEW j \in Jobs
               PROVE  saves[j] <= 1 + requeues[j]
    BY DEF SavesPerDelivery
  <2>1. Deliveries(j) /\ saves[j] \in Nat /\ requeues[j] \in Nat /\ InList(j) \in Nat
    BY DEF DeliveriesInv, JobsInv, JobsTypeOK, InList
  <2> QED BY <2>1, PendingFinite DEF Deliveries
<1> QED BY <1>1, <1>2, <1>3, Invariance, PTL DEF JobsSpec
=============================================================================
