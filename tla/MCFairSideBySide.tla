-------------------------- MODULE MCFairSideBySide --------------------------
(***************************************************************************)
(* The components with liveness properties, for TLC: the model cache of an *)
(* inference process, and the retraining jobs with the telemetry list.  As *)
(* modelled they share no variable (InferenceService composes the cache    *)
(* with what calls it), so one run checks them side by side: every         *)
(* behaviour moves one of them, chosen at the start, and the others stay   *)
(* as they were.                                                           *)
(***************************************************************************)
EXTENDS MCModelCache, RetrainingJobs

CONSTANTS pod1, pod2

VARIABLE part

fairVars == <<part, cacheVars, jobsVars>>

FairInit ==
  /\ part \in {"cache", "jobs", "telemetry"}
  /\ CacheInit /\ JobsInit
  /\ part # "jobs" => framework = "other"

\* What a job reads does not depend on trimming as long as the list keeps
\* enough records (MinRecords <= QueueMax), nor on the drift checks: beside
\* the jobs, each pod pushes once and is slow to trim, and no check comes.
SlowPods ==
  /\ UNCHANGED <<trimmed, lastCheck>>
  /\ pushing \subseteq pushing'
  /\ pod2 \in pushing' => pod1 \in pushing'

\* The list on its own, with pods that push more often, and the checks.
TelemetryNext == \/ \E p \in Pods : RPush(p) \/ LTrim(p) \/ PushAborts(p)
                 \/ DriftCheck

\* Each part may stop: the calls have returned, or it has reached its bounds.
FairNext ==
  \/ part = "cache" /\ CacheNext /\ OneSegment /\ UNCHANGED <<part, jobsVars>>
  \/ part = "jobs" /\ JobsNext /\ SlowPods /\ UNCHANGED <<part, cacheVars>>
  \/ part = "telemetry" /\ TelemetryNext /\ UNCHANGED <<part, cacheVars>>
  \/ UNCHANGED fairVars

\* The fairness of FairCacheSpec and of JobsSpec, for the component that moves.
Fairness ==
  /\ \A t \in Tasks : WF_cacheVars(part = "cache" /\ Progress(t))
  /\ \A w \in Workers :
       /\ WF_jobsVars(part = "jobs" /\ \E j \in Jobs : Take(w, j))
       /\ WF_jobsVars(part = "jobs" /\ TaskStep(w))

FairSpec == FairInit /\ [][FairNext]_fairVars /\ Fairness
=============================================================================
