----------------------------- MODULE AtLeastOnce -----------------------------
(***************************************************************************)
(* What the job queue promises to those who submit jobs: a job that the    *)
(* broker has accepted stays outstanding until a result has been reported  *)
(* for it.  It may be worked on, and reported, more than once.             *)
(***************************************************************************)
CONSTANT Jobs

VARIABLES outstanding,   \* accepted and not yet forgotten by the broker
          reported       \* jobs for which a result has been stored

aloVars == <<outstanding, reported>>

AloInit == outstanding = {} /\ reported = {}

Submit(j) == /\ j \notin outstanding \cup reported
             /\ outstanding' = outstanding \cup {j}
             /\ UNCHANGED reported

ReportResult(j) == /\ j \in outstanding
                   /\ reported' = reported \cup {j}
                   /\ UNCHANGED outstanding

Forget(j) == /\ j \in outstanding \cap reported
             /\ outstanding' = outstanding \ {j}
             /\ UNCHANGED reported

AloNext == \E j \in Jobs : Submit(j) \/ ReportResult(j) \/ Forget(j)

AloSpec == AloInit /\ [][AloNext]_aloVars
==============================================================================
