---------------------------- MODULE MCS3Storage ----------------------------
(* Instances of S3Storage for TLC. *)
EXTENDS S3Storage, TLC

CONSTANTS t1, t2, r, p1, p2, pr, here, there

\* Two retraining workers, each with a disk of its own, and a second thread in
\* the process of the first.
OneProcessOf == (t1 :> p1) @@ (t2 :> p1) @@ (r :> pr)
OneDiskOf == (p1 :> here) @@ (pr :> there)

\* The worker r only saves.  What it would do with a cache of its own, t1 does:
\* it saves and reads through one directory while the other worker saves, and a
\* call of r to warm_cache changes nothing that t1 and t2 can see.
OneReads == at[r] # "lock" /\ at'[r] = "lock" => saving'[r] # Null

\* Two processes that share a cache directory, and a process elsewhere.
TwoProcessOf == (t1 :> p1) @@ (t2 :> p2) @@ (r :> pr)
TwoDiskOf == (p1 :> here) @@ (p2 :> here) @@ (pr :> there)
============================================================================
