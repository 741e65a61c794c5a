----------------------------- MODULE S3Storage -----------------------------
(***************************************************************************)
(* The S3 model storage with its local disk cache                          *)
(* (src/inference/storage_backend.py, class S3StorageBackend), for one     *)
(* key.  Threads of several processes warm the cache and save new weights; *)
(* processes on one host share the cache directory and each has its own    *)
(* lock per key.                                                           *)
(*                                                                         *)
(* Contents are versions, numbered as they are made; the ETag of an object *)
(* is its version.  One action is one access to S3, to the cached file or  *)
(* to its ETag sidecar.                                                    *)
(***************************************************************************)
EXTENDS Naturals, FiniteSets

CONSTANTS
    Threads,     \* the threads that use the backend
    Processes,
    Disks,       \* cache directories
    ProcessOf,   \* the process of each thread
    DiskOf,      \* the cache directory of each process
    Savers,      \* the threads that also save (the retraining workers)
    MaxVersion,  \* bound on the versions made
    Null

ASSUME StorageAssumption ==
    /\ ProcessOf \in [Threads -> Processes]
    /\ DiskOf \in [Processes -> Disks]
    /\ Savers \subseteq Threads
    /\ MaxVersion \in Nat \ {0}
    /\ Null \notin Nat \cup Threads

VARIABLES
    object,     \* the version S3 holds
    made,       \* the last version made
    rank,       \* in which order S3 has stored the versions; 0 for never
    file,       \* the version in each cached file, or Null
    etag,       \* the version in each ETag sidecar, or Null
    lock,       \* the thread that holds the key lock of each process
    at,         \* where each thread is
    saving,     \* the version each thread saves, Null if it warms the cache
    headed,     \* the ETag each thread has read: cached, then from head_object
    bytes,      \* what each thread has downloaded
    since,      \* what S3 held when each thread called warm_cache
    blind,      \* the threads that took the cache for valid without S3
    opened,     \* what each thread read through the cache
    crossed       \* the disks on which calls have got in each other's way

store == <<object, made, rank>>
disk == <<file, etag>>
local == <<saving, headed, bytes, since, blind, opened>>
storageVars == <<store, disk, lock, at, local, crossed>>

D(t) == DiskOf[ProcessOf[t]]

Versions == 1..MaxVersion

StorageTypeOK ==
    /\ object \in Versions
    /\ made \in Versions
    /\ rank \in [Versions -> Nat]
    /\ file \in [Disks -> Versions \cup {Null}]
    /\ etag \in [Disks -> Versions \cup {Null}]
    /\ lock \in [Processes -> Threads \cup {Null}]
    /\ at \in [Threads -> {"idle", "lock", "sidecar", "validate", "head", "get",
                           "replace", "write", "put", "etag", "read", "done"}]
    /\ saving \in [Threads -> Versions \cup {Null}]
    /\ headed \in [Threads -> Versions \cup {Null}]
    /\ bytes \in [Threads -> Versions \cup {Null}]
    /\ since \in [Threads -> Versions \cup {Null}]
    /\ blind \subseteq Threads
    /\ opened \in [Threads -> Versions \cup {Null}]
    /\ crossed \subseteq Disks

StorageInit ==
    /\ object = 1
    /\ made = 1
    /\ rank = [v \in Versions |-> IF v = 1 THEN 1 ELSE 0]
    /\ file = [d \in Disks |-> Null]
    /\ etag = [d \in Disks |-> Null]
    /\ lock = [p \in Processes |-> Null]
    /\ at = [t \in Threads |-> "idle"]
    /\ saving = [t \in Threads |-> Null]
    /\ headed = [t \in Threads |-> Null]
    /\ bytes = [t \in Threads |-> Null]
    /\ since = [t \in Threads |-> Null]
    /\ blind = {}
    /\ opened = [t \in Threads |-> Null]
    /\ crossed = {}

----------------------------------------------------------------------------
(* Leaving an operation *)

Goto(t, l) == at' = [at EXCEPT ![t] = l]

\* The thread forgets everything about its call.
Forget(t) ==
    /\ saving' = [saving EXCEPT ![t] = Null]
    /\ headed' = [headed EXCEPT ![t] = Null]
    /\ bytes' = [bytes EXCEPT ![t] = Null]
    /\ since' = [since EXCEPT ![t] = Null]
    /\ blind' = blind \ {t}
    /\ opened' = [opened EXCEPT ![t] = Null]

KeepLock(t) == UNCHANGED lock
Release(t) == lock' = [lock EXCEPT ![ProcessOf[t]] = Null]

\* An exception leaves the with block and reaches the caller.
RaiseToCaller(t) == Goto(t, "idle") /\ Release(t) /\ Forget(t)

----------------------------------------------------------------------------
(* Entering *)

\* warm_cache(key), also by load_model_bytes.
CallWarm(t) ==
    /\ at[t] \in {"idle", "done"}
    /\ Goto(t, "lock")
    /\ since' = [since EXCEPT ![t] = object]
    /\ opened' = [opened EXCEPT ![t] = Null]
    /\ blind' = blind \ {t}
    /\ UNCHANGED <<store, disk, lock, saving, headed, bytes, crossed>>

\* save_model_bytes(key, data), data being a new version.
CallSave(t) ==
    /\ t \in Savers
    /\ at[t] \in {"idle", "done"}
    /\ made < MaxVersion
    /\ made' = made + 1
    /\ saving' = [saving EXCEPT ![t] = made + 1]
    /\ since' = [since EXCEPT ![t] = Null]
    /\ opened' = [opened EXCEPT ![t] = Null]
    /\ blind' = blind \ {t}
    /\ Goto(t, "lock")
    /\ UNCHANGED <<object, rank, disk, lock, headed, bytes, crossed>>

\* Take the process's lock for the key.  The lock means nothing to the other
\* processes that use the disk.
Overlap(t) == \E p \in Processes \ {ProcessOf[t]} : DiskOf[p] = D(t) /\ lock[p] # Null

Lock(t) ==
    /\ at[t] = "lock"
    /\ lock[ProcessOf[t]] = Null
    /\ lock' = [lock EXCEPT ![ProcessOf[t]] = t]
    /\ Goto(t, IF saving[t] = Null THEN "sidecar" ELSE "write")
    /\ crossed' = IF Overlap(t) THEN crossed \cup {D(t)} ELSE crossed
    /\ UNCHANGED <<store, disk, local>>

----------------------------------------------------------------------------
(* warm_cache *)

\* The ETag head_object reports for version v, without its quotes.
ETag(v) == v

\* _is_cache_valid: is there a file, and which ETag has its sidecar?
ReadSidecar(t) ==
    /\ at[t] = "sidecar"
    /\ IF file[D(t)] = Null \/ etag[D(t)] = Null
       THEN Goto(t, "head") /\ UNCHANGED headed
       ELSE Goto(t, "validate") /\ headed' = [headed EXCEPT ![t] = etag[D(t)]]
    /\ UNCHANGED <<store, disk, lock, saving, bytes, since, blind, opened, crossed>>

\* _is_cache_valid: compare with the ETag in S3; a cache S3 cannot be asked
\* about is valid.
AlwaysMatches(t) == TRUE
Matches(t) == headed[t] = ETag(object)

Validate(t) ==
    /\ at[t] = "validate"
    /\ \/ Matches(t) /\ Goto(t, "read") /\ Release(t) /\ UNCHANGED blind
       \/ ~Matches(t) /\ Goto(t, "head") /\ UNCHANGED <<lock, blind>>
       \/ Goto(t, "read") /\ Release(t) /\ blind' = blind \cup {t}
    /\ headed' = [headed EXCEPT ![t] = Null]
    /\ UNCHANGED <<store, disk, saving, bytes, since, opened, crossed>>

\* _get_s3_etag: the version in S3, or Null if head_object fails.
HeadObject(t) ==
    /\ at[t] = "head"
    /\ \E v \in {ETag(object), Null} : headed' = [headed EXCEPT ![t] = v]
    /\ Goto(t, IF saving[t] = Null THEN "get" ELSE "etag")
    /\ UNCHANGED <<store, disk, lock, saving, bytes, since, blind, opened, crossed>>

\* _download_to_cache: the object goes to a temporary file, or the download
\* fails.
Get(t) ==
    /\ at[t] = "get"
    /\ \/ /\ bytes' = [bytes EXCEPT ![t] = object]
          /\ Goto(t, "replace")
          /\ UNCHANGED <<lock, saving, headed, since, blind, opened>>
       \/ RaiseToCaller(t)
    /\ UNCHANGED <<store, disk, crossed>>

\* _download_to_cache: the temporary file takes the place of the cached one.
Replace(t) ==
    /\ at[t] = "replace"
    /\ file' = [file EXCEPT ![D(t)] = bytes[t]]
    /\ bytes' = [bytes EXCEPT ![t] = Null]
    /\ Goto(t, "etag")
    /\ UNCHANGED <<store, etag, lock, saving, headed, since, blind, opened, crossed>>

----------------------------------------------------------------------------
(* save_model_bytes *)

\* The new version takes the place of the cached file.
WriteLocal(t) ==
    /\ at[t] = "write"
    /\ file' = [file EXCEPT ![D(t)] = saving[t]]
    /\ Goto(t, "put")
    /\ UNCHANGED <<store, etag, lock, local, crossed>>

\* put_object, which may fail, also after S3 has stored the object.
Stored(v) ==
    /\ object' = v
    /\ rank' = [rank EXCEPT ![v] = rank[object] + 1]

Put(t) ==
    /\ at[t] = "put"
    /\ \/ Stored(saving[t]) /\ Goto(t, "head") /\ UNCHANGED <<lock, local>>
       \/ Stored(saving[t]) /\ RaiseToCaller(t)
       \/ UNCHANGED <<object, rank>> /\ RaiseToCaller(t)
    /\ UNCHANGED <<made, disk, crossed>>

----------------------------------------------------------------------------
(* Both *)

\* The ETag read from S3, if any, goes into the sidecar.  After a save that may
\* be the ETag of what another disk's saver has stored since.
OthersETag(t) == saving[t] # Null /\ headed[t] \notin {saving[t], Null}
SidecarOfNow(t) == object
NewSidecar(t) == IF headed[t] = Null THEN etag[D(t)] ELSE headed[t]

WriteSidecar(t) ==
    /\ at[t] = "etag"
    /\ etag' = [etag EXCEPT ![D(t)] = NewSidecar(t)]
    /\ headed' = [headed EXCEPT ![t] = Null]
    /\ Goto(t, IF saving[t] = Null THEN "read" ELSE "idle")
    /\ saving' = [saving EXCEPT ![t] = Null]
    /\ Release(t)
    /\ crossed' = IF OthersETag(t) THEN crossed \cup {D(t)} ELSE crossed
    /\ UNCHANGED <<store, file, bytes, since, blind, opened>>

\* The caller opens the path warm_cache returned, without the lock.
Read(t) ==
    /\ at[t] = "read"
    /\ opened' = [opened EXCEPT ![t] = file[D(t)]]
    /\ Goto(t, "done")
    /\ UNCHANGED <<store, disk, lock, saving, headed, bytes, since, blind, crossed>>

\* A process dies; the cache directory stays.
Crash(p) ==
    LET mine == {t \in Threads : ProcessOf[t] = p}
        lost(f) == [t \in Threads |-> IF t \in mine THEN Null ELSE f[t]]
    IN /\ at' = [t \in Threads |-> IF t \in mine THEN "idle" ELSE at[t]]
       /\ lock' = [lock EXCEPT ![p] = Null]
       /\ saving' = lost(saving) /\ headed' = lost(headed)
       /\ bytes' = lost(bytes) /\ since' = lost(since) /\ opened' = lost(opened)
       /\ blind' = blind \ mine
       /\ UNCHANGED <<store, disk, crossed>>

----------------------------------------------------------------------------

\* A call goes on.
Step(t) ==
    \/ Lock(t)
    \/ ReadSidecar(t)
    \/ Validate(t)
    \/ HeadObject(t)
    \/ Get(t)
    \/ Replace(t)
    \/ WriteLocal(t)
    \/ Put(t)
    \/ WriteSidecar(t)
    \/ Read(t)

StorageNext ==
    \/ \E t \in Threads : CallWarm(t) \/ CallSave(t) \/ Step(t)
    \/ \E p \in Processes : Crash(p)

StorageSpec == StorageInit /\ [][StorageNext]_storageVars

----------------------------------------------------------------------------
(* Properties *)

\* No call on disk d is under way.
Quiet(d) == \A p \in Processes : DiskOf[p] = d => lock[p] = Null

\* The versions S3 has held.  Weights whose upload failed are not among them.
Published == {v \in Versions : rank[v] > 0}

\* A cached file whose sidecar names the object in S3 is that object, apart
\* from weights whose upload failed: the ETag comparison of _is_cache_valid
\* never takes an old file for the current one.  This is what the code says of
\* itself; it does not hold when processes share a directory, nor when two
\* workers save.
ValidMeansCurrent ==
    \A d \in Disks :
        /\ Quiet(d)
        /\ file[d] \in Published
        /\ etag[d] = object
        => file[d] = object

\* The same, at any time, for the disks on which no two processes have been
\* inside the code at once and no save has noted the ETag of another's object:
\* nothing else - downloads beside a save, failing uploads, crashes between the
\* file and its sidecar - makes an old file valid.
ValidUnlessCrossed ==
    \A d \in Disks \ crossed :
        file[d] \in Published /\ etag[d] = object => file[d] = object

\* On such a disk, a thread that could ask S3 reads weights that S3 did not
\* store before those it held when the thread called warm_cache, whoever
\* saves, downloads or crashes meanwhile.
WarmIsFresh ==
    \A t \in Threads :
        at[t] = "done" /\ t \notin blind /\ D(t) \notin crossed /\ opened[t] \in Published =>
            rank[opened[t]] >= rank[since[t]]

\* The lock of a key is held by the thread that is inside the with block and
\* by nobody when there is none: each way out gives it back, whichever request
\* to S3 fails, so that no thread waits for a lock that nobody holds.
Inside == {"sidecar", "validate", "head", "get", "replace", "write", "put", "etag"}
LockHeldInside == \A t \in Threads : at[t] \in Inside <=> lock[ProcessOf[t]] = t
============================================================================
