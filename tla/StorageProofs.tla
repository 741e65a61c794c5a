---------------------------- MODULE StorageProofs ----------------------------
(***************************************************************************)
(* Proofs about the two storage backends.                                  *)
(*                                                                         *)
(* S3Storage: a valid cache is a current one, and what a thread reads is   *)
(* no older than what S3 held when it asked, for any number of threads,    *)
(* processes, disks, savers and versions, whatever crashes or fails - on   *)
(* every disk that has not seen one of two things, which the code does     *)
(* nothing to prevent: two processes inside the with block at once, and a  *)
(* save that notes the ETag of another's object.  StorageShared and        *)
(* StorageSavers are what either of them leads to.                         *)
(*                                                                         *)
(* LocalStorage: the fixed name of the temporary file is harmless as long  *)
(* as no two saves of the key overlap, whatever dies on the way.           *)
(***************************************************************************)
EXTENDS S3Storage, LocalStorage, TLAPS

-----------------------------------------------------------------------------
(* The invariant of the S3 storage.                                        *)

\* Before a disk is marked, one process at most is inside.
AloneInv ==
  \A p, q \in Processes :
    DiskOf[p] = DiskOf[q] /\ DiskOf[p] \notin crossed /\ lock[p] # Null /\ lock[q] # Null => p = q

\* What the thread is doing tells which of its variables are set.
CallInv ==
  \A t \in Threads :
    /\ at[t] \in {"idle", "sidecar", "validate", "get", "replace", "read", "done"} =>
         saving[t] = Null
    /\ at[t] \in {"write", "put"} => saving[t] # Null
    /\ at[t] # "idle" /\ saving[t] = Null => since[t] # Null

Held(v) == v # Null /\ rank[v] > 0

\* S3 holds what it stored last, and stored nothing twice; ETags are of objects
\* it has held; each save is of a version of its own, which S3 has held from
\* its put_object on.
VersionInv ==
  /\ Held(object) /\ \A v \in Versions : rank[v] <= rank[object]
  /\ \A v, w \in Versions : rank[v] > 0 /\ rank[v] = rank[w] => v = w
  /\ \A v \in Versions : v > made => rank[v] = 0
  /\ \A d \in Disks : etag[d] # Null => Held(etag[d])
  /\ \A t \in Threads :
       /\ headed[t] # Null => Held(headed[t])
       /\ since[t] # Null => Held(since[t])
       /\ saving[t] # Null =>
            /\ saving[t] <= made
            /\ at[t] \in {"lock", "write", "put"} => rank[saving[t]] = 0
            /\ at[t] \in {"head", "etag"} => Held(saving[t])
            /\ \A s \in Threads \ {t} : saving[s] # saving[t]

\* Weights w were not stored before version v.  Weights that S3 never got are
\* nobody's business here.
NoOlder(v, w) == v # Null /\ Held(w) => rank[v] <= rank[w]

\* A cached file is never older than its sidecar says, nor than what a thread
\* on its way to write the sidecar is going to say.
DiskInv ==
  /\ \A d \in Disks \ crossed : NoOlder(etag[d], file[d])
  /\ \A t \in Threads : D(t) \notin crossed =>
       /\ at[t] = "validate" => headed[t] = etag[D(t)] /\ headed[t] # Null
       /\ at[t] = "replace" => /\ Held(bytes[t])
                               /\ NoOlder(etag[D(t)], bytes[t])
                               /\ NoOlder(headed[t], bytes[t])
                               /\ NoOlder(since[t], bytes[t])
       /\ at[t] \in {"put", "head", "etag"} /\ saving[t] # Null => file[D(t)] = saving[t]
       /\ at[t] = "etag" /\ saving[t] = Null => /\ NoOlder(headed[t], file[D(t)])
                                               /\ NoOlder(since[t], file[D(t)])

\* A thread that has left the lock and is about to open the file may still see
\* it replaced, but not by anything older than what it was promised.
FreshInv ==
  \A t \in Threads \ blind : D(t) \notin crossed =>
    /\ at[t] = "read" =>
         /\ NoOlder(since[t], file[D(t)])
         /\ \A u \in Threads : at[u] = "replace" /\ D(u) = D(t) => NoOlder(since[t], bytes[u])
    /\ at[t] = "done" => NoOlder(since[t], opened[t])

StorageInv ==
  /\ StorageTypeOK /\ LockHeldInside /\ AloneInv /\ CallInv
  /\ VersionInv /\ DiskInv /\ FreshInv

LEMMA StorageInitInv == StorageInit => StorageInv
BY StorageAssumption DEF StorageInit, StorageInv, StorageTypeOK, Versions, LockHeldInside, Inside,
                         AloneInv, CallInv, VersionInv, Held, NoOlder, DiskInv, FreshInv

-----------------------------------------------------------------------------
(* Operators.                                                              *)

LEMMA DiskOfType == \A t \in Threads : ProcessOf[t] \in Processes /\ D(t) \in Disks
BY StorageAssumption DEF D

\* Before a disk is marked, one thread at most is inside a with block for it.
LEMMA OneInside ==
  ASSUME LockHeldInside, AloneInv, NEW t \in Threads, NEW u \in Threads, D(t) = D(u), D(t) \notin crossed,
         at[t] \in Inside, at[u] \in Inside
  PROVE  t = u
<1>1. lock[ProcessOf[t]] = t /\ lock[ProcessOf[u]] = u
  BY DEF LockHeldInside
<1>2. t # Null /\ u # Null
  BY StorageAssumption
<1>3. ProcessOf[t] = ProcessOf[u]
  BY <1>1, <1>2, DiskOfType DEF AloneInv, D
<1> QED BY <1>1, <1>3

\* Storing one more version leaves older versions older.
LEMMA NoOlderStored ==
  ASSUME StorageTypeOK, VersionInv, NEW s \in Versions, rank[s] = 0, Stored(s),
         NEW v \in Versions \cup {Null}, NEW w \in Versions \cup {Null}, v # Null => Held(v), NoOlder(v, w)
  PROVE  v # Null /\ w # Null /\ rank'[w] > 0 => rank'[v] <= rank'[w]
<1> SUFFICES ASSUME v # Null, w # Null, rank'[w] > 0 PROVE rank'[v] <= rank'[w]
  OBVIOUS
<1>1. /\ rank \in [Versions -> Nat] /\ object \in Versions /\ v \in Versions /\ w \in Versions
      /\ rank' = [rank EXCEPT ![s] = rank[object] + 1]
      /\ rank[v] <= rank[object] /\ rank[v] > 0
  BY DEF StorageTypeOK, VersionInv, Held, Stored
<1>2. v # s /\ rank'[v] = rank[v]
  BY <1>1
<1>3. CASE w = s
  BY <1>1, <1>2, <1>3
<1>4. CASE w # s
  BY <1>1, <1>2, <1>4 DEF NoOlder, Held
<1> QED BY <1>3, <1>4

-----------------------------------------------------------------------------
(* The steps.                                                              *)

LEMMA StorageTypeStep ==
  ASSUME StorageTypeOK, CallInv, [StorageNext]_storageVars
  PROVE  StorageTypeOK'
<1> USE StorageAssumption, DiskOfType DEF StorageTypeOK, CallInv, Versions
<1>1. ASSUME NEW t \in Threads, CallWarm(t) PROVE StorageTypeOK'
  BY <1>1 DEF CallWarm, Goto, store, disk, local
<1>2. ASSUME NEW t \in Threads, CallSave(t) PROVE StorageTypeOK'
  BY <1>2 DEF CallSave, Goto, store, disk, local
<1>3. ASSUME NEW t \in Threads, Lock(t) PROVE StorageTypeOK'
  BY <1>3 DEF Lock, Goto, store, disk, local
<1>4. ASSUME NEW t \in Threads, ReadSidecar(t) PROVE StorageTypeOK'
  BY <1>4 DEF ReadSidecar, Goto, store, disk, local
<1>5. ASSUME NEW t \in Threads, Validate(t) PROVE StorageTypeOK'
  BY <1>5 DEF Validate, Goto, Release, store, disk, local
<1>6. ASSUME NEW t \in Threads, HeadObject(t) PROVE StorageTypeOK'
  BY <1>6 DEF HeadObject, Goto, ETag, store, disk, local
<1>7. ASSUME NEW t \in Threads, Get(t) PROVE StorageTypeOK'
  <2>1. CASE /\ bytes' = [bytes EXCEPT ![t] = object] /\ Goto(t, "replace")
             /\ UNCHANGED <<lock, saving, headed, since, blind, opened>>
    BY <1>7, <2>1 DEF Get, Goto, store, disk
  <2>2. CASE RaiseToCaller(t)
    BY <1>7, <2>2 DEF Get, Goto, RaiseToCaller, Release, Forget, store, disk
  <2> QED BY <1>7, <2>1, <2>2 DEF Get
<1>8. ASSUME NEW t \in Threads, Replace(t) PROVE StorageTypeOK'
  BY <1>8 DEF Replace, Goto, store, disk, local
<1>9. ASSUME NEW t \in Threads, WriteLocal(t) PROVE StorageTypeOK'
  BY <1>9 DEF WriteLocal, Goto, store, disk, local
<1>10. ASSUME NEW t \in Threads, Put(t) PROVE StorageTypeOK'
  <2>1. saving[t] \in Versions /\ rank[object] + 1 \in Nat
    BY <1>10 DEF Put
  <2>2. ASSUME Stored(saving[t])
        PROVE  object' \in Versions /\ rank' \in [Versions -> Nat]
    <3> HIDE DEF Versions
    <3> QED BY <2>1, <2>2 DEF Stored
  <2>3. CASE Stored(saving[t]) /\ Goto(t, "head") /\ UNCHANGED <<lock, local>>
    BY <1>10, <2>2, <2>3 DEF Put, Goto, disk, local
  <2>4. CASE Stored(saving[t]) /\ RaiseToCaller(t)
    BY <1>10, <2>2, <2>4 DEF Put, Goto, RaiseToCaller, Release, Forget, disk
  <2>5. CASE UNCHANGED <<object, rank>> /\ RaiseToCaller(t)
    BY <1>10, <2>5 DEF Put, Goto, RaiseToCaller, Release, Forget, disk
  <2> QED BY <1>10, <2>3, <2>4, <2>5 DEF Put
<1>11. ASSUME NEW t \in Threads, WriteSidecar(t) PROVE StorageTypeOK'
  BY <1>11 DEF WriteSidecar, Goto, Release, NewSidecar, store, disk, local
<1>12. ASSUME NEW t \in Threads, Read(t) PROVE StorageTypeOK'
  BY <1>12 DEF Read, Goto, store, disk, local
<1>13. ASSUME NEW p \in Processes, Crash(p) PROVE StorageTypeOK'
  BY <1>13 DEF Crash, store, disk, local
<1>14. CASE UNCHANGED storageVars
  BY <1>14 DEF storageVars, store, disk, local
<1> QED BY <1>1, <1>2, <1>3, <1>4, <1>5, <1>6, <1>7, <1>8, <1>9, <1>10, <1>11, <1>12, <1>13, <1>14 DEF StorageNext, Step

LEMMA LockStep ==
  ASSUME StorageTypeOK, LockHeldInside, [StorageNext]_storageVars
  PROVE  LockHeldInside'
<1> USE StorageAssumption, DiskOfType DEF StorageTypeOK, LockHeldInside, Inside
<1>1. ASSUME NEW t \in Threads, CallWarm(t) PROVE LockHeldInside'
  BY <1>1 DEF CallWarm, Goto, store, disk, local
<1>2. ASSUME NEW t \in Threads, CallSave(t) PROVE LockHeldInside'
  BY <1>2 DEF CallSave, Goto, store, disk, local
<1>3. ASSUME NEW t \in Threads, Lock(t) PROVE LockHeldInside'
  BY <1>3 DEF Lock, Goto, store, disk, local
<1>4. ASSUME NEW t \in Threads, ReadSidecar(t) PROVE LockHeldInside'
  BY <1>4 DEF ReadSidecar, Goto, store, disk, local
<1>5. ASSUME NEW t \in Threads, Validate(t) PROVE LockHeldInside'
  BY <1>5 DEF Validate, Goto, Release, store, disk, local
<1>6. ASSUME NEW t \in Threads, HeadObject(t) PROVE LockHeldInside'
  BY <1>6 DEF HeadObject, Goto, ETag, store, disk, local
<1>7. ASSUME NEW t \in Threads, Get(t) PROVE LockHeldInside'
  BY <1>7 DEF Get, Goto, RaiseToCaller, Release, Forget, store, disk, local
<1>8. ASSUME NEW t \in Threads, Replace(t) PROVE LockHeldInside'
  BY <1>8 DEF Replace, Goto, store, disk, local
<1>9. ASSUME NEW t \in Threads, WriteLocal(t) PROVE LockHeldInside'
  BY <1>9 DEF WriteLocal, Goto, store, disk, local
<1>10. ASSUME NEW t \in Threads, Put(t) PROVE LockHeldInside'
  BY <1>10 DEF Put, Goto, RaiseToCaller, Release, Forget, Stored, store, disk, local
<1>11. ASSUME NEW t \in Threads, WriteSidecar(t) PROVE LockHeldInside'
  BY <1>11 DEF WriteSidecar, Goto, Release, NewSidecar, store, disk, local
<1>12. ASSUME NEW t \in Threads, Read(t) PROVE LockHeldInside'
  BY <1>12 DEF Read, Goto, store, disk, local
<1>13. ASSUME NEW p \in Processes, Crash(p) PROVE LockHeldInside'
  BY <1>13 DEF Crash, store, disk, local
<1>14. CASE UNCHANGED storageVars
  BY <1>14 DEF storageVars, store, disk, local
<1> QED BY <1>1, <1>2, <1>3, <1>4, <1>5, <1>6, <1>7, <1>8, <1>9, <1>10, <1>11, <1>12, <1>13, <1>14 DEF StorageNext, Step

LEMMA AloneStep ==
  ASSUME StorageTypeOK, AloneInv, [StorageNext]_storageVars
  PROVE  AloneInv'
<1> USE StorageAssumption, DiskOfType DEF StorageTypeOK, AloneInv
<1>1. ASSUME NEW t \in Threads, CallWarm(t) PROVE AloneInv'
  BY <1>1 DEF CallWarm, Goto, store, disk, local
<1>2. ASSUME NEW t \in Threads, CallSave(t) PROVE AloneInv'
  BY <1>2 DEF CallSave, Goto, store, disk, local
<1>3. ASSUME NEW t \in Threads, Lock(t) PROVE AloneInv'
  BY <1>3 DEF Lock, Goto, Overlap, D, store, disk, local
<1>4. ASSUME NEW t \in Threads, ReadSidecar(t) PROVE AloneInv'
  BY <1>4 DEF ReadSidecar, Goto, store, disk, local
<1>5. ASSUME NEW t \in Threads, Validate(t) PROVE AloneInv'
  BY <1>5 DEF Validate, Goto, Release, store, disk, local
<1>6. ASSUME NEW t \in Threads, HeadObject(t) PROVE AloneInv'
  BY <1>6 DEF HeadObject, Goto, ETag, store, disk, local
<1>7. ASSUME NEW t \in Threads, Get(t) PROVE AloneInv'
  BY <1>7 DEF Get, Goto, RaiseToCaller, Release, Forget, store, disk, local
<1>8. ASSUME NEW t \in Threads, Replace(t) PROVE AloneInv'
  BY <1>8 DEF Replace, Goto, store, disk, local
<1>9. ASSUME NEW t \in Threads, WriteLocal(t) PROVE AloneInv'
  BY <1>9 DEF WriteLocal, Goto, store, disk, local
<1>10. ASSUME NEW t \in Threads, Put(t) PROVE AloneInv'
  BY <1>10 DEF Put, Goto, RaiseToCaller, Release, Forget, Stored, store, disk, local
<1>11. ASSUME NEW t \in Threads, WriteSidecar(t) PROVE AloneInv'
  BY <1>11 DEF WriteSidecar, Goto, Release, NewSidecar, store, disk, local
<1>12. ASSUME NEW t \in Threads, Read(t) PROVE AloneInv'
  BY <1>12 DEF Read, Goto, store, disk, local
<1>13. ASSUME NEW p \in Processes, Crash(p) PROVE AloneInv'
  BY <1>13 DEF Crash, store, disk, local
<1>14. CASE UNCHANGED storageVars
  BY <1>14 DEF storageVars, store, disk, local
<1> QED BY <1>1, <1>2, <1>3, <1>4, <1>5, <1>6, <1>7, <1>8, <1>9, <1>10, <1>11, <1>12, <1>13, <1>14 DEF StorageNext, Step

LEMMA CallStep ==
  ASSUME StorageTypeOK, CallInv, [StorageNext]_storageVars
  PROVE  CallInv'
<1> USE StorageAssumption, DiskOfType DEF StorageTypeOK, CallInv, Versions
<1>1. ASSUME NEW t \in Threads, CallWarm(t) PROVE CallInv'
  BY <1>1 DEF CallWarm, Goto, store, disk, local
<1>2. ASSUME NEW t \in Threads, CallSave(t) PROVE CallInv'
  BY <1>2 DEF CallSave, Goto, store, disk, local
<1>3. ASSUME NEW t \in Threads, Lock(t) PROVE CallInv'
  BY <1>3 DEF Lock, Goto, store, disk, local
<1>4. ASSUME NEW t \in Threads, ReadSidecar(t) PROVE CallInv'
  BY <1>4 DEF ReadSidecar, Goto, store, disk, local
<1>5. ASSUME NEW t \in Threads, Validate(t) PROVE CallInv'
  BY <1>5 DEF Validate, Goto, Release, store, disk, local
<1>6. ASSUME NEW t \in Threads, HeadObject(t) PROVE CallInv'
  BY <1>6 DEF HeadObject, Goto, ETag, store, disk, local
<1>7. ASSUME NEW t \in Threads, Get(t) PROVE CallInv'
  BY <1>7 DEF Get, Goto, RaiseToCaller, Release, Forget, store, disk, local
<1>8. ASSUME NEW t \in Threads, Replace(t) PROVE CallInv'
  BY <1>8 DEF Replace, Goto, store, disk, local
<1>9. ASSUME NEW t \in Threads, WriteLocal(t) PROVE CallInv'
  BY <1>9 DEF WriteLocal, Goto, store, disk, local
<1>10. ASSUME NEW t \in Threads, Put(t) PROVE CallInv'
  BY <1>10 DEF Put, Goto, RaiseToCaller, Release, Forget, Stored, store, disk, local
<1>11. ASSUME NEW t \in Threads, WriteSidecar(t) PROVE CallInv'
  BY <1>11 DEF WriteSidecar, Goto, Release, NewSidecar, store, disk, local
<1>12. ASSUME NEW t \in Threads, Read(t) PROVE CallInv'
  BY <1>12 DEF Read, Goto, store, disk, local
<1>13. ASSUME NEW p \in Processes, Crash(p) PROVE CallInv'
  BY <1>13 DEF Crash, store, disk, local
<1>14. CASE UNCHANGED storageVars
  BY <1>14 DEF storageVars, store, disk, local
<1> QED BY <1>1, <1>2, <1>3, <1>4, <1>5, <1>6, <1>7, <1>8, <1>9, <1>10, <1>11, <1>12, <1>13, <1>14 DEF StorageNext, Step

LEMMA VersionStep ==
  ASSUME StorageTypeOK, CallInv, VersionInv, [StorageNext]_storageVars
  PROVE  VersionInv'
<1> USE StorageAssumption, DiskOfType DEF StorageTypeOK, CallInv, VersionInv, Held, Versions
<1>1. ASSUME NEW t \in Threads, CallWarm(t) PROVE VersionInv'
  BY <1>1 DEF CallWarm, Goto, store, disk, local
<1>2. ASSUME NEW t \in Threads, CallSave(t) PROVE VersionInv'
  BY <1>2 DEF CallSave, Goto, store, disk, local
<1>3. ASSUME NEW t \in Threads, Lock(t) PROVE VersionInv'
  BY <1>3 DEF Lock, Goto, store, disk, local
<1>4. ASSUME NEW t \in Threads, ReadSidecar(t) PROVE VersionInv'
  BY <1>4 DEF ReadSidecar, Goto, store, disk, local
<1>5. ASSUME NEW t \in Threads, Validate(t) PROVE VersionInv'
  BY <1>5 DEF Validate, Goto, Release, store, disk, local
<1>6. ASSUME NEW t \in Threads, HeadObject(t) PROVE VersionInv'
  BY <1>6 DEF HeadObject, Goto, ETag, store, disk, local
<1>7. ASSUME NEW t \in Threads, Get(t) PROVE VersionInv'
  BY <1>7 DEF Get, Goto, RaiseToCaller, Release, Forget, store, disk, local
<1>8. ASSUME NEW t \in Threads, Replace(t) PROVE VersionInv'
  BY <1>8 DEF Replace, Goto, store, disk, local
<1>9. ASSUME NEW t \in Threads, WriteLocal(t) PROVE VersionInv'
  BY <1>9 DEF WriteLocal, Goto, store, disk, local
<1>10. ASSUME NEW t \in Threads, Put(t) PROVE VersionInv'
  <2> DEFINE s == saving[t]
  <2>1. /\ s \in Versions /\ s # Null /\ rank[s] = 0 /\ s <= made /\ at[t] = "put"
        /\ UNCHANGED <<made, disk, crossed>>
    BY <1>10 DEF Put, disk
  <2>2. ASSUME Stored(s)
        PROVE  /\ object' = s /\ rank'[s] = rank[object] + 1 /\ rank'[s] \in Nat
               /\ \A v \in Versions \ {s} : rank'[v] = rank[v] /\ rank'[v] < rank'[s]
    <3> HIDE DEF Versions, s
    <3> QED BY <2>1, <2>2 DEF Stored
  <2>3. CASE Stored(s)
    <3>3. \A v \in Versions : Held(v) => rank'[v] > 0
      BY <2>1, <2>2, <2>3
    <3>1. /\ (Held(object) /\ \A v \in Versions : rank[v] <= rank[object])'
          /\ (\A v, w \in Versions : rank[v] > 0 /\ rank[v] = rank[w] => v = w)'
          /\ (\A v \in Versions : v > made => rank[v] = 0)'
      <4>1. rank[object] \in Nat /\ \A v \in Versions : rank[v] \in Nat
        OBVIOUS
      <4>2. (Held(object) /\ \A v \in Versions : rank[v] <= rank[object])'
        <5> HIDE DEF Versions, s
        <5> QED BY <2>1, <2>2, <2>3, <4>1
      <4>3. ASSUME NEW v \in Versions, NEW w \in Versions, rank'[v] > 0, rank'[v] = rank'[w] PROVE v = w
        <5> HIDE DEF Versions, s
        <5> QED BY <2>1, <2>2, <2>3, <4>1, <4>3
      <4>4. ASSUME NEW v \in Versions, v > made' PROVE rank'[v] = 0
        <5>1. v # s /\ rank[v] = 0
          BY <2>1, <4>4
        <5> QED BY <2>2, <2>3, <5>1
      <4> QED BY <4>2, <4>3, <4>4
    <3>2. (\A d \in Disks : etag[d] # Null => Held(etag[d]))'
      BY <2>1, <3>3 DEF disk
    <3>4. CASE Goto(t, "head") /\ UNCHANGED <<lock, local>>
      <4>1. ASSUME NEW u \in Threads
            PROVE  /\ (headed[u] # Null => Held(headed[u]))'
                   /\ (since[u] # Null => Held(since[u]))'
        BY <3>3, <3>4 DEF local
      <4>2. ASSUME NEW u \in Threads, saving'[u] # Null
            PROVE  /\ saving'[u] <= made'
                   /\ at'[u] \in {"lock", "write", "put"} => rank'[saving'[u]] = 0
                   /\ (at[u] \in {"head", "etag"} => Held(saving[u]))'
                   /\ \A r \in Threads \ {u} : saving'[r] # saving'[u]
        <5>1. CASE u = t
          BY <2>1, <2>2, <2>3, <3>4, <5>1 DEF local, Goto
        <5>2. CASE u # t
          <6>1. saving[u] # s /\ saving[u] \in Versions /\ at'[u] = at[u] /\ saving' = saving
            BY <2>1, <3>4, <4>2, <5>2 DEF local, Goto
          <6> QED BY <2>1, <2>2, <2>3, <3>3, <4>2, <6>1
        <5> QED BY <5>1, <5>2
      <4> QED BY <3>1, <3>2, <4>1, <4>2
    <3>5. CASE RaiseToCaller(t)
      <4>1. /\ saving' = [saving EXCEPT ![t] = Null] /\ headed' = [headed EXCEPT ![t] = Null]
            /\ since' = [since EXCEPT ![t] = Null] /\ at' = [at EXCEPT ![t] = "idle"]
        BY <3>5 DEF RaiseToCaller, Goto, Forget
      <4>2. ASSUME NEW u \in Threads
            PROVE  /\ (headed[u] # Null => Held(headed[u]))'
                   /\ (since[u] # Null => Held(since[u]))'
        BY <3>3, <4>1
      <4>3. ASSUME NEW u \in Threads, saving'[u] # Null
            PROVE  /\ saving'[u] <= made'
                   /\ at'[u] \in {"lock", "write", "put"} => rank'[saving'[u]] = 0
                   /\ (at[u] \in {"head", "etag"} => Held(saving[u]))'
                   /\ \A r \in Threads \ {u} : saving'[r] # saving'[u]
        <5>1. u # t /\ saving'[u] = saving[u] /\ at'[u] = at[u] /\ saving[u] # s /\ saving[u] \in Versions
          BY <4>1, <4>3, <2>1
        <5>2. \A r \in Threads \ {u} : saving'[r] # saving'[u]
          BY <4>1, <4>3, <5>1
        <5> QED BY <2>1, <2>2, <2>3, <3>3, <4>3, <5>1, <5>2
      <4> QED BY <3>1, <3>2, <4>2, <4>3
    <3> QED BY <1>10, <2>3, <3>4, <3>5 DEF Put
  <2>4. CASE UNCHANGED <<object, rank>> /\ RaiseToCaller(t)
    BY <1>10, <2>4 DEF Put, Goto, RaiseToCaller, Release, Forget, disk
  <2> QED BY <1>10, <2>3, <2>4 DEF Put
<1>11. ASSUME NEW t \in Threads, WriteSidecar(t) PROVE VersionInv'
  BY <1>11 DEF WriteSidecar, Goto, Release, NewSidecar, store, disk, local
<1>12. ASSUME NEW t \in Threads, Read(t) PROVE VersionInv'
  BY <1>12 DEF Read, Goto, store, disk, local
<1>13. ASSUME NEW p \in Processes, Crash(p) PROVE VersionInv'
  BY <1>13 DEF Crash, store, disk, local
<1>14. CASE UNCHANGED storageVars
  BY <1>14 DEF storageVars, store, disk, local
<1> QED BY <1>1, <1>2, <1>3, <1>4, <1>5, <1>6, <1>7, <1>8, <1>9, <1>10, <1>11, <1>12, <1>13, <1>14 DEF StorageNext, Step

LEMMA DiskStep ==
  ASSUME StorageTypeOK, LockHeldInside, AloneInv, CallInv, VersionInv, DiskInv, [StorageNext]_storageVars
  PROVE  DiskInv'
<1> USE StorageAssumption, DiskOfType, OneInside DEF StorageTypeOK, CallInv, VersionInv, DiskInv,
           NoOlder, Held, Versions, Inside
<1>1. ASSUME NEW t \in Threads, CallWarm(t) PROVE DiskInv'
  BY <1>1 DEF CallWarm, Goto, store, disk, local
<1>2. ASSUME NEW t \in Threads, CallSave(t) PROVE DiskInv'
  BY <1>2 DEF CallSave, Goto, store, disk, local
<1>3. ASSUME NEW t \in Threads, Lock(t) PROVE DiskInv'
  BY <1>3 DEF Lock, Goto, store, disk, local
<1>4. ASSUME NEW t \in Threads, ReadSidecar(t) PROVE DiskInv'
  BY <1>4 DEF ReadSidecar, Goto, store, disk, local
<1>5. ASSUME NEW t \in Threads, Validate(t) PROVE DiskInv'
  BY <1>5 DEF Validate, Goto, Release, store, disk, local
<1>6. ASSUME NEW t \in Threads, HeadObject(t) PROVE DiskInv'
  BY <1>6 DEF HeadObject, Goto, ETag, store, disk, local
<1>7. ASSUME NEW t \in Threads, Get(t) PROVE DiskInv'
  <2>1. CASE /\ bytes' = [bytes EXCEPT ![t] = object] /\ Goto(t, "replace")
             /\ UNCHANGED <<lock, saving, headed, since, blind, opened>>
    BY <1>7, <2>1 DEF Get, Goto, store, disk
  <2>2. CASE RaiseToCaller(t)
    BY <1>7, <2>2 DEF Get, Goto, RaiseToCaller, Release, Forget, store, disk
  <2> QED BY <1>7, <2>1, <2>2 DEF Get
<1>8. ASSUME NEW t \in Threads, Replace(t) PROVE DiskInv'
  <2>1. /\ at[t] = "replace" /\ at' = [at EXCEPT ![t] = "etag"]
        /\ file' = [file EXCEPT ![D(t)] = bytes[t]] /\ bytes' = [bytes EXCEPT ![t] = Null]
        /\ UNCHANGED <<rank, etag, saving, headed, since, crossed>>
    BY <1>8 DEF Replace, Goto, store
  <2>2. ASSUME NEW u \in Threads, u # t, D(u) = D(t), D(t) \notin crossed
        PROVE  at[u] \notin Inside
    BY <2>1, <2>2
  <2>3. ASSUME NEW d \in Disks \ crossed'
        PROVE  NoOlder(etag[d], file[d])'
    <3>1. CASE d = D(t)
      BY <2>1, <2>3, <3>1
    <3>2. CASE d # D(t)
      BY <2>1, <2>3, <3>2
    <3> QED BY <3>1, <3>2
  <2>4. ASSUME NEW u \in Threads, D(u) \notin crossed'
        PROVE  (/\ at[u] = "validate" => headed[u] = etag[D(u)] /\ headed[u] # Null
                /\ at[u] = "replace" => /\ Held(bytes[u])
                                        /\ NoOlder(etag[D(u)], bytes[u])
                                        /\ NoOlder(headed[u], bytes[u])
                                        /\ NoOlder(since[u], bytes[u])
                /\ at[u] \in {"put", "head", "etag"} /\ saving[u] # Null => file[D(u)] = saving[u]
                /\ at[u] = "etag" /\ saving[u] = Null => /\ NoOlder(headed[u], file[D(u)])
                                                        /\ NoOlder(since[u], file[D(u)]))'
    <3>1. D(u)' = D(u) /\ D(u) \in Disks
      BY DEF D
    <3>2. CASE u = t
      BY <2>1, <2>4, <3>1, <3>2
    <3>3. CASE u # t /\ D(u) = D(t)
      BY <2>1, <2>2, <2>4, <3>1, <3>3
    <3>4. CASE u # t /\ D(u) # D(t)
      BY <2>1, <2>4, <3>1, <3>4
    <3> QED BY <3>2, <3>3, <3>4
  <2>5. (\A d \in Disks \ crossed : NoOlder(etag[d], file[d]))'
    BY <2>1, <2>3
  <2> QED BY <2>4, <2>5
<1>9. ASSUME NEW t \in Threads, WriteLocal(t) PROVE DiskInv'
  <2>1. /\ at[t] = "write" /\ at' = [at EXCEPT ![t] = "put"]
        /\ saving[t] # Null /\ rank[saving[t]] = 0 /\ file' = [file EXCEPT ![D(t)] = saving[t]]
        /\ UNCHANGED <<rank, etag, bytes, saving, headed, since, crossed>>
    BY <1>9 DEF WriteLocal, Goto, store, local
  <2>2. ASSUME NEW u \in Threads, u # t, D(u) = D(t), D(t) \notin crossed
        PROVE  at[u] \notin Inside
    BY <2>1, <2>2
  <2>3. ASSUME NEW d \in Disks \ crossed'
        PROVE  NoOlder(etag[d], file[d])'
    <3>1. CASE d = D(t)
      BY <2>1, <2>3, <3>1
    <3>2. CASE d # D(t)
      BY <2>1, <2>3, <3>2
    <3> QED BY <3>1, <3>2
  <2>4. ASSUME NEW u \in Threads, D(u) \notin crossed'
        PROVE  (/\ at[u] = "validate" => headed[u] = etag[D(u)] /\ headed[u] # Null
                /\ at[u] = "replace" => /\ Held(bytes[u])
                                        /\ NoOlder(etag[D(u)], bytes[u])
                                        /\ NoOlder(headed[u], bytes[u])
                                        /\ NoOlder(since[u], bytes[u])
                /\ at[u] \in {"put", "head", "etag"} /\ saving[u] # Null => file[D(u)] = saving[u]
                /\ at[u] = "etag" /\ saving[u] = Null => /\ NoOlder(headed[u], file[D(u)])
                                                        /\ NoOlder(since[u], file[D(u)]))'
    <3>1. D(u)' = D(u) /\ D(u) \in Disks
      BY DEF D
    <3>2. CASE u = t
      BY <2>1, <2>4, <3>1, <3>2
    <3>3. CASE u # t /\ D(u) = D(t)
      BY <2>1, <2>2, <2>4, <3>1, <3>3
    <3>4. CASE u # t /\ D(u) # D(t)
      BY <2>1, <2>4, <3>1, <3>4
    <3> QED BY <3>2, <3>3, <3>4
  <2>5. (\A d \in Disks \ crossed : NoOlder(etag[d], file[d]))'
    BY <2>1, <2>3
  <2> QED BY <2>4, <2>5
<1>10. ASSUME NEW t \in Threads, Put(t) PROVE DiskInv'
  <2> DEFINE s == saving[t]
  <2>1. /\ s \in Versions /\ s # Null /\ rank[s] = 0 /\ at[t] = "put"
        /\ UNCHANGED <<made, file, etag, crossed>>
    BY <1>10 DEF Put, disk
  <2>2. CASE UNCHANGED <<object, rank>> /\ RaiseToCaller(t)
    BY <1>10, <2>2 DEF Put, Goto, RaiseToCaller, Release, Forget, disk
  <2>3. CASE Stored(s)
    <3>1. ASSUME NEW v \in Versions \cup {Null}, NEW w \in Versions \cup {Null}, v # Null => Held(v),
                 NoOlder(v, w)
          PROVE  v # Null /\ w # Null /\ rank'[w] > 0 => rank'[v] <= rank'[w]
      <4> HIDE DEF s, Versions, NoOlder, Held
      <4> QED BY <2>1, <2>3, <3>1, NoOlderStored
    <3>2. \A v \in Versions : Held(v) => rank'[v] > 0
      BY <2>1, <2>3 DEF Stored
    <3>3. ASSUME NEW d \in Disks \ crossed
          PROVE  etag[d] # Null /\ file[d] # Null /\ rank'[file[d]] > 0 => rank'[etag[d]] <= rank'[file[d]]
      <4>1. /\ etag[d] \in Versions \cup {Null} /\ file[d] \in Versions \cup {Null}
            /\ etag[d] # Null => Held(etag[d])
            /\ NoOlder(etag[d], file[d])
        BY <3>3
      <4> HIDE DEF NoOlder, Held, Versions, s, DiskInv, VersionInv, StorageTypeOK
      <4> QED BY <3>1, <4>1
    <3>4. ASSUME NEW u \in Threads, u # t, D(u) \notin crossed
          PROVE  /\ at'[u] = at[u] /\ headed'[u] = headed[u] /\ bytes'[u] = bytes[u]
                 /\ since'[u] = since[u] /\ saving'[u] = saving[u]
      BY <1>10, <2>3, <3>4 DEF Put, RaiseToCaller, Goto, Forget, local
    <3>5. at'[t] \in {"head", "idle"} /\ (at'[t] = "head" => saving'[t] = s)
      BY <1>10, <2>3 DEF Put, RaiseToCaller, Goto, Forget, local
    <3>6. ASSUME NEW u \in Threads, D(u) \notin crossed'
          PROVE  (/\ at[u] = "validate" => headed[u] = etag[D(u)] /\ headed[u] # Null
                  /\ at[u] = "replace" => /\ Held(bytes[u])
                                          /\ NoOlder(etag[D(u)], bytes[u])
                                          /\ NoOlder(headed[u], bytes[u])
                                          /\ NoOlder(since[u], bytes[u])
                  /\ at[u] \in {"put", "head", "etag"} /\ saving[u] # Null => file[D(u)] = saving[u]
                  /\ at[u] = "etag" /\ saving[u] = Null => /\ NoOlder(headed[u], file[D(u)])
                                                          /\ NoOlder(since[u], file[D(u)]))'
      <4>0. D(u) \notin crossed /\ D(u)' = D(u) /\ D(u) \in Disks
        BY <2>1, <3>6 DEF D
      <4>1. CASE u = t
        <5>1. file[D(t)] = s
          BY <2>1, <4>0, <4>1
        <5>2. file'[D(u)'] = s /\ s # Null
          BY <2>1, <4>0, <4>1, <5>1
        <5>3. at'[u] \in {"head", "idle"} /\ (at'[u] = "head" => saving'[u] = s)
          BY <3>5, <4>1
        <5> HIDE DEF s, DiskInv, VersionInv, StorageTypeOK, CallInv
        <5> QED BY <5>2, <5>3
      <4>2. CASE u # t
        <5>1. /\ etag[D(u)] \in Versions \cup {Null} /\ file[D(u)] \in Versions \cup {Null}
              /\ {headed[u], since[u], bytes[u]} \subseteq Versions \cup {Null}
              /\ etag[D(u)] # Null => Held(etag[D(u)])
              /\ headed[u] # Null => Held(headed[u])
              /\ since[u] # Null => Held(since[u])
          BY <4>0
        <5>2. at[u] = "replace" => /\ rank'[bytes[u]] > 0 /\ bytes[u] # Null
                                   /\ etag[D(u)] # Null => rank'[etag[D(u)]] <= rank'[bytes[u]]
                                   /\ headed[u] # Null => rank'[headed[u]] <= rank'[bytes[u]]
                                   /\ since[u] # Null => rank'[since[u]] <= rank'[bytes[u]]
          <6> SUFFICES ASSUME at[u] = "replace"
              PROVE  /\ rank'[bytes[u]] > 0 /\ bytes[u] # Null
                     /\ etag[D(u)] # Null => rank'[etag[D(u)]] <= rank'[bytes[u]]
                     /\ headed[u] # Null => rank'[headed[u]] <= rank'[bytes[u]]
                     /\ since[u] # Null => rank'[since[u]] <= rank'[bytes[u]]
            OBVIOUS
          <6>1. /\ Held(bytes[u]) /\ NoOlder(etag[D(u)], bytes[u])
                /\ NoOlder(headed[u], bytes[u]) /\ NoOlder(since[u], bytes[u])
            BY <4>0
          <6>2. bytes[u] # Null /\ rank'[bytes[u]] > 0
            BY <3>2, <5>1, <6>1
          <6> HIDE DEF NoOlder, Held, Versions, s, DiskInv, VersionInv, StorageTypeOK, CallInv
          <6> QED BY <3>1, <5>1, <6>1, <6>2
        <5>3. at[u] = "etag" /\ saving[u] = Null =>
                 (file[D(u)] # Null /\ rank'[file[D(u)]] > 0 =>
                   /\ headed[u] # Null => rank'[headed[u]] <= rank'[file[D(u)]]
                   /\ since[u] # Null => rank'[since[u]] <= rank'[file[D(u)]])
          <6> SUFFICES ASSUME at[u] = "etag", saving[u] = Null, file[D(u)] # Null, rank'[file[D(u)]] > 0
              PROVE  /\ headed[u] # Null => rank'[headed[u]] <= rank'[file[D(u)]]
                     /\ since[u] # Null => rank'[since[u]] <= rank'[file[D(u)]]
            OBVIOUS
          <6>1. NoOlder(headed[u], file[D(u)]) /\ NoOlder(since[u], file[D(u)])
            BY <4>0
          <6> HIDE DEF NoOlder, Held, Versions, s, DiskInv, VersionInv, StorageTypeOK, CallInv
          <6> QED BY <3>1, <5>1, <6>1
        <5>4. /\ at[u] = "validate" => headed[u] = etag[D(u)] /\ headed[u] # Null
              /\ at[u] \in {"put", "head", "etag"} /\ saving[u] # Null => file[D(u)] = saving[u]
          BY <4>0
        <5>5. /\ at'[u] = at[u] /\ headed'[u] = headed[u] /\ bytes'[u] = bytes[u]
              /\ since'[u] = since[u] /\ saving'[u] = saving[u]
              /\ etag'[D(u)'] = etag[D(u)] /\ file'[D(u)'] = file[D(u)]
          BY <2>1, <3>4, <4>0, <4>2
        <5> QED BY <5>2, <5>3, <5>4, <5>5
      <4> QED BY <4>1, <4>2
    <3>7. (\A d \in Disks \ crossed : NoOlder(etag[d], file[d]))'
      BY <2>1, <3>3
    <3> QED BY <3>6, <3>7
  <2> QED BY <1>10, <2>2, <2>3 DEF Put
<1>11. ASSUME NEW t \in Threads, WriteSidecar(t) PROVE DiskInv'
  BY <1>11 DEF WriteSidecar, Goto, Release, NewSidecar, OthersETag, store, disk, local
<1>12. ASSUME NEW t \in Threads, Read(t) PROVE DiskInv'
  BY <1>12 DEF Read, Goto, store, disk, local
<1>13. ASSUME NEW p \in Processes, Crash(p) PROVE DiskInv'
  BY <1>13 DEF Crash, store, disk, local
<1>14. CASE UNCHANGED storageVars
  BY <1>14 DEF storageVars, store, disk, local
<1> QED BY <1>1, <1>2, <1>3, <1>4, <1>5, <1>6, <1>7, <1>8, <1>9, <1>10, <1>11, <1>12, <1>13, <1>14 DEF StorageNext, Step

LEMMA FreshStep ==
  ASSUME StorageTypeOK, LockHeldInside, AloneInv, CallInv, VersionInv, DiskInv, FreshInv, [StorageNext]_storageVars
  PROVE  FreshInv'
<1> USE StorageAssumption, DiskOfType, OneInside DEF StorageTypeOK, CallInv, VersionInv, DiskInv, FreshInv,
           NoOlder, Held, Versions, Inside
<1>1. ASSUME NEW t \in Threads, CallWarm(t) PROVE FreshInv'
  BY <1>1 DEF CallWarm, Goto, store, disk, local
<1>2. ASSUME NEW t \in Threads, CallSave(t) PROVE FreshInv'
  BY <1>2 DEF CallSave, Goto, store, disk, local
<1>3. ASSUME NEW t \in Threads, Lock(t) PROVE FreshInv'
  BY <1>3 DEF Lock, Goto, store, disk, local
<1>4. ASSUME NEW t \in Threads, ReadSidecar(t) PROVE FreshInv'
  BY <1>4 DEF ReadSidecar, Goto, store, disk, local
<1>5. ASSUME NEW t \in Threads, Validate(t) PROVE FreshInv'
  <2>1. /\ at[t] = "validate" /\ at'[t] \in {"read", "head"}
        /\ \A u \in Threads \ {t} : at'[u] = at[u]
        /\ UNCHANGED <<file, etag, rank, object, bytes, since, opened, crossed>>
        /\ blind \subseteq blind'
        /\ at'[t] = "read" /\ t \notin blind' => headed[t] = object
    BY <1>5 DEF Validate, Goto, Matches, ETag, store, disk
  <2>2. ASSUME NEW u \in Threads, D(u) = D(t), D(u) \notin crossed, at[u] = "replace"
        PROVE  FALSE
    BY <2>1, <2>2
  <2>3. ASSUME D(t) \notin crossed, at'[t] = "read", t \notin blind'
        PROVE  NoOlder(since[t], file[D(t)])
    BY <2>1, <2>3
  <2> QED BY <2>1, <2>2, <2>3
<1>6. ASSUME NEW t \in Threads, HeadObject(t) PROVE FreshInv'
  BY <1>6 DEF HeadObject, Goto, ETag, store, disk, local
<1>7. ASSUME NEW t \in Threads, Get(t) PROVE FreshInv'
  <2>1. CASE /\ bytes' = [bytes EXCEPT ![t] = object] /\ Goto(t, "replace")
             /\ UNCHANGED <<lock, saving, headed, since, blind, opened>>
    <3>1. \A v \in Versions : rank[v] <= rank[object]
      OBVIOUS
    <3>2. /\ UNCHANGED <<file, etag, rank, object, crossed>> /\ at'[t] = "replace" /\ bytes'[t] = object
          /\ \A u \in Threads \ {t} : at'[u] = at[u] /\ bytes'[u] = bytes[u]
      BY <1>7, <2>1 DEF Get, Goto, store, disk
    <3> QED BY <2>1, <3>1, <3>2
  <2>2. CASE RaiseToCaller(t)
    BY <1>7, <2>2 DEF Get, Goto, RaiseToCaller, Release, Forget, store, disk
  <2> QED BY <1>7, <2>1, <2>2 DEF Get
<1>8. ASSUME NEW t \in Threads, Replace(t) PROVE FreshInv'
  BY <1>8 DEF Replace, Goto, store, disk, local
<1>9. ASSUME NEW t \in Threads, WriteLocal(t) PROVE FreshInv'
  BY <1>9 DEF WriteLocal, Goto, store, disk, local
<1>10. ASSUME NEW t \in Threads, Put(t) PROVE FreshInv'
  <2> DEFINE s == saving[t]
  <2>1. /\ s \in Versions /\ s # Null /\ rank[s] = 0 /\ at[t] = "put"
        /\ UNCHANGED <<made, file, etag, crossed>>
    BY <1>10 DEF Put, disk
  <2>2. CASE UNCHANGED <<object, rank>> /\ RaiseToCaller(t)
    BY <1>10, <2>2 DEF Put, Goto, RaiseToCaller, Release, Forget, disk
  <2>3. CASE Stored(s)
    <3>1. ASSUME NEW v \in Versions \cup {Null}, NEW w \in Versions \cup {Null}, v # Null => Held(v),
                 NoOlder(v, w)
          PROVE  v # Null /\ w # Null /\ rank'[w] > 0 => rank'[v] <= rank'[w]
      <4> HIDE DEF s, Versions, NoOlder, Held
      <4> QED BY <2>1, <2>3, <3>1, NoOlderStored
    <3>2. /\ at'[t] \in {"head", "idle"} /\ blind' \in {blind, blind \ {t}}
          /\ \A u \in Threads \ {t} :
               /\ at'[u] = at[u] /\ bytes'[u] = bytes[u]
               /\ since'[u] = since[u] /\ opened'[u] = opened[u]
      BY <1>10, <2>3 DEF Put, RaiseToCaller, Goto, Forget, local
    <3>3. ASSUME NEW u \in Threads \ blind', u # t, D(u) \notin crossed
          PROVE  (/\ at[u] = "read" =>
                      /\ NoOlder(since[u], file[D(u)])
                      /\ \A r \in Threads : at[r] = "replace" /\ D(r) = D(u) => NoOlder(since[u], bytes[r])
                  /\ at[u] = "done" => NoOlder(since[u], opened[u]))'
      <4>1. u \notin blind /\ D(u)' = D(u) /\ D(u) \in Disks
        BY <3>2, <3>3 DEF D
      <4>2. ASSUME at[u] = "read" PROVE NoOlder(since[u], file[D(u)])'
        BY <2>1, <3>1, <3>2, <3>3, <4>1, <4>2
      <4>3. ASSUME at[u] = "read", NEW r \in Threads, r # t, at[r] = "replace", D(r) = D(u)
            PROVE  NoOlder(since[u], bytes[r])'
        <5>1. /\ NoOlder(since[u], bytes[r])
              /\ since[u] # Null => Held(since[u])
              /\ since[u] \in Versions \cup {Null} /\ bytes[r] \in Versions \cup {Null}
          BY <3>3, <4>1, <4>3
        <5>2. since[u] # Null /\ bytes[r] # Null /\ rank'[bytes[r]] > 0 => rank'[since[u]] <= rank'[bytes[r]]
          <6> HIDE DEF NoOlder, Held, Versions, s, DiskInv, VersionInv, StorageTypeOK, CallInv, FreshInv
          <6> QED BY <3>1, <5>1
        <5>3. since'[u] = since[u] /\ bytes'[r] = bytes[r]
          BY <3>2, <3>3, <4>3
        <5> QED BY <5>2, <5>3
      <4>4. ASSUME at[u] = "done" PROVE NoOlder(since[u], opened[u])'
        BY <2>1, <3>1, <3>2, <3>3, <4>1, <4>4
      <4> QED BY <3>2, <3>3, <4>1, <4>2, <4>3, <4>4 DEF D
    <3> QED BY <2>1, <3>2, <3>3 DEF D
  <2> QED BY <1>10, <2>2, <2>3 DEF Put
<1>11. ASSUME NEW t \in Threads, WriteSidecar(t) PROVE FreshInv'
  BY <1>11 DEF WriteSidecar, Goto, Release, NewSidecar, store, disk, local
<1>12. ASSUME NEW t \in Threads, Read(t) PROVE FreshInv'
  BY <1>12 DEF Read, Goto, store, disk, local
<1>13. ASSUME NEW p \in Processes, Crash(p) PROVE FreshInv'
  BY <1>13 DEF Crash, store, disk, local
<1>14. CASE UNCHANGED storageVars
  BY <1>14 DEF storageVars, store, disk, local
<1> QED BY <1>1, <1>2, <1>3, <1>4, <1>5, <1>6, <1>7, <1>8, <1>9, <1>10, <1>11, <1>12, <1>13, <1>14 DEF StorageNext, Step

-----------------------------------------------------------------------------
(* The theorems about the S3 storage.                                      *)

LEMMA StorageInvariance == StorageSpec => []StorageInv
<1>1. StorageInv /\ [StorageNext]_storageVars => StorageInv'
  BY StorageTypeStep, LockStep, AloneStep, CallStep, VersionStep, DiskStep, FreshStep DEF StorageInv
<1> QED BY <1>1, StorageInitInv, PTL DEF StorageSpec

\* Without overlapping processes and crossed ETags, the comparison of
\* _is_cache_valid never takes an old file for the current one
\* (storage_backend.py:295-318), for any deployment, however many workers save,
\* whatever fails and dies.
THEOREM ValidCorrect == StorageSpec => []ValidUnlessCrossed
<1>1. StorageInv => ValidUnlessCrossed
  <2> SUFFICES ASSUME StorageInv, NEW d \in Disks \ crossed, file[d] \in Published, etag[d] = object
               PROVE  file[d] = object
    BY DEF ValidUnlessCrossed
  <2>1. /\ rank \in [Versions -> Nat] /\ object \in Versions /\ file[d] \in Versions /\ rank[file[d]] > 0
        /\ object # Null /\ file[d] # Null
    BY StorageAssumption DEF StorageInv, StorageTypeOK, Versions, Published
  <2>2. rank[file[d]] <= rank[object]
    BY <2>1 DEF StorageInv, VersionInv
  <2>3. rank[object] <= rank[file[d]]
    BY <2>1 DEF StorageInv, DiskInv, NoOlder, Held
  <2>4. rank[object] = rank[file[d]]
    BY <2>1, <2>2, <2>3
  <2> QED BY <2>1, <2>4 DEF StorageInv, VersionInv
<1> QED BY <1>1, StorageInvariance, PTL

\* Without these two, whoever could ask S3 reads weights that S3 did not store
\* before those it held when warm_cache was called (storage_backend.py:320-358),
\* although it opens the file without the lock, whatever is downloaded, saved or
\* lost in between.
THEOREM FreshCorrect == StorageSpec => []WarmIsFresh
<1>1. StorageInv => WarmIsFresh
  <2> SUFFICES ASSUME StorageInv, NEW t \in Threads, at[t] = "done", t \notin blind, D(t) \notin crossed,
                      opened[t] \in Published
               PROVE  rank[opened[t]] >= rank[since[t]]
    BY DEF WarmIsFresh
  <2>1. opened[t] \in Versions /\ rank[opened[t]] > 0 /\ opened[t] # Null
    BY StorageAssumption DEF Published, Versions
  <2>2. since[t] # Null /\ since[t] \in Versions /\ rank \in [Versions -> Nat]
    BY DEF StorageInv, CallInv, StorageTypeOK
  <2>3. rank[since[t]] <= rank[opened[t]]
    BY <2>1, <2>2 DEF StorageInv, FreshInv, NoOlder, Held
  <2> QED BY <2>1, <2>2, <2>3
<1> QED BY <1>1, StorageInvariance, PTL

\* The lock of the key is held by the one thread that is inside the with block,
\* also after a crash or an exception, whatever else goes wrong
\* (LockHeldInside).
THEOREM LockCorrect == StorageSpec => [](StorageTypeOK /\ LockHeldInside)
<1>1. StorageInv => StorageTypeOK /\ LockHeldInside
  BY DEF StorageInv
<1> QED BY <1>1, StorageInvariance, PTL

-----------------------------------------------------------------------------
(* The local storage.                                                      *)

Blocks == Saves \cup {"first", Nothing}
File == [1..2 -> Blocks]

LocalTypeOK ==
  /\ inodes \in Seq(File) /\ key \in 1..Len(inodes) /\ tmp \in 0..Len(inodes)
  /\ savePc \in [Saves -> {"idle", "block1", "block2", "replace", "saved", "failed", "died"}]
  /\ saveTo \in [Saves -> Nat]
  /\ readPc \in [LocalReaders -> {"idle", "read", "done"}]
  /\ readFrom \in [LocalReaders -> Nat]
  /\ readData \in [LocalReaders -> Seq(Blocks)]

\* The two names refer to different files; the only save under way writes to
\* the temporary one, as far as it has come.
OneSaver ==
  /\ key # tmp
  /\ \A s, t \in UnderWay : s = t
  /\ \A s \in UnderWay : saveTo[s] = tmp /\ tmp # 0
  /\ \A s \in Saves :
       /\ savePc[s] \in {"block2", "replace"} => inodes[tmp][1] = s
       /\ savePc[s] = "replace" => inodes[tmp][2] = s
       /\ savePc[s] # "failed"

\* A reader reads a whole file that is not, and will not be, written to.
ReadsWhole(r) ==
  /\ readPc[r] = "read" =>
       /\ readFrom[r] \in 1..Len(inodes) /\ readFrom[r] # tmp
       /\ Whole(inodes[readFrom[r]])
       /\ Len(readData[r]) < 2
       /\ Len(readData[r]) = 1 => readData[r][1] = inodes[readFrom[r]][1]
  /\ readPc[r] = "idle" => readData[r] = <<>>
  /\ readPc[r] = "done" => Whole(readData[r])

Orderly ==
  /\ LocalTypeOK /\ OneSaver
  /\ Whole(inodes[key])
  /\ \A r \in LocalReaders : ReadsWhole(r)

LocalInv == overlapped \in BOOLEAN /\ (~overlapped => Orderly)

LEMMA LocalInitInv == LocalInit => LocalInv
<1> SUFFICES ASSUME LocalInit PROVE LocalInv
  OBVIOUS
<1> USE LocalAssumption DEF LocalInit
<1>1. inodes \in Seq(File) /\ Len(inodes) = 1 /\ inodes[1] = <<"first", "first">>
  BY DEF File, Blocks
<1>2. Whole(inodes[key])
  BY <1>1 DEF Whole
<1>3. UnderWay = {}
  BY DEF UnderWay
<1>4. LocalTypeOK
  BY <1>1 DEF LocalTypeOK
<1>5. OneSaver
  BY <1>3 DEF OneSaver
<1>6. \A r \in LocalReaders : ReadsWhole(r)
  BY DEF ReadsWhole
<1>7. overlapped = FALSE
  OBVIOUS
<1> QED BY <1>2, <1>4, <1>5, <1>6, <1>7 DEF LocalInv, Orderly

-----------------------------------------------------------------------------
(* The steps, before any overlap.                                          *)

\* What a reader has and will read stays as it is if its file does.
LEMMA ReadersUndisturbed ==
  ASSUME Orderly, UNCHANGED readVars, Len(inodes') >= Len(inodes), inodes' \in Seq(File),
         \A i \in 1..Len(inodes) : i # tmp => i # tmp' /\ inodes'[i] = inodes[i]
  PROVE  \A r \in LocalReaders : ReadsWhole(r)'
BY DEF Orderly, LocalTypeOK, ReadsWhole, Whole, readVars

LEMMA OpenTempStep ==
  ASSUME Orderly, NEW s \in Saves, OpenTemp(s), UnderWay = {}
  PROVE  Orderly'
<1> USE LocalAssumption
<1> DEFINE empty == <<Nothing, Nothing>>
<1>1. empty \in File
  BY DEF File, Blocks
<1>2. /\ inodes' \in Seq(File) /\ Len(inodes') >= Len(inodes)
      /\ tmp' \in 1..Len(inodes') /\ tmp' # key /\ key' = key
      /\ \A i \in 1..Len(inodes) : i # tmp => i # tmp' /\ inodes'[i] = inodes[i]
  <2>1. CASE tmp = 0
    <3>1. inodes \in Seq(File) /\ key \in 1..Len(inodes)
      BY DEF Orderly, LocalTypeOK
    <3>2. inodes' = Append(inodes, empty) /\ tmp' = Len(inodes') /\ key' = key
      BY <2>1 DEF OpenTemp
    <3>3. inodes' \in Seq(File) /\ Len(inodes') = Len(inodes) + 1
      BY <1>1, <3>1, <3>2
    <3>4. \A i \in 1..Len(inodes) : inodes'[i] = inodes[i]
      BY <1>1, <3>1, <3>2
    <3> QED BY <3>1, <3>2, <3>3, <3>4
  <2>2. CASE tmp # 0
    <3>1. /\ inodes \in Seq(File) /\ key \in 1..Len(inodes)
          /\ tmp \in 1..Len(inodes) /\ tmp # key
      BY <2>2 DEF Orderly, LocalTypeOK, OneSaver
    <3>2. inodes' = [inodes EXCEPT ![tmp] = empty] /\ tmp' = tmp /\ key' = key
      BY <2>2 DEF OpenTemp
    <3>3. inodes' \in Seq(File) /\ Len(inodes') = Len(inodes)
      BY <1>1, <3>1, <3>2
    <3>4. \A i \in 1..Len(inodes) : i # tmp => inodes'[i] = inodes[i]
      BY <3>1, <3>2
    <3> QED BY <3>1, <3>2, <3>3, <3>4
  <2> QED BY <2>1, <2>2
<1>3. LocalTypeOK'
  BY <1>2 DEF OpenTemp, Orderly, LocalTypeOK, readVars
<1>4. UnderWay' = {s} /\ savePc'[s] = "block1" /\ saveTo'[s] = tmp'
  BY DEF OpenTemp, Orderly, LocalTypeOK, UnderWay
<1>5. OneSaver'
  BY <1>2, <1>4 DEF OpenTemp, Orderly, LocalTypeOK, OneSaver, UnderWay
<1>6. Whole(inodes[key])'
  BY <1>2 DEF Orderly, OneSaver, LocalTypeOK, Whole
<1>7. \A r \in LocalReaders : ReadsWhole(r)'
  BY <1>2, ReadersUndisturbed DEF OpenTemp
<1> QED BY <1>3, <1>5, <1>6, <1>7 DEF Orderly

LEMMA WriteStep ==
  ASSUME Orderly, NEW s \in Saves, WriteData(s)
  PROVE  Orderly'
<1> DEFINE b == IF savePc[s] = "block1" THEN 1 ELSE 2
<1>1. /\ savePc[s] \in {"block1", "block2"} /\ s \in UnderWay
      /\ savePc' = [savePc EXCEPT ![s] = IF b = 1 THEN "block2" ELSE "replace"]
      /\ inodes' = [inodes EXCEPT ![saveTo[s]][b] = s]
      /\ UNCHANGED <<key, tmp, saveTo, readVars, overlapped>>
  BY DEF WriteData, WriteBlock, UnderWay
<1>2. saveTo[s] = tmp /\ tmp \in 1..Len(inodes) /\ b \in 1..2 /\ inodes[tmp] \in File
  BY <1>1 DEF Orderly, OneSaver, LocalTypeOK
<1>3. inodes' = [inodes EXCEPT ![tmp] = [inodes[tmp] EXCEPT ![b] = s]]
  BY <1>1, <1>2
<1>4. [inodes[tmp] EXCEPT ![b] = s] \in File
  BY <1>2 DEF File, Blocks
<1>5. /\ inodes' \in Seq(File) /\ Len(inodes') = Len(inodes)
      /\ \A i \in 1..Len(inodes) : i # tmp => inodes'[i] = inodes[i]
      /\ inodes'[tmp][b] = s
      /\ b = 2 => inodes'[tmp][1] = inodes[tmp][1]
  BY <1>2, <1>3, <1>4 DEF Orderly, LocalTypeOK, File
<1>6. LocalTypeOK'
  BY <1>1, <1>5 DEF Orderly, LocalTypeOK, readVars
<1>7. UnderWay' = UnderWay
  BY <1>1 DEF UnderWay, Orderly, LocalTypeOK
<1>8. \A t \in Saves \ {s} : savePc'[t] = savePc[t] /\ t \notin UnderWay
  BY <1>1 DEF Orderly, LocalTypeOK, OneSaver
<1>9. OneSaver'
  BY <1>1, <1>5, <1>7, <1>8 DEF Orderly, LocalTypeOK, OneSaver, UnderWay
<1>10. Whole(inodes[key])'
  BY <1>1, <1>5 DEF Orderly, LocalTypeOK, OneSaver, Whole
<1>11. \A r \in LocalReaders : ReadsWhole(r)'
  BY <1>1, <1>5, ReadersUndisturbed
<1> QED BY <1>6, <1>9, <1>10, <1>11 DEF Orderly

LEMMA ReplaceStep ==
  ASSUME Orderly, NEW s \in Saves, ReplaceKey(s)
  PROVE  Orderly'
<1>1. s \in UnderWay /\ savePc[s] = "replace"
  BY DEF ReplaceKey, UnderWay
<1>2. tmp # 0 /\ tmp \in 1..Len(inodes)
  BY <1>1 DEF Orderly, OneSaver, LocalTypeOK
<1>3. /\ savePc' = [savePc EXCEPT ![s] = "saved"] /\ key' = tmp /\ tmp' = 0
      /\ UNCHANGED <<inodes, saveTo, readVars, overlapped>>
  BY <1>2 DEF ReplaceKey
<1>4. LocalTypeOK'
  BY <1>2, <1>3 DEF Orderly, LocalTypeOK, readVars
<1>5. UnderWay' = {} /\ \A t \in Saves \ {s} : savePc'[t] = savePc[t]
  BY <1>1, <1>3 DEF Orderly, LocalTypeOK, OneSaver, UnderWay
<1>6. OneSaver'
  BY <1>1, <1>2, <1>3, <1>5 DEF Orderly, LocalTypeOK, OneSaver, UnderWay
<1>7. Whole(inodes[key])'
  BY <1>1, <1>3, LocalAssumption DEF Orderly, OneSaver, Whole
<1>8. \A r \in LocalReaders : ReadsWhole(r)'
  BY <1>2, <1>3 DEF Orderly, LocalTypeOK, ReadsWhole, Whole, readVars
<1> QED BY <1>4, <1>6, <1>7, <1>8 DEF Orderly

LEMMA DiesStep ==
  ASSUME Orderly, NEW s \in Saves, SaveDies(s)
  PROVE  Orderly'
<1>1. LocalTypeOK'
  BY DEF SaveDies, Orderly, LocalTypeOK, readVars
<1>2. UnderWay' \subseteq UnderWay
  BY DEF SaveDies, Orderly, LocalTypeOK, UnderWay
<1>3. OneSaver'
  BY <1>2 DEF SaveDies, Orderly, LocalTypeOK, OneSaver
<1>4. \A r \in LocalReaders : ReadsWhole(r)'
  BY DEF SaveDies, Orderly, ReadsWhole, Whole, readVars
<1> QED BY <1>1, <1>3, <1>4 DEF Orderly, SaveDies, Whole

LEMMA OpenKeyStep ==
  ASSUME Orderly, NEW r \in LocalReaders, OpenKey(r)
  PROVE  Orderly'
<1>1. LocalTypeOK'
  BY DEF OpenKey, Orderly, LocalTypeOK, saveVars
<1>2. OneSaver'
  BY DEF OpenKey, Orderly, OneSaver, UnderWay, saveVars
<1>3. ASSUME NEW q \in LocalReaders
      PROVE  ReadsWhole(q)'
  <2>1. CASE q = r
    BY <2>1 DEF OpenKey, Orderly, LocalTypeOK, OneSaver, ReadsWhole, Whole
  <2>2. CASE q # r
    BY <2>2 DEF OpenKey, Orderly, LocalTypeOK, ReadsWhole, Whole
  <2> QED BY <2>1, <2>2
<1> QED BY <1>1, <1>2, <1>3 DEF Orderly, OpenKey, Whole

LEMMA ReadBlockStep ==
  ASSUME Orderly, NEW r \in LocalReaders, ReadBlock(r)
  PROVE  Orderly'
<1> DEFINE inode == inodes[readFrom[r]]
           n == Len(readData[r])
<1>1. /\ readPc[r] = "read" /\ inode \in File /\ Whole(inode) /\ n \in {0, 1}
      /\ readData[r] \in Seq(Blocks)
      /\ n = 1 => readData[r][1] = inode[1]
  <2>1. readPc[r] = "read" /\ ReadsWhole(r) /\ readData[r] \in Seq(Blocks)
    BY DEF ReadBlock, Orderly, LocalTypeOK
  <2>2. readFrom[r] \in 1..Len(inodes) /\ Whole(inode) /\ n < 2
        /\ (n = 1 => readData[r][1] = inode[1])
    BY <2>1 DEF ReadsWhole
  <2>3. n \in {0, 1}
    <3>1. \A q \in Seq(Blocks) : Len(q) \in Nat
      OBVIOUS
    <3>2. n \in Nat
      BY <2>1, <3>1
    <3>3. \A i \in Nat : i < 2 => i \in {0, 1}
      OBVIOUS
    <3> QED BY <2>2, <3>2, <3>3
  <2>4. inode \in File
    BY <2>2 DEF Orderly, LocalTypeOK
  <2> QED BY <2>1, <2>2, <2>3, <2>4
<1>2. inode[n + 1] \in Blocks /\ inode[n + 1] = inode[1]
  BY <1>1 DEF File, Whole
<1>3. /\ readData' = [readData EXCEPT ![r] = Append(readData[r], inode[n + 1])]
      /\ UNCHANGED <<inodes, key, tmp, saveVars, readFrom, overlapped>>
  BY DEF ReadBlock
<1>4. /\ readData'[r] = Append(readData[r], inode[n + 1])
      /\ readData'[r] \in Seq(Blocks) /\ Len(readData'[r]) = n + 1
      /\ readData'[r][n + 1] = inode[1]
      /\ n = 1 => readData'[r][1] = inode[1]
  BY <1>1, <1>2, <1>3 DEF Orderly, LocalTypeOK
<1>5. readPc' = [readPc EXCEPT ![r] = IF n = 1 THEN "done" ELSE "read"]
  <2>1. readPc' = [readPc EXCEPT ![r] = IF Len(readData'[r]) = 2 THEN "done" ELSE "read"]
    BY DEF ReadBlock
  <2>2. (Len(readData'[r]) = 2) <=> (n = 1)
    BY <1>1, <1>4
  <2> QED BY <2>1, <2>2
<1>6. LocalTypeOK'
  BY <1>3, <1>4, <1>5 DEF Orderly, LocalTypeOK, saveVars
<1>7. OneSaver'
  BY <1>3 DEF Orderly, OneSaver, UnderWay, saveVars
<1>8. ASSUME NEW q \in LocalReaders
      PROVE  ReadsWhole(q)'
  <2>1. CASE q = r
    BY <1>1, <1>3, <1>4, <1>5, <2>1 DEF Orderly, LocalTypeOK, ReadsWhole, Whole
  <2>2. CASE q # r
    BY <1>3, <1>5, <2>2 DEF Orderly, LocalTypeOK, ReadsWhole, Whole
  <2> QED BY <2>1, <2>2
<1> QED BY <1>3, <1>6, <1>7, <1>8 DEF Orderly, Whole

-----------------------------------------------------------------------------
(* The invariant.                                                          *)

LEMMA LocalStepInv ==
  ASSUME LocalInv, [LocalNext]_localVars
  PROVE  LocalInv'
<1>1. CASE UNCHANGED localVars
  BY <1>1 DEF LocalInv, Orderly, LocalTypeOK, OneSaver, UnderWay, ReadsWhole, Whole, localVars,
              saveVars, readVars
<1>2. ASSUME NEW s \in Saves, OpenTemp(s)
      PROVE  LocalInv'
  <2>1. overlapped' = (overlapped \/ UnderWay # {})
    BY <1>2 DEF OpenTemp
  <2>2. CASE overlapped \/ UnderWay # {}
    BY <2>1, <2>2 DEF LocalInv
  <2>3. CASE ~overlapped /\ UnderWay = {}
    BY <1>2, <2>1, <2>3, OpenTempStep DEF LocalInv
  <2> QED BY <2>2, <2>3
<1>3. ASSUME NEW s \in Saves, WriteData(s) \/ ReplaceKey(s) \/ SaveDies(s)
      PROVE  LocalInv'
  <2>1. overlapped' = overlapped
    BY <1>3 DEF WriteData, WriteBlock, ReplaceKey, SaveDies
  <2> QED BY <1>3, <2>1, WriteStep, ReplaceStep, DiesStep DEF LocalInv
<1>4. ASSUME NEW r \in LocalReaders, OpenKey(r) \/ ReadBlock(r)
      PROVE  LocalInv'
  <2>1. overlapped' = overlapped
    BY <1>4 DEF OpenKey, ReadBlock
  <2> QED BY <1>4, <2>1, OpenKeyStep, ReadBlockStep DEF LocalInv
<1> QED BY <1>1, <1>2, <1>3, <1>4 DEF LocalNext

\* Readers get whole files, and saves succeed, unless two saves have been
\* under way at once (storage_backend.py:91-92, 115-121).
THEOREM TornCorrect == LocalSpec => []TornOnlyByOverlap
<1>1. LocalInv => TornOnlyByOverlap
  BY LocalAssumption DEF LocalInv, Orderly, OneSaver, ReadsWhole, TornOnlyByOverlap, NeverHalfWritten, Whole
<1> QED BY <1>1, LocalInitInv, LocalStepInv, PTL DEF LocalSpec
=============================================================================
