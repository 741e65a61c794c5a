----------------------------- MODULE LocalStorage -----------------------------
(***************************************************************************)
(* The local storage backend (LocalStorageBackend of                       *)
(* inference/storage_backend.py) for one key.  A save writes key.tmp and   *)
(* renames it to the key; the inference processes open the key and read    *)
(* it.  A file is an inode of two blocks, each the save that wrote it; the *)
(* two names refer to inodes, and whoever has opened one keeps it whatever *)
(* becomes of its name.  Saves run in different worker processes and may   *)
(* die at any step.                                                        *)
(***************************************************************************)
EXTENDS Integers, Sequences

CONSTANTS Saves, LocalReaders,
          Nothing   \* what a block holds that nobody has written

ASSUME LocalAssumption == Nothing \notin Saves \cup {"first"}

VARIABLES inodes,    \* the files ever created, each its blocks
          key, tmp,  \* the inodes the two names refer to, 0 for no entry
          savePc, saveTo,     \* each save, and the inode it has opened
          readPc, readFrom, readData,
          overlapped          \* history: two saves have been under way at once

saveVars == <<savePc, saveTo>>
readVars == <<readPc, readFrom, readData>>
localVars == <<inodes, key, tmp, saveVars, readVars, overlapped>>

LocalInit ==
  /\ inodes = <<<<"first", "first">>>> /\ key = 1 /\ tmp = 0
  /\ savePc = [s \in Saves |-> "idle"] /\ saveTo = [s \in Saves |-> 0]
  /\ readPc = [r \in LocalReaders |-> "idle"]
  /\ readFrom = [r \in LocalReaders |-> 0]
  /\ readData = [r \in LocalReaders |-> <<>>]
  /\ overlapped = FALSE

UnderWay == {s \in Saves : savePc[s] \in {"block1", "block2", "replace"}}

-----------------------------------------------------------------------------
(* save_model_bytes.                                                       *)

\* open(tmp_path, "wb") creates key.tmp, or empties the one it finds.
OpenTemp(s) ==
  /\ savePc[s] = "idle"
  /\ savePc' = [savePc EXCEPT ![s] = "block1"]
  /\ IF tmp = 0
     THEN /\ inodes' = Append(inodes, <<Nothing, Nothing>>)
          /\ tmp' = Len(inodes')
     ELSE /\ inodes' = [inodes EXCEPT ![tmp] = <<Nothing, Nothing>>]
          /\ tmp' = tmp
  /\ saveTo' = [saveTo EXCEPT ![s] = tmp']
  /\ overlapped' = (overlapped \/ UnderWay # {})
  /\ UNCHANGED <<key, readVars>>

\* f.write(data), which reaches the disk block by block.
WriteBlock(s, b, from, to) ==
  /\ savePc[s] = from
  /\ savePc' = [savePc EXCEPT ![s] = to]
  /\ inodes' = [inodes EXCEPT ![saveTo[s]][b] = s]
  /\ UNCHANGED <<key, tmp, saveTo, readVars, overlapped>>
WriteData(s) ==
  WriteBlock(s, 1, "block1", "block2") \/ WriteBlock(s, 2, "block2", "replace")

\* os.replace renames whatever key.tmp is by now, and raises FileNotFoundError
\* if it is gone.
ReplaceEarly(s) ==
  /\ savePc[s] \in {"block1", "block2", "replace"}
  /\ IF tmp = 0
     THEN savePc' = [savePc EXCEPT ![s] = "failed"] /\ UNCHANGED <<key, tmp>>
     ELSE savePc' = [savePc EXCEPT ![s] = "saved"] /\ key' = tmp /\ tmp' = 0
  /\ UNCHANGED <<inodes, saveTo, readVars, overlapped>>
ReplaceKey(s) ==
  /\ savePc[s] = "replace"
  /\ IF tmp = 0
     THEN savePc' = [savePc EXCEPT ![s] = "failed"] /\ UNCHANGED <<key, tmp>>
     ELSE savePc' = [savePc EXCEPT ![s] = "saved"] /\ key' = tmp /\ tmp' = 0
  /\ UNCHANGED <<inodes, saveTo, readVars, overlapped>>

\* The worker dies; key.tmp stays as it is.
SaveDies(s) ==
  /\ s \in UnderWay
  /\ savePc' = [savePc EXCEPT ![s] = "died"]
  /\ UNCHANGED <<inodes, key, tmp, saveTo, readVars, overlapped>>

-----------------------------------------------------------------------------
(* load_model_bytes.                                                       *)

OpenKey(r) ==
  /\ readPc[r] = "idle"
  /\ readPc' = [readPc EXCEPT ![r] = "read"]
  /\ readFrom' = [readFrom EXCEPT ![r] = key]
  /\ UNCHANGED <<inodes, key, tmp, saveVars, readData, overlapped>>

\* f.read() takes the blocks one after the other.
ReadBlock(r) ==
  /\ readPc[r] = "read"
  /\ readData' = [readData EXCEPT ![r] = Append(@, inodes[readFrom[r]][Len(@) + 1])]
  /\ readPc' = [readPc EXCEPT ![r] = IF Len(readData'[r]) = 2 THEN "done" ELSE "read"]
  /\ UNCHANGED <<inodes, key, tmp, saveVars, readFrom, overlapped>>

LocalNext ==
  \/ \E s \in Saves : OpenTemp(s) \/ WriteData(s) \/ ReplaceKey(s) \/ SaveDies(s)
  \/ \E r \in LocalReaders : OpenKey(r) \/ ReadBlock(r)

LocalSpec == LocalInit /\ [][LocalNext]_localVars

-----------------------------------------------------------------------------
(* Properties.                                                             *)

Whole(file) == file[1] = file[2] /\ file[1] # Nothing

\* "Inference threads never read a half-written file because the final path
\* only appears after the rename succeeds." (storage_backend.py:91-92).
NeverHalfWritten == \A r \in LocalReaders : readPc[r] = "done" => Whole(readData[r])

\* As long as no two saves of the key overlap, that promise holds, and a save
\* that dies or is followed by others never fails and spoils none of them:
\* key.tmp is emptied when it is opened again, and a renamed file no longer
\* changes under those who read it.
TornOnlyByOverlap ==
  overlapped \/
    /\ NeverHalfWritten
    /\ Whole(inodes[key])
    /\ \A s \in Saves : savePc[s] # "failed"
    /\ \A s \in Saves : savePc[s] = "replace" => Whole(inodes[tmp])
=============================================================================
